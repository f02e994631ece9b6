--------------------------- MODULE ServiceProofs ---------------------------
(***************************************************************************)
(* Theorems about the services around the engine: stakes and witnesses,    *)
(* the negotiation of the rail, the start of a node, the desk and the      *)
(* accounts of its operators, the market's listings and its scores.        *)
(***************************************************************************)
EXTENDS Stake, RailTerms, NodeStart, NodeDesk, NodeAccounts, MarketListings, MarketScores,
        FiniteSetTheorems, SequenceTheorems, WellFoundedInduction, TLAPS

---------------------------------------------------------------------------
(* Stakes and witnesses.                                                   *)

\* The calls that the operations begin with.
LEMMA CallFacts ==
  ASSUME StakeTypeOK
  PROVE  /\ Resting \in Calls /\ Resting.op = "none" /\ ~Resting.late
         /\ \A s \in StakeId, late \in BOOLEAN :
              LET c == [Resting EXCEPT !.op = "release", !.id = s, !.late = late]
              IN  c \in Calls /\ c.op = "release" /\ c.id = s /\ c.late = late
         /\ \A s \in StakeId :
              LET c == [Resting EXCEPT !.op = "slash", !.id = s]
              IN  c \in Calls /\ c.op = "slash" /\ c.id = s /\ ~c.late
         /\ \A w \in Witness :
              /\ Copy("attach", w) \in Calls /\ Copy("attach", w).op = "attach"
              /\ Copy("attach", w).id[1] = w /\ ~Copy("attach", w).late
              /\ Copy("attach", w).docs = witnesses
         /\ Copy("other", NoWitness) \in Calls /\ Copy("other", NoWitness).op = "other"
         /\ ~Copy("other", NoWitness).late /\ Copy("other", NoWitness).docs = witnesses
         /\ \A docs \in SUBSET Witness :
              LET c == [Copy("confirm", NoWitness) EXCEPT !.docs = docs]
              IN  c \in Calls /\ c.op = "confirm" /\ ~c.late
<1>1. 0 \in 0 .. MaxSecond
  BY StakeAssumption
<1> QED
  BY <1>1, StakeAssumption DEF Resting, NoStake, Calls, StakeId, Copy, StakeTypeOK

\* What a step does to the calls: one begins, one is answered, one goes on with a newer
\* version, or all stay.
LEMMA CallMoves ==
  ASSUME StakeTypeOK, NoneIsLate, [StakeNext]_stakeVars
  PROVE  \/ call' = call
         \/ \E t \in Worker : call' = [call EXCEPT ![t] = Resting]
         \/ \E t \in Worker, v \in Nat : call[t].op \in {"other", "confirm"} /\ call' = [call EXCEPT ![t].version = v]
         \/ \E t \in Worker, c \in Calls :
              /\ call' = [call EXCEPT ![t] = c]
              /\ ~c.late /\ (c.op \in {"attach", "other"} => c.docs = witnesses)
              /\ (c.op \in {"release", "slash"} => c.id \in StakeId)
              /\ (c.op = "attach" => c.id[1] \in Witness)
              /\ UNCHANGED docVars
<1> DEFINE Begun == \E t \in Worker, c \in Calls :
              /\ call' = [call EXCEPT ![t] = c]
              /\ ~c.late /\ (c.op \in {"attach", "other"} => c.docs = witnesses)
              /\ (c.op \in {"release", "slash"} => c.id \in StakeId)
              /\ (c.op = "attach" => c.id[1] \in Witness)
              /\ UNCHANGED docVars
<1>1. ASSUME NEW t \in Worker, NEW s \in StakeId, BeginRelease(t, s) PROVE Begun
  <2>1. (s \in closed) = FALSE
    BY <1>1 DEF BeginRelease, NoneIsLate
  <2> DEFINE c == [Resting EXCEPT !.op = "release", !.id = s, !.late = FALSE]
  <2>2. c \in Calls /\ c.op = "release" /\ c.id = s /\ ~c.late
    BY CallFacts
  <2>3. /\ call' = [call EXCEPT ![t] = c]
        /\ UNCHANGED docVars
    BY <1>1, <2>1 DEF BeginRelease, Begins
  <2> HIDE DEF c
  <2> QED
    BY <2>2, <2>3
<1>2. ASSUME NEW t \in Worker, NEW s \in StakeId, BeginSlash(t, s) PROVE Begun
  <2> DEFINE c == [Resting EXCEPT !.op = "slash", !.id = s]
  <2>2. c \in Calls /\ c.op = "slash" /\ c.id = s /\ ~c.late
    BY CallFacts
  <2>3. /\ call' = [call EXCEPT ![t] = c]
        /\ UNCHANGED docVars
    BY <1>2 DEF BeginSlash, Begins
  <2> HIDE DEF c
  <2> QED
    BY <2>2, <2>3
<1>3. ASSUME NEW t \in Worker, NEW a \in Attestation, BeginAttach(t, a) PROVE Begun
  <2> DEFINE c == Copy("attach", a.witness)
  <2>1. a.witness \in Witness
    BY DEF Attestation
  <2>2. c \in Calls /\ c.op = "attach" /\ c.id[1] = a.witness /\ ~c.late /\ c.docs = witnesses
    BY <2>1, CallFacts
  <2>3. /\ call' = [call EXCEPT ![t] = c]
        /\ UNCHANGED docVars
    BY <1>3 DEF BeginAttach, Begins
  <2> HIDE DEF c
  <2> QED
    BY <2>1, <2>2, <2>3
<1>4. ASSUME NEW t \in Worker, BeginOther(t) PROVE Begun
  <2> DEFINE c == Copy("other", NoWitness)
  <2>2. c \in Calls /\ c.op = "other" /\ ~c.late /\ c.docs = witnesses
    BY CallFacts
  <2>3. /\ call' = [call EXCEPT ![t] = c]
        /\ UNCHANGED docVars
    BY <1>4 DEF BeginOther, Begins
  <2> HIDE DEF c
  <2> QED
    BY <2>2, <2>3
<1>5. ASSUME NEW t \in Worker, EndStake(t) \/ EndAttach(t) \/ EndOther(t)
      PROVE  call' = [call EXCEPT ![t] = Resting]
  BY <1>5 DEF EndStake, EndAttach, EndOther, Answers
<1>6. ASSUME NextSecond \/ (\E w \in Witness : LockStake(w)) \/ UNCHANGED stakeVars PROVE call' = call
  BY <1>6 DEF NextSecond, LockStake, stakeVars
<1>8. ASSUME NEW t \in Worker, NEW docs \in SUBSET Witness, BeginConfirm(t, docs) PROVE Begun
  <2> DEFINE c == [Copy("confirm", NoWitness) EXCEPT !.docs = docs]
  <2>2. c \in Calls /\ c.op = "confirm" /\ ~c.late
    BY CallFacts
  <2>3. /\ call' = [call EXCEPT ![t] = c]
        /\ UNCHANGED docVars
    BY <1>8 DEF BeginConfirm, Begins
  <2> HIDE DEF c
  <2> QED
    BY <2>2, <2>3
<1>9. ASSUME NEW t \in Worker, SaveOther(t)
      PROVE  \E v \in Nat : call[t].op \in {"other", "confirm"} /\ call' = [call EXCEPT ![t].version = v]
  <2>1. version + 1 \in Nat
    BY DEF StakeTypeOK
  <2> QED
    BY <1>9, <2>1 DEF SaveOther, SaveCopy
<1> HIDE DEF Begun
<1>7. \/ Begun
      \/ \E t \in Worker : call' = [call EXCEPT ![t] = Resting]
      \/ \E t \in Worker, v \in Nat : call[t].op \in {"other", "confirm"} /\ call' = [call EXCEPT ![t].version = v]
      \/ call' = call
  BY <1>1, <1>2, <1>3, <1>4, <1>5, <1>6, <1>8, <1>9 DEF StakeNext
<1> QED
  BY <1>7 DEF Begun

\* The types are kept.
LEMMA StakeTypes ==
  ASSUME StakeTypeOK, NoneIsLate, [StakeNext]_stakeVars
  PROVE  StakeTypeOK'
<1>1. /\ call' \in [Worker -> Calls]
      /\ \A t \in Worker : /\ call'[t].op \in {"release", "slash"} => call'[t].id \in StakeId
                           /\ call'[t].op = "attach" => call'[t].id[1] \in Witness
  <2>1. Resting \in Calls /\ Resting.op = "none" /\ call \in [Worker -> Calls]
    BY CallFacts DEF StakeTypeOK
  <2>2. \A t \in Worker : /\ call[t].op \in {"release", "slash"} => call[t].id \in StakeId
                          /\ call[t].op = "attach" => call[t].id[1] \in Witness
    BY DEF StakeTypeOK
  <2>3. ASSUME NEW t \in Worker, NEW v \in Nat, call[t].op \in {"other", "confirm"},
               call' = [call EXCEPT ![t].version = v]
        PROVE  /\ call' \in [Worker -> Calls]
               /\ \A u \in Worker : call'[u].op = call[u].op /\ call'[u].id = call[u].id
    <3>1. PICK c : c = [call[t] EXCEPT !.version = v]
      OBVIOUS
    <3>2. c \in Calls /\ c.op = call[t].op /\ c.id = call[t].id
      BY <2>1, <3>1 DEF Calls
    <3>3. call' = [call EXCEPT ![t] = c]
      BY <2>3, <3>1
    <3> QED
      BY <2>1, <3>2, <3>3
  <2> QED
    BY <2>1, <2>2, <2>3, CallMoves
<1> DEFINE Rest == /\ second' \in 0 .. MaxSecond /\ version' \in Nat /\ tooLate' \in BOOLEAN
                   /\ stake' \in [StakeId -> {"none", "locked", "released", "slashed"}]
                   /\ witnesses' \subseteq Witness /\ answered' \subseteq Witness
                   /\ overlapped' \subseteq Witness /\ closed' \subseteq StakeId
                   /\ replaced' \subseteq Witness
<1>2. ASSUME NextSecond PROVE Rest
  BY <1>2, StakeAssumption DEF NextSecond, StakeTypeOK, docVars
<1>3. ASSUME NEW w \in Witness, LockStake(w) PROVE Rest
  BY <1>3 DEF LockStake, StakeTypeOK, StakeId, docVars
<1>4. ASSUME NEW t \in Worker, EndStake(t) PROVE Rest
  <2>1. call[t].id \in StakeId /\ call[t].late \in BOOLEAN
    BY <1>4 DEF EndStake, StakeTypeOK, Calls
  <2> QED
    BY <1>4, <2>1 DEF EndStake, StakeTypeOK, docVars
<1>5. ASSUME NEW t \in Worker, EndAttach(t) PROVE Rest
  <2>1. call[t].id[1] \in Witness /\ call[t].docs \subseteq Witness
    BY <1>5 DEF EndAttach, StakeTypeOK, Calls
  <2> QED
    BY <1>5, <2>1 DEF EndAttach, StakeTypeOK
<1>6. ASSUME NEW t \in Worker, SaveOther(t) \/ EndOther(t) PROVE Rest
  <2>1. call[t].docs \subseteq Witness
    BY <1>6 DEF StakeTypeOK, Calls
  <2> QED
    BY <1>6, <2>1 DEF SaveOther, EndOther, SaveCopy, StakeTypeOK
<1>7. ASSUME UNCHANGED <<second, stake, closed, tooLate, docVars>>
      PROVE  Rest
  BY <1>7 DEF StakeTypeOK, docVars
<1> HIDE DEF Rest
<1>8. Rest
  <2>1. ASSUME NEW t \in Worker, NEW s \in StakeId, BeginRelease(t, s) \/ BeginSlash(t, s) PROVE Rest
    BY <1>7, <2>1 DEF BeginRelease, BeginSlash
  <2>2. ASSUME NEW t \in Worker, NEW a \in Attestation, BeginAttach(t, a) PROVE Rest
    BY <1>7, <2>2 DEF BeginAttach
  <2>3. ASSUME NEW t \in Worker, BeginOther(t) PROVE Rest
    BY <1>7, <2>3 DEF BeginOther
  <2>4. ASSUME UNCHANGED stakeVars PROVE Rest
    BY <1>7, <2>4 DEF stakeVars, docVars
  <2>5. ASSUME NEW t \in Worker, NEW docs \in SUBSET Witness, BeginConfirm(t, docs) PROVE Rest
    BY <1>7, <2>5 DEF BeginConfirm
  <2> QED
    BY <1>2, <1>3, <1>4, <1>5, <1>6, <2>1, <2>2, <2>3, <2>4, <2>5 DEF StakeNext
<1> QED
  BY <1>1, <1>8 DEF Rest, StakeTypeOK

\* No release is late.
LEMMA LateMoves ==
  ASSUME StakeTypeOK, NoneIsLate, EndedIsEnded, [StakeNext]_stakeVars
  PROVE  NoneIsLate' /\ EndedIsEnded'
<1>1. \A t \in Worker : ~call'[t].late
  <2>1. \A t \in Worker : ~call[t].late
    BY DEF NoneIsLate
  <2>2. ~Resting.late /\ call \in [Worker -> Calls]
    BY CallFacts DEF StakeTypeOK
  <2>3. ASSUME NEW t \in Worker, NEW v \in Nat, call' = [call EXCEPT ![t].version = v]
        PROVE  \A u \in Worker : call'[u].late = call[u].late
    BY <2>2, <2>3 DEF Calls
  <2> QED
    BY <2>1, <2>2, <2>3, CallMoves
<1>2. (\A s \in closed' : stake'[s] # "locked") /\ ~tooLate'
  <2>1. ASSUME NEW w \in Witness, LockStake(w)
        PROVE  (\A s \in closed' : stake'[s] # "locked") /\ ~tooLate'
    BY <2>1 DEF LockStake, NoneIsLate, EndedIsEnded, StakeTypeOK
  <2>2. ASSUME NEW t \in Worker, EndStake(t)
        PROVE  (\A s \in closed' : stake'[s] # "locked") /\ ~tooLate'
    BY <2>2 DEF EndStake, NoneIsLate, EndedIsEnded, StakeTypeOK
  <2>3. CASE UNCHANGED <<stake, closed, tooLate>>
    BY <2>3 DEF NoneIsLate, EndedIsEnded
  <2> QED
    BY <2>1, <2>2, <2>3 DEF StakeNext, stakeVars, NextSecond, BeginRelease, BeginSlash, BeginAttach,
                            BeginOther, BeginConfirm, EndAttach, SaveOther, EndOther, SaveCopy
<1> QED
  BY <1>1, <1>2 DEF NoneIsLate, EndedIsEnded

\* Copies are recent, and a witness whose attachment was answered is kept.
LEMMA CopiesMove ==
  ASSUME StakeTypeOK, NoneIsLate, CopiesAreRecent, WitnessIsKept, [StakeNext]_stakeVars
  PROVE  CopiesAreRecent' /\ WitnessIsKept'
<1>0. /\ Resting.op = "none" /\ call \in [Worker -> Calls]
      /\ answered \ (overlapped \cup replaced) \subseteq witnesses
  BY CallFacts DEF StakeTypeOK, WitnessIsKept
<1>1. ASSUME NEW t \in Worker, EndAttach(t) PROVE CopiesAreRecent' /\ WitnessIsKept'
  <2> DEFINE w == call[t].id[1]
  <2>1. /\ call' = [call EXCEPT ![t] = Resting] /\ witnesses' = call[t].docs \cup {w}
        /\ answered \ (overlapped \cup replaced) \subseteq call[t].docs
    BY <1>1 DEF EndAttach, Answers, CopiesAreRecent
  <2>2. CASE answered' = answered /\ overlapped' = overlapped /\ replaced' = replaced
    BY <1>0, <2>1, <2>2 DEF CopiesAreRecent, WitnessIsKept
  <2>3. CASE /\ answered' = answered \cup {w} /\ Holding(t) # {}
             /\ overlapped' = overlapped \cup {w} /\ replaced' = replaced \ {w}
    BY <1>0, <2>1, <2>3 DEF CopiesAreRecent, WitnessIsKept
  <2>4. CASE answered' = answered \cup {w} /\ Holding(t) = {} /\ overlapped' = overlapped /\ replaced' = replaced \ {w}
    <3>1. \A u \in Worker : call'[u].op \notin {"attach", "other"}
      BY <1>0, <2>1, <2>4 DEF Holding
    <3> QED
      BY <2>1, <2>4, <3>1 DEF CopiesAreRecent, WitnessIsKept
  <2> QED
    BY <1>1, <2>2, <2>3, <2>4 DEF EndAttach
<1>2. ASSUME NEW t \in Worker, SaveOther(t) \/ EndOther(t) PROVE CopiesAreRecent' /\ WitnessIsKept'
  <2>1. /\ witnesses' = call[t].docs /\ answered' = answered /\ overlapped' = overlapped
        /\ call[t].op \in {"other", "confirm"}
        /\ replaced' = IF call[t].op = "confirm" THEN replaced \cup (answered \ call[t].docs) ELSE replaced
    BY <1>2 DEF SaveOther, EndOther, SaveCopy
  <2>2. answered \ (overlapped \cup replaced') \subseteq call[t].docs
    BY <2>1 DEF CopiesAreRecent
  <2>3. \A u \in Worker : call'[u].op \in {"attach", "other"} => call'[u].op = call[u].op /\ call'[u].docs = call[u].docs
    <3>1. CASE call' = [call EXCEPT ![t] = Resting]
      BY <1>0, <3>1
    <3>2. CASE call' = [call EXCEPT ![t].version = version + 1]
      BY <1>0, <3>2 DEF Calls
    <3> QED
      BY <1>2, <3>1, <3>2 DEF SaveOther, EndOther, Answers
  <2>4. replaced \subseteq replaced'
    BY <2>1
  <2> QED
    BY <2>1, <2>2, <2>3, <2>4 DEF CopiesAreRecent, WitnessIsKept
<1>3. CASE UNCHANGED docVars
  <2>0. witnesses' = witnesses /\ answered' = answered /\ overlapped' = overlapped /\ replaced' = replaced
    BY <1>3 DEF docVars
  <2>1. ASSUME NEW t \in Worker, NEW v \in Nat, call' = [call EXCEPT ![t].version = v]
        PROVE  \A u \in Worker : call'[u].op = call[u].op /\ call'[u].docs = call[u].docs
    BY <1>0, <2>1 DEF Calls
  <2>2. \A t \in Worker : call'[t].op \in {"attach", "other"} =>
          answered \ (overlapped \cup replaced) \subseteq call'[t].docs
    BY <1>0, <2>1, CallMoves DEF CopiesAreRecent
  <2> QED
    BY <2>0, <2>2 DEF CopiesAreRecent, WitnessIsKept
<1>4. ASSUME UNCHANGED stakeVars PROVE UNCHANGED docVars
  BY <1>4 DEF stakeVars, docVars
<1> QED
  BY <1>1, <1>2, <1>3, <1>4 DEF StakeNext, NextSecond, LockStake, BeginRelease, BeginSlash,
                          BeginAttach, BeginOther, BeginConfirm, EndStake

\* The stakes of an agent add something up to the cap.
LEMMA BonusIsCapped ==
  ASSUME NEW w \in Witness
  PROVE  BonusOf(w) \in 0 .. BonusCap
<1> DEFINE locked == {n \in 0 .. MaxSecond : stake[<<w, n>>] = "locked"}
<1>1. IsFiniteSet(0 .. MaxSecond)
  BY FS_Interval, StakeAssumption
<1>2. Cardinality(locked) \in Nat
  BY <1>1, FS_Subset, FS_CardinalityType
<1>3. Bonus * Cardinality(locked) \in Nat
  BY <1>2, StakeAssumption
<1> QED
  BY <1>3, StakeAssumption DEF BonusOf

\* The gate with stakes, for every score.
LEMMA CapsHold ==
  ASSUME NEW w \in Witness, NEW score \in Int
  PROVE  /\ GateAllows(w, TRUE, score, TRUE) => score + BonusCap >= GateMin
         /\ score >= GateMin /\ GateMin <= 100 => GateAllows(w, TRUE, score, FALSE)
<1> QED
  BY BonusIsCapped, StakeAssumption DEF GateAllows

\* A stake whose end was answered is not released by a later call, a witness that was
\* answered stays unless another thread held an older copy or the client confirms a
\* document without it, and stakes help up to their cap: for any number of threads, witnesses and seconds (v2/stake.py, exchange.py,
\* reputation_gate.py).
THEOREM StakesAlwaysSound == StakeSpec => []StakeIsSound
<1>1. StakeInit => StakeTypeOK /\ StakeInv
  <2> SUFFICES ASSUME StakeInit PROVE StakeTypeOK /\ StakeInv
    OBVIOUS
  <2>1. 0 \in 0 .. MaxSecond
    BY StakeAssumption
  <2>2. Resting \in Calls /\ Resting.op = "none" /\ ~Resting.late
    BY <2>1, StakeAssumption DEF Resting, NoStake, Calls
  <2>3. StakeTypeOK
    BY <2>1, <2>2 DEF StakeInit, StakeTypeOK
  <2> QED
    BY <2>2, <2>3 DEF StakeInit, StakeInv, NoneIsLate, CopiesAreRecent, EndedIsEnded, WitnessIsKept
<1>2. StakeTypeOK /\ StakeInv /\ [StakeNext]_stakeVars => (StakeTypeOK /\ StakeInv)'
  BY StakeTypes, LateMoves, CopiesMove DEF StakeInv
<1>3. StakeInv => StakeIsSound
  <2> SUFFICES ASSUME StakeInv PROVE StakesAreCapped
    BY DEF StakeInv, StakeIsSound
  <2>1. \A score \in {0, GateMin - BonusCap - 1, GateMin - 1, GateMin, 100} : score \in Int
    BY StakeAssumption
  <2> QED
    BY <2>1, CapsHold DEF StakesAreCapped
<1> QED
  BY <1>1, <1>2, <1>3, PTL DEF StakeSpec

---------------------------------------------------------------------------
(* The negotiation of the rail.                                            *)

\* A nonempty set of bounded numbers has a least and a greatest one.
LEMMA Least ==
  ASSUME NEW n \in Nat, NEW T \in SUBSET (0 .. n), T # {}
  PROVE  \E x \in T : \A y \in T : x <= y
<1> DEFINE R == StrictSubsetOrdering(0 .. n)
           F == {0 .. m : m \in T}
<1>1. F \subseteq FiniteSubsetsOf(0 .. n) /\ F # {}
  <2>1. \A m \in T : 0 .. m \in SUBSET (0 .. n)
    OBVIOUS
  <2>2. \A m \in T : IsFiniteSet(0 .. m)
    BY FS_Interval
  <2> QED
    BY <2>1, <2>2 DEF FiniteSubsetsOf
<1>2. IsWellFoundedOn(R, FiniteSubsetsOf(0 .. n))
  BY FS_StrictSubsetOrderingWellFounded
<1> HIDE DEF R, F
<1>3. PICK x \in F : \A y \in F : ~(<<y, x>> \in R)
  BY <1>1, <1>2, WFMin
<1>4. PICK k \in T : x = 0 .. k
  BY DEF F
<1>5. ASSUME NEW m \in T PROVE k <= m
  <2>1. SUFFICES ASSUME m < k PROVE FALSE
    OBVIOUS
  <2>2. 0 .. m \in F /\ 0 .. m \subseteq 0 .. k /\ k \in 0 .. k /\ k \notin 0 .. m
    BY <2>1 DEF F
  <2>3. <<0 .. m, 0 .. k>> \in R
    BY <2>2 DEF R, StrictSubsetOrdering
  <2> QED
    BY <1>3, <1>4, <2>2, <2>3
<1> QED
  BY <1>5

LEMMA Greatest ==
  ASSUME NEW n \in Nat, NEW T \in SUBSET (0 .. n), T # {}
  PROVE  \E x \in T : \A y \in T : y <= x
<1> DEFINE U == {n - m : m \in T}
<1>1. U \in SUBSET (0 .. n) /\ U # {}
  <2>1. \A m \in T : n - m \in 0 .. n
    OBVIOUS
  <2>2. PICK m : m \in T
    OBVIOUS
  <2>3. n - m \in U
    BY <2>2
  <2> QED
    BY <2>1, <2>3
<1>2. PICK u \in U : \A v \in U : u <= v
  <2> HIDE DEF U
  <2> QED
    BY <1>1, Least
<1>3. PICK k \in T : u = n - k
  OBVIOUS
<1>4. \A m \in T : n - m \in U
  OBVIOUS
<1>5. \A m \in T : n - k <= n - m
  BY <1>2, <1>3, <1>4
<1> QED
  BY <1>5

\* A position is a number, and a list of one rail has that rail first.
LEMMA PositionFacts ==
  ASSUME NEW s \in Seq(RailName), NEW r \in RailName
  PROVE  Position(r, s) \in 0 .. Len(s) + 1
<1>1. CASE Named(r, s) = {}
  BY <1>1 DEF Position
<1>2. CASE Named(r, s) # {}
  <2>1. Named(r, s) \in SUBSET (0 .. Len(s)) /\ Len(s) \in Nat
    BY DEF Named
  <2>2. \E i \in Named(r, s) : \A k \in Named(r, s) : k <= i
    BY <1>2, <2>1, Greatest
  <2>3. Position(r, s) \in Named(r, s)
    BY <1>2, <2>2 DEF Position
  <2> QED
    BY <2>1, <2>3
<1> QED
  BY <1>1, <1>2

LEMMA AloneIsFirst ==
  ASSUME NEW r \in RailName
  PROVE  /\ Position(r, <<r>>) = 1
         /\ \A q \in RailName \ {r} : Position(q, <<r>>) = 2
<1>1. Named(r, <<r>>) = {1} /\ \A q \in RailName \ {r} : Named(q, <<r>>) = {}
  BY DEF Named
<1>2. Len(<<r>>) = 1
  OBVIOUS
<1> QED
  BY <1>1, <1>2 DEF Position

\* Of some candidates one is best.
LEMMA BestExists ==
  ASSUME NEW rs \in Seq(RailName), NEW t, Preference(t) \in Seq(RailName), Candidates(t, rs) # {}
  PROVE  /\ Best(t, rs) \in Candidates(t, rs)
         /\ \A k \in Candidates(t, rs) :
              LET p == Position(rs[Best(t, rs)], Preference(t))  q == Position(rs[k], Preference(t))
              IN  p < q \/ (p = q /\ Best(t, rs) <= k)
<1> DEFINE C == Candidates(t, rs)
           rank(i) == Position(rs[i], Preference(t))
           Ranks == {rank(i) : i \in C}
<1>1. C \subseteq 1 .. Len(rs) /\ C # {} /\ Len(rs) \in Nat /\ Len(Preference(t)) + 1 \in Nat
  BY DEF Candidates
<1>2. \A i \in C : rank(i) \in 0 .. Len(Preference(t)) + 1
  BY <1>1, PositionFacts
<1>3. PICK p \in Ranks : \A q \in Ranks : p <= q
  <2>1. Ranks \in SUBSET (0 .. Len(Preference(t)) + 1) /\ Ranks # {}
    BY <1>1, <1>2
  <2> HIDE DEF Ranks
  <2> QED
    BY <1>1, <2>1, Least
<1> DEFINE First == {i \in C : rank(i) = p}
<1>4. PICK i \in First : \A k \in First : i <= k
  <2>1. First \in SUBSET (0 .. Len(rs)) /\ First # {}
    BY <1>1, <1>3
  <2> HIDE DEF First
  <2> QED
    BY <1>1, <2>1, Least
<1>5. i \in C /\ \A k \in C : rank(i) < rank(k) \/ (rank(i) = rank(k) /\ i <= k)
  <2> SUFFICES ASSUME NEW k \in C PROVE rank(i) < rank(k) \/ (rank(i) = rank(k) /\ i <= k)
    BY <1>4
  <2>1. rank(k) \in Ranks /\ rank(i) = p /\ p <= rank(k)
    BY <1>3, <1>4
  <2>2. rank(k) = p => k \in First
    OBVIOUS
  <2>3. rank(k) \in Nat /\ rank(i) \in Nat
    BY <1>2, <1>4
  <2> QED
    BY <1>4, <2>1, <2>2, <2>3
<1> QED
  BY <1>5 DEF Best
---------------------------------------------------------------------------
\* The preference is a list of rails.
LEMMA PreferenceIsList ==
  ASSUME NEW t, t.preferred \in Seq(RailName)
  PROVE  Preference(t) \in Seq(RailName)
<1>1. MicroPriority \in Seq(RailName) /\ MacroPriority \in Seq(RailName) /\ <<>> \in Seq(RailName)
  BY DEF MicroPriority, MacroPriority, RailName
<1> QED
  BY <1>1 DEF Preference

\* The negotiation ends with a rail that suits, or with none when none does.
LEMMA NegotiateFacts ==
  ASSUME NEW rs \in Seq(RailName), NEW t, t.preferred \in Seq(RailName)
  PROVE  /\ Candidates(t, rs) = {} <=> Negotiate(t, rs) = "none"
         /\ Candidates(t, rs) # {} =>
              LET r == Negotiate(t, rs)
              IN  r \in Range(rs) /\ r \in RailName /\ Supports(r, t) /\ Allowed(r, t)
<1>1. CASE Candidates(t, rs) = {}
  BY <1>1 DEF Negotiate
<1>2. CASE Candidates(t, rs) # {}
  <2> DEFINE i == Best(t, rs)
  <2>1. i \in Candidates(t, rs)
    BY <1>2, BestExists, PreferenceIsList
  <2>2. i \in DOMAIN rs /\ Supports(rs[i], t) /\ Allowed(rs[i], t)
    BY <2>1 DEF Candidates
  <2>3. Negotiate(t, rs) = rs[i]
    BY <1>2 DEF Negotiate
  <2> HIDE DEF i
  <2>4. rs[i] \in RailName /\ rs[i] \in Range(rs)
    BY <2>2 DEF Range
  <2>5. rs[i] # "none"
    BY <2>4 DEF RailName
  <2> QED
    BY <1>2, <2>2, <2>3, <2>4, <2>5
<1> QED
  BY <1>1, <1>2

\* Of terms that differ in what nobody looks at the negotiation is the same.
LEMMA NegotiateAlike ==
  ASSUME NEW rs, NEW t, NEW u,
         ClassOfTerms(t) = ClassOfTerms(u), t.amount = u.amount, t.currency = u.currency, t.price = u.price,
         t.client = u.client, t.provider = u.provider, t.preferred = u.preferred
  PROVE  Negotiate(t, rs) = Negotiate(u, rs)
<1>1. Preference(t) = Preference(u)
  BY DEF Preference
<1>2. Candidates(t, rs) = Candidates(u, rs)
  BY DEF Candidates, Supports, SupportsBy, CurrencyOf, Allowed
<1> QED
  BY <1>1, <1>2 DEF Negotiate, Best

Inferred(t) == [t EXCEPT !.class = "inferred"]
Asking(r, t) == [t EXCEPT !.class = "inferred", !.preferred = <<r>>,
                          !.client = IF @ = {} THEN {r} ELSE @,
                          !.provider = IF @ = {} THEN {r} ELSE @]

LEMMA TermFacts ==
  ASSUME NEW t \in Term, NEW r \in RailName
  PROVE  /\ t.preferred \in Seq(RailName)
         /\ LET u == Inferred(t) IN
              /\ u.amount = t.amount /\ u.currency = t.currency /\ u.class = "inferred"
              /\ u.price = t.price
              /\ u.preferred = t.preferred /\ u.client = t.client /\ u.provider = t.provider
         /\ LET u == Asking(r, t) IN
              /\ u.amount = t.amount /\ u.currency = t.currency /\ u.class = "inferred"
              /\ u.price = t.price
              /\ u.preferred = <<r>>
              /\ u.client = IF t.client = {} THEN {r} ELSE t.client
              /\ u.provider = IF t.provider = {} THEN {r} ELSE t.provider
<1>1. t.preferred \in Seq(RailName)
  BY RailTermsAssumption DEF Term
<1>2. DOMAIN t = {"amount", "price", "currency", "class", "preferred", "client", "provider", "fallback"}
  BY DEF Term
<1> QED
  BY <1>1, <1>2 DEF Inferred, Asking, Term

\* A rail suits the terms with its own name in front exactly when it suits the terms.
LEMMA AskingSuits ==
  ASSUME NEW t \in Term, NEW r \in RailName
  PROVE  /\ Supports(r, Asking(r, t)) <=> Supports(r, Inferred(t))
         /\ Allowed(r, Asking(r, t)) <=> Allowed(r, Inferred(t))
<1>1. ClassOfTerms(Asking(r, t)) = ClassOfTerms(Inferred(t))
  BY TermFacts DEF ClassOfTerms
<1> QED
  BY <1>1, TermFacts DEF Supports, SupportsBy, CurrencyOf, Allowed

\* A rail is eligible exactly when it is registered and suits.
LEMMA EligibleSuits ==
  ASSUME NEW t \in Term, NEW rs \in Seq(RailName), NEW r \in Range(rs)
  PROVE  Eligible(r, t, rs) <=> Supports(r, Inferred(t)) /\ Allowed(r, Inferred(t))
<1>0. r \in RailName /\ r # "none"
  BY DEF Range, RailName
<1> DEFINE u == Asking(r, t)
<1>1. /\ Eligible(r, t, rs) <=> Negotiate(u, rs) = r
      /\ u.preferred = <<r>> /\ <<r>> \in Seq(RailName)
  BY <1>0, TermFacts DEF Eligible, Asking
<1>2. ASSUME Negotiate(u, rs) = r PROVE Supports(r, u) /\ Allowed(r, u)
  <2> HIDE DEF u
  <2> QED
    BY <1>0, <1>1, <1>2, NegotiateFacts
<1>3. ASSUME Supports(r, u), Allowed(r, u) PROVE Negotiate(u, rs) = r
  <2> HIDE DEF u
  <2>1. PICK k \in DOMAIN rs : rs[k] = r
    BY DEF Range
  <2>2. k \in Candidates(u, rs)
    BY <1>3, <2>1 DEF Candidates
  <2>3. Preference(u) = <<r>>
    <3>1. <<r>> # <<>>
      OBVIOUS
    <3> QED
      BY <1>1, <3>1 DEF Preference
  <2> DEFINE i == Best(u, rs)
  <2>4. /\ i \in Candidates(u, rs)
        /\ LET p == Position(rs[i], <<r>>)  q == Position(rs[k], <<r>>)
           IN  p < q \/ (p = q /\ i <= k)
    BY <1>1, <2>2, <2>3, BestExists
  <2>5. rs[i] \in RailName
    BY <2>4 DEF Candidates
  <2> HIDE DEF i
  <2>6. rs[i] = r
    BY <1>0, <2>1, <2>4, <2>5, AloneIsFirst
  <2> QED
    BY <2>2, <2>6 DEF Negotiate, i
<1> QED
  BY <1>0, <1>1, <1>2, <1>3, AskingSuits

\* What is quoted is what is locked: for all terms and registries.
LEMMA QuotesAreHonoured ==
  ASSUME NEW t \in Term, NEW rs \in Seq(RailName)
  PROVE  LET best == Recommended(t, rs)  able == {r \in Range(rs) : Eligible(r, t, rs)} IN
         /\ IF able = {} THEN best = "none" ELSE best \in able
         /\ t.class \in {"inferred", ClassOf(t.amount)} /\ best # "none" => Binding(t, rs) = best
<1> DEFINE u == Inferred(t)
           best == Recommended(t, rs)
           able == {r \in Range(rs) : Eligible(r, t, rs)}
<1>1. best = Negotiate(u, rs) /\ u.preferred \in Seq(RailName)
  BY TermFacts DEF Recommended, Inferred, RailName
<1> HIDE DEF u
<1>2. ASSUME best # "none" PROVE best \in able
  <2>1. best \in Range(rs) /\ Supports(best, u) /\ Allowed(best, u)
    BY <1>1, <1>2, NegotiateFacts
  <2> HIDE DEF best
  <2> QED
    BY <2>1, EligibleSuits DEF u
<1>3. ASSUME NEW r \in able PROVE best # "none"
  <2>1. Supports(r, u) /\ Allowed(r, u) /\ r \in Range(rs)
    BY EligibleSuits DEF u
  <2>2. Candidates(u, rs) # {}
    BY <2>1 DEF Candidates, Range
  <2> QED
    BY <1>1, <2>2, NegotiateFacts
<1>4. ASSUME t.class \in {"inferred", ClassOf(t.amount)}, best # "none" PROVE Binding(t, rs) = best
  <2>1. ClassOf(t.amount) \in AmountClass /\ ~("inferred" \in AmountClass)
    BY DEF ClassOf, AmountClass
  <2>2. ClassOfTerms(t) = ClassOf(t.amount)
    BY <1>4 DEF ClassOfTerms
  <2>3. ClassOfTerms(u) = ClassOf(t.amount)
    BY TermFacts DEF ClassOfTerms, u, RailName
  <2>4. Negotiate(t, rs) = Negotiate(u, rs)
    BY <2>2, <2>3, NegotiateAlike, TermFacts DEF u, RailName
  <2> QED
    BY <1>1, <1>4, <2>4 DEF Binding
<1> QED
  BY <1>2, <1>3, <1>4
---------------------------------------------------------------------------
\* The types of the rails are kept.
LEMMA RailsTypes ==
  ASSUME RailsTypeOK, [RailsNext]_railVars
  PROVE  RailsTypeOK'
<1>1. CASE UNCHANGED railVars
  BY <1>1 DEF railVars, RailsTypeOK
<1>2. ASSUME NEW t \in Term, ProposeTerms(t) PROVE RailsTypeOK'
  BY <1>2 DEF ProposeTerms, RailsTypeOK
<1>3. CASE LockBinding
  <2>1. deal.terms \in Term /\ rails \in Seq(RailName)
    BY DEF RailsTypeOK
  <2>2. Binding(deal.terms, rails) \in RailName \cup {"none"}
    BY <2>1, NegotiateFacts, TermFacts DEF Binding, RailName
  <2>3. deal' \in [terms : Term, state : {"none", "PROPOSED", "CONTRACTED", "ESCROWED", "CLOSED"}]
    BY <1>3 DEF LockBinding, RailsTypeOK
  <2> QED
    BY <1>3, <2>2, <2>3 DEF LockBinding, RailsTypeOK
<1>4. CASE EscrowOnRail
  BY <1>4 DEF EscrowOnRail, RailsTypeOK
<1>5. ASSUME NEW end \in {"settled", "refunded"}, ReleaseOnRail(end) PROVE RailsTypeOK'
  <2>1. binding \in RailName
    BY <1>5 DEF ReleaseOnRail, BoundRail, RailsTypeOK, Range
  <2> QED
    BY <1>5, <2>1 DEF ReleaseOnRail, RailsTypeOK
<1>6. ASSUME NEW c \in Configured, Reconfigure(c) PROVE RailsTypeOK'
  <2>1. c.rails \in Seq(RailName) /\ c.urls \subseteq RailName /\ restarts + 1 \in Nat
    BY RailTermsAssumption DEF RailsTypeOK
  <2>2. holding' \in [RailName \X {"gateway", "memory"} -> {"none", "held", "settled", "refunded"}]
    <3>1. PICK P : P = RailName \X {"gateway", "memory"}
      OBVIOUS
    <3>2. holding \in [P -> {"none", "held", "settled", "refunded"}]
      BY <3>1 DEF RailsTypeOK
    <3>3. holding' = [p \in P |-> IF p[2] = "memory" THEN "none" ELSE holding[p]]
      BY <1>6, <3>2 DEF Reconfigure
    <3> QED
      BY <3>1, <3>2, <3>3
  <2> QED
    BY <1>6, <2>1, <2>2 DEF Reconfigure, RailsTypeOK
<1> QED
  BY <1>1, <1>2, <1>3, <1>4, <1>5, <1>6 DEF RailsNext

\* The binding is that of the contract, suits it, and is where the money is.
LEMMA RailsMove ==
  ASSUME RailsTypeOK, RailsInv, [RailsNext]_railVars
  PROVE  RailsInv'
<1> DEFINE P == RailName \X {"gateway", "memory"}
<1>0. /\ deal.terms \in Term /\ rails \in Seq(RailName) /\ holding \in [P -> {"none", "held", "settled", "refunded"}]
      /\ deal \in [terms : Term, state : {"none", "PROPOSED", "CONTRACTED", "ESCROWED", "CLOSED"}]
      /\ BoundByContract /\ BindingSuits /\ OneRail
  BY DEF RailsTypeOK, RailsInv
<1>1. CASE UNCHANGED railVars
  BY <1>0, <1>1 DEF railVars, RailsInv, BoundByContract, BindingSuits, OneRail
<1>2. ASSUME NEW t \in Term, ProposeTerms(t) PROVE RailsInv'
  BY <1>0, <1>2 DEF ProposeTerms, RailsInv, BoundByContract, BindingSuits, OneRail
<1>3. CASE LockBinding
  <2> DEFINE t == deal.terms
             b == Binding(t, rails)
  <2>1. deal'.terms = t /\ deal'.state = "CONTRACTED" /\ binding' = b /\ b # "none" /\ lockedBy' = gateways
    BY <1>0, <1>3 DEF LockBinding
  <2>2. BoundByContract'
    BY <1>0, <1>3, <2>1 DEF LockBinding, BoundByContract
  <2>3. OneRail'
    BY <1>0, <1>3 DEF LockBinding, BoundByContract, OneRail
  <2>4. \/ Supports(b, t) /\ Allowed(b, t)
        \/ b = "mock" /\ t.fallback = "mock"
    <3>1. CASE Negotiate(t, rails) = b
      BY <1>0, <2>1, <3>1, NegotiateFacts, TermFacts DEF RailName
    <3>2. CASE Negotiate(t, rails) # b
      BY <3>2 DEF Binding
    <3> QED
      BY <3>1, <3>2
  <2> HIDE DEF t, b
  <2>5. BindingSuits'
    <3>1. CASE b = "mock" /\ t.fallback = "mock"
      BY <2>1, <3>1 DEF BindingSuits
    <3>2. CASE Supports(b, t) /\ Allowed(b, t)
      <4>1. SupportsBy(b, t, gateways) /\ (t.client # {} => b \in t.client) /\ (t.provider # {} => b \in t.provider)
        BY <3>2 DEF Supports, Allowed
      <4>2. t.currency \in {"none", t.price} => t.price \in Currencies(b, gateways)
        BY <4>1 DEF SupportsBy, CurrencyOf
      <4> QED
        BY <2>1, <4>1, <4>2 DEF BindingSuits, SupportsBy, CurrencyOf, ClassOfTerms, ClassOf, InRange, Classes, Currencies
    <3> QED
      BY <2>4, <3>1, <3>2
  <2> QED
    BY <2>2, <2>3, <2>5 DEF RailsInv
<1>4. CASE EscrowOnRail
  <2>0. DOMAIN holding = P
    <3> HIDE DEF P
    <3> QED
      BY <1>0
  <2>a. /\ \A p \in P : holding[p] = "none"
        /\ receipts = {}
    BY <1>0, <1>4, <2>0 DEF EscrowOnRail, BoundByContract
  <2>b. deal'.state = "ESCROWED" /\ deal'.terms = deal.terms
    BY <1>0, <1>4 DEF EscrowOnRail
  <2>1. binding' = binding /\ receipts' = receipts /\ lockedBy' = lockedBy
    BY <1>4 DEF EscrowOnRail
  <2>2. PICK a : a = Account /\ a[1] = binding
    <3>1. Account[1] = binding
      BY DEF Account
    <3> QED
      BY <3>1
  <2>3. holding' \in [P -> {"none", "held", "settled", "refunded"}] /\ \A p \in P : holding'[p] # "none" => p = a
    BY <1>0, <1>4, <2>a, <2>2 DEF EscrowOnRail
  <2>4. OneRail'
    BY <2>a, <2>1, <2>2, <2>3 DEF OneRail
  <2> QED
    BY <1>0, <2>a, <2>b, <2>1, <2>4 DEF RailsInv, BoundByContract, BindingSuits, SupportsBy, CurrencyOf, ClassOfTerms
<1>5. ASSUME NEW end \in {"settled", "refunded"}, ReleaseOnRail(end) PROVE RailsInv'
  <2>1. /\ binding' = binding /\ receipts' \subseteq {binding} /\ deal'.state = "CLOSED"
        /\ deal'.terms = deal.terms /\ lockedBy' = lockedBy
    BY <1>0, <1>5 DEF ReleaseOnRail, OneRail
  <2>2. PICK a : a = Account
    OBVIOUS
  <2>3. /\ holding' \in [P -> {"none", "held", "settled", "refunded"}] /\ holding[a] = "held"
        /\ \A p \in P : holding'[p] # "none" => holding[p] # "none"
    BY <1>0, <1>5, <2>2 DEF ReleaseOnRail
  <2>4. OneRail'
    BY <1>0, <2>1, <2>3 DEF OneRail
  <2> QED
    BY <1>0, <2>1, <2>4 DEF RailsInv, BoundByContract, BindingSuits, SupportsBy, CurrencyOf, ClassOfTerms
<1>6. ASSUME NEW c \in Configured, Reconfigure(c) PROVE RailsInv'
  <2>1. binding' = binding /\ receipts' = receipts /\ deal' = deal /\ lockedBy' = lockedBy
    BY <1>6 DEF Reconfigure
  <2>2. /\ DOMAIN holding' = P /\ DOMAIN holding = P
        /\ \A p \in P : holding'[p] = "none" \/ holding'[p] = holding[p]
    <3>1. DOMAIN holding = P
      BY <1>0
    <3> HIDE DEF P
    <3> QED
      BY <1>6, <3>1 DEF Reconfigure
  <2>3. OneRail' /\ BoundByContract'
    BY <1>0, <2>1, <2>2 DEF OneRail, BoundByContract
  <2> QED
    BY <1>0, <2>1, <2>3 DEF RailsInv, BindingSuits
<1> QED
  BY <1>1, <1>2, <1>3, <1>4, <1>5, <1>6 DEF RailsNext

\* The rail that a contract locks suits its terms and was recommended by the quote, and
\* the money is held and released there, whatever the node is started with: for all
\* terms, preferences, registries and thresholds (rail_registry.py, exchange.py).
THEOREM RailsAlwaysAgree == RailsSpec => []RailsAgree
<1>1. RailsInit => RailsTypeOK /\ RailsInv
  <2> SUFFICES ASSUME RailsInit PROVE RailsTypeOK /\ RailsInv
    OBVIOUS
  <2>1. \E t \in Term : TRUE
    <3>1. PICK n \in Amount, m \in Priced, w \in Wish, c \in Cap : TRUE
      BY RailTermsAssumption
    <3>2. [amount |-> n, price |-> m, currency |-> "USD", class |-> "inferred", preferred |-> w,
           client |-> c, provider |-> c, fallback |-> "reject"] \in Term
      BY <3>1 DEF Term, Money
    <3> QED
      BY <3>2
  <2>2. Unproposed \in [terms : Term, state : {"none"}]
    BY <2>1 DEF Unproposed
  <2> QED
    BY <2>2, RailTermsAssumption DEF RailsInit, RailsTypeOK, RailsInv, BoundByContract, BindingSuits, OneRail
<1>2. RailsTypeOK /\ RailsInv /\ [RailsNext]_railVars => (RailsTypeOK /\ RailsInv)'
  BY RailsTypes, RailsMove
<1>3. RailsTypeOK /\ RailsInv => RailsAgree
  <2> SUFFICES ASSUME RailsTypeOK, RailsInv PROVE QuoteIsHonoured
    BY DEF RailsInv, RailsAgree
  <2>1. deal.terms \in Term /\ rails \in Seq(RailName)
    BY DEF RailsTypeOK
  <2> QED
    BY <2>1, QuotesAreHonoured DEF QuoteIsHonoured
<1> QED
  BY <1>1, <1>2, <1>3, PTL DEF RailsSpec
---------------------------------------------------------------------------
(* The start of a node.                                                    *)

\* The parts of the state.
LEMMA StartParts ==
  ASSUME StartTypeOK
  PROVE  /\ setup.on \subseteq Switches /\ setup.slot \in Slots /\ setup.rails \subseteq RailIds
         /\ disk.file \in [Files -> File] /\ disk.pending \subseteq Intent
         /\ \A f \in Files : disk.file[f] \in File /\ disk.file[f].rows \subseteq Nat
         /\ node.pc \in Steps /\ node.has \in [Kinds -> SUBSET Nat] /\ node.todo \subseteq Intent
         /\ node.request \in Request /\ \A k \in Kinds : node.has[k] \subseteq Nat
         /\ vouched \in [Files \cup {"none"} -> SUBSET Nat] /\ missed \subseteq Nat
         /\ facts \in Nat /\ starts \in Nat
  BY DEF StartTypeOK, File, Disk, Process

LEMMA RequestFacts ==
  ASSUME StartTypeOK
  PROVE  /\ node.request # NoRequest => node.request \in [of : Kinds, step : {"write", "answer"}]
         /\ node.request # NoRequest => node.request.of \in Kinds /\ node.request.step \in {"write", "answer"}
         /\ node.request.step \in {"write", "answer"} => node.request # NoRequest
         /\ NoRequest.step = "none" /\ NoRequest \in Request
  BY StartParts DEF Request, NoRequest

LEMMA PathFacts ==
  ASSUME NEW k \in Kinds
  PROVE  /\ PathOf(k) \in Files \cup {"none"}
         /\ PathOf(k) = "op" => k = "accounts"
         /\ PathOf(k) = "db" <=> k = "exchanges" /\ Given("db")
         /\ k = "exchanges" => PathOf(k) \in {"db", "none"}
         /\ PathOf("accounts") = IF Given("opDb") THEN "op" ELSE "none"
         /\ \A j \in Kinds : j # k /\ PathOf(j) # "none" => PathOf(j) # PathOf(k)
  BY DEF Kinds, Files, PathOf

\* The environment does not change under a running process.
LEMMA SetupRests ==
  ASSUME UNCHANGED setup
  PROVE  /\ \A x : Given(x)' <=> Given(x)
         /\ \A k \in Kinds : PathOf(k)' = PathOf(k)
         /\ Errors' = Errors
  BY DEF Given, PathOf, Errors

LEMMA FileFacts ==
  ASSUME NEW r \in SUBSET Nat
  PROVE  /\ Rows(r) \in File /\ Rows(r).rows = r /\ Rows(r).is = "rows" /\ Rows(r) # Torn
         /\ Torn \in File /\ Torn.rows = {} /\ Torn.is = "torn"
         /\ Empty \in File /\ Empty.rows = {} /\ Empty.is = "empty" /\ Empty # Torn
         /\ Absent \in File /\ Absent.rows = {} /\ Absent.is = "absent" /\ Absent # Torn
  BY DEF File, Rows, Torn, Empty, Absent

\* A process that is gone.
LEMMA DownKeeps ==
  ASSUME NEW why \in Failures, node' = Down(why), FilesHold',
         \A f \in Files \cup {"none"} : \A n \in vouched'[f] : n <= facts'
  PROVE  node' \in Process /\ StartInv'
<1>1. /\ node'.pc = "down" /\ node'.request = NoRequest /\ node'.todo = {} /\ node' \in Process
      /\ NoRequest.step = "none"
  BY DEF Down, Process, Steps, Request, NoRequest
<1>2. LoadedIsKept'
  BY <1>1 DEF LoadedIsKept, Known
<1> QED
  BY <1>1, <1>2 DEF StartInv, AnswersAreKept, NoneIsEarly, AccountsAreNoted, StrictIsClean, IntentsAreTried

\* Files that keep their rows, and files that are torn, hold what they held.
LEMMA FilesRest ==
  ASSUME FilesHold, UNCHANGED vouched, missed \subseteq missed',
         \A f \in Files : \/ disk'.file[f] = disk.file[f]
                          \/ disk.file[f] = Absent /\ disk'.file[f] = Empty
                          \/ f # "db" /\ disk'.file[f] = Torn
  PROVE  FilesHold'
<1>1. SUFFICES ASSUME NEW f \in Files
               PROVE  /\ disk'.file[f].is # "rows" => disk'.file[f].rows = {}
                      /\ disk'.file[f] = Torn \/ Durable(f)' \subseteq disk'.file[f].rows
                      /\ f = "db" => disk'.file[f] # Torn
  BY DEF FilesHold
<1>2. Durable(f)' \subseteq Durable(f)
  BY DEF Durable
<1>3. /\ disk.file[f].is # "rows" => disk.file[f].rows = {}
      /\ disk.file[f] = Torn \/ Durable(f) \subseteq disk.file[f].rows
      /\ f = "db" => disk.file[f] # Torn
  BY <1>1 DEF FilesHold
<1>4. /\ Torn.rows = {} /\ Empty.rows = {} /\ Absent.rows = {} /\ Empty.is = "empty"
      /\ Empty # Torn /\ Absent # Torn
  BY FileFacts
<1>5. CASE disk'.file[f] = disk.file[f]
  BY <1>2, <1>3, <1>5
<1>6. CASE disk.file[f] = Absent /\ disk'.file[f] = Empty
  BY <1>2, <1>3, <1>4, <1>6
<1>7. CASE f # "db" /\ disk'.file[f] = Torn
  BY <1>4, <1>7
<1> QED
  BY <1>5, <1>6, <1>7

\* Nothing but the process goes on, and the process has loaded one kind more.
LEMMA LoadKeeps ==
  ASSUME StartTypeOK, StartInv, NEW k \in Kinds, node.pc \in Steps \ {"down", "recover", "up"},
         PathOf(k) # "none" => disk.file[PathOf(k)] # Torn,
         node'.has = [node.has EXCEPT ![k] = Loaded(k)], Known' = Known \cup {k},
         FilesHold', \A f \in Files : disk'.file[f].rows = disk.file[f].rows,
         UNCHANGED <<setup, facts, vouched, missed>>, node'.request = node.request
  PROVE  LoadedIsKept' /\ AnswersAreKept' /\ NoneIsEarly' /\ node.request = NoRequest
<1>1. node.request = NoRequest /\ LoadedIsKept /\ FilesHold /\ NoneIsEarly
  BY DEF StartInv, AnswersAreKept
<1>2. \A j \in Kinds : PathOf(j)' = PathOf(j) /\ PathOf(j) \in Files \cup {"none"}
  BY SetupRests, PathFacts
<1>3. \A f : Durable(f)' = Durable(f)
  BY DEF Durable
<1>4. LoadedIsKept'
  <2>1. SUFFICES ASSUME NEW j \in Known', PathOf(j)' # "none"
                 PROVE  /\ disk'.file[PathOf(j)'].rows \subseteq node'.has[j] /\ Durable(PathOf(j))' \subseteq node'.has[j]
                        /\ j = "exchanges" => node'.has[j] = disk'.file["db"].rows
    BY DEF LoadedIsKept
  <2>2. j \in Kinds /\ Known \subseteq Kinds
    BY DEF Known, Kinds
  <2>3. PICK p \in Files : p = PathOf(j)
    BY <1>2, <2>1, <2>2
  <2>4. disk'.file[p].rows = disk.file[p].rows /\ Durable(p)' = Durable(p) /\ PathOf(j)' = p
    BY <1>2, <1>3, <2>2, <2>3
  <2>5. CASE j = k
    <3>1. node'.has[j] = disk.file[p].rows
      BY <2>1, <2>3, <2>4, <2>5, StartParts DEF Loaded
    <3>2. Durable(p) \subseteq disk.file[p].rows
      BY <1>1, <2>1, <2>3, <2>4, <2>5 DEF FilesHold
    <3>3. j = "exchanges" => p = "db"
      BY <2>1, <2>2, <2>3, <2>4, PathFacts
    <3> QED
      BY <2>4, <3>1, <3>2, <3>3
  <2>6. CASE j # k
    <3>1. node'.has[j] = node.has[j] /\ j \in Known
      BY <2>1, <2>2, <2>6, StartParts
    <3>2. /\ disk.file[p].rows \subseteq node.has[j] /\ Durable(p) \subseteq node.has[j]
          /\ j = "exchanges" => node.has[j] = disk.file["db"].rows
      BY <1>1, <2>1, <2>3, <2>4, <3>1 DEF LoadedIsKept
    <3> QED
      BY <2>4, <3>1, <3>2 DEF Files
  <2> QED
    BY <2>5, <2>6
<1> QED
  BY <1>1, <1>4, RequestFacts DEF AnswersAreKept, NoneIsEarly

LEMMA ChangeKeeps ==
  ASSUME StartTypeOK, StartInv, ChangeSetup \/ Ends
  PROVE  StartTypeOK' /\ StartInv'
<1>1. setup' \in [on : SUBSET Switches, slot : Slots, rails : SUBSET RailIds]
  BY DEF ChangeSetup, Ends, StartTypeOK
<1>2. node' = Down("no") /\ "no" \in Failures /\ UNCHANGED <<facts, starts, vouched, missed>>
  BY DEF ChangeSetup, Ends, Failures
<1>3. FilesHold /\ \A f \in Files \cup {"none"} : \A n \in vouched[f] : n <= facts
  BY DEF StartInv, NoneIsEarly
<1>4. disk' \in Disk /\ FilesHold'
  <2>1. CASE UNCHANGED disk
    BY <1>2, <1>3, <2>1, FilesRest DEF StartTypeOK
  <2>2. ASSUME node.request.step = "write", PathOf(node.request.of) \notin {"none", "db"},
               disk' = [disk EXCEPT !.file[PathOf(node.request.of)] = Torn]
        PROVE  disk' \in Disk /\ FilesHold'
    <3>1. PICK p \in Files : p = PathOf(node.request.of)
      BY <2>2, RequestFacts, PathFacts
    <3>2. Torn \in File
      BY FileFacts
    <3>3. disk' \in Disk /\ \A f \in Files : disk'.file[f] = IF f = p THEN Torn ELSE disk.file[f]
      BY <2>2, <3>1, <3>2 DEF StartTypeOK, Disk
    <3> QED
      BY <1>2, <1>3, <2>2, <3>1, <3>3, FilesRest
  <2> QED
    BY <2>1, <2>2 DEF ChangeSetup, Ends
<1>5. node' \in Process /\ StartInv'
  BY <1>2, <1>3, <1>4, DownKeeps
<1> QED
  BY <1>1, <1>2, <1>4, <1>5 DEF StartTypeOK

LEMMA ValidateKeeps ==
  ASSUME StartTypeOK, StartInv, Validate
  PROVE  StartTypeOK' /\ StartInv'
<1>1. /\ node.pc = "down" /\ starts' = starts + 1 /\ UNCHANGED <<setup, facts, vouched, missed>>
      /\ FilesHold /\ NoneIsEarly /\ AnswersAreKept /\ "environment" \in Failures
  BY DEF Validate, StartInv, Failures
<1>2. disk' \in Disk /\ \A f \in Files : disk'.file[f] \in {disk.file[f], Touched(disk.file[f])}
  <2>1. PICK D : D = [f \in Files |-> IF f \in {PathOf("accounts"), PathOf("exchanges")}
                                     THEN Touched(disk.file[f]) ELSE disk.file[f]]
    OBVIOUS
  <2>2. D \in [Files -> File]
    BY <2>1, StartParts, FileFacts DEF Touched
  <2>3. disk' = [disk EXCEPT !.file = D]
    BY <2>1 DEF Validate
  <2> QED
    BY <2>1, <2>2, <2>3 DEF StartTypeOK, Disk
<1>3. FilesHold'
  <2>1. \A f \in Files : disk'.file[f] = disk.file[f] \/ (disk.file[f] = Absent /\ disk'.file[f] = Empty)
    BY <1>2 DEF Touched
  <2> QED
    BY <1>1, <2>1, FilesRest
<1>4. CASE node' = Down("environment")
  BY <1>1, <1>2, <1>3, <1>4, DownKeeps DEF StartTypeOK, NoneIsEarly
<1>5. CASE node' = [node EXCEPT !.pc = "stores"] /\ ~(Given("strict") /\ Errors # {})
  <2>1. /\ node'.pc = "stores" /\ node'.request = node.request /\ node' \in Process
        /\ node.request = NoRequest
    BY <1>1, <1>5 DEF StartTypeOK, Process, Steps, AnswersAreKept
  <2>2. StrictIsClean'
    BY <1>1, <1>5, SetupRests DEF StrictIsClean
  <2>3. LoadedIsKept' /\ AnswersAreKept' /\ NoneIsEarly' /\ AccountsAreNoted' /\ IntentsAreTried'
    BY <1>1, <2>1, RequestFacts DEF LoadedIsKept, Known, AnswersAreKept, NoneIsEarly, AccountsAreNoted,
       IntentsAreTried
  <2>4. StartTypeOK'
    BY <1>1, <1>2, <2>1 DEF StartTypeOK
  <2> QED
    BY <1>3, <2>2, <2>3, <2>4 DEF StartInv
<1> QED
  BY <1>4, <1>5 DEF Validate

LEMMA StoresKeep ==
  ASSUME StartTypeOK, StartInv, OpenStores
  PROVE  StartTypeOK' /\ StartInv'
<1>1. /\ node.pc = "stores" /\ UNCHANGED <<setup, facts, starts, vouched, missed>>
      /\ FilesHold /\ StrictIsClean /\ "exchanges" \in Kinds
  BY DEF OpenStores, StartInv, Kinds
<1>2. Loaded("exchanges") \subseteq Nat
  BY <1>1, PathFacts, StartParts DEF Loaded
<1>3. /\ node' \in Process /\ node'.pc = "claims" /\ node'.request = node.request
      /\ node'.has = [node.has EXCEPT !["exchanges"] = Loaded("exchanges")]
  BY <1>1, <1>2 DEF OpenStores, StartTypeOK, Process, Steps
<1>4. /\ disk' \in Disk /\ FilesHold' /\ \A f \in Files : disk'.file[f].rows = disk.file[f].rows
  <2>1. CASE ~Given("db")
    BY <1>1, <2>1, FilesRest DEF OpenStores, StartTypeOK
  <2>2. CASE Given("db")
    <3>1. PICK r \in SUBSET Nat : r = disk.file["db"].rows
      BY StartParts DEF Files
    <3>2. Rows(r) \in File /\ Rows(r).rows = r /\ Rows(r).is = "rows" /\ Rows(r) # Torn
      BY FileFacts
    <3>3. /\ disk' \in Disk /\ disk'.file["db"] = Rows(r)
          /\ \A f \in Files \ {"db"} : disk'.file[f] = disk.file[f]
      BY <2>2, <3>1, <3>2 DEF OpenStores, StartTypeOK, Disk, Files
    <3>4. Durable("db") \subseteq r
      BY <1>1, <3>1 DEF FilesHold, Files
    <3>5. \A f \in Files : Durable(f)' = Durable(f)
      BY <1>1 DEF Durable
    <3> QED
      BY <1>1, <3>1, <3>2, <3>3, <3>4, <3>5 DEF FilesHold
  <2> QED
    BY <2>1, <2>2
<1>5. LoadedIsKept' /\ AnswersAreKept' /\ NoneIsEarly'
  <2>1. Known = {} /\ Known' = {"exchanges"} /\ node.pc \in Steps \ {"down", "recover", "up"}
    BY <1>1, <1>3 DEF Known, Steps
  <2>2. PathOf("exchanges") # "none" => disk.file[PathOf("exchanges")] # Torn
    BY <1>1, PathFacts DEF FilesHold, Files
  <2> QED
    BY <1>1, <1>3, <1>4, <2>1, <2>2, LoadKeeps
<1>6. StrictIsClean' /\ AccountsAreNoted' /\ IntentsAreTried'
  BY <1>1, <1>3, SetupRests DEF StrictIsClean, AccountsAreNoted, IntentsAreTried
<1>7. StartTypeOK'
  BY <1>1, <1>3, <1>4 DEF StartTypeOK
<1> QED
  BY <1>4, <1>5, <1>6, <1>7 DEF StartInv

LEMMA ClaimsKeep ==
  ASSUME StartTypeOK, StartInv, OpenClaims
  PROVE  StartTypeOK' /\ StartInv'
<1>1. /\ node.pc = "claims" /\ UNCHANGED <<setup, disk, facts, starts, vouched, missed>>
      /\ FilesHold /\ StrictIsClean /\ NoneIsEarly /\ "claims" \in Kinds /\ "claims" \in Failures
  BY DEF OpenClaims, StartInv, Kinds, Failures
<1>2. FilesHold'
  BY <1>1, FilesRest
<1>3. CASE node' = Down("claims")
  BY <1>1, <1>2, <1>3, DownKeeps DEF StartTypeOK, NoneIsEarly
<1>4. CASE /\ node' = [node EXCEPT !.pc = "accounts", !.has["claims"] = Loaded("claims")]
           /\ ~(PathOf("claims") # "none" /\ disk.file[PathOf("claims")] = Torn)
  <2>1. Loaded("claims") \subseteq Nat
    BY <1>1, PathFacts, StartParts DEF Loaded
  <2>2. /\ node' \in Process /\ node'.pc = "accounts" /\ node'.request = node.request
        /\ node'.has = [node.has EXCEPT !["claims"] = Loaded("claims")]
    BY <1>1, <1>4, <2>1 DEF StartTypeOK, Process, Steps
  <2>3. Known' = Known \cup {"claims"} /\ node.pc \in Steps \ {"down", "recover", "up"}
    BY <1>1, <2>2 DEF Known, Steps
  <2>4. LoadedIsKept' /\ AnswersAreKept' /\ NoneIsEarly'
    BY <1>1, <1>2, <1>4, <2>2, <2>3, LoadKeeps
  <2>5. StrictIsClean' /\ AccountsAreNoted' /\ IntentsAreTried'
    BY <1>1, <2>2, SetupRests DEF StrictIsClean, AccountsAreNoted, IntentsAreTried
  <2>6. StartTypeOK'
    BY <1>1, <2>2 DEF StartTypeOK
  <2> QED
    BY <1>2, <2>4, <2>5, <2>6 DEF StartInv
<1> QED
  BY <1>3, <1>4 DEF OpenClaims

LEMMA AccountsKeep ==
  ASSUME StartTypeOK, StartInv, LoadAccounts
  PROVE  StartTypeOK' /\ StartInv'
<1>1. /\ node.pc = "accounts" /\ UNCHANGED <<setup, disk, facts, starts, vouched, missed>>
      /\ FilesHold /\ StrictIsClean /\ NoneIsEarly /\ "accounts" \in Kinds /\ {"accounts", "torn"} \subseteq Failures
  BY DEF LoadAccounts, StartInv, Kinds, Failures
<1>2. FilesHold'
  BY <1>1, FilesRest
<1>3. CASE node' \in {Down("accounts"), Down("torn")}
  BY <1>1, <1>2, <1>3, DownKeeps DEF StartTypeOK, NoneIsEarly
<1>4. CASE /\ node' = [node EXCEPT !.pc = "recover", !.has["accounts"] = Loaded("accounts"),
                                   !.todo = IF Given("db") THEN disk.pending ELSE {}]
           /\ ~(Given("opDb") /\ disk.file["op"] = Torn)
  <2>1. PICK todo \in SUBSET Intent : todo = IF Given("db") THEN disk.pending ELSE {}
    BY StartParts
  <2>2. Loaded("accounts") \subseteq Nat
    BY <1>1, PathFacts, StartParts DEF Loaded
  <2>3. /\ node' \in Process /\ node'.pc = "recover" /\ node'.request = node.request /\ node'.todo = todo
        /\ node'.has = [node.has EXCEPT !["accounts"] = Loaded("accounts")]
    BY <1>1, <1>4, <2>1, <2>2 DEF StartTypeOK, Process, Steps
  <2>4. Known' = Known \cup {"accounts"} /\ node.pc \in Steps \ {"down", "recover", "up"}
    BY <1>1, <2>3 DEF Known, Steps, Kinds
  <2>5. PathOf("accounts") = IF Given("opDb") THEN "op" ELSE "none"
    BY <1>1, PathFacts
  <2>6. LoadedIsKept' /\ AnswersAreKept' /\ NoneIsEarly'
    BY <1>1, <1>2, <1>4, <2>3, <2>4, <2>5, LoadKeeps
  <2>7. AccountsAreNoted'
    <3>1. Given("opDb") => node'.has["accounts"] = disk.file["op"].rows
      BY <1>1, <2>3, <2>5, StartParts DEF Loaded
    <3> QED
      BY <1>1, <3>1, SetupRests DEF AccountsAreNoted
  <2>8. StrictIsClean' /\ IntentsAreTried'
    BY <1>1, <2>1, <2>3, SetupRests DEF StrictIsClean, IntentsAreTried
  <2>9. StartTypeOK'
    BY <1>1, <2>3 DEF StartTypeOK
  <2> QED
    BY <1>2, <2>6, <2>7, <2>8, <2>9 DEF StartInv
<1> QED
  BY <1>3, <1>4 DEF LoadAccounts

\* The files and the memory stay, and the request too.
LEMMA RestKeeps ==
  ASSUME StartTypeOK, StartInv, UNCHANGED <<setup, facts, vouched, missed>>, disk'.file = disk.file,
         node'.has = node.has, node'.request = node.request, node'.request = NoRequest \/ node'.pc = "up",
         node.pc \in {"recover", "up"}, node'.pc \in {"recover", "up"}
  PROVE  /\ FilesHold' /\ LoadedIsKept' /\ AnswersAreKept' /\ NoneIsEarly' /\ AccountsAreNoted'
         /\ StrictIsClean'
<1>1. /\ FilesHold /\ LoadedIsKept /\ AnswersAreKept /\ NoneIsEarly /\ AccountsAreNoted /\ StrictIsClean
  BY DEF StartInv
<1>2. Known = Kinds /\ Known' = Kinds
  BY DEF Known
<1>3. \A f : Durable(f)' = Durable(f)
  BY DEF Durable
<1>4. FilesHold'
  BY <1>1, <1>3 DEF FilesHold
<1>5. LoadedIsKept'
  BY <1>1, <1>2, <1>3, SetupRests DEF LoadedIsKept
<1>6. AnswersAreKept'
  BY <1>1, RequestFacts, SetupRests DEF AnswersAreKept
<1> QED
  BY <1>1, <1>4, <1>5, <1>6, SetupRests DEF NoneIsEarly, AccountsAreNoted, StrictIsClean

LEMMA IntentKeeps ==
  ASSUME StartTypeOK, StartInv, NEW i \in node.todo, RecoverIntent(i)
  PROVE  StartTypeOK' /\ StartInv'
<1>1. /\ node.pc = "recover" /\ UNCHANGED <<setup, facts, starts, vouched, missed>>
      /\ FilesHold /\ NoneIsEarly /\ AnswersAreKept /\ IntentsAreTried /\ "rail" \in Failures
      /\ node.request = NoRequest
  BY DEF RecoverIntent, StartInv, Failures, AnswersAreKept
<1>2. CASE node' = Down("rail") /\ UNCHANGED disk
  <2>1. FilesHold'
    BY <1>1, <1>2, FilesRest
  <2> QED
    BY <1>1, <1>2, <2>1, DownKeeps DEF StartTypeOK, NoneIsEarly
<1>3. CASE i.rail \in setup.rails /\ node' = [node EXCEPT !.todo = @ \ {i}]
  <2>1. /\ node' \in Process /\ node'.pc = "recover" /\ node'.has = node.has /\ node'.request = node.request
        /\ node'.todo = node.todo \ {i}
    BY <1>1, <1>3 DEF StartTypeOK, Process
  <2>2. disk' \in Disk /\ disk'.file = disk.file /\ disk'.pending \subseteq disk.pending
    <3>1. CASE UNCHANGED disk
      BY <3>1 DEF StartTypeOK
    <3>2. CASE disk' = [disk EXCEPT !.pending = @ \ {i}]
      BY <3>2 DEF StartTypeOK, Disk
    <3> QED
      BY <1>3, <3>1, <3>2 DEF RecoverIntent
  <2>3. /\ FilesHold' /\ LoadedIsKept' /\ AnswersAreKept' /\ NoneIsEarly' /\ AccountsAreNoted'
        /\ StrictIsClean'
    BY <1>1, <2>1, <2>2, RestKeeps
  <2>4. IntentsAreTried'
    BY <1>1, <1>3, <2>1, <2>2, SetupRests DEF IntentsAreTried
  <2>5. StartTypeOK'
    BY <1>1, <2>1, <2>2 DEF StartTypeOK
  <2> QED
    BY <2>3, <2>4, <2>5 DEF StartInv
<1> QED
  BY <1>2, <1>3 DEF RecoverIntent

LEMMA ServeKeeps ==
  ASSUME StartTypeOK, StartInv, Serve
  PROVE  StartTypeOK' /\ StartInv'
<1>1. /\ node.pc = "recover" /\ node.todo = {} /\ UNCHANGED <<setup, disk, facts, starts, vouched, missed>>
      /\ IntentsAreTried
  BY DEF Serve, StartInv
<1>2. /\ node' \in Process /\ node'.pc = "up" /\ node'.has = node.has /\ node'.request = node.request
      /\ node'.todo = {}
  BY <1>1 DEF Serve, StartTypeOK, Process, Steps
<1>3. /\ FilesHold' /\ LoadedIsKept' /\ AnswersAreKept' /\ NoneIsEarly' /\ AccountsAreNoted'
      /\ StrictIsClean'
  BY <1>1, <1>2, RestKeeps
<1>4. IntentsAreTried' /\ StartTypeOK'
  BY <1>1, <1>2, SetupRests DEF IntentsAreTried, StartTypeOK
<1> QED
  BY <1>3, <1>4 DEF StartInv

\* The clauses that a request does not touch, as long as it adds no intent.
LEMMA RequestRests ==
  ASSUME StartTypeOK, StartInv, UNCHANGED setup, node.pc = "up", node'.pc = "up", node'.todo = node.todo,
         disk'.pending = disk.pending
  PROVE  StrictIsClean' /\ IntentsAreTried'
  BY SetupRests DEF StartInv, StrictIsClean, IntentsAreTried

LEMMA AskKeeps ==
  ASSUME StartTypeOK, StartInv, NEW k \in Kinds, Ask(k)
  PROVE  StartTypeOK' /\ StartInv'
<1>1. /\ node.pc = "up" /\ node.request = NoRequest /\ facts' = facts + 1 /\ facts \in Nat
      /\ UNCHANGED <<setup, disk, starts, vouched, missed>>
      /\ FilesHold /\ LoadedIsKept /\ AnswersAreKept /\ NoneIsEarly /\ AccountsAreNoted
  BY StartParts DEF Ask, StartInv
<1>2. PICK h \in SUBSET Nat : h = IF PathOf(k) = "db" THEN node.has[k] ELSE node.has[k] \cup {facts'}
  <2>1. node.has[k] \subseteq Nat /\ facts' \in Nat
    BY <1>1, StartParts
  <2>2. node.has[k] \cup {facts'} \in SUBSET Nat
    BY <2>1
  <2> QED
    BY <2>1, <2>2
<1>3. PICK q \in Request : q = [of |-> k, step |-> "write"]
  BY DEF Request
<1>4. /\ node' \in Process /\ node'.pc = "up" /\ node'.todo = node.todo /\ node'.request = q
      /\ node'.has[k] = h /\ \A j \in Kinds \ {k} : node'.has[j] = node.has[j]
  <2>1. node' = [node EXCEPT !.request = q, !.has[k] = h]
    BY <1>2, <1>3 DEF Ask
  <2> QED
    BY <1>1, <2>1 DEF StartTypeOK, Process
<1>5. q.of = k /\ q.step = "write" /\ q # NoRequest /\ Known = Kinds /\ Known' = Kinds
  BY <1>1, <1>3, <1>4 DEF NoRequest, Known
<1>6. FilesHold'
  BY <1>1, FilesRest
<1>7. LoadedIsKept'
  <2>1. \A f : Durable(f)' = Durable(f)
    BY <1>1 DEF Durable
  <2>2. /\ \A j \in Kinds : node.has[j] \subseteq node'.has[j]
        /\ PathOf("exchanges") # "none" => node'.has["exchanges"] = node.has["exchanges"]
    BY <1>2, <1>4, PathFacts DEF Kinds
  <2> QED
    BY <1>1, <1>5, <2>1, <2>2, SetupRests DEF LoadedIsKept
<1>8. AnswersAreKept'
  BY <1>1, <1>2, <1>4, <1>5, SetupRests DEF AnswersAreKept
<1>9. NoneIsEarly'
  <2>1. \A f \in Files \cup {"none"} : \A n \in vouched[f] : n <= facts /\ n \in Nat
    BY <1>1, StartParts DEF NoneIsEarly
  <2> QED
    BY <1>1, <2>1 DEF NoneIsEarly
<1>10. AccountsAreNoted'
  <2>1. k # "accounts" => node'.has["accounts"] = node.has["accounts"]
    BY <1>4 DEF Kinds
  <2>2. k = "accounts" => node'.has["accounts"] \subseteq node.has["accounts"] \cup {facts'}
    BY <1>2, <1>4
  <2>3. Given("opDb") => node.has["accounts"] \subseteq disk.file["op"].rows \cup missed
    BY <1>1 DEF AccountsAreNoted, NoRequest
  <2> QED
    BY <1>1, <1>3, <1>4, <2>1, <2>2, <2>3, SetupRests DEF AccountsAreNoted
<1>11. StartTypeOK'
  BY <1>1, <1>4 DEF StartTypeOK
<1> QED
  BY <1>1, <1>4, <1>6, <1>7, <1>8, <1>9, <1>10, <1>11, RequestRests DEF StartInv

\* What is known of a request that writes, and of one that is to be answered.
LEMMA RequestIs ==
  ASSUME StartTypeOK, StartInv, node.request.step \in {"write", "answer"}
  PROVE  /\ node.pc = "up" /\ node.request # NoRequest /\ node.request.of \in Kinds
         /\ PathOf(node.request.of) \in Files \cup {"none"} /\ Known = Kinds
         /\ FilesHold /\ LoadedIsKept /\ AnswersAreKept /\ NoneIsEarly /\ AccountsAreNoted
         /\ node.request.step = "answer" \/ PathOf(node.request.of) # "db" => facts \in node.has[node.request.of]
  BY RequestFacts, PathFacts DEF StartInv, AnswersAreKept, Known

LEMMA WriteKeeps ==
  ASSUME StartTypeOK, StartInv, WriteRows
  PROVE  StartTypeOK' /\ StartInv'
<1>1. PICK k \in Kinds, p \in Files \cup {"none"} : k = node.request.of /\ p = PathOf(k)
  BY RequestIs DEF WriteRows
<1>2. /\ node.request.step = "write" /\ node.pc = "up" /\ node.request # NoRequest /\ Known = Kinds
      /\ FilesHold /\ LoadedIsKept /\ AnswersAreKept /\ NoneIsEarly /\ AccountsAreNoted
      /\ UNCHANGED <<setup, facts, starts, vouched>> /\ facts \in Nat
      /\ p # "db" => facts \in node.has[k]
      /\ node.request = [of |-> k, step |-> "write"]
  BY <1>1, RequestIs, RequestFacts, StartParts DEF WriteRows
<1>3. PICK h \in SUBSET Nat : h = IF p = "db" THEN node.has[k] \cup {facts} ELSE node.has[k]
  BY <1>1, <1>2, StartParts
<1>4. PICK q \in Request : q = [of |-> k, step |-> "answer"]
  BY DEF Request
<1>5. /\ node' \in Process /\ node'.pc = "up" /\ node'.todo = node.todo /\ node'.request = q
      /\ node'.has[k] = h /\ \A j \in Kinds \ {k} : node'.has[j] = node.has[j]
  <2>1. node' = [node EXCEPT !.request.step = "answer", !.has[k] = h]
    BY <1>1, <1>3 DEF WriteRows
  <2>2. [node.request EXCEPT !.step = "answer"] = q
    BY <1>2, <1>4
  <2>3. node' = [node EXCEPT !.request = q, !.has[k] = h]
    BY <2>1, <2>2
  <2> QED
    BY <1>2, <2>3 DEF StartTypeOK, Process
<1>6. q.of = k /\ q.step = "answer" /\ q # NoRequest /\ Known' = Kinds /\ facts \in h
  BY <1>2, <1>3, <1>4, <1>5 DEF NoRequest, Known
<1>7. /\ missed' \subseteq Nat /\ missed' = IF p = "op" THEN missed \ node.has[k] ELSE missed
  BY <1>1, StartParts DEF WriteRows
<1>8. \A j \in Kinds : PathOf(j)' = PathOf(j)
  BY <1>2, SetupRests
<1>9. NoneIsEarly'
  BY <1>2 DEF NoneIsEarly
<1>10. CASE p = "none"
  <2>1. UNCHANGED disk /\ missed' = missed /\ h = node.has[k]
    BY <1>1, <1>3, <1>7, <1>10 DEF WriteRows
  <2>2. \A j \in Kinds : node'.has[j] = node.has[j]
    BY <1>5, <2>1
  <2>3. \A f : Durable(f)' = Durable(f)
    BY <1>2, <2>1 DEF Durable
  <2>4. FilesHold'
    BY <1>2, <2>1, FilesRest
  <2>5. LoadedIsKept'
    BY <1>2, <1>6, <1>8, <2>1, <2>2, <2>3 DEF LoadedIsKept
  <2>6. AnswersAreKept'
    BY <1>1, <1>5, <1>6, <1>2, <1>8, <1>10 DEF AnswersAreKept
  <2>7. AccountsAreNoted'
    <3>1. k = "accounts" => ~Given("opDb")
      BY <1>1, <1>10, PathFacts
    <3>2. node.request = [of |-> "accounts", step |-> "write"] => k = "accounts"
      BY <1>1
    <3> QED
      BY <1>2, <1>5, <2>1, <2>2, <3>1, <3>2, SetupRests DEF AccountsAreNoted, Kinds
  <2>8. StrictIsClean' /\ IntentsAreTried'
    BY <1>2, <1>5, <2>1, RequestRests
  <2> QED
    BY <1>2, <1>5, <1>7, <1>9, <2>1, <2>4, <2>5, <2>6, <2>7, <2>8 DEF StartInv, StartTypeOK
<1>11. CASE p = "db"
  <2>1. PICK left \in {{}} \cup {{[of |-> facts, rail |-> r]} : r \in setup.rails} :
          disk' = [disk EXCEPT !.file["db"] = Rows(@.rows \cup {facts}), !.pending = @ \cup left]
    BY <1>1, <1>11 DEF WriteRows
  <2>2. PICK r \in SUBSET Nat : r = disk.file["db"].rows \cup {facts}
    BY <1>2, StartParts DEF Files
  <2>3. Rows(r) \in File /\ Rows(r).rows = r /\ Rows(r).is = "rows" /\ Rows(r) # Torn
    BY FileFacts
  <2>4. left \subseteq Intent /\ \A i \in left : i.rail \in setup.rails
    BY <1>2, StartParts DEF Intent
  <2>5. /\ disk' \in Disk /\ disk'.file["db"] = Rows(r) /\ disk'.pending = disk.pending \cup left
        /\ \A f \in Files \ {"db"} : disk'.file[f] = disk.file[f]
    BY <2>1, <2>2, <2>3, <2>4 DEF StartTypeOK, Disk, Files
  <2>6. k = "exchanges" /\ Given("db") /\ missed' = missed
    BY <1>1, <1>7, <1>11, PathFacts
  <2>7. \A f : Durable(f)' = Durable(f)
    BY <1>2, <2>6 DEF Durable
  <2>8. FilesHold'
    <3>1. Durable("db") \subseteq r
      BY <1>2, <2>2 DEF FilesHold, Files
    <3> QED
      BY <1>2, <2>3, <2>5, <2>7, <3>1 DEF FilesHold
  <2>9. h = r
    BY <1>1, <1>2, <1>3, <1>11, <2>2, <2>6 DEF LoadedIsKept
  <2>10. LoadedIsKept'
    <3>1. SUFFICES ASSUME NEW j \in Kinds, NEW o \in Files, o = PathOf(j)
                   PROVE  /\ disk'.file[o].rows \subseteq node'.has[j] /\ Durable(o)' \subseteq node'.has[j]
                          /\ j = "exchanges" => node'.has[j] = disk'.file["db"].rows
      BY <1>6, <1>8, PathFacts DEF LoadedIsKept, Durable
    <3>2. CASE j = k
      <4>1. Durable("db") \subseteq r
        BY <1>2, <2>2 DEF FilesHold, Files
      <4> QED
        BY <1>1, <1>5, <1>11, <2>3, <2>5, <2>7, <2>9, <3>1, <3>2, <4>1
    <3>3. CASE j # k
      <4>1. o # "db" /\ o # "none"
        BY <1>1, <1>11, <3>1, <3>3, PathFacts DEF Files
      <4> QED
        BY <1>2, <1>5, <2>5, <2>6, <2>7, <3>1, <3>3, <4>1 DEF LoadedIsKept
    <3> QED
      BY <3>2, <3>3
  <2>11. AnswersAreKept'
    BY <1>1, <1>5, <1>6, <1>2, <1>8, <1>11, <2>3, <2>5, <2>9 DEF AnswersAreKept
  <2>12. AccountsAreNoted'
    BY <1>2, <1>5, <2>5, <2>6, SetupRests DEF AccountsAreNoted, Kinds, Files
  <2>13. StrictIsClean' /\ IntentsAreTried'
    BY <1>2, <1>5, <2>4, <2>5, SetupRests DEF StartInv, StrictIsClean, IntentsAreTried
  <2> QED
    BY <1>2, <1>5, <1>7, <1>9, <2>5, <2>8, <2>10, <2>11, <2>12, <2>13 DEF StartInv, StartTypeOK
<1>12. CASE p \notin {"none", "db"}
  <2>1. p \in Files /\ h = node.has[k]
    BY <1>3, <1>12
  <2>2. Rows(h) \in File /\ Rows(h).rows = h /\ Rows(h).is = "rows" /\ Rows(h) # Torn
    BY FileFacts
  <2>3. disk' = [disk EXCEPT !.file[p] = Rows(h)]
    BY <1>1, <1>12, <2>1 DEF WriteRows
  <2>4. /\ disk' \in Disk /\ disk'.file[p] = Rows(h) /\ disk'.pending = disk.pending
        /\ \A f \in Files \ {p} : disk'.file[f] = disk.file[f]
    BY <2>1, <2>2, <2>3 DEF StartTypeOK, Disk
  <2>5. /\ Durable(p)' \subseteq h /\ \A f \in Files \ {p} : Durable(f)' = Durable(f)
    <3>1. Durable(p) \subseteq h
      BY <1>1, <1>2, <1>12, <2>1 DEF LoadedIsKept
    <3> QED
      BY <1>2, <1>7, <2>1, <3>1 DEF Durable
  <2>6. FilesHold'
    BY <1>2, <1>12, <2>2, <2>4, <2>5 DEF FilesHold
  <2>7. LoadedIsKept'
    <3>1. SUFFICES ASSUME NEW j \in Kinds, NEW o \in Files, o = PathOf(j)
                   PROVE  /\ disk'.file[o].rows \subseteq node'.has[j] /\ Durable(o)' \subseteq node'.has[j]
                          /\ j = "exchanges" => node'.has[j] = disk'.file["db"].rows
      BY <1>6, <1>8, PathFacts DEF LoadedIsKept, Durable
    <3>2. CASE j = k
      <4>1. k # "exchanges"
        BY <1>1, <1>12, PathFacts
      <4> QED
        BY <1>1, <1>5, <2>2, <2>4, <2>5, <3>1, <3>2, <4>1
    <3>3. CASE j # k
      <4>1. o # p /\ o # "none" /\ "db" \in Files
        BY <1>1, <3>1, <3>3, PathFacts DEF Files
      <4>2. /\ disk.file[o].rows \subseteq node.has[j] /\ Durable(o) \subseteq node.has[j]
            /\ j = "exchanges" => node.has[j] = disk.file["db"].rows
        BY <1>2, <3>1, <4>1 DEF LoadedIsKept
      <4> QED
        BY <1>5, <1>12, <2>4, <2>5, <3>1, <3>3, <4>1, <4>2
    <3> QED
      BY <3>2, <3>3
  <2>8. AnswersAreKept'
    BY <1>1, <1>5, <1>6, <1>2, <1>8, <2>2, <2>4 DEF AnswersAreKept
  <2>9. AccountsAreNoted'
    <3>1. CASE p = "op"
      <4>1. k = "accounts" /\ node'.has["accounts"] = disk'.file["op"].rows
        <5>1. k = "accounts"
          BY <1>1, <3>1, PathFacts
        <5>2. disk'.file["op"].rows = h
          BY <2>2, <2>4, <3>1
        <5> QED
          BY <1>5, <5>1, <5>2
      <4> QED
        BY <4>1 DEF AccountsAreNoted
    <3>2. CASE p # "op"
      <4>1. Given("opDb") => k # "accounts"
        BY <1>1, <3>2, PathFacts
      <4>2. missed' = missed /\ disk'.file["op"] = disk.file["op"]
        BY <1>7, <2>4, <3>2 DEF Files
      <4> QED
        BY <1>1, <1>2, <1>5, <4>1, <4>2, SetupRests DEF AccountsAreNoted, Kinds
    <3> QED
      BY <3>1, <3>2
  <2>10. StrictIsClean' /\ IntentsAreTried'
    BY <1>2, <1>5, <2>4, RequestRests
  <2> QED
    BY <1>2, <1>5, <1>7, <1>9, <2>4, <2>6, <2>7, <2>8, <2>9, <2>10 DEF StartInv, StartTypeOK
<1> QED
  BY <1>10, <1>11, <1>12

LEMMA FailKeeps ==
  ASSUME StartTypeOK, StartInv, RowsFail
  PROVE  StartTypeOK' /\ StartInv'
<1>1. PICK k \in Kinds, p \in Files : k = node.request.of /\ p = PathOf(k)
  BY RequestIs DEF RowsFail
<1>2. /\ node.request.step = "write" /\ node.pc = "up" /\ node.request # NoRequest /\ Known = Kinds
      /\ FilesHold /\ LoadedIsKept /\ AnswersAreKept /\ NoneIsEarly /\ AccountsAreNoted
      /\ UNCHANGED <<setup, facts, starts, vouched>> /\ facts \in Nat
      /\ p # "db" => facts \in node.has[k]
      /\ node.request = [of |-> k, step |-> "write"] /\ p # "none"
  BY <1>1, RequestIs, RequestFacts, StartParts DEF RowsFail, Files
<1>3. PICK q \in Request : q = IF p = "op" THEN [of |-> k, step |-> "answer"] ELSE NoRequest
  BY DEF Request
<1>4. /\ node' \in Process /\ node'.pc = "up" /\ node'.todo = node.todo /\ node'.request = q
      /\ node'.has = node.has
  <2>1. node' = [node EXCEPT !.request = q]
    <3>1. CASE p = "op"
      <4>1. [node.request EXCEPT !.step = "answer"] = q
        BY <1>2, <1>3, <3>1
      <4>2. node' = [node EXCEPT !.request.step = "answer"]
        BY <1>1, <3>1 DEF RowsFail
      <4> QED
        BY <4>1, <4>2
    <3>2. CASE p # "op"
      BY <1>1, <1>3, <3>2 DEF RowsFail
    <3> QED
      BY <3>1, <3>2
  <2> QED
    BY <1>2, <2>1 DEF StartTypeOK, Process
<1>5. CASE UNCHANGED disk /\ missed' = IF p = "op" THEN missed \cup {facts} ELSE missed
  <2>1. /\ missed \subseteq missed' /\ missed' \subseteq Nat
        /\ p = "op" => facts \in missed'
        /\ p # "op" => missed' = missed
    BY <1>2, <1>5, StartParts
  <2>2. FilesHold' /\ LoadedIsKept'
    <3>1. \A f : Durable(f)' \subseteq Durable(f)
      BY <1>2, <2>1 DEF Durable
    <3>2. FilesHold'
      BY <1>2, <1>5, <2>1, FilesRest
    <3>3. Known' = Kinds
      BY <1>4 DEF Known
    <3> QED
      BY <1>2, <1>4, <1>5, <3>1, <3>2, <3>3, SetupRests DEF LoadedIsKept
  <2>3. AnswersAreKept'
    BY <1>1, <1>2, <1>3, <1>4, <2>1, SetupRests DEF AnswersAreKept, NoRequest
  <2>4. NoneIsEarly'
    BY <1>2 DEF NoneIsEarly
  <2>5. AccountsAreNoted'
    <3>1. node.request = [of |-> "accounts", step |-> "write"] => k = "accounts"
      BY <1>1
    <3>2. Given("opDb") /\ k = "accounts" => p = "op"
      BY <1>1, PathFacts
    <3> QED
      BY <1>2, <1>4, <1>5, <2>1, <3>1, <3>2, SetupRests DEF AccountsAreNoted
  <2>6. StrictIsClean' /\ IntentsAreTried'
    BY <1>2, <1>4, <1>5, RequestRests
  <2> QED
    BY <1>2, <1>4, <1>5, <2>1, <2>2, <2>3, <2>4, <2>5, <2>6 DEF StartInv, StartTypeOK
<1>6. CASE /\ p # "db" /\ disk' = [disk EXCEPT !.file[p] = Torn]
           /\ missed' = IF p = "op" THEN missed \cup node.has[k] ELSE missed
  <2>1. /\ missed \subseteq missed' /\ missed' \subseteq Nat
        /\ p = "op" => node.has[k] \subseteq missed'
        /\ p # "op" => missed' = missed
    BY <1>2, <1>6, StartParts
  <2>2. Torn \in File /\ Torn.rows = {}
    BY FileFacts
  <2>3. /\ disk' \in Disk /\ disk'.file[p] = Torn /\ disk'.pending = disk.pending
        /\ \A f \in Files \ {p} : disk'.file[f] = disk.file[f]
    BY <1>6, <2>2 DEF StartTypeOK, Disk
  <2>4. FilesHold' /\ \A f : Durable(f)' \subseteq Durable(f)
    <3>1. \A f : Durable(f)' \subseteq Durable(f)
      BY <1>2, <2>1 DEF Durable
    <3> QED
      BY <1>2, <1>6, <2>1, <2>3, <3>1, FilesRest
  <2>5. LoadedIsKept'
    <3>1. Known' = Kinds /\ \A j \in Kinds : PathOf(j)' = PathOf(j)
      BY <1>2, <1>4, SetupRests DEF Known
    <3>2. SUFFICES ASSUME NEW j \in Kinds, NEW o \in Files, o = PathOf(j)
                   PROVE  /\ disk'.file[o].rows \subseteq node.has[j] /\ Durable(o)' \subseteq node.has[j]
                          /\ j = "exchanges" => node.has[j] = disk'.file["db"].rows
      BY <1>4, <3>1, PathFacts DEF LoadedIsKept, Durable
    <3>3. o # "none" /\ (o = p \/ disk'.file[o] = disk.file[o])
      BY <2>3 DEF Files
    <3>4. disk'.file["db"] = disk.file["db"]
      BY <1>6, <2>3 DEF Files
    <3>5. /\ disk.file[o].rows \subseteq node.has[j] /\ Durable(o) \subseteq node.has[j]
          /\ j = "exchanges" => node.has[j] = disk.file["db"].rows
      BY <1>2, <3>2, <3>3 DEF LoadedIsKept
    <3> QED
      BY <2>2, <2>3, <2>4, <3>3, <3>4, <3>5
  <2>6. AnswersAreKept'
    BY <1>1, <1>2, <1>3, <1>4, <1>6, <2>1, SetupRests DEF AnswersAreKept, NoRequest
  <2>7. NoneIsEarly'
    BY <1>2 DEF NoneIsEarly
  <2>8. AccountsAreNoted'
    <3>1. Given("opDb") /\ k = "accounts" => p = "op"
      BY <1>1, PathFacts
    <3>2. CASE p = "op"
      <4>1. k = "accounts"
        BY <1>1, <3>2, PathFacts
      <4> QED
        BY <1>4, <2>1, <3>2, <4>1 DEF AccountsAreNoted
    <3>3. CASE p # "op"
      <4>1. disk'.file["op"] = disk.file["op"] /\ missed' = missed
        BY <2>1, <2>3, <3>3 DEF Files
      <4>2. node.request = [of |-> "accounts", step |-> "write"] => k = "accounts"
        BY <1>1
      <4> QED
        BY <1>2, <1>4, <3>1, <3>3, <4>1, <4>2, SetupRests DEF AccountsAreNoted
    <3> QED
      BY <3>2, <3>3
  <2>9. StrictIsClean' /\ IntentsAreTried'
    BY <1>2, <1>4, <2>3, RequestRests
  <2> QED
    BY <1>2, <1>4, <2>1, <2>3, <2>4, <2>5, <2>6, <2>7, <2>8, <2>9 DEF StartInv, StartTypeOK
<1> QED
  BY <1>1, <1>5, <1>6 DEF RowsFail

LEMMA AnswerKeeps ==
  ASSUME StartTypeOK, StartInv, AnswerRequest
  PROVE  StartTypeOK' /\ StartInv'
<1>1. PICK k \in Kinds, p \in Files \cup {"none"} : k = node.request.of /\ p = PathOf(k)
  BY RequestIs DEF AnswerRequest
<1>2. /\ node.request.step = "answer" /\ node.pc = "up" /\ node.request # NoRequest /\ Known = Kinds
      /\ FilesHold /\ LoadedIsKept /\ AnswersAreKept /\ NoneIsEarly /\ AccountsAreNoted
      /\ UNCHANGED <<setup, disk, facts, starts, missed>> /\ facts \in Nat /\ facts \in node.has[k]
      /\ p # "none" => facts \in disk.file[p].rows \/ (p = "op" /\ facts \in missed)
  BY <1>1, RequestIs, StartParts DEF AnswerRequest, AnswersAreKept
<1>3. /\ node' \in Process /\ node'.pc = "up" /\ node'.todo = node.todo /\ node'.request = NoRequest
      /\ node'.has = node.has
  BY <1>2, RequestFacts DEF AnswerRequest, StartTypeOK, Process
<1>4. /\ vouched' \in [Files \cup {"none"} -> SUBSET Nat] /\ vouched'[p] = vouched[p] \cup {facts}
      /\ \A f \in (Files \cup {"none"}) \ {p} : vouched'[f] = vouched[f]
  <2>1. PICK v \in SUBSET Nat : v = vouched[p] \cup {facts}
    BY <1>2, StartParts
  <2>2. vouched' = [vouched EXCEPT ![p] = v]
    BY <1>1, <2>1 DEF AnswerRequest
  <2> QED
    BY <2>1, <2>2, StartParts
<1>5. /\ Durable(p)' \subseteq Durable(p) \cup {facts} /\ \A f \in Files \ {p} : Durable(f)' = Durable(f)
      /\ p = "op" /\ facts \in missed => Durable(p)' \subseteq Durable(p)
  BY <1>2, <1>4 DEF Durable
<1>6. FilesHold'
  <2>1. SUFFICES ASSUME NEW f \in Files PROVE disk.file[f] = Torn \/ Durable(f)' \subseteq disk.file[f].rows
    BY <1>2 DEF FilesHold
  <2>2. disk.file[f] = Torn \/ Durable(f) \subseteq disk.file[f].rows
    BY <1>2 DEF FilesHold
  <2>3. CASE f = p
    <3>1. facts \in disk.file[p].rows \/ (p = "op" /\ facts \in missed)
      BY <1>2, <2>3 DEF Files
    <3> QED
      BY <1>5, <2>2, <2>3, <3>1
  <2>4. CASE f # p
    BY <1>5, <2>2, <2>4
  <2> QED
    BY <2>3, <2>4
<1>7. LoadedIsKept'
  <2>1. Known' = Kinds /\ \A j \in Kinds : PathOf(j)' = PathOf(j)
    BY <1>2, <1>3, SetupRests DEF Known
  <2>2. SUFFICES ASSUME NEW j \in Kinds, NEW o \in Files, o = PathOf(j)
                 PROVE  /\ disk.file[o].rows \subseteq node.has[j] /\ Durable(o)' \subseteq node.has[j]
                        /\ j = "exchanges" => node.has[j] = disk.file["db"].rows
    BY <1>2, <1>3, <2>1, PathFacts DEF LoadedIsKept, Durable
  <2>3. o # "none" /\ (j # k => o # p)
    BY <1>1, <2>2, PathFacts DEF Files
  <2>4. /\ disk.file[o].rows \subseteq node.has[j] /\ Durable(o) \subseteq node.has[j]
        /\ j = "exchanges" => node.has[j] = disk.file["db"].rows
    BY <1>2, <2>2, <2>3 DEF LoadedIsKept
  <2>5. Durable(o)' \subseteq node.has[j]
    BY <1>1, <1>2, <1>5, <2>2, <2>3, <2>4
  <2> QED
    BY <2>4, <2>5
<1>8. AnswersAreKept' /\ AccountsAreNoted'
  <2>1. node.request # [of |-> "accounts", step |-> "write"]
    BY <1>2
  <2> QED
    BY <1>2, <1>3, <2>1, RequestFacts, SetupRests DEF AnswersAreKept, AccountsAreNoted
<1>9. NoneIsEarly'
  BY <1>2, <1>3, <1>4 DEF NoneIsEarly
<1>10. StrictIsClean' /\ IntentsAreTried'
  BY <1>2, <1>3, RequestRests
<1> QED
  BY <1>2, <1>3, <1>4, <1>6, <1>7, <1>8, <1>9, <1>10 DEF StartInv, StartTypeOK

LEMMA StartIdles ==
  ASSUME StartTypeOK, StartInv, UNCHANGED startVars
  PROVE  StartTypeOK' /\ StartInv'
<1>1. UNCHANGED <<setup, disk, node, facts, starts, vouched, missed>>
  BY DEF startVars
<1>2. StartTypeOK'
  BY <1>1 DEF StartTypeOK
<1>3. FilesHold' /\ LoadedIsKept' /\ AnswersAreKept'
  <2>1. \A f : Durable(f)' = Durable(f)
    BY <1>1 DEF Durable
  <2>2. FilesHold'
    BY <1>1, <2>1 DEF StartInv, FilesHold
  <2>3. LoadedIsKept'
    <3>1. Known' = Known /\ Known \subseteq Kinds
      BY <1>1 DEF Known, Kinds
    <3>2. \A k \in Kinds : PathOf(k)' = PathOf(k) /\ Durable(PathOf(k))' = Durable(PathOf(k))
      BY <1>1, SetupRests DEF Durable
    <3> QED
      BY <1>1, <3>1, <3>2 DEF StartInv, LoadedIsKept
  <2>4. AnswersAreKept'
    BY <1>1, SetupRests, RequestFacts DEF StartInv, AnswersAreKept
  <2> QED
    BY <2>2, <2>3, <2>4
<1>4. NoneIsEarly' /\ AccountsAreNoted' /\ StrictIsClean' /\ IntentsAreTried'
  BY <1>1, SetupRests DEF StartInv, NoneIsEarly, AccountsAreNoted, StrictIsClean, IntentsAreTried
<1> QED
  BY <1>2, <1>3, <1>4 DEF StartInv

\* create_app_from_config: for any environments, changes of them, ends, failing writes and
\* number of starts, a node that is up has what was told under its paths, has the rail of
\* every intent that is pending, and if it is strict and in production, has its accounts in
\* their file, but for those that a failed write kept from it.
THEOREM StartAlwaysSound == StartSpec => []StartIsSound
<1>1. StartInit => StartTypeOK /\ StartInv
  <2>1. SUFFICES ASSUME StartInit PROVE StartTypeOK /\ StartInv
    OBVIOUS
  <2>2. /\ setup = [on |-> {}, slot |-> "good", rails |-> {OwnRail}] /\ node = Down("no")
        /\ facts = 0 /\ starts = 0 /\ missed = {} /\ vouched = [f \in Files \cup {"none"} |-> {}]
    BY <2>1 DEF StartInit
  <2>3. PICK op \in {Absent, Rows({})} :
          disk = [file |-> [f \in Files |-> IF f = "op" THEN op ELSE Absent], pending |-> {}]
    BY <2>1 DEF StartInit
  <2>4. /\ op \in File /\ Absent \in File /\ op.rows = {} /\ Absent.rows = {} /\ Absent # Torn
        /\ op # Torn
    BY <2>3, FileFacts
  <2>5. disk \in Disk /\ \A f \in Files : disk.file[f] \in {op, Absent}
    BY <2>3, <2>4 DEF Disk
  <2>6. /\ node.pc = "down" /\ node.request = NoRequest /\ node.todo = {} /\ node \in Process
        /\ NoRequest.step = "none"
    BY <2>2 DEF Down, Process, Steps, Request, NoRequest, Failures
  <2>7. StartTypeOK
    BY <2>2, <2>5, <2>6 DEF StartTypeOK, Slots, RailIds
  <2>8. FilesHold
    BY <2>2, <2>4, <2>5 DEF FilesHold, Durable, Files
  <2>9. LoadedIsKept
    BY <2>6 DEF LoadedIsKept, Known
  <2> QED
    BY <2>2, <2>6, <2>7, <2>8, <2>9 DEF StartInv, AnswersAreKept, NoneIsEarly, AccountsAreNoted, StrictIsClean,
       IntentsAreTried
<1>2. StartTypeOK /\ StartInv /\ [StartNext]_startVars => StartTypeOK' /\ StartInv'
  BY ChangeKeeps, ValidateKeeps, StoresKeep, ClaimsKeep, AccountsKeep, IntentKeeps, ServeKeeps, AskKeeps,
     WriteKeeps, FailKeeps, AnswerKeeps, StartIdles DEF StartNext
<1>3. StartTypeOK /\ StartInv => StartIsSound
  <2>1. SUFFICES ASSUME StartTypeOK, StartInv, node.pc = "up"
                 PROVE  ToldSurvives /\ NoneIsStranded /\ StrictIsDurable
    BY DEF StartIsSound, ToldSurvives, NoneIsStranded, StrictIsDurable
  <2>2. Known = Kinds
    BY <2>1 DEF Known
  <2>3. ToldSurvives /\ NoneIsStranded
    BY <2>1, <2>2 DEF StartInv, LoadedIsKept, IntentsAreTried, ToldSurvives, NoneIsStranded
  <2>4. StrictIsDurable
    <3>1. SUFFICES ASSUME Given("strict"), Given("production"), NEW n \in node.has["accounts"],
                          n \in vouched["op"] \cup vouched["none"]
                   PROVE  n \in disk.file["op"].rows \cup missed
      BY DEF StrictIsDurable
    <3>2. Given("opDb")
      BY <2>1, <3>1 DEF StartInv, StrictIsClean, Errors
    <3>3. node.request # NoRequest => n # facts
      BY <2>1, <3>1 DEF StartInv, NoneIsEarly, Files
    <3>4. [of |-> "accounts", step |-> "write"] # NoRequest
      BY DEF NoRequest
    <3> QED
      BY <2>1, <3>2, <3>3, <3>4 DEF StartInv, AccountsAreNoted
  <2> QED
    BY <2>3, <2>4
<1> QED
  BY <1>1, <1>2, <1>3, PTL DEF StartSpec
---------------------------------------------------------------------------
(* The desk of the operators.                                              *)

\* Where the operations lead, and from where.
LEMMA LeadFacts ==
  ASSUME NEW op \in Asks
  PROVE  /\ Leads(op) \in State \ {"PROPOSED", "CONTRACTED"} /\ Direction(op) \in {"settled", "refunded"}
         /\ op \in Closing => Leads(op) \in TerminalStates
         /\ op = "escrow" => Leads(op) = "ESCROWED" /\ op \notin Closing
         /\ op = "expire" => Leads(op) = "EXPIRED_REFUNDED"
         /\ op = "dispute" <=> Leads(op) = "DISPUTED"
         /\ op \in Closing => Leads(op) \notin {"ESCROWED", "DISPUTED"}
  BY DEF Asks, Closing, Leads, Direction, State, TerminalStates

LEMMA TableFacts ==
  ASSUME NEW s \in State, NEW d \in State, CanTransition(s, d)
  PROVE  /\ s \notin TerminalStates
         /\ d = "ESCROWED" => s = "CONTRACTED"
         /\ s = "DISPUTED" => d \in {"SETTLED", "REJECTED"}
  BY DEF CanTransition, Transitions, State, TerminalStates

\* A thread at work, and the rows.
LEMMA AtWork ==
  ASSUME DeskTypeOK, NEW w \in DeskThread, desk[w].pc # "idle"
  PROVE  desk[w] \in Work
  BY DEF DeskTypeOK, NoWork

LEMMA WorkFacts ==
  ASSUME NEW d \in Work
  PROVE  /\ d.op \in Asks /\ d.deal \in Deals /\ d.copy \in Row /\ d.pc # "idle"
         /\ d.pc \in {"freeze", "capture", "move", "save", "ticket"}
  BY DEF Work

LEMMA RowFacts ==
  ASSUME NEW r \in Row
  PROVE  /\ r.state \in State /\ r.hold \in 0 .. MaxFreeze /\ r.intent \in {"none", "pending", "done"}
         /\ r.receipt \in {"none", "settled", "refunded"} /\ r.version \in Nat /\ r.overdue \in BOOLEAN
         /\ r.hold # 0 => r.hold \in Handle
         /\ \A to \in {"settled", "refunded"} :
              [r EXCEPT !.intent = "pending", !.action = to, !.version = @ + 1] \in Row
         /\ [r EXCEPT !.version = @ + 1] \in Row
         /\ \A to \in {"settled", "refunded"}, s \in State, b \in BOOLEAN :
              [r EXCEPT !.receipt = to, !.intent = "done", !.state = s, !.overdue = b] \in Row
         /\ \A op \in Asks, b \in BOOLEAN : [r EXCEPT !.state = Leads(op), !.version = @ + 1, !.overdue = b] \in Row
         /\ [r EXCEPT !.overdue = TRUE] \in Row
<1>1. /\ r.state \in State /\ r.hold \in 0 .. MaxFreeze /\ r.intent \in {"none", "pending", "done"}
      /\ r.receipt \in {"none", "settled", "refunded"} /\ r.version \in Nat /\ r.overdue \in BOOLEAN
  BY DEF Row
<1>2. r.hold # 0 => r.hold \in Handle
  BY <1>1, DeskAssumption DEF Handle
<1>3. r.version + 1 \in Nat
  BY <1>1
<1>4. \A to \in {"settled", "refunded"} :
        [r EXCEPT !.intent = "pending", !.action = to, !.version = @ + 1] \in Row
  BY <1>3 DEF Row
<1>7. [r EXCEPT !.version = @ + 1] \in Row
  BY <1>3 DEF Row
<1>8. \A to \in {"settled", "refunded"}, s \in State, b \in BOOLEAN :
        [r EXCEPT !.receipt = to, !.intent = "done", !.state = s, !.overdue = b] \in Row
  BY DEF Row
<1>5. ASSUME NEW op \in Asks, NEW b \in BOOLEAN
      PROVE  [r EXCEPT !.state = Leads(op), !.version = @ + 1, !.overdue = b] \in Row
  <2>1. Leads(op) \in State
    BY LeadFacts
  <2> QED
    BY <1>3, <2>1 DEF Row
<1>6. [r EXCEPT !.overdue = TRUE] \in Row
  BY DEF Row
<1> QED
  BY <1>1, <1>2, <1>4, <1>5, <1>6, <1>7, <1>8

LEMMA DeskFacts ==
  ASSUME DeskTypeOK
  PROVE  /\ \A e \in Deals : store[e] \in Row
         /\ \A h \in Handle : /\ holds[h] \in Hold /\ holds[h].deal \in 0 .. Deal
                              /\ holds[h].status \in {"none", "held", "settled", "refunded", "lost"}
         /\ DOMAIN store = Deals /\ DOMAIN holds = Handle /\ DOMAIN desk = DeskThread
         /\ \A w \in DeskThread : desk[w] \in {NoWork} \cup Work
         /\ NoWork.pc = "idle"
  BY DEF DeskTypeOK, Hold, NoWork

\* A thread takes up an operation, and it goes on with it.
LEMMA TakenIsWork ==
  ASSUME DeskTypeOK, NEW op \in Asks, NEW e \in Deals
  PROVE  [pc |-> FirstStep(op, store[e]), op |-> op, deal |-> e, copy |-> store[e]] \in Work
<1>1. store[e] \in Row
  BY DeskFacts
<1>2. FirstStep(op, store[e]) \in {"freeze", "capture", "save"}
  BY DEF FirstStep
<1> QED
  BY <1>1, <1>2 DEF Work

LEMMA WorkGoesOn ==
  ASSUME NEW d \in Work
  PROVE  /\ \A pc \in {"move", "save", "ticket"} : [d EXCEPT !.pc = pc] \in Work
         /\ \A r \in Row : [d EXCEPT !.pc = "move", !.copy = r] \in Work
         /\ \A h \in Handle : [d EXCEPT !.pc = "save", !.copy.hold = h] \in Work
         /\ \A to \in {"settled", "refunded"} :
              [d EXCEPT !.pc = "save", !.copy.receipt = to, !.copy.intent = "done"] \in Work
<1>1. \A pc \in {"move", "save", "ticket"} : [d EXCEPT !.pc = pc] \in Work
  BY DEF Work
<1>2. \A r \in Row : [d EXCEPT !.pc = "move", !.copy = r] \in Work
  BY DEF Work
<1>3. ASSUME NEW h \in Handle PROVE [d EXCEPT !.pc = "save", !.copy.hold = h] \in Work
  <2>1. [d.copy EXCEPT !.hold = h] \in Row
    <3>1. h \in 0 .. MaxFreeze
      BY DeskAssumption DEF Handle
    <3> QED
      BY <3>1 DEF Work, Row
  <2> QED
    BY <2>1 DEF Work
<1>4. ASSUME NEW to \in {"settled", "refunded"}
      PROVE  [d EXCEPT !.pc = "save", !.copy.receipt = to, !.copy.intent = "done"] \in Work
  <2>1. [d.copy EXCEPT !.receipt = to, !.intent = "done"] \in Row
    BY DEF Work, Row
  <2> QED
    BY <2>1 DEF Work
<1> QED
  BY <1>1, <1>2, <1>3, <1>4

\* A thread changes, and the others stay.
LEMMA DeskMoves ==
  ASSUME DeskTypeOK, NEW w \in DeskThread, NEW d \in {NoWork} \cup Work, desk' = [desk EXCEPT ![w] = d]
  PROVE  /\ desk' \in [DeskThread -> {NoWork} \cup Work]
         /\ desk'[w] = d /\ \A u \in DeskThread \ {w} : desk'[u] = desk[u]
  BY DEF DeskTypeOK

\* A row changes.
LEMMA StoreMoves ==
  ASSUME DeskTypeOK, NEW e \in Deals, NEW r \in Row, store' = [store EXCEPT ![e] = r]
  PROVE  /\ store' \in [Deals -> Row]
         /\ store'[e] = r /\ \A f \in Deals \ {e} : store'[f] = store[f]
  BY DEF DeskTypeOK

\* An operation raises.
LEMMA RaiseFacts ==
  ASSUME DeskTypeOK, NEW w \in DeskThread, Raise(w)
  PROVE  /\ desk' \in [DeskThread -> {NoWork} \cup Work] /\ desk'[w] = NoWork
         /\ \A u \in DeskThread \ {w} : desk'[u] = desk[u]
         /\ w = "user" => UNCHANGED <<queue, swept>>
         /\ w = "sweep" => queue' = <<>> /\ swept' = "raised"
         /\ queue' \in Seq([deal : Deals, row : Row]) /\ swept' \in {"no", "begun", "raised", "ok"}
<1>1. desk' = [desk EXCEPT ![w] = NoWork]
  BY DEF Raise
<1>2. /\ w = "user" => UNCHANGED <<queue, swept>>
      /\ w = "sweep" => queue' = <<>> /\ swept' = "raised"
  BY DEF Raise
<1>3. queue' \in Seq([deal : Deals, row : Row]) /\ swept' \in {"no", "begun", "raised", "ok"}
  <2>1. <<>> \in Seq([deal : Deals, row : Row])
    BY EmptySeq
  <2> QED
    BY <1>2, <2>1 DEF DeskTypeOK, DeskThread
<1> QED
  BY <1>1, <1>2, <1>3, DeskMoves

\* What every step keeps of the rows and the holds: a row that is saved is a new version,
\* with the hold that it had, and if it had an intent or a receipt it has one; a hold is
\* moved once and stays its exchange's.
RowsGo ==
  \A e \in Deals :
    \/ SameRow(store'[e], store[e])
    \/ /\ store'[e].version > store[e].version
       /\ store[e].hold # 0 => store'[e].hold = store[e].hold
       /\ Journalled(store[e]) => Journalled(store'[e])

HoldsGo ==
  \A h \in Handle : holds[h].status # "none" =>
    /\ holds'[h].deal = holds[h].deal
    /\ \/ holds'[h].status = holds[h].status
       \/ holds[h].status = "held" /\ holds'[h].status \in {"settled", "refunded"}

LEMMA TruthStays ==
  ASSUME DeskTypeOK, HoldsGo, NEW r \in Row, NEW e \in Deals, Truthful(r, e)
  PROVE  Truthful(r, e)'
<1>1. CASE r.hold = 0
  BY <1>1 DEF Truthful
<1>2. CASE r.hold # 0
  <2>1. r.hold \in Handle
    BY <1>2, RowFacts
  <2>2. holds[r.hold].status # "none"
    BY <1>2, <2>1 DEF Truthful
  <2>3. r.receipt # "held"
    BY RowFacts
  <2>4. /\ holds'[r.hold].deal = holds[r.hold].deal
        /\ \/ holds'[r.hold].status = holds[r.hold].status
           \/ holds[r.hold].status = "held" /\ holds'[r.hold].status \in {"settled", "refunded"}
    BY <2>1, <2>2 DEF HoldsGo
  <2> QED
    BY <1>2, <2>2, <2>3, <2>4 DEF Truthful
<1> QED
  BY <1>1, <1>2

\* An operation under way goes on while others work.
LEMMA UnderwayStays ==
  ASSUME DeskTypeOK, DeskTypeOK', RowsGo, HoldsGo, NEW d \in Work, Underway(d)
  PROVE  Underway(d)'
<1> DEFINE e == d.deal
           old == store[e]
           new == store'[e]
<1>1. e \in Deals /\ d.copy \in Row /\ d.copy.version \in Nat /\ d.op \in Asks
  BY WorkFacts, RowFacts
<1>2. old.version \in Nat /\ new.version \in Nat
  <2>1. old \in Row /\ new \in Row
    BY <1>1 DEF DeskTypeOK
  <2> QED
    BY <2>1, RowFacts
<1>3. \/ SameRow(new, old)
      \/ /\ new.version > old.version /\ (old.hold # 0 => new.hold = old.hold)
         /\ Journalled(old) => Journalled(new)
  BY <1>1 DEF RowsGo
<1>4. /\ d.copy.version <= new.version
      /\ d.copy.version = new.version => SameRow(new, old) /\ d.copy.version = old.version
      /\ old.hold # 0 => new.hold = old.hold
      /\ Journalled(old) => Journalled(new)
  <2>1. d.copy.version <= old.version
    BY DEF Underway
  <2> HIDE DEF e, old, new
  <2>2. CASE SameRow(new, old)
    BY <2>1, <2>2 DEF SameRow, Journalled
  <2>3. CASE /\ new.version > old.version /\ (old.hold # 0 => new.hold = old.hold)
             /\ Journalled(old) => Journalled(new)
    BY <1>1, <1>2, <2>1, <2>3
  <2> QED
    BY <1>3, <2>2, <2>3
<1>5. Truthful(d.copy, e) => Truthful(d.copy, e)'
  BY <1>1, TruthStays
<1>6. ASSUME d.copy.version = new.version, d.pc = "save"
      PROVE  Settles(d)' \/ Freezes(d)' \/ SameRow(d.copy, new)
  <2>1. SameRow(new, old) /\ d.copy.version = old.version
    BY <1>4, <1>6
  <2>2. Settles(d) \/ Freezes(d) \/ SameRow(d.copy, old)
    BY <1>6, <2>1 DEF Underway
  <2>3. d.copy.hold # 0 => d.copy.hold \in Handle
    BY <1>1, RowFacts
  <2>4. CASE Settles(d)
    <3>1. Settles(d)
      BY <2>4
    <3>2. d.copy.hold \in Handle /\ holds[d.copy.hold] = [deal |-> e, status |-> d.copy.receipt]
      BY <2>3, <3>1 DEF Settles
    <3>3. d.copy.receipt \in {"settled", "refunded"}
      BY <1>1, <3>1, RowFacts DEF Settles
    <3>4. holds'[d.copy.hold] = holds[d.copy.hold]
      <4>1. holds'[d.copy.hold].deal = e /\ holds'[d.copy.hold].status = d.copy.receipt
        BY <3>2, <3>3 DEF HoldsGo
      <4>2. holds'[d.copy.hold] \in Hold
        BY <3>2 DEF DeskTypeOK
      <4> QED
        BY <3>2, <4>1, <4>2 DEF Hold
    <3> QED
      BY <2>1, <3>1, <3>4 DEF Settles, SameRow
  <2>5. CASE Freezes(d)
    <3>1. d.copy.hold \in Handle /\ holds[d.copy.hold].status # "none" /\ holds[d.copy.hold].deal = e
      BY <2>3, <2>5 DEF Freezes
    <3>2. holds'[d.copy.hold].status # "none" /\ holds'[d.copy.hold].deal = e
      BY <3>1 DEF HoldsGo
    <3> QED
      BY <2>1, <2>5, <3>2 DEF Freezes, SameRow
  <2>6. CASE SameRow(d.copy, old)
    BY <2>1, <2>6 DEF SameRow
  <2> QED
    BY <2>2, <2>4, <2>5, <2>6
<1>7. d.pc \in {"capture", "move"} =>
        d.op \in Closing /\ Truthful(d.copy, e)' /\ d.copy.hold # 0 /\ d.copy.hold = new.hold
  BY <1>4, <1>5 DEF Underway
<1>8. d.pc = "freeze" => d.op = "escrow" /\ Truthful(d.copy, e)'
  BY <1>5 DEF Underway
<1>9. d.copy.version = new.version =>
        /\ d.copy.state = new.state
        /\ d.pc \in {"freeze", "capture", "move"} => SameRow(d.copy, new)
  BY <1>4 DEF Underway, SameRow
<1>10. /\ d.pc # "freeze" => CanTransition(d.copy.state, Leads(d.op))
       /\ d.pc = "move" => d.copy.intent = "pending" /\ Journalled(new)
  BY <1>4 DEF Underway
<1> QED
  BY <1>4, <1>6, <1>7, <1>8, <1>9, <1>10 DEF Underway

\* The money is in order after a step if it is for the row, the holds and the thread
\* that the step changed.
LEMMA MoneyGoes ==
  ASSUME DeskTypeOK, MoneyInv, DeskTypeOK', RowsGo, HoldsGo,
         \A e \in Deals, r \in Row : store'[e] = r /\ r # store[e] => Truthful(r, e)',
         \A h \in Handle : Noted(h)',
         \A w \in DeskThread, d \in Work : desk'[w] = d /\ d # desk[w] /\ d.pc # "ticket" => Underway(d)'
  PROVE  MoneyInv'
<1>1. ASSUME NEW e \in Deals PROVE Truthful(store[e], e)'
  <2>1. PICK r \in Row : r = store'[e]
    BY DEF DeskTypeOK
  <2>2. Truthful(r, e)'
    <3>1. CASE r = store[e]
      BY <3>1, TruthStays DEF MoneyInv
    <3>2. CASE r # store[e]
      BY <2>1, <3>2
    <3> QED
      BY <3>1, <3>2
  <2> QED
    BY <2>1, <2>2
<1>2. ASSUME NEW w \in DeskThread, desk'[w].pc \notin {"idle", "ticket"} PROVE Underway(desk[w])'
  <2>1. desk'[w] \in Work
    BY <1>2 DEF DeskTypeOK, NoWork
  <2>2. PICK d \in Work : d = desk'[w]
    BY <2>1
  <2>3. Underway(d)'
    <3>1. CASE d = desk[w]
      <4>1. Underway(d)
        BY <1>2, <2>2, <3>1 DEF MoneyInv
      <4> QED
        BY <4>1, UnderwayStays
    <3>2. CASE d # desk[w]
      BY <1>2, <2>2, <3>2
    <3> QED
      BY <3>1, <3>2
  <2> QED
    BY <2>2, <2>3
<1> QED
  BY <1>1, <1>2 DEF MoneyInv

\* What a step leaves alone: nothing of the money changes with rows and holds.
LEMMA MoneyRests ==
  ASSUME DeskTypeOK, MoneyInv, DeskTypeOK', UNCHANGED holds,
         \A e \in Deals : SameRow(store'[e], store[e]),
         \A w \in DeskThread, d \in Work : desk'[w] = d /\ d # desk[w] /\ d.pc # "ticket" => Underway(d)'
  PROVE  MoneyInv'
<1>1. RowsGo /\ HoldsGo
  BY DEF RowsGo, HoldsGo
<1>2. ASSUME NEW e \in Deals, NEW r \in Row, store'[e] = r PROVE Truthful(r, e)'
  <2>1. SameRow(r, store[e]) /\ Truthful(store[e], e)
    BY <1>2 DEF MoneyInv
  <2> QED
    BY <2>1 DEF Truthful, SameRow
<1>3. ASSUME NEW h \in Handle PROVE Noted(h)'
  <2>1. Noted(h) /\ holds'[h] = holds[h] /\ holds[h].deal \in 0 .. Deal
    BY DeskFacts DEF MoneyInv
  <2>2. holds[h].deal # 0 => SameRow(store'[holds[h].deal], store[holds[h].deal])
    BY <2>1, DeskAssumption DEF Deals
  <2> QED
    BY <2>1, <2>2 DEF Noted, SameRow, Journalled
<1> QED
  BY <1>1, <1>2, <1>3, MoneyGoes

\* The sweep's list is as it was.
LEMMA SweepStays ==
  ASSUME SweepInv, UNCHANGED <<queue, swept, due>>,
         \A e \in Deals : store[e].state = "EXPIRED_REFUNDED" => store'[e].state = "EXPIRED_REFUNDED",
         due \subseteq Deals,
         \/ desk'["sweep"] = desk["sweep"]
         \/ /\ desk["sweep"].pc # "idle" /\ desk'["sweep"].pc \notin {"idle", "ticket"}
            /\ desk'["sweep"].op = "expire" /\ desk'["sweep"].deal = desk["sweep"].deal
  PROVE  SweepInv'
<1>1. /\ desk["sweep"].pc # "idle" => desk'["sweep"].pc # "idle" /\ desk'["sweep"].deal = desk["sweep"].deal
      /\ desk["sweep"].pc = "idle" => desk'["sweep"].pc = "idle"
      /\ desk'["sweep"].pc # "idle" => desk'["sweep"].op = "expire" /\ desk'["sweep"].pc # "ticket"
  BY DEF SweepInv
<1>2. swept' \in {"begun", "ok"} => \A e \in due' :
        \/ store'[e].state = "EXPIRED_REFUNDED"
        \/ \E i \in DOMAIN queue' : queue'[i].deal = e
        \/ desk'["sweep"].pc # "idle" /\ desk'["sweep"].deal = e
  BY <1>1 DEF SweepInv
<1>3. \A i \in DOMAIN queue' : queue'[i].deal \in due' => Expires(queue'[i].row)
  BY DEF SweepInv
<1> QED
  BY <1>1, <1>2, <1>3 DEF SweepInv, Expires

\* A sweep that raises has no list.
LEMMA SweepRaises ==
  ASSUME queue' = <<>>, swept' = "raised", desk'["sweep"] = NoWork
  PROVE  SweepInv'
<1>1. DOMAIN queue' = {}
  OBVIOUS
<1> QED
  BY <1>1 DEF SweepInv, NoWork

\* Disputes end as decided, and no step but a dispute makes one.
LEMMA TicketStays ==
  ASSUME TicketInv, tickets' = tickets, process'.rebooted = process.rebooted,
         tickets.by \in [TicketId -> 0 .. Deal],
         desk["user"].pc = "ticket" => desk["user"].deal \in Deals,
         desk'["user"] = desk["user"] \/ (desk["user"].pc # "ticket" /\ desk'["user"].pc # "ticket"),
         \A e \in Deals :
           \/ store'[e].state = store[e].state
           \/ store[e].state = "DISPUTED" /\ store'[e].state \in {"SETTLED", "REJECTED"}
           \/ store[e].state \notin TerminalStates \cup {"DISPUTED"} /\ store'[e].state # "DISPUTED"
  PROVE  TicketInv'
<1>1. \A e \in Deals :
        /\ store[e].state \in {"DISPUTED", "SETTLED", "REJECTED"}
             => store'[e].state \in {"DISPUTED", "SETTLED", "REJECTED"}
        /\ store'[e].state = "DISPUTED" => store[e].state = "DISPUTED"
  BY DEF TerminalStates
<1>2. \A id \in TicketId : tickets.by[id] # 0 => tickets.by[id] \in Deals
  BY DeskAssumption DEF Deals
<1> QED
  BY <1>1, <1>2 DEF TicketInv, TicketsFollow

LEMMA UserIsWork ==
  ASSUME DeskTypeOK, DeskInv
  PROVE  /\ tickets.by \in [TicketId -> 0 .. Deal] /\ due \subseteq Deals
         /\ desk["user"].pc = "ticket" => desk["user"].deal \in Deals
         /\ desk["sweep"].pc # "idle" => desk["sweep"].op = "expire" /\ desk["sweep"].deal \in Deals
  BY AtWork, WorkFacts DEF DeskTypeOK, DeskInv, SweepInv, DeskThread

\* An operation raises, and nothing else changes.
LEMMA RaiseKeeps ==
  ASSUME DeskTypeOK, DeskInv, NEW w \in DeskThread, desk[w].pc # "ticket", Raise(w),
         UNCHANGED <<store, due, tickets, asked, process>>, holds' \in [Handle -> Hold], HoldsGo,
         \A h \in Handle : Noted(h)'
  PROVE  DeskTypeOK' /\ DeskInv'
<1>1. /\ desk'[w] = NoWork /\ \A u \in DeskThread \ {w} : desk'[u] = desk[u]
      /\ NoWork.pc = "idle"
  BY RaiseFacts DEF NoWork
<1>2. DeskTypeOK'
  BY RaiseFacts DEF DeskTypeOK
<1>3. MoneyInv'
  <2>1. RowsGo
    BY DEF RowsGo, SameRow
  <2>2. \A v \in DeskThread, d \in Work : desk'[v] = d => d = desk[v]
    BY <1>1, WorkFacts
  <2> QED
    BY <1>2, <2>1, <2>2, MoneyGoes DEF DeskInv
<1>4. SweepInv'
  <2>1. CASE w = "sweep"
    BY <1>1, <2>1, RaiseFacts, SweepRaises
  <2>2. CASE w = "user"
    <3>1. desk'["sweep"] = desk["sweep"] /\ UNCHANGED <<queue, swept>>
      BY <1>1, <2>2, RaiseFacts DEF DeskThread
    <3> QED
      BY <3>1, SweepStays, UserIsWork DEF DeskInv
  <2> QED
    BY <2>1, <2>2 DEF DeskThread
<1>5. TicketInv'
  <2>1. desk'["user"] = desk["user"] \/ (desk["user"].pc # "ticket" /\ desk'["user"].pc # "ticket")
    BY <1>1 DEF DeskThread
  <2> QED
    BY <2>1, TicketStays, UserIsWork DEF DeskInv
<1> QED
  BY <1>2, <1>3, <1>4, <1>5 DEF DeskInv

\* A thread takes up an operation on a row that allows it.
LEMMA TakeUnderway ==
  ASSUME DeskTypeOK, MoneyInv, NEW op \in Asks, NEW e \in Deals, NEW d \in Work, UNCHANGED store, UNCHANGED holds,
         d = [pc |-> FirstStep(op, store[e]), op |-> op, deal |-> e, copy |-> store[e]],
         op = "escrow" \/ CanTransition(store[e].state, Leads(op))
  PROVE  d.pc \notin {"idle", "ticket"} /\ d.op = op /\ d.deal = e /\ Underway(d)'
<1>1. d.op = op /\ d.deal = e /\ d.copy = store[e] /\ d.pc = FirstStep(op, store[e])
  OBVIOUS
<1>2. /\ d.pc = "freeze" <=> op = "escrow"
      /\ d.pc = "capture" => op \in Closing /\ store[e].hold # 0
      /\ d.pc \in {"freeze", "capture", "save"}
  BY <1>1 DEF FirstStep, Closing
<1>3. store[e] \in Row /\ store[e].version \in Nat /\ store[e].state \in State
  BY DeskFacts, RowFacts
<1>4. Truthful(store[e], e)
  BY DEF MoneyInv
<1>5. Truthful(d.copy, e)'
  <2>1. PICK r \in Row : r = store[e]
    BY <1>3
  <2>2. HoldsGo
    BY DEF HoldsGo
  <2>3. Truthful(r, e)'
    BY <1>4, <2>1, <2>2, TruthStays
  <2> QED
    BY <1>1, <2>1, <2>3
<1>6. op # "escrow" => CanTransition(d.copy.state, Leads(op))
  BY <1>1
<1> QED
  BY <1>1, <1>2, <1>3, <1>5, <1>6 DEF Underway, SameRow

\* A user's operation begins.
LEMMA BeginOpKeeps ==
  ASSUME DeskTypeOK, DeskInv, NEW op \in Asks, NEW e \in Deals, BeginOp(op, e), UNCHANGED process
  PROVE  DeskTypeOK' /\ DeskInv'
<1>0. /\ desk["user"].pc = "idle" /\ asked \in Nat /\ asked' = asked + 1
      /\ op = "escrow" \/ CanTransition(store[e].state, Leads(op))
      /\ UNCHANGED <<store, holds, queue, due, swept, tickets, process>>
      /\ DeskTypeOK /\ MoneyInv /\ SweepInv /\ TicketInv
  BY DEF BeginOp, Allows, DeskTypeOK, DeskInv
<1>1. PICK d \in Work : d = [pc |-> FirstStep(op, store[e]), op |-> op, deal |-> e, copy |-> store[e]]
  BY TakenIsWork
<1>2. desk' = [desk EXCEPT !["user"] = d]
  BY <1>1 DEF BeginOp, Take
<1>3. /\ desk' \in [DeskThread -> {NoWork} \cup Work]
      /\ desk'["user"] = d /\ desk'["sweep"] = desk["sweep"]
  BY <1>2, DeskMoves DEF DeskThread
<1>4. DeskTypeOK'
  BY <1>0, <1>3 DEF DeskTypeOK
<1>5. d.pc \notin {"idle", "ticket"} /\ Underway(d)'
  BY <1>0, <1>1, TakeUnderway
<1>6. MoneyInv'
  <2>1. \A w \in DeskThread, c \in Work : desk'[w] = c /\ c # desk[w] /\ c.pc # "ticket" => Underway(c)'
    BY <1>3, <1>5 DEF DeskThread
  <2>2. \A f \in Deals : SameRow(store'[f], store[f])
    BY <1>0 DEF SameRow
  <2> QED
    BY <1>0, <1>4, <2>1, <2>2, MoneyRests
<1>7. SweepInv'
  BY <1>0, <1>3, SweepStays, UserIsWork DEF DeskInv
<1>8. TicketInv'
  BY <1>0, <1>3, <1>5, TicketStays, UserIsWork DEF DeskInv
<1> QED
  BY <1>4, <1>6, <1>7, <1>8 DEF DeskInv

\* The rail makes a hold, and nobody is the worse for it.
LEMMA HoldKeeps ==
  ASSUME DeskTypeOK, MoneyInv, NEW h \in Handle, NEW e \in Deals, Holds(h, e), UNCHANGED store
  PROVE  /\ holds' \in [Handle -> Hold] /\ holds'[h].deal = e /\ holds'[h].status = "held"
         /\ HoldsGo /\ \A k \in Handle : Noted(k)'
<1>1. holds[h].status = "none" /\ holds' = [holds EXCEPT ![h] = [deal |-> e, status |-> "held"]]
  BY DEF Holds
<1>2. /\ holds' \in [Handle -> Hold] /\ holds'[h].deal = e /\ holds'[h].status = "held"
      /\ \A k \in Handle \ {h} : holds'[k] = holds[k]
  <2>1. [deal |-> e, status |-> "held"] \in Hold
    BY DeskAssumption DEF Hold, Deals
  <2> QED
    BY <1>1, <2>1 DEF DeskTypeOK
<1>3. HoldsGo
  BY <1>1, <1>2 DEF HoldsGo
<1>4. ASSUME NEW k \in Handle PROVE Noted(k)'
  <2>1. CASE k = h
    BY <1>2, <2>1 DEF Noted
  <2>2. CASE k # h
    <3>1. Noted(k) /\ holds'[k] = holds[k] /\ store' = store
      BY <1>2, <2>2 DEF MoneyInv
    <3> QED
      BY <3>1 DEF Noted
  <2> QED
    BY <2>1, <2>2
<1> QED
  BY <1>2, <1>3, <1>4

\* The rail moves the hold of an exchange that has the intent.
LEMMA MovedKeeps ==
  ASSUME DeskTypeOK, MoneyInv, NEW h \in Handle, NEW e \in Deals, NEW to \in {"settled", "refunded"},
         Moves(h, to), holds[h].status # "lost" => holds[h].deal = e, store[e].hold = h, Journalled(store[e])
  PROVE  /\ holds' \in [Handle -> Hold] /\ holds'[h] = [deal |-> e, status |-> to]
         /\ HoldsGo
         /\ \A k \in Handle \ {h} : holds'[k] = holds[k]
         /\ UNCHANGED store => \A k \in Handle : Noted(k)'
<1>1. holds[h].status \in {"held", to} /\ holds' = [holds EXCEPT ![h].status = to] /\ holds[h].deal = e
  BY DEF Moves, Movable
<1>2. /\ holds' \in [Handle -> Hold] /\ holds'[h] = [deal |-> e, status |-> to]
      /\ \A k \in Handle \ {h} : holds'[k] = holds[k]
  <2>1. holds[h] \in Hold
    BY DEF DeskTypeOK
  <2>2. [holds[h] EXCEPT !.status = to] = [deal |-> e, status |-> to] /\ [deal |-> e, status |-> to] \in Hold
    BY <1>1, <2>1 DEF Hold
  <2> QED
    BY <1>1, <2>2 DEF DeskTypeOK
<1>3. HoldsGo
  <2>1. /\ holds'[h].deal = holds[h].deal
        /\ holds'[h].status = holds[h].status \/ (holds[h].status = "held" /\ holds'[h].status \in {"settled", "refunded"})
    BY <1>1, <1>2
  <2> QED
    BY <1>2, <2>1 DEF HoldsGo
<1>4. ASSUME UNCHANGED store, NEW k \in Handle PROVE Noted(k)'
  <2>1. CASE k = h
    <3>1. e # 0
      BY DeskAssumption DEF Deals
    <3> QED
      BY <1>2, <1>4, <2>1, <3>1 DEF Noted
  <2>2. CASE k # h
    BY <1>2, <1>4, <2>2 DEF Noted, MoneyInv
  <2> QED
    BY <2>1, <2>2
<1> QED
  BY <1>2, <1>3, <1>4

\* An escrow has made its hold, and the table does not let it go on, or it does.
LEMMA FreezeKeeps ==
  ASSUME DeskTypeOK, DeskInv, NEW w \in DeskThread, Freeze(w), UNCHANGED <<asked, process>>
  PROVE  DeskTypeOK' /\ DeskInv'
<1>0. /\ desk[w].pc = "freeze" /\ UNCHANGED <<store, due, tickets, asked, process>>
      /\ MoneyInv /\ SweepInv /\ TicketInv
  BY DEF Freeze, DeskInv
<1>1. PICK d \in Work : d = desk[w]
  BY <1>0, AtWork
<1>2. d.op = "escrow" /\ d.deal \in Deals /\ d.copy \in Row /\ Underway(d) /\ Truthful(d.copy, d.deal)
  <2>1. Underway(d)
    BY <1>0, <1>1 DEF MoneyInv
  <2> QED
    BY <1>0, <1>1, <2>1, WorkFacts DEF Underway
<1>3. w = "user"
  BY <1>0, <1>1, <1>2 DEF SweepInv, DeskThread
<1>4. PICK h \in Handle :
        /\ Holds(h, d.deal)
        /\ IF CanTransition(d.copy.state, "ESCROWED")
           THEN /\ desk' = [desk EXCEPT ![w].pc = "save", ![w].copy.hold = h]
                /\ UNCHANGED <<queue, swept>>
           ELSE Raise(w)
  BY <1>1 DEF Freeze
<1>5. /\ holds' \in [Handle -> Hold] /\ holds'[h].deal = d.deal /\ holds'[h].status = "held"
      /\ HoldsGo /\ \A k \in Handle : Noted(k)'
  BY <1>0, <1>2, <1>4, HoldKeeps
<1>6. HoldsGo
  BY <1>5
<1>7. \A k \in Handle : Noted(k)'
  BY <1>5
<1>8. CASE ~CanTransition(d.copy.state, "ESCROWED")
  BY <1>0, <1>4, <1>5, <1>6, <1>7, <1>8, RaiseKeeps
<1>9. CASE CanTransition(d.copy.state, "ESCROWED")
  <2>1. PICK c \in Work : c = [d EXCEPT !.pc = "save", !.copy.hold = h]
    BY WorkGoesOn
  <2>2. desk' = [desk EXCEPT ![w] = c] /\ UNCHANGED <<queue, swept>>
    BY <1>1, <1>4, <1>9, <2>1 DEF DeskTypeOK
  <2>3. /\ desk' \in [DeskThread -> {NoWork} \cup Work]
        /\ desk'["user"] = c /\ desk'["sweep"] = desk["sweep"]
    BY <1>3, <2>2, DeskMoves DEF DeskThread
  <2>4. DeskTypeOK'
    BY <1>0, <1>5, <2>2, <2>3 DEF DeskTypeOK
  <2>5. /\ c.pc = "save" /\ c.op = "escrow" /\ c.deal = d.deal /\ c.copy.hold = h
        /\ c.copy.state = d.copy.state /\ c.copy.version = d.copy.version
        /\ c.copy.intent = d.copy.intent /\ c.copy.receipt = d.copy.receipt
    BY <1>2, <2>1 DEF Work, Row
  <2>6. d.copy.hold = 0 /\ d.copy.receipt = "none" /\ d.copy.intent # "pending"
    <3>1. d.copy.state \in State /\ "ESCROWED" \in State
      BY <1>2, RowFacts DEF State
    <3>2. d.copy.state = "CONTRACTED"
      BY <1>9, <3>1, TableFacts
    <3> QED
      BY <1>2, <3>2 DEF Truthful
  <2>7. Underway(c)'
    <3>1. Leads("escrow") = "ESCROWED"
      BY DEF Leads
    <3>2. d.copy.version <= store[d.deal].version
      BY <1>2 DEF Underway
    <3>3. d.copy.version = store[d.deal].version => SameRow(d.copy, store[d.deal])
      BY <1>0, <1>1, <1>2 DEF Underway
    <3>4. c.copy.version = store'[c.deal].version => Freezes(c)' /\ c.copy.state = store'[c.deal].state
      <4>1. h # 0
        BY DEF Handle
      <4> QED
        BY <1>0, <1>5, <2>5, <2>6, <3>3, <4>1 DEF Freezes, SameRow
    <3> QED
      BY <1>0, <1>9, <2>5, <2>6, <3>1, <3>2, <3>4 DEF Underway
  <2>8. MoneyInv'
    <3>1. \A v \in DeskThread, b \in Work : desk'[v] = b /\ b # desk[v] => b = c
      BY <2>3 DEF DeskThread
    <3>2. RowsGo
      BY <1>0 DEF RowsGo, SameRow
    <3> QED
      BY <1>0, <1>6, <1>7, <2>4, <2>7, <3>1, <3>2, MoneyGoes
  <2>9. SweepInv'
    BY <1>0, <2>2, <2>3, SweepStays, UserIsWork
  <2>10. TicketInv'
    BY <1>0, <1>3, <2>3, <2>5, TicketStays, UserIsWork
  <2> QED
    BY <2>4, <2>8, <2>9, <2>10 DEF DeskInv
<1> QED
  BY <1>8, <1>9

\* What is noted stays noted where the hold and its note stay.
LEMMA NotedStays ==
  ASSUME DeskTypeOK, MoneyInv, UNCHANGED holds, NEW e \in Deals,
         \A f \in Deals \ {e} : store'[f] = store[f],
         store[e].hold # 0 => store'[e].hold = store[e].hold,
         Journalled(store[e]) => Journalled(store'[e])
  PROVE  \A h \in Handle : Noted(h)'
<1>1. ASSUME NEW h \in Handle PROVE Noted(h)'
  <2>1. Noted(h) /\ holds'[h] = holds[h] /\ h # 0
    BY DEF MoneyInv, Handle
  <2>2. holds[h].deal # 0 => holds[h].deal \in Deals
    <3>1. holds[h].deal \in 0 .. Deal
      BY DeskFacts
    <3> QED
      BY <3>1, DeskAssumption DEF Deals
  <2>3. CASE holds[h].deal = e
    BY <2>1, <2>3 DEF Noted
  <2>4. CASE holds[h].deal # e
    BY <2>1, <2>2, <2>4 DEF Noted
  <2> QED
    BY <2>3, <2>4
<1> QED
  BY <1>1

LEMMA NotedRests ==
  ASSUME MoneyInv, UNCHANGED <<store, holds>>
  PROVE  \A h \in Handle : Noted(h)'
  BY DEF MoneyInv, Noted

\* The intent is saved before the money moves.
LEMMA CaptureKeeps ==
  ASSUME DeskTypeOK, DeskInv, NEW w \in DeskThread, Capture(w), UNCHANGED <<asked, process>>
  PROVE  DeskTypeOK' /\ DeskInv'
<1>0. /\ desk[w].pc = "capture" /\ UNCHANGED <<holds, due, tickets, asked, process>>
      /\ MoneyInv /\ SweepInv /\ TicketInv
  BY DEF Capture, DeskInv
<1>1. PICK d \in Work : d = desk[w]
  BY <1>0, AtWork
<1>2. /\ d.op \in Closing /\ d.op \in Asks /\ d.deal \in Deals /\ d.copy \in Row /\ Underway(d)
      /\ Truthful(d.copy, d.deal) /\ d.copy.hold # 0 /\ CanTransition(d.copy.state, Leads(d.op))
  <2>1. Underway(d)
    BY <1>0, <1>1 DEF MoneyInv
  <2> QED
    BY <1>0, <1>1, <2>1, WorkFacts DEF Underway
<1>3. HoldsGo /\ holds' \in [Handle -> Hold]
  BY <1>0 DEF HoldsGo, DeskTypeOK
<1>4. CASE store[d.deal].version # d.copy.version
  <2>1. Raise(w) /\ UNCHANGED store
    BY <1>1, <1>4 DEF Capture
  <2>2. \A h \in Handle : Noted(h)'
    BY <1>0, <2>1, NotedRests
  <2> QED
    BY <1>0, <1>3, <2>1, <2>2, RaiseKeeps
<1>5. CASE store[d.deal].version = d.copy.version
  <2>1. PICK row \in Row : row = [d.copy EXCEPT !.intent = "pending", !.action = Direction(d.op), !.version = @ + 1]
    BY <1>2, RowFacts, LeadFacts
  <2>2. PICK c \in Work : c = [d EXCEPT !.pc = "move", !.copy = row]
    BY WorkGoesOn
  <2>3. /\ store' = [store EXCEPT ![d.deal] = row]
        /\ desk' = [desk EXCEPT ![w] = c] /\ UNCHANGED <<queue, swept>>
    BY <1>1, <1>5, <2>1, <2>2 DEF Capture, DeskTypeOK
  <2>4. /\ desk' \in [DeskThread -> {NoWork} \cup Work] /\ desk'[w] = c
        /\ \A u \in DeskThread \ {w} : desk'[u] = desk[u]
        /\ store' \in [Deals -> Row] /\ store'[d.deal] = row
        /\ \A f \in Deals \ {d.deal} : store'[f] = store[f]
    BY <1>2, <2>3, DeskMoves, StoreMoves
  <2>5. DeskTypeOK'
    BY <1>0, <1>3, <2>3, <2>4 DEF DeskTypeOK
  <2>6. /\ row.state = d.copy.state /\ row.hold = d.copy.hold /\ row.receipt = d.copy.receipt
        /\ row.intent = "pending" /\ row.version = d.copy.version + 1
        /\ c.pc = "move" /\ c.op = d.op /\ c.deal = d.deal /\ c.copy = row
        /\ d.copy.version \in Nat
    BY <1>2, <2>1, <2>2 DEF Work, Row
  <2>7. SameRow(d.copy, store[d.deal])
    BY <1>0, <1>1, <1>2, <1>5 DEF Underway
  <2>8. RowsGo
    <3>1. row.version > store[d.deal].version /\ row.hold = store[d.deal].hold /\ Journalled(row)
      BY <1>5, <2>6, <2>7 DEF SameRow, Journalled
    <3> QED
      BY <2>4, <3>1 DEF RowsGo, SameRow
  <2>9. \A h \in Handle : Noted(h)'
    <3>1. store'[d.deal].hold = store[d.deal].hold /\ Journalled(store'[d.deal])
      BY <2>4, <2>6, <2>7 DEF SameRow, Journalled
    <3> QED
      BY <1>0, <1>2, <2>4, <3>1, NotedStays
  <2>10. Truthful(row, d.deal)'
    <3>1. Truthful(d.copy, d.deal)'
      <4>1. PICK r \in Row : r = d.copy
        BY <1>2
      <4> QED
        BY <1>2, <1>3, <4>1, TruthStays
    <3>2. d.copy.hold # 0
      BY <1>2
    <3> QED
      BY <2>6, <3>1, <3>2 DEF Truthful
  <2>11. Underway(c)'
    <3>1. row.version <= row.version /\ c.copy.version <= store'[c.deal].version
      BY <2>4, <2>6
    <3>2. SameRow(c.copy, store'[c.deal]) /\ Journalled(store'[c.deal])
      BY <2>4, <2>6 DEF SameRow, Journalled
    <3> QED
      BY <1>2, <2>4, <2>6, <2>10, <3>1, <3>2 DEF Underway, SameRow
  <2>12. MoneyInv'
    <3>1. \A v \in DeskThread, b \in Work : desk'[v] = b /\ b # desk[v] => b = c
      BY <2>4
    <3>2. \A f \in Deals, r \in Row : store'[f] = r /\ r # store[f] => r = row /\ f = d.deal
      BY <2>4
    <3> QED
      BY <1>0, <1>3, <2>5, <2>8, <2>9, <2>10, <2>11, <3>1, <3>2, MoneyGoes
  <2>13. \A f \in Deals : store'[f].state = store[f].state
    BY <2>4, <2>6, <2>7 DEF SameRow
  <2>14. SweepInv'
    <3>1. w = "sweep" => d.op = "expire"
      BY <1>0, <1>1 DEF SweepInv
    <3>2. \/ desk'["sweep"] = desk["sweep"]
          \/ /\ desk["sweep"].pc # "idle" /\ desk'["sweep"].pc \notin {"idle", "ticket"}
             /\ desk'["sweep"].op = "expire" /\ desk'["sweep"].deal = desk["sweep"].deal
      BY <1>0, <1>1, <2>4, <2>6, <3>1 DEF DeskThread
    <3> QED
      BY <1>0, <2>3, <2>13, <3>2, SweepStays, UserIsWork
  <2>15. TicketInv'
    <3>1. desk'["user"] = desk["user"] \/ (desk["user"].pc # "ticket" /\ desk'["user"].pc # "ticket")
      BY <1>0, <1>1, <2>4, <2>6 DEF DeskThread
    <3> QED
      BY <1>0, <2>13, <3>1, TicketStays, UserIsWork
  <2> QED
    BY <2>5, <2>12, <2>14, <2>15 DEF DeskInv
<1> QED
  BY <1>4, <1>5

\* The money moves, once and in one direction.
LEMMA MoveKeeps ==
  ASSUME DeskTypeOK, DeskInv, NEW w \in DeskThread, Move(w), UNCHANGED <<asked, process>>
  PROVE  DeskTypeOK' /\ DeskInv'
<1>0. /\ desk[w].pc = "move" /\ UNCHANGED <<store, due, tickets, asked, process>>
      /\ MoneyInv /\ SweepInv /\ TicketInv
  BY DEF Move, DeskInv
<1>1. PICK d \in Work : d = desk[w]
  BY <1>0, AtWork
<1>2. /\ d.op \in Closing /\ d.op \in Asks /\ d.deal \in Deals /\ d.copy \in Row /\ Underway(d)
      /\ Truthful(d.copy, d.deal) /\ d.copy.hold \in Handle /\ d.copy.hold # 0
      /\ CanTransition(d.copy.state, Leads(d.op))
      /\ d.copy.hold = store[d.deal].hold /\ d.copy.intent = "pending"
  <2>1. Underway(d)
    BY <1>0, <1>1 DEF MoneyInv
  <2>2. d.copy.hold # 0 /\ d.copy \in Row
    BY <1>0, <1>1, <2>1, WorkFacts DEF Underway
  <2>3. d.copy.hold \in Handle
    BY <2>2, RowFacts
  <2> QED
    BY <1>0, <1>1, <2>1, <2>2, <2>3, WorkFacts DEF Underway
<1>3. PICK to \in {"settled", "refunded"} : to = Direction(d.op)
  BY <1>2, LeadFacts
<1>4. PICK h \in Handle : h = d.copy.hold
  BY <1>2
<1>5. CASE ~Movable(h, to)
  <2>1. Raise(w) /\ UNCHANGED holds
    BY <1>1, <1>3, <1>4, <1>5 DEF Move
  <2>2. HoldsGo /\ holds' \in [Handle -> Hold]
    BY <2>1 DEF HoldsGo, DeskTypeOK
  <2>3. \A k \in Handle : Noted(k)'
    BY <1>0, <2>1, NotedRests
  <2> QED
    BY <1>0, <2>1, <2>2, <2>3, RaiseKeeps
<1>6. CASE Movable(h, to)
  <2>1. PICK c \in Work : c = [d EXCEPT !.pc = "save", !.copy.receipt = to, !.copy.intent = "done"]
    BY WorkGoesOn
  <2>2. /\ Moves(h, to)
        /\ desk' = [desk EXCEPT ![w] = c] /\ UNCHANGED <<queue, swept>>
    BY <1>1, <1>3, <1>4, <1>6, <2>1 DEF Move, DeskTypeOK
  <2>3. /\ desk' \in [DeskThread -> {NoWork} \cup Work] /\ desk'[w] = c
        /\ \A u \in DeskThread \ {w} : desk'[u] = desk[u]
    BY <2>2, DeskMoves
  <2>4. /\ holds' \in [Handle -> Hold] /\ holds'[h] = [deal |-> d.deal, status |-> to]
        /\ HoldsGo /\ \A k \in Handle : Noted(k)'
    <3>1. holds[h].status # "lost" => holds[h].deal = d.deal
      BY <1>2, <1>4 DEF Truthful
    <3>2. store[d.deal].hold = h /\ Journalled(store[d.deal])
      BY <1>0, <1>1, <1>2, <1>4 DEF Underway
    <3> QED
      BY <1>0, <1>2, <2>2, <3>1, <3>2, MovedKeeps
  <2>5. DeskTypeOK'
    BY <1>0, <2>2, <2>3, <2>4 DEF DeskTypeOK
  <2>6. HoldsGo
    BY <2>4
  <2>7. RowsGo
    BY <1>0 DEF RowsGo, SameRow
  <2>8. \A k \in Handle : Noted(k)'
    BY <2>4
  <2>9. /\ c.pc = "save" /\ c.op = d.op /\ c.deal = d.deal /\ c.copy.hold = h
        /\ c.copy.receipt = to /\ c.copy.intent = "done" /\ c.copy.state = d.copy.state
        /\ c.copy.version = d.copy.version
    BY <1>2, <1>4, <2>1 DEF Work, Row
  <2>10. Underway(c)'
    <3>1. d.copy.version <= store[d.deal].version
      BY <1>2 DEF Underway
    <3>2. d.copy.version = store[d.deal].version => d.copy.state = store[d.deal].state
      BY <1>2 DEF Underway
    <3>3. Settles(c)'
      BY <1>0, <1>2, <1>4, <2>4, <2>9 DEF Settles
    <3> QED
      BY <1>0, <1>2, <2>9, <3>1, <3>2, <3>3 DEF Underway
  <2>11. MoneyInv'
    <3>1. \A v \in DeskThread, b \in Work : desk'[v] = b /\ b # desk[v] => b = c
      BY <2>3
    <3> QED
      BY <1>0, <2>5, <2>6, <2>7, <2>8, <2>10, <3>1, MoneyGoes
  <2>12. SweepInv'
    <3>1. w = "sweep" => d.op = "expire"
      BY <1>0, <1>1 DEF SweepInv
    <3>2. \/ desk'["sweep"] = desk["sweep"]
          \/ /\ desk["sweep"].pc # "idle" /\ desk'["sweep"].pc \notin {"idle", "ticket"}
             /\ desk'["sweep"].op = "expire" /\ desk'["sweep"].deal = desk["sweep"].deal
      BY <1>0, <1>1, <2>3, <2>9, <3>1 DEF DeskThread
    <3> QED
      BY <1>0, <2>2, <3>2, SweepStays, UserIsWork
  <2>13. TicketInv'
    <3>1. desk'["user"] = desk["user"] \/ (desk["user"].pc # "ticket" /\ desk'["user"].pc # "ticket")
      BY <1>0, <1>1, <2>3, <2>9 DEF DeskThread
    <3> QED
      BY <1>0, <3>1, TicketStays, UserIsWork
  <2> QED
    BY <2>5, <2>11, <2>12, <2>13 DEF DeskInv
<1> QED
  BY <1>5, <1>6

\* The row in its new state, if nobody saved it in between.
LEMMA SaveKeeps ==
  ASSUME DeskTypeOK, DeskInv, NEW w \in DeskThread, Save(w), UNCHANGED <<asked, process>>
  PROVE  DeskTypeOK' /\ DeskInv'
<1>0. /\ desk[w].pc = "save" /\ UNCHANGED <<holds, due, tickets, asked, process>>
      /\ MoneyInv /\ SweepInv /\ TicketInv
  BY DEF Save, DeskInv
<1>1. PICK d \in Work : d = desk[w]
  BY <1>0, AtWork
<1>2. /\ d.op \in Asks /\ d.deal \in Deals /\ d.copy \in Row /\ Underway(d)
      /\ CanTransition(d.copy.state, Leads(d.op)) /\ d.copy.version \in Nat /\ d.copy.overdue \in BOOLEAN
  <2>1. Underway(d)
    BY <1>0, <1>1 DEF MoneyInv
  <2> QED
    BY <1>0, <1>1, <2>1, WorkFacts, RowFacts DEF Underway
<1>3. HoldsGo /\ holds' \in [Handle -> Hold]
  BY <1>0 DEF HoldsGo, DeskTypeOK
<1>4. CASE store[d.deal].version # d.copy.version
  <2>1. Raise(w) /\ UNCHANGED store
    BY <1>1, <1>4 DEF Save
  <2>2. \A h \in Handle : Noted(h)'
    BY <1>0, <2>1, NotedRests
  <2> QED
    BY <1>0, <1>3, <2>1, <2>2, RaiseKeeps
<1>5. CASE store[d.deal].version = d.copy.version
  <2>1. PICK row \in Row :
          row = [d.copy EXCEPT !.state = Leads(d.op), !.version = @ + 1, !.overdue = @ /\ d.op = "dispute"]
    <3>1. PICK b \in BOOLEAN : b = (d.copy.overdue /\ d.op = "dispute")
      OBVIOUS
    <3>2. [d.copy EXCEPT !.state = Leads(d.op), !.version = @ + 1, !.overdue = b] \in Row
      BY <1>2, RowFacts
    <3> QED
      BY <3>1, <3>2
  <2>2. PICK c \in {NoWork} \cup Work : c = IF d.op = "dispute" THEN [d EXCEPT !.pc = "ticket"] ELSE NoWork
    BY WorkGoesOn
  <2>3. /\ store' = [store EXCEPT ![d.deal] = row]
        /\ desk' = [desk EXCEPT ![w] = c] /\ UNCHANGED <<queue, swept>>
    BY <1>1, <1>5, <2>1, <2>2 DEF Save
  <2>4. /\ desk' \in [DeskThread -> {NoWork} \cup Work] /\ desk'[w] = c
        /\ \A u \in DeskThread \ {w} : desk'[u] = desk[u]
        /\ store' \in [Deals -> Row] /\ store'[d.deal] = row
        /\ \A f \in Deals \ {d.deal} : store'[f] = store[f]
    BY <1>2, <2>3, DeskMoves, StoreMoves
  <2>5. DeskTypeOK'
    BY <1>0, <1>3, <2>3, <2>4 DEF DeskTypeOK
  <2>6. /\ row.state = Leads(d.op) /\ row.hold = d.copy.hold /\ row.receipt = d.copy.receipt
        /\ row.intent = d.copy.intent /\ row.version = d.copy.version + 1
    BY <1>2, <2>1 DEF Row
  <2>7. /\ d.op = "dispute" => c.pc = "ticket" /\ c.deal = d.deal
        /\ d.op # "dispute" => c = NoWork /\ c.pc = "idle"
    BY <2>2 DEF NoWork, Work
  <2>8. /\ d.copy.state = store[d.deal].state
        /\ Settles(d) \/ Freezes(d) \/ SameRow(d.copy, store[d.deal])
    BY <1>0, <1>1, <1>2, <1>5 DEF Underway
  <2>9. /\ Leads(d.op) \in State \ {"PROPOSED", "CONTRACTED"} /\ store[d.deal].state \in State
        /\ CanTransition(store[d.deal].state, Leads(d.op))
        /\ store[d.deal].state \notin TerminalStates
        /\ store[d.deal].state = "DISPUTED" => Leads(d.op) \in {"SETTLED", "REJECTED"}
        /\ d.op # "dispute" => Leads(d.op) # "DISPUTED"
        /\ d.op = "dispute" => Leads(d.op) = "DISPUTED"
        /\ d.op = "expire" => Leads(d.op) = "EXPIRED_REFUNDED"
        /\ d.op \in Closing => Leads(d.op) \in TerminalStates
    <3>1. store[d.deal].state \in State
      BY <1>2, DeskFacts, RowFacts
    <3> QED
      BY <1>2, <2>8, <3>1, LeadFacts, TableFacts
  <2>10. /\ store[d.deal].hold # 0 => row.hold = store[d.deal].hold
         /\ Journalled(store[d.deal]) => Journalled(row)
         /\ Truthful(row, d.deal)
    <3>1. Truthful(store[d.deal], d.deal)
      BY <1>0, <1>2 DEF MoneyInv
    <3>2. CASE Settles(d)
      <4>1. row.receipt # "none" /\ row.intent = "done" /\ row.receipt \in {"none", "settled", "refunded"}
        BY <2>1, <2>6, <3>2, RowFacts DEF Settles
      <4>2. /\ row.hold # 0 /\ row.hold = store[d.deal].hold
            /\ holds[row.hold].deal = d.deal /\ holds[row.hold].status = row.receipt
        BY <2>6, <3>2 DEF Settles
      <4> QED
        BY <2>6, <2>9, <4>1, <4>2 DEF Truthful, Journalled
    <3>3. CASE Freezes(d)
      <4>1. store[d.deal].hold = 0 /\ row.receipt = "none" /\ row.intent = store[d.deal].intent
            /\ holds[row.hold].status # "none" /\ holds[row.hold].deal = d.deal /\ row.hold # 0
        BY <2>6, <3>3 DEF Freezes
      <4>2. store[d.deal].receipt = "none"
        BY <3>1, <4>1 DEF Truthful
      <4> QED
        BY <2>6, <2>9, <4>1, <4>2 DEF Truthful, Journalled
    <3>4. CASE SameRow(d.copy, store[d.deal])
      <4>1. row.receipt = store[d.deal].receipt /\ row.intent = store[d.deal].intent /\ row.hold = store[d.deal].hold
        BY <2>6, <3>4 DEF SameRow
      <4> QED
        BY <2>6, <2>9, <3>1, <4>1 DEF Truthful, Journalled
    <3> QED
      BY <2>8, <3>2, <3>3, <3>4
  <2>11. RowsGo
    <3>1. row.version > store[d.deal].version
      BY <1>2, <1>5, <2>6
    <3> QED
      BY <2>4, <2>10, <3>1 DEF RowsGo, SameRow
  <2>12. \A h \in Handle : Noted(h)'
    BY <1>0, <1>2, <2>4, <2>10, NotedStays
  <2>13. Truthful(row, d.deal)'
    BY <1>2, <1>3, <2>10, TruthStays
  <2>14. MoneyInv'
    <3>1. \A v \in DeskThread, b \in Work : desk'[v] = b /\ b # desk[v] => b.pc = "ticket"
      BY <2>4, <2>7, WorkFacts
    <3>2. \A f \in Deals, r \in Row : store'[f] = r /\ r # store[f] => r = row /\ f = d.deal
      BY <2>4
    <3> QED
      BY <1>0, <1>3, <2>5, <2>11, <2>12, <2>13, <3>1, <3>2, MoneyGoes
  <2>15. \A e \in Deals : store[e].state = "EXPIRED_REFUNDED" => store'[e].state = "EXPIRED_REFUNDED"
    BY <2>4, <2>9 DEF TerminalStates
  <2>16. SweepInv'
    <3>1. CASE w = "user"
      <4>1. desk'["sweep"] = desk["sweep"]
        BY <2>4, <3>1 DEF DeskThread
      <4> QED
        BY <1>0, <2>3, <2>15, <4>1, SweepStays, UserIsWork
    <3>2. CASE w = "sweep"
      <4>1. d.op = "expire" /\ swept = "begun" /\ desk["sweep"].deal = d.deal
        BY <1>0, <1>1, <3>2 DEF SweepInv
      <4>2. desk'["sweep"].pc = "idle" /\ store'[d.deal].state = "EXPIRED_REFUNDED"
        BY <2>4, <2>6, <2>7, <2>9, <3>2, <4>1
      <4>3. \A e \in due' : \/ store'[e].state = "EXPIRED_REFUNDED"
                            \/ \E i \in DOMAIN queue' : queue'[i].deal = e
        <5>1. \A e \in due : \/ store[e].state = "EXPIRED_REFUNDED"
                             \/ \E i \in DOMAIN queue : queue[i].deal = e
                             \/ e = d.deal
          BY <1>0, <4>1 DEF SweepInv
        <5> QED
          BY <1>0, <2>3, <2>15, <4>2, <5>1, UserIsWork
      <4>4. \A i \in DOMAIN queue' : queue'[i].deal \in due' => Expires(queue'[i].row)
        BY <1>0, <2>3 DEF SweepInv
      <4> QED
        BY <2>3, <4>1, <4>2, <4>3, <4>4 DEF SweepInv, Expires
    <3> QED
      BY <3>1, <3>2 DEF DeskThread
  <2>17. TicketInv'
    <3>1. w = "sweep" => d.op = "expire"
      BY <1>0, <1>1 DEF SweepInv
    <3>2. CASE d.op # "dispute"
      <4>1. desk'["user"] = desk["user"] \/ (desk["user"].pc # "ticket" /\ desk'["user"].pc # "ticket")
        BY <1>0, <1>1, <2>4, <2>7, <3>2 DEF DeskThread
      <4>2. \A e \in Deals :
              \/ store'[e].state = store[e].state
              \/ store[e].state = "DISPUTED" /\ store'[e].state \in {"SETTLED", "REJECTED"}
              \/ store[e].state \notin TerminalStates \cup {"DISPUTED"} /\ store'[e].state # "DISPUTED"
        BY <2>4, <2>6, <2>9, <3>2
      <4> QED
        BY <1>0, <4>1, <4>2, TicketStays, UserIsWork
    <3>3. CASE d.op = "dispute"
      <4>1. w = "user" /\ desk["user"].pc = "save"
        BY <1>0, <1>1, <3>1, <3>3 DEF DeskThread
      <4>2. desk'["user"].pc = "ticket" /\ desk'["user"].deal = d.deal
            /\ store'[d.deal].state = "DISPUTED"
        BY <2>4, <2>6, <2>7, <2>9, <3>3, <4>1
      <4> QED
        <5>1. \A id \in TicketId : tickets.by[id] # 0 => tickets.by[id] \in Deals
          BY UserIsWork, DeskAssumption DEF Deals
        <5>2. \A e \in Deals \ {d.deal} : store'[e].state = store[e].state
          BY <2>4
        <5>3. store[d.deal].state \notin {"DISPUTED", "SETTLED", "REJECTED"}
          BY <2>9, <3>3 DEF TerminalStates
        <5>4. UNCHANGED <<tickets, process>> /\ desk["user"].pc # "ticket"
          BY <1>0, <4>1
        <5>5. TicketsFollow'
          BY <1>0, <4>2, <5>1, <5>2, <5>3, <5>4 DEF TicketInv, TicketsFollow
        <5> QED
          BY <4>2, <5>5 DEF TicketInv
    <3> QED
      BY <3>2, <3>3
  <2> QED
    BY <2>5, <2>14, <2>16, <2>17 DEF DeskInv
<1> QED
  BY <1>4, <1>5

\* The ticket of a dispute is opened.
LEMMA OpenTicketKeeps ==
  ASSUME DeskTypeOK, DeskInv, OpenTicket, UNCHANGED <<asked, process>>
  PROVE  DeskTypeOK' /\ DeskInv'
<1>0. /\ desk["user"].pc = "ticket" /\ desk["user"].deal \in Deals
      /\ UNCHANGED <<store, holds, queue, due, swept, asked, process>>
      /\ MoneyInv /\ SweepInv /\ TicketInv
  BY UserIsWork DEF OpenTicket, DeskInv
<1>1. /\ desk' \in [DeskThread -> {NoWork} \cup Work]
      /\ desk'["user"] = NoWork /\ NoWork.pc = "idle" /\ desk'["sweep"] = desk["sweep"]
  BY DeskMoves DEF OpenTicket, DeskThread, NoWork
<1> DEFINE e == desk["user"].deal
<1>t. /\ tickets \in [of : [Deals -> 0 .. MaxTicket], by : [TicketId -> 0 .. Deal]]
      /\ \/ tickets.of[e] # 0 /\ tickets' = tickets
         \/ \E id \in TicketId :
              /\ tickets.of[e] = 0
              /\ tickets' = [of |-> [tickets.of EXCEPT ![e] = id], by |-> [tickets.by EXCEPT ![id] = e]]
  BY DEF OpenTicket, DeskTypeOK
<1>s. /\ tickets' \in [of : [Deals -> 0 .. MaxTicket], by : [TicketId -> 0 .. Deal]]
      /\ \/ tickets.of[e] # 0 /\ tickets' = tickets
         \/ \E id \in TicketId :
              /\ tickets.of[e] = 0 /\ tickets'.of[e] = id /\ tickets'.by[id] = e
              /\ \A f \in Deals \ {e} : tickets'.of[f] = tickets.of[f]
              /\ \A k \in TicketId \ {id} : tickets'.by[k] = tickets.by[k]
  <2>1. CASE tickets.of[e] # 0 /\ tickets' = tickets
    BY <1>t, <2>1
  <2>2. ASSUME NEW id \in TicketId, tickets.of[e] = 0,
               tickets' = [of |-> [tickets.of EXCEPT ![e] = id], by |-> [tickets.by EXCEPT ![id] = e]]
        PROVE  /\ tickets' \in [of : [Deals -> 0 .. MaxTicket], by : [TicketId -> 0 .. Deal]]
               /\ tickets'.of[e] = id /\ tickets'.by[id] = e
               /\ \A f \in Deals \ {e} : tickets'.of[f] = tickets.of[f]
               /\ \A k \in TicketId \ {id} : tickets'.by[k] = tickets.by[k]
    <3>1. e \in Deals /\ e \in 0 .. Deal /\ id \in 0 .. MaxTicket
      BY <1>0, DeskAssumption DEF Deals, TicketId
    <3> HIDE DEF e
    <3> QED
      BY <1>t, <2>2, <3>1
  <2> QED
    BY <1>t, <2>1, <2>2
<1>2. DeskTypeOK'
  BY <1>0, <1>1, <1>s DEF DeskTypeOK
<1>3. MoneyInv'
  <2>1. \A w \in DeskThread, d \in Work : desk'[w] = d => d = desk[w]
    BY <1>1, WorkFacts DEF DeskThread
  <2>2. \A f \in Deals : SameRow(store'[f], store[f])
    BY <1>0 DEF SameRow
  <2> QED
    BY <1>0, <1>2, <2>1, <2>2, MoneyRests
<1>4. SweepInv'
  BY <1>0, <1>1, SweepStays, UserIsWork
<1>5. TicketInv'
  <2>0. e \in Deals /\ e # 0 /\ \A id \in TicketId : id # 0
    BY <1>0, DeskAssumption DEF Deals, TicketId
  <2>a. \A f \in Deals : tickets.of[f] # 0 => tickets.of[f] \in TicketId
    BY <1>t, DeskAssumption DEF TicketId
  <2>b. \A id \in TicketId : tickets.by[id] # 0 => tickets.by[id] \in Deals
    BY <1>t, DeskAssumption DEF Deals
  <2>c. /\ store[e].state \in {"DISPUTED", "SETTLED", "REJECTED"}
        /\ \A id \in TicketId : tickets.by[id] # 0 =>
             /\ store[tickets.by[id]].state \in {"DISPUTED", "SETTLED", "REJECTED"}
             /\ tickets.of[tickets.by[id]] = id
        /\ \A f \in Deals : tickets.of[f] # 0 => tickets.by[tickets.of[f]] # 0
        /\ \A f \in Deals : store[f].state = "DISPUTED" => tickets.of[f] # 0 \/ process.rebooted \/ e = f
    BY <1>0 DEF TicketInv, TicketsFollow
  <2> HIDE DEF e
  <2>1. CASE tickets.of[e] # 0 /\ tickets' = tickets
    BY <1>0, <1>1, <2>c, <2>1 DEF TicketInv, TicketsFollow
  <2>2. ASSUME NEW id \in TicketId, tickets.of[e] = 0, tickets'.of[e] = id, tickets'.by[id] = e,
               \A f \in Deals \ {e} : tickets'.of[f] = tickets.of[f],
               \A k \in TicketId \ {id} : tickets'.by[k] = tickets.by[k]
        PROVE  TicketInv'
    <3>1. ASSUME NEW k \in TicketId, tickets'.by[k] # 0
          PROVE  /\ store[tickets'.by[k]].state \in {"DISPUTED", "SETTLED", "REJECTED"}
                 /\ tickets'.of[tickets'.by[k]] = k
      <4>1. CASE k = id
        BY <2>2, <2>c, <4>1
      <4>2. CASE k # id
        <5>1. tickets'.by[k] = tickets.by[k] /\ tickets.by[k] \in Deals
          BY <2>2, <2>b, <3>1, <4>2
        <5>2. tickets.by[k] # e
          BY <2>0, <2>2, <2>c, <3>1, <5>1
        <5> QED
          BY <2>2, <2>c, <3>1, <5>1, <5>2
      <4> QED
        BY <4>1, <4>2
    <3>2. ASSUME NEW f \in Deals, tickets'.of[f] # 0 PROVE tickets'.by[tickets'.of[f]] # 0
      <4>1. CASE f = e
        BY <2>0, <2>2, <4>1
      <4>2. CASE f # e
        <5>1. tickets'.of[f] = tickets.of[f] /\ tickets.of[f] \in TicketId /\ tickets.by[tickets.of[f]] # 0
          BY <2>2, <2>a, <2>c, <3>2, <4>2
        <5> QED
          BY <2>0, <2>2, <5>1
      <4> QED
        BY <4>1, <4>2
    <3>3. \A f \in Deals : store[f].state = "DISPUTED" => tickets'.of[f] # 0 \/ process.rebooted
      BY <2>0, <2>2, <2>c
    <3> QED
      BY <1>0, <1>1, <3>1, <3>2, <3>3 DEF TicketInv, TicketsFollow
  <2> QED
    BY <1>s, <2>1, <2>2
<1> QED
  BY <1>2, <1>3, <1>4, <1>5 DEF DeskInv

\* The list of a sweep is what the store has.
LEMMA ListFacts ==
  ASSUME DeskTypeOK, NEW list, list = [e \in Deals |-> [deal |-> e, row |-> store[e]]]
  PROVE  /\ list \in Seq([deal : Deals, row : Row])
         /\ DOMAIN list = Deals /\ \A e \in Deals : list[e].deal = e /\ list[e].row = store[e]
<1>1. /\ DOMAIN list = Deals /\ \A e \in Deals : list[e].deal = e /\ list[e].row = store[e]
      /\ \A e \in Deals : list[e] \in [deal : Deals, row : Row]
  BY DeskFacts
<1>2. list \in [1 .. Deal -> [deal : Deals, row : Row]] /\ Deal \in Nat
  BY <1>1, DeskAssumption DEF Deals
<1>3. PICK R : R = [deal : Deals, row : Row]
  OBVIOUS
<1>4. PICK n \in Nat : list \in [1 .. n -> R]
  BY <1>2, <1>3
<1>5. list \in Seq(R)
  BY <1>4
<1> QED
  BY <1>1, <1>3, <1>5

LEMMA BeginSweepKeeps ==
  ASSUME DeskTypeOK, DeskInv, BeginSweep, UNCHANGED <<asked, process>>
  PROVE  DeskTypeOK' /\ DeskInv'
<1>0. /\ swept' = "begun" /\ due' = {e \in Deals : Expires(store[e])}
      /\ UNCHANGED <<store, holds, desk, tickets, asked, process>>
      /\ swept = "no" /\ MoneyInv /\ SweepInv /\ TicketInv
  BY DEF BeginSweep, DeskInv
<1>1. /\ queue' \in Seq([deal : Deals, row : Row])
      /\ DOMAIN queue' = Deals /\ \A e \in Deals : queue'[e].deal = e /\ queue'[e].row = store[e]
  BY ListFacts DEF BeginSweep
<1>2. DeskTypeOK'
  BY <1>0, <1>1 DEF DeskTypeOK
<1>3. MoneyInv'
  <2>1. \A e \in Deals : SameRow(store'[e], store[e])
    BY <1>0 DEF SameRow
  <2> QED
    BY <1>0, <1>2, <2>1, MoneyRests
<1>4. SweepInv'
  <2>1. desk["sweep"].pc = "idle"
    BY <1>0 DEF SweepInv
  <2> QED
    BY <1>0, <1>1, <2>1 DEF SweepInv, Expires
<1>5. TicketInv'
  BY <1>0 DEF TicketInv, TicketsFollow
<1> QED
  BY <1>2, <1>3, <1>4, <1>5 DEF DeskInv

\* The first row of the list is passed over, is expired, or ends the sweep.
LEMMA SweepNextKeeps ==
  ASSUME DeskTypeOK, DeskInv, SweepNext, UNCHANGED <<asked, process>>
  PROVE  DeskTypeOK' /\ DeskInv'
<1>0. /\ desk["sweep"].pc = "idle" /\ queue # <<>>
      /\ UNCHANGED <<store, holds, due, tickets, asked, process>>
      /\ MoneyInv /\ SweepInv /\ TicketInv
      /\ queue \in Seq([deal : Deals, row : Row]) /\ due \subseteq Deals
  BY DEF SweepNext, DeskInv, DeskTypeOK
<1>1. PICK e \in Deals : e = Head(queue).deal
  <2>1. Head(queue) \in [deal : Deals, row : Row]
    BY <1>0, HeadTailProperties
  <2> QED
    BY <2>1
<1>2. /\ Tail(queue) \in Seq([deal : Deals, row : Row])
      /\ \A i \in DOMAIN Tail(queue) : i + 1 \in DOMAIN queue /\ Tail(queue)[i] = queue[i + 1]
      /\ \A i \in DOMAIN queue : i # 1 => i - 1 \in DOMAIN Tail(queue) /\ Tail(queue)[i - 1] = queue[i]
      /\ 1 \in DOMAIN queue /\ queue[1] = Head(queue)
  <2>1. /\ Tail(queue) \in Seq([deal : Deals, row : Row]) /\ Len(Tail(queue)) = Len(queue) - 1
        /\ \A i \in 1 .. Len(Tail(queue)) : Tail(queue)[i] = queue[i + 1]
        /\ Len(queue) \in Nat /\ Len(queue) # 0 /\ DOMAIN queue = 1 .. Len(queue)
        /\ DOMAIN Tail(queue) = 1 .. Len(Tail(queue)) /\ Head(queue) = queue[1]
    BY <1>0, HeadTailProperties, EmptySeq, LenProperties
  <2> DEFINE n == Len(queue)
             t == Tail(queue)
             m == Len(t)
  <2>2. /\ m = n - 1 /\ n \in Nat /\ n # 0 /\ DOMAIN queue = 1 .. n /\ DOMAIN t = 1 .. m
        /\ \A i \in 1 .. m : t[i] = queue[i + 1]
    BY <2>1
  <2> HIDE DEF n, t, m
  <2>3. \A i \in 1 .. m : i + 1 \in 1 .. n
    BY <2>2
  <2>4. \A i \in 1 .. n : i # 1 => i - 1 \in 1 .. m /\ t[i - 1] = queue[i]
    <3>1. ASSUME NEW i \in 1 .. n, i # 1 PROVE i - 1 \in 1 .. m /\ t[i - 1] = queue[i]
      <4>1. i - 1 \in 1 .. m /\ (i - 1) + 1 = i
        BY <2>2, <3>1
      <4> QED
        BY <2>2, <4>1
    <3> QED
      BY <3>1
  <2>5. 1 \in 1 .. n
    BY <2>2
  <2> QED
    BY <2>1, <2>2, <2>3, <2>4, <2>5 DEF t
<1>3. ASSUME NEW f \in due, store[f].state # "EXPIRED_REFUNDED", f # e \/ ~Expires(Head(queue).row), swept = "begun"
      PROVE  \E i \in DOMAIN Tail(queue) : Tail(queue)[i].deal = f
  <2>1. PICK i \in DOMAIN queue : queue[i].deal = f
    BY <1>0, <1>3 DEF SweepInv
  <2>2. Expires(queue[i].row)
    BY <1>0, <2>1 DEF SweepInv
  <2>3. i # 1
    BY <1>1, <1>2, <1>3, <2>1, <2>2
  <2> QED
    BY <1>2, <2>1, <2>3
<1>4. swept = "begun"
  BY <1>0 DEF SweepInv
<1>5. \A i \in DOMAIN Tail(queue) : Tail(queue)[i].deal \in due => Expires(Tail(queue)[i].row)
  BY <1>0, <1>2 DEF SweepInv
<1>6. CASE ~Expires(Head(queue).row)
  <2>1. queue' = Tail(queue) /\ UNCHANGED <<desk, swept>>
    BY <1>6 DEF SweepNext
  <2>2. DeskTypeOK'
    BY <1>0, <1>2, <2>1 DEF DeskTypeOK
  <2>3. MoneyInv'
    <3>1. \A f \in Deals : SameRow(store'[f], store[f])
      BY <1>0 DEF SameRow
    <3> QED
      BY <1>0, <2>1, <2>2, <3>1, MoneyRests
  <2>4. SweepInv'
    <3>1. \A i \in DOMAIN queue' : queue'[i].deal \in due' => Expires(queue'[i].row)
      BY <1>0, <1>5, <2>1
    <3>2. \A f \in due' : \/ store'[f].state = "EXPIRED_REFUNDED"
                          \/ \E i \in DOMAIN queue' : queue'[i].deal = f
      BY <1>0, <1>3, <1>4, <1>6, <2>1
    <3> QED
      BY <1>0, <1>4, <2>1, <3>1, <3>2 DEF SweepInv, Expires
  <2>5. TicketInv'
    BY <1>0, <2>1 DEF TicketInv, TicketsFollow
  <2> QED
    BY <2>2, <2>3, <2>4, <2>5 DEF DeskInv
<1>7. CASE Expires(Head(queue).row) /\ CanTransition(store[e].state, "EXPIRED_REFUNDED")
  <2>1. "expire" \in Asks /\ Leads("expire") = "EXPIRED_REFUNDED"
    BY DEF Asks, Closing, Leads
  <2>2. PICK d \in Work : d = [pc |-> FirstStep("expire", store[e]), op |-> "expire", deal |-> e, copy |-> store[e]]
    BY <2>1, TakenIsWork
  <2>3. desk' = [desk EXCEPT !["sweep"] = d] /\ queue' = Tail(queue) /\ swept' = swept
    BY <1>1, <1>7, <2>2 DEF SweepNext, Take
  <2>4. /\ desk' \in [DeskThread -> {NoWork} \cup Work]
        /\ desk'["sweep"] = d /\ desk'["user"] = desk["user"]
    BY <2>3, DeskMoves DEF DeskThread
  <2>5. d.pc \notin {"idle", "ticket"} /\ d.op = "expire" /\ d.deal = e /\ Underway(d)'
    BY <1>0, <1>7, <2>1, <2>2, TakeUnderway
  <2>6. DeskTypeOK'
    BY <1>0, <1>2, <2>3, <2>4 DEF DeskTypeOK
  <2>7. MoneyInv'
    <3>1. \A w \in DeskThread, c \in Work : desk'[w] = c /\ c # desk[w] => c = d
      BY <2>4 DEF DeskThread
    <3>2. \A f \in Deals : SameRow(store'[f], store[f])
      BY <1>0 DEF SameRow
    <3> QED
      BY <1>0, <2>5, <2>6, <3>1, <3>2, MoneyRests
  <2>8. SweepInv'
    <3>1. \A i \in DOMAIN queue' : queue'[i].deal \in due' => Expires(queue'[i].row)
      BY <1>0, <1>5, <2>3
    <3>2. \A f \in due' : \/ store'[f].state = "EXPIRED_REFUNDED"
                          \/ \E i \in DOMAIN queue' : queue'[i].deal = f
                          \/ f = e
      BY <1>0, <1>3, <1>4, <2>3
    <3> QED
      BY <1>4, <2>3, <2>4, <2>5, <3>1, <3>2 DEF SweepInv, Expires
  <2>9. TicketInv'
    BY <1>0, <2>4 DEF TicketInv, TicketsFollow
  <2> QED
    BY <2>6, <2>7, <2>8, <2>9 DEF DeskInv
<1>8. CASE Expires(Head(queue).row) /\ ~CanTransition(store[e].state, "EXPIRED_REFUNDED")
  <2>1. Raise("sweep")
    BY <1>1, <1>8 DEF SweepNext
  <2>2. HoldsGo /\ holds' \in [Handle -> Hold]
    BY <1>0 DEF HoldsGo, DeskTypeOK
  <2>3. \A h \in Handle : Noted(h)'
    BY <1>0, NotedRests
  <2> QED
    BY <1>0, <2>1, <2>2, <2>3, RaiseKeeps DEF DeskThread
<1> QED
  BY <1>6, <1>7, <1>8

\* The sweep returns.
LEMMA EndSweepKeeps ==
  ASSUME DeskTypeOK, DeskInv, EndSweep, UNCHANGED <<asked, process>>
  PROVE  DeskTypeOK' /\ DeskInv'
<1>0. /\ desk["sweep"].pc = "idle" /\ queue = <<>> /\ swept = "begun" /\ swept' = "ok"
      /\ UNCHANGED <<store, holds, desk, queue, due, tickets, asked, process>>
      /\ MoneyInv /\ SweepInv /\ TicketInv
  BY DEF EndSweep, DeskInv
<1>1. DeskTypeOK'
  BY <1>0 DEF DeskTypeOK
<1>2. MoneyInv'
  <2>1. \A e \in Deals : SameRow(store'[e], store[e])
    BY <1>0 DEF SameRow
  <2> QED
    BY <1>0, <1>1, <2>1, MoneyRests
<1>3. SweepInv'
  BY <1>0 DEF SweepInv, Expires
<1>4. TicketInv'
  BY <1>0 DEF TicketInv, TicketsFollow
<1> QED
  BY <1>1, <1>2, <1>3, <1>4 DEF DeskInv

\* A deadline passes, and no copy of the row is the worse for it.
LEMMA OverdueKeeps ==
  ASSUME DeskTypeOK, DeskInv, NEW e \in Deals, Overdue(e), UNCHANGED <<asked, process>>
  PROVE  DeskTypeOK' /\ DeskInv'
<1>0. /\ UNCHANGED <<holds, desk, queue, due, swept, tickets, asked, process>>
      /\ MoneyInv /\ SweepInv /\ TicketInv
  BY DEF Overdue, DeskInv
<1>1. PICK r \in Row : r = store[e]
  BY DeskFacts
<1>2. PICK s \in Row : s = [r EXCEPT !.overdue = TRUE]
  BY RowFacts
<1>3. SameRow(s, r)
  BY <1>2 DEF SameRow, Row
<1>4. store' = [store EXCEPT ![e] = s]
  BY <1>1, <1>2 DEF Overdue, DeskTypeOK
<1>5. store' \in [Deals -> Row] /\ store'[e] = s /\ \A f \in Deals \ {e} : store'[f] = store[f]
  BY <1>4, StoreMoves
<1>6. \A f \in Deals : SameRow(store'[f], store[f])
  BY <1>1, <1>3, <1>5 DEF SameRow
<1>7. DeskTypeOK'
  BY <1>0, <1>5 DEF DeskTypeOK
<1>8. MoneyInv'
  BY <1>0, <1>6, <1>7, MoneyRests
<1>9. \A f \in Deals : store'[f].state = store[f].state
  BY <1>6 DEF SameRow
<1>10. SweepInv'
  BY <1>0, <1>9, SweepStays, UserIsWork
<1>11. TicketInv'
  BY <1>0, <1>9, TicketStays, UserIsWork
<1> QED
  BY <1>7, <1>8, <1>10, <1>11 DEF DeskInv

\* No ticket is a ticket table.
LEMMA NoTicketFacts ==
  /\ NoTicket \in [of : [Deals -> 0 .. MaxTicket], by : [TicketId -> 0 .. Deal]]
  /\ \A e \in Deals : NoTicket.of[e] = 0
  /\ \A id \in TicketId : NoTicket.by[id] = 0
<1>1. 0 \in 0 .. MaxTicket /\ 0 \in 0 .. Deal
  BY DeskAssumption
<1> QED
  BY <1>1 DEF NoTicket

\* The process ends and starts: the rail forgets, unless it is a partner's, and the rows stay.
LEMMA RestartKeeps ==
  ASSUME DeskTypeOK, DeskInv, RestartDesk
  PROVE  DeskTypeOK' /\ DeskInv'
<1>0. /\ \/ holds' = holds
         \/ holds' = [h \in Handle |-> [deal |-> 0, status |-> IF holds[h].status = "none" THEN "none" ELSE "lost"]]
      /\ desk' = [w \in DeskThread |-> NoWork] /\ queue' = <<>> /\ tickets' = NoTicket
      /\ swept' = "no" /\ due' = {} /\ UNCHANGED <<store, asked>>
      /\ MoneyInv
  BY DEF RestartDesk, DeskInv
<1>1. /\ \A h \in Handle : holds'[h] = holds[h] \/ holds'[h].status = IF holds[h].status = "none" THEN "none" ELSE "lost"
      /\ holds' \in [Handle -> Hold]
  <2>1. CASE holds' = holds
    BY <2>1 DEF DeskTypeOK
  <2>2. CASE holds' = [h \in Handle |-> [deal |-> 0, status |-> IF holds[h].status = "none" THEN "none" ELSE "lost"]]
    BY <2>2, DeskAssumption DEF Hold, Deals
  <2> QED
    BY <1>0, <2>1, <2>2
<1>2. NoWork.pc = "idle" /\ \A w \in DeskThread : desk'[w] = NoWork
  BY <1>0 DEF NoWork
<1>p. process' \in [rebooted : BOOLEAN, partner : BOOLEAN, recovering : SUBSET Deals] /\ process'.rebooted
  <2>1. PICK some \in SUBSET Deals : some = {e \in Deals : store[e].intent = "pending"}
    OBVIOUS
  <2>2. process' = [process EXCEPT !.rebooted = TRUE, !.recovering = some]
    BY <2>1 DEF RestartDesk
  <2> QED
    BY <2>2 DEF DeskTypeOK
<1>3. DeskTypeOK'
  <2>1. <<>> \in Seq([deal : Deals, row : Row])
    BY EmptySeq
  <2>2. desk' \in [DeskThread -> {NoWork} \cup Work]
    BY <1>0
  <2> QED
    BY <1>0, <1>1, <1>p, <2>1, <2>2, NoTicketFacts DEF DeskTypeOK
<1>4. MoneyInv'
  <2>1. ASSUME NEW e \in Deals PROVE Truthful(store[e], e)'
    <3>1. PICK r \in Row : r = store[e]
      BY DeskFacts
    <3>2. Truthful(r, e) /\ (r.hold # 0 => r.hold \in Handle)
      BY <1>0, <3>1, RowFacts DEF MoneyInv
    <3>3. r.hold # 0 => holds'[r.hold] = holds[r.hold] \/ holds'[r.hold].status = "lost"
      BY <1>1, <3>2 DEF Truthful
    <3> QED
      BY <1>0, <3>1, <3>2, <3>3 DEF Truthful
  <2>2. ASSUME NEW h \in Handle PROVE Noted(h)'
    <3>1. Noted(h) /\ store' = store
      BY <1>0 DEF MoneyInv
    <3> QED
      BY <1>1, <3>1 DEF Noted
  <2> QED
    BY <1>2, <2>1, <2>2 DEF MoneyInv
<1>5. SweepInv'
  BY <1>0, <1>2 DEF SweepInv, DeskThread
<1>6. TicketInv'
  BY <1>0, <1>2, <1>p, NoTicketFacts DEF TicketInv, TicketsFollow, DeskThread
<1> QED
  BY <1>3, <1>4, <1>5, <1>6 DEF DeskInv

\* A partner does not answer, and the operation raises.
LEMMA UnansweredKeeps ==
  ASSUME DeskTypeOK, DeskInv, NEW w \in DeskThread, Unanswered(w), UNCHANGED <<asked, process>>
  PROVE  DeskTypeOK' /\ DeskInv'
<1>0. /\ desk[w].pc \in {"freeze", "move"} /\ Raise(w) /\ UNCHANGED <<store, due, tickets, asked, process>>
      /\ MoneyInv
  BY DEF Unanswered, DeskInv
<1>1. PICK d \in Work : d = desk[w]
  BY <1>0, AtWork
<1>2. /\ d.deal \in Deals /\ d.copy \in Row /\ Underway(d) /\ d.op \in Asks
      /\ Direction(d.op) \in {"settled", "refunded"}
  <2>1. Underway(d)
    BY <1>0, <1>1 DEF MoneyInv
  <2> QED
    BY <1>1, <2>1, WorkFacts, LeadFacts
<1>3. holds' \in [Handle -> Hold] /\ HoldsGo /\ \A h \in Handle : Noted(h)'
  <2>1. CASE UNCHANGED holds
    <3>1. HoldsGo /\ holds' \in [Handle -> Hold]
      BY <2>1 DEF HoldsGo, DeskTypeOK
    <3> QED
      BY <1>0, <2>1, <3>1, NotedRests
  <2>2. ASSUME NEW h \in Handle, Holds(h, d.deal)
        PROVE  holds' \in [Handle -> Hold] /\ HoldsGo /\ \A k \in Handle : Noted(k)'
    BY <1>0, <1>2, <2>2, HoldKeeps
  <2>3. ASSUME d.pc = "move", Moves(d.copy.hold, Direction(d.op))
        PROVE  holds' \in [Handle -> Hold] /\ HoldsGo /\ \A k \in Handle : Noted(k)'
    <3>1. /\ d.copy.hold # 0 /\ store[d.deal].hold = d.copy.hold /\ Journalled(store[d.deal])
          /\ Truthful(d.copy, d.deal)
      BY <1>2, <2>3 DEF Underway
    <3>2. PICK h \in Handle : h = d.copy.hold
      BY <1>2, <3>1, RowFacts
    <3>3. holds[h].status # "lost" => holds[h].deal = d.deal
      BY <3>1, <3>2 DEF Truthful
    <3>4. PICK to \in {"settled", "refunded"} : to = Direction(d.op)
      BY <1>2
    <3>5. Moves(h, to)
      BY <2>3, <3>2, <3>4
    <3> QED
      BY <1>0, <1>2, <3>1, <3>2, <3>3, <3>5, MovedKeeps
  <2> QED
    BY <1>1, <2>1, <2>2, <2>3 DEF Unanswered
<1> QED
  BY <1>0, <1>3, RaiseKeeps

\* An intent is replayed, with or without the rail's answer.
LEMMA RecoverKeeps ==
  ASSUME DeskTypeOK, DeskInv, NEW e \in Deals, RecoverDesk(e)
  PROVE  DeskTypeOK' /\ DeskInv'
<1>0. MoneyInv /\ SweepInv /\ TicketInv /\ UNCHANGED <<desk, queue, due, swept, tickets, asked>>
  BY DEF RecoverDesk, DeskInv
<1>1. PICK old \in Row : old = store[e]
  BY DeskFacts
<1>2. PICK row \in Row : row = [old EXCEPT !.version = @ + 1]
  BY RowFacts
<1>3. /\ row.state = old.state /\ row.hold = old.hold /\ row.intent = old.intent /\ row.receipt = old.receipt
      /\ row.version = old.version + 1 /\ old.version \in Nat /\ row.action = old.action
      /\ row.overdue = old.overdue /\ row.overdue \in BOOLEAN
  <2>1. old.version \in Nat /\ old.overdue \in BOOLEAN
    BY RowFacts
  <2>2. /\ row.state = old.state /\ row.hold = old.hold /\ row.intent = old.intent /\ row.receipt = old.receipt
        /\ row.version = old.version + 1 /\ row.action = old.action /\ row.overdue = old.overdue
    BY <1>2 DEF Row
  <2> QED
    BY <2>1, <2>2
<1>4. PICK to \in {"settled", "refunded"} : to = IF row.action = "settled" THEN "settled" ELSE "refunded"
  OBVIOUS
<1>5. PICK end \in {"SETTLED", "EXPIRED_REFUNDED"} : end = IF to = "settled" THEN "SETTLED" ELSE "EXPIRED_REFUNDED"
  OBVIOUS
<1>6. PICK ends \in BOOLEAN : ends = CanTransition(row.state, end)
  <2>1. CanTransition(row.state, end) \in BOOLEAN
    BY DEF CanTransition
  <2> QED
    BY <2>1, Zenon
<1>7. PICK last \in State : last = IF ends THEN end ELSE row.state
  BY <1>3, RowFacts DEF State
<1>8. PICK paid \in Row : paid = [row EXCEPT !.receipt = to, !.intent = "done", !.state = last, !.overdue = @ /\ ~ends]
  <2>1. PICK b \in BOOLEAN : b = (row.overdue /\ ~ends)
    OBVIOUS
  <2> QED
    BY <2>1, RowFacts
<1>9. /\ row.intent = "pending"
      /\ process' = [process EXCEPT !.recovering = @ \ {e}]
      /\ \/ Moves(row.hold, to) /\ store' = [store EXCEPT ![e] = paid]
         \/ (UNCHANGED holds \/ Moves(row.hold, to)) /\ store' = [store EXCEPT ![e] = row]
  <2>1. row.intent = "pending" /\ process' = [process EXCEPT !.recovering = @ \ {e}]
    BY <1>1, <1>2 DEF RecoverDesk
  <2>2. [row EXCEPT !.receipt = to, !.intent = "done",
                    !.state = IF CanTransition(row.state, end) THEN end ELSE @,
                    !.overdue = @ /\ ~CanTransition(row.state, end)] = paid
    BY <1>6, <1>7, <1>8
  <2>3. \/ Moves(row.hold, to) /\ store' = [store EXCEPT ![e] = paid]
        \/ (UNCHANGED holds \/ Moves(row.hold, to)) /\ store' = [store EXCEPT ![e] = row]
    BY <1>1, <1>2, <1>4, <1>5, <2>2 DEF RecoverDesk
  <2> QED
    BY <2>1, <2>3
<1>10. /\ paid.state = last /\ paid.hold = old.hold /\ paid.intent = "done" /\ paid.receipt = to
       /\ paid.version = old.version + 1
  BY <1>3, <1>8 DEF Row
<1>11. Truthful(old, e) /\ old.hold # 0 /\ old.intent = "pending"
  BY <1>0, <1>1, <1>3, <1>9 DEF MoneyInv, Truthful
<1>12. PICK h \in Handle : h = old.hold
  BY <1>11, RowFacts
<1>13. /\ holds[h].status # "lost" => holds[h].deal = e
       /\ store[e].hold = h /\ Journalled(store[e])
  BY <1>1, <1>11, <1>12 DEF Truthful, Journalled
<1>14. PICK new \in {row, paid} :
         /\ store' = [store EXCEPT ![e] = new]
         /\ UNCHANGED holds \/ Moves(h, to)
         /\ new = paid => Moves(h, to)
  BY <1>3, <1>9, <1>10, <1>12
<1>15. /\ store' \in [Deals -> Row] /\ store'[e] = new
       /\ \A f \in Deals \ {e} : store'[f] = store[f]
       /\ new \in Row /\ new.hold = old.hold /\ new.version = old.version + 1
       /\ Journalled(new)
       /\ new.state \in {row.state, last}
  BY <1>3, <1>10, <1>11, <1>14, StoreMoves DEF Journalled
<1>16. /\ holds' \in [Handle -> Hold] /\ HoldsGo
       /\ \A k \in Handle \ {h} : holds'[k] = holds[k]
       /\ Moves(h, to) => holds'[h] = [deal |-> e, status |-> to]
       /\ ~Moves(h, to) => UNCHANGED holds
  <2>1. CASE Moves(h, to)
    BY <1>0, <1>13, <2>1, MovedKeeps
  <2>2. CASE ~Moves(h, to)
    BY <1>14, <2>2 DEF HoldsGo, DeskTypeOK
  <2> QED
    BY <2>1, <2>2
<1>17. DeskTypeOK'
  <2>1. process' \in [rebooted : BOOLEAN, partner : BOOLEAN, recovering : SUBSET Deals]
    BY <1>9 DEF DeskTypeOK
  <2> QED
    BY <1>0, <1>15, <1>16, <2>1 DEF DeskTypeOK
<1>18. MoneyInv'
  <2>1. RowsGo
    <3>1. new.version > store[e].version /\ new.hold = store[e].hold
      BY <1>1, <1>3, <1>15
    <3> QED
      BY <1>15, <3>1 DEF RowsGo, SameRow
  <2>2. Truthful(new, e)'
    <3>1. Truthful(old, e)'
      BY <1>11, <1>16, TruthStays
    <3>2. CASE new = row
      BY <1>3, <3>1, <3>2 DEF Truthful
    <3>3. CASE new = paid
      <4>1. holds'[h] = [deal |-> e, status |-> to]
        BY <1>14, <1>16, <3>3
      <4>2. last = "CONTRACTED" => old.state = "CONTRACTED"
        BY <1>3, <1>7
      <4> QED
        BY <1>10, <1>11, <1>12, <3>1, <3>3, <4>1, <4>2 DEF Truthful
    <3> QED
      BY <3>2, <3>3
  <2>3. ASSUME NEW k \in Handle PROVE Noted(k)'
    <3>1. CASE k = h
      <4>1. holds'[h].status \in {"settled", "refunded"} => holds'[h].deal = e
        BY <1>13, <1>16
      <4>2. e # 0 /\ store'[e].hold = h /\ Journalled(store'[e])
        BY <1>12, <1>15, DeskAssumption DEF Deals
      <4> QED
        BY <3>1, <4>1, <4>2 DEF Noted
    <3>2. CASE k # h
      <4>1. Noted(k) /\ holds'[k] = holds[k] /\ holds[k].deal \in 0 .. Deal
        BY <1>0, <1>16, <3>2, DeskFacts DEF MoneyInv
      <4>2. CASE holds[k].deal = e
        BY <1>13, <3>2, <4>1, <4>2 DEF Noted
      <4>3. CASE holds[k].deal # e /\ holds[k].deal # 0
        <5>1. store'[holds[k].deal] = store[holds[k].deal]
          BY <1>15, <4>1, <4>3, DeskAssumption DEF Deals
        <5> QED
          BY <4>1, <5>1 DEF Noted
      <4>4. CASE holds[k].deal = 0
        BY <4>1, <4>4 DEF Noted
      <4> QED
        BY <4>2, <4>3, <4>4
    <3> QED
      BY <3>1, <3>2
  <2>4. \A f \in Deals, r \in Row : store'[f] = r /\ r # store[f] => Truthful(r, f)'
    BY <1>15, <2>2
  <2>5. \A w \in DeskThread, d \in Work : desk'[w] = d => d = desk[w]
    BY <1>0
  <2> QED
    BY <1>0, <1>16, <1>17, <2>1, <2>3, <2>4, <2>5, MoneyGoes
<1>19. \/ store'[e].state = store[e].state
       \/ store[e].state \notin TerminalStates /\ store'[e].state = end /\ CanTransition(store[e].state, end)
  <2>1. CASE last = old.state
    BY <1>1, <1>3, <1>15, <2>1
  <2>2. CASE last = end /\ ends
    <3>1. old.state \in State /\ end \in State /\ CanTransition(old.state, end)
      BY <1>3, <1>6, <2>2, RowFacts DEF State
    <3>2. old.state \notin TerminalStates
      BY <3>1, TableFacts
    <3> QED
      BY <1>1, <1>3, <1>15, <2>2, <3>1, <3>2
  <2> QED
    BY <1>3, <1>7, <2>1, <2>2
<1>20. SweepInv'
  <2>1. \A f \in Deals : store[f].state = "EXPIRED_REFUNDED" => store'[f].state = "EXPIRED_REFUNDED"
    BY <1>15, <1>19 DEF TerminalStates
  <2> QED
    BY <1>0, <2>1, SweepStays, UserIsWork
<1>21. TicketInv'
  <2>1. store[e].state \in State /\ end \in State
    BY <1>1, RowFacts DEF State
  <2>2. \A f \in Deals :
          \/ store'[f].state = store[f].state
          \/ store[f].state = "DISPUTED" /\ store'[f].state \in {"SETTLED", "REJECTED"}
          \/ store[f].state \notin TerminalStates \cup {"DISPUTED"} /\ store'[f].state # "DISPUTED"
    BY <1>15, <1>19, <2>1, TableFacts
  <2>3. process'.rebooted = process.rebooted
    BY <1>9 DEF DeskTypeOK
  <2> QED
    BY <1>0, <2>2, <2>3, TicketStays, UserIsWork
<1> QED
  BY <1>17, <1>18, <1>20, <1>21 DEF DeskInv

\* The first state.
LEMMA DeskBegins ==
  ASSUME DeskInit
  PROVE  DeskTypeOK /\ DeskInv
<1>0. /\ desk = [w \in DeskThread |-> NoWork] /\ queue = <<>> /\ due = {} /\ swept = "no"
      /\ tickets = NoTicket /\ asked = 0 /\ NoWork.pc = "idle"
      /\ process \in [rebooted : BOOLEAN, partner : BOOLEAN, recovering : SUBSET Deals]
  BY DEF DeskInit, NoWork
<1>1. /\ Deal \in Nat /\ MaxFreeze \in Nat /\ MaxFreeze >= Deal
      /\ Deals \subseteq Handle /\ 0 \notin Handle /\ 0 \notin Deals
  BY DeskAssumption DEF Deals, Handle
<1>2. ASSUME NEW e \in Deals
      PROVE  /\ store[e] \in Row /\ store[e].receipt = "none" /\ store[e].intent = "none"
             /\ store[e].state \in {"CONTRACTED", "VERIFIED"}
             /\ store[e].hold = IF store[e].state = "CONTRACTED" THEN 0 ELSE e
  <2>1. store[e] \in [state : {"CONTRACTED", "VERIFIED"}, hold : 0 .. Deal, intent : {"none"},
                      action : {"none"}, receipt : {"none"}, version : {0}, overdue : {FALSE}]
    BY DEF DeskInit
  <2>2. 0 .. Deal \subseteq 0 .. MaxFreeze
    BY <1>1
  <2>3. store[e] \in Row
    <3>1. /\ store[e].state \in State /\ store[e].hold \in 0 .. MaxFreeze /\ store[e].intent = "none"
          /\ store[e].receipt = "none" /\ store[e].version = 0 /\ store[e].overdue = FALSE
          /\ store[e].action = "none"
      BY <2>1, <2>2 DEF State
    <3>2. store[e] = [state |-> store[e].state, hold |-> store[e].hold, intent |-> "none",
                      action |-> "none", receipt |-> "none", version |-> 0, overdue |-> FALSE]
      BY <2>1
    <3>3. \A a \in State, b \in 0 .. MaxFreeze :
            [state |-> a, hold |-> b, intent |-> "none", action |-> "none", receipt |-> "none",
             version |-> 0, overdue |-> FALSE] \in Row
      BY DEF Row
    <3> QED
      BY <3>1, <3>2, <3>3
  <2> QED
    BY <2>1, <2>3 DEF DeskInit
<1>3. ASSUME NEW h \in Handle
      PROVE  /\ h \in Deals /\ store[h].hold = h => holds[h] = [deal |-> h, status |-> "held"]
             /\ holds[h].status \in {"held", "none"} /\ holds[h] \in Hold
  <2>1. holds[h] = IF h \in Deals /\ store[h].hold = h
                   THEN [deal |-> h, status |-> "held"] ELSE [deal |-> 0, status |-> "none"]
    BY DEF DeskInit
  <2>2. 0 \in 0 .. Deal /\ (h \in Deals => h \in 0 .. Deal)
    BY <1>1 DEF Deals
  <2>3. CASE h \in Deals /\ store[h].hold = h
    BY <2>1, <2>2, <2>3 DEF Hold
  <2>4. CASE ~(h \in Deals /\ store[h].hold = h)
    BY <2>1, <2>2, <2>4 DEF Hold
  <2> QED
    BY <2>3, <2>4
<1>4. DeskTypeOK
  <2>1. store \in [Deals -> Row]
    BY <1>2 DEF DeskInit
  <2>2. holds \in [Handle -> Hold]
    BY <1>3 DEF DeskInit
  <2>3. <<>> \in Seq([deal : Deals, row : Row])
    BY EmptySeq
  <2> QED
    BY <1>0, <2>1, <2>2, <2>3, NoTicketFacts DEF DeskTypeOK
<1>5. MoneyInv
  <2>1. ASSUME NEW e \in Deals PROVE Truthful(store[e], e)
    <3>1. e \in Handle /\ e # 0
      BY <1>1
    <3>2. store[e].hold = e => holds[e] = [deal |-> e, status |-> "held"]
      BY <1>3, <3>1
    <3>3. store[e].hold = e => holds[e].status = "held" /\ holds[e].deal = e
      BY <3>2
    <3>4. CASE store[e].state = "CONTRACTED"
      BY <1>2, <3>4 DEF Truthful
    <3>5. CASE store[e].state = "VERIFIED"
      <4>1. store[e].hold = e
        BY <1>2, <3>5
      <4> QED
        BY <1>2, <3>1, <3>3, <3>5, <4>1 DEF Truthful
    <3> QED
      BY <1>2, <3>4, <3>5
  <2>2. \A h \in Handle : Noted(h)
    BY <1>3 DEF Noted
  <2> QED
    BY <1>0, <2>1, <2>2 DEF MoneyInv
<1>6. SweepInv
  BY <1>0 DEF SweepInv, DeskThread
<1>7. TicketInv
  BY <1>0, <1>2, NoTicketFacts DEF TicketInv, TicketsFollow, DeskThread
<1> QED
  BY <1>4, <1>5, <1>6, <1>7 DEF DeskInv

\* The export has every hold once, as it is.
LEMMA ExportIsRight ==
  ASSUME DeskTypeOK, MoneyInv
  PROVE  ExportAgrees
<1> SUFFICES ASSUME NEW h \in Handle, holds[h].status \notin {"none", "lost"}, process.partner => Receipted(h)
             PROVE  {r \in ReconcileRows : r.handle = h} =
                      {[deal |-> holds[h].deal, handle |-> h, status |-> holds[h].status]}
  BY DEF ExportAgrees
<1> DEFINE it == [deal |-> holds[h].deal, handle |-> h, status |-> holds[h].status]
<1>1. h # 0 /\ holds[h].status \in {"held", "settled", "refunded"}
  BY DeskFacts DEF Handle
<1>2. ASSUME NEW e \in Deals, store[e].receipt # "none", store[e].hold = h
      PROVE  holds[h].deal = e /\ holds[h].status = store[e].receipt
  BY <1>1, <1>2 DEF MoneyInv, Truthful
<1>3. \A r \in ReceiptRows : r.handle = h => r = it
  <2>1. ASSUME NEW r \in ReceiptRows, r.handle = h PROVE r = it
    <3>1. PICK e \in Deals : store[e].receipt # "none"
                             /\ r = [deal |-> e, handle |-> store[e].hold, status |-> store[e].receipt]
      BY DEF ReceiptRows
    <3> QED
      BY <1>2, <2>1, <3>1
  <2> QED
    BY <2>1
<1>4. \A r \in HoldRows : r.handle = h => r = it /\ ~Receipted(h)
  <2>1. ASSUME NEW r \in HoldRows, r.handle = h PROVE r = it /\ ~Receipted(h)
    <3>1. PICK k \in Handle : ~Receipted(k) /\ r = [deal |-> holds[k].deal, handle |-> k, status |-> holds[k].status]
      BY DEF HoldRows
    <3>2. k = h
      BY <2>1, <3>1
    <3> QED
      BY <3>1, <3>2
  <2> QED
    BY <2>1
<1>5. it \in ReconcileRows /\ it.handle = h
  <2>1. CASE Receipted(h)
    <3>1. PICK r \in ReceiptRows : r.handle = h
      BY <2>1 DEF Receipted
    <3> QED
      BY <1>3, <3>1 DEF ReconcileRows
  <2>2. CASE ~Receipted(h)
    <3>1. it \in HoldRows
      BY <1>1, <2>2 DEF HoldRows
    <3> QED
      BY <3>1 DEF ReconcileRows
  <2> QED
    BY <2>1, <2>2
<1>6. \A r \in ReconcileRows : r.handle = h => r = it
  BY <1>3, <1>4 DEF ReconcileRows
<1> QED
  BY <1>5, <1>6

\* reconcile.py, rb04.py, dispute_tickets.py, exchange.py: for any number of exchanges,
\* holds, ticket ids and operations, of users and of a sweep that interleave step by step,
\* whose calls of a partner's rail fail before or after their effect, and which a restart
\* cuts off and recovers: the export has the holds that it sees once and as they are, money
\* that moved without a receipt is found by the scan, a sweep that returns has closed what
\* it found overdue, and no dispute loses its ticket but to one of the same id.
THEOREM DeskAlwaysSound == DeskSpec => []DeskIsSound
<1>1. DeskInit => DeskTypeOK /\ DeskInv
  BY DeskBegins
<1>2. DeskTypeOK /\ DeskInv /\ [DeskNext]_deskVars => DeskTypeOK' /\ DeskInv'
  <2>0. SUFFICES ASSUME DeskTypeOK, DeskInv, [DeskNext]_deskVars PROVE DeskTypeOK' /\ DeskInv'
    OBVIOUS
  <2>1. ASSUME NEW e \in Deals, NEW op \in Asks, BeginOp(op, e), UNCHANGED process
        PROVE  DeskTypeOK' /\ DeskInv'
    BY <2>0, <2>1, BeginOpKeeps
  <2>2. ASSUME NEW w \in DeskThread, EngineStep(w), UNCHANGED <<asked, process>>
        PROVE  DeskTypeOK' /\ DeskInv'
    BY <2>0, <2>2, FreezeKeeps, CaptureKeeps, MoveKeeps, UnansweredKeeps, SaveKeeps DEF EngineStep
  <2>a. ASSUME NEW e \in Deals, RecoverDesk(e) PROVE DeskTypeOK' /\ DeskInv'
    BY <2>0, <2>a, RecoverKeeps
  <2>3. CASE OpenTicket /\ UNCHANGED <<asked, process>>
    BY <2>0, <2>3, OpenTicketKeeps
  <2>4. CASE BeginSweep /\ UNCHANGED <<asked, process>>
    BY <2>0, <2>4, BeginSweepKeeps
  <2>5. CASE SweepNext /\ UNCHANGED <<asked, process>>
    BY <2>0, <2>5, SweepNextKeeps
  <2>6. CASE EndSweep /\ UNCHANGED <<asked, process>>
    BY <2>0, <2>6, EndSweepKeeps
  <2>7. ASSUME NEW e \in Deals, Overdue(e), UNCHANGED <<asked, process>>
        PROVE  DeskTypeOK' /\ DeskInv'
    BY <2>0, <2>7, OverdueKeeps
  <2>8. CASE RestartDesk
    BY <2>0, <2>8, RestartKeeps
  <2>9. CASE UNCHANGED deskVars
    <3>1. UNCHANGED <<store, holds, desk, queue, due, swept, tickets, asked, process>>
      BY <2>9 DEF deskVars
    <3>2. DeskTypeOK'
      BY <2>0, <3>1 DEF DeskTypeOK
    <3>3. MoneyInv'
      <4>1. \A e \in Deals : SameRow(store'[e], store[e])
        BY <3>1 DEF SameRow
      <4> QED
        BY <2>0, <3>1, <3>2, <4>1, MoneyRests DEF DeskInv
    <3>4. SweepInv'
      BY <2>0, <3>1, SweepStays, UserIsWork DEF DeskInv
    <3>5. TicketInv'
      BY <2>0, <3>1 DEF DeskInv, TicketInv, TicketsFollow
    <3> QED
      BY <3>2, <3>3, <3>4, <3>5 DEF DeskInv
  <2> QED
    BY <2>0, <2>1, <2>2, <2>3, <2>4, <2>5, <2>6, <2>7, <2>8, <2>9, <2>a DEF DeskNext, Asks
<1>3. DeskTypeOK /\ DeskInv => DeskIsSound
  <2>0. SUFFICES ASSUME DeskTypeOK, DeskInv PROVE DeskIsSound
    OBVIOUS
  <2>1. MoneyInv /\ SweepInv /\ TicketInv
    BY <2>0 DEF DeskInv
  <2>2. ExportAgrees
    BY <2>0, <2>1, ExportIsRight
  <2>3. InterruptedIsFound
    <3>1. ASSUME NEW h \in Handle, holds[h].status \in {"settled", "refunded"}, ~Receipted(h)
          PROVE  holds[h].deal \in StalePending
      <4>1. PICK e \in Deals : e = holds[h].deal /\ store[e].hold = h /\ Journalled(store[e])
        BY <2>0, <2>1, <3>1, DeskFacts DEF MoneyInv, Noted, Deals
      <4>2. ASSUME store[e].receipt # "none" PROVE FALSE
        <5>1. [deal |-> e, handle |-> store[e].hold, status |-> store[e].receipt] \in ReceiptRows
          BY <4>2 DEF ReceiptRows
        <5> QED
          BY <3>1, <4>1, <5>1 DEF Receipted
      <4> QED
        BY <4>1, <4>2 DEF Journalled, StalePending
    <3> QED
      BY <3>1 DEF InterruptedIsFound
  <2>4. SweepIsComplete
    BY <2>1 DEF SweepInv, SweepIsComplete
  <2> QED
    BY <2>1, <2>2, <2>3, <2>4 DEF DeskIsSound, TicketInv
<1> QED
  BY <1>1, <1>2, <1>3, PTL DEF DeskSpec

---------------------------------------------------------------------------
(* The accounts of the people who run agents.                              *)

\* What is empty has the types.
LEMMA EmptyBooks ==
  /\ NoOperator \in Operator /\ NoOperator.email = "none" /\ ~NoOperator.verified /\ ~NoOperator.leaving
  /\ NoOne \in [Number -> Operator] /\ NoToken \in Tokens
  /\ NoCall \in CallRecord /\ NoCall.pc = "idle" /\ NoCall.op = "none"
  /\ CallOK(NoCall)
<1>1. /\ NoOperator \in Operator /\ NoOperator.email = "none" /\ ~NoOperator.verified /\ ~NoOperator.leaving
  BY DEF NoOperator, Operator
<1>2. NoOne \in [Number -> Operator] /\ NoToken \in Tokens
  BY <1>1, AccountsAssumption DEF NoOne, NoToken, Tokens
<1>3. /\ NoCall.pc = "idle" /\ NoCall.op = "none"
  BY DEF NoCall
<1>4. NoCall \in CallRecord
  BY <1>2, AccountsAssumption DEF NoCall, CallRecord
<1> QED
  BY <1>1, <1>2, <1>3, <1>4 DEF CallOK, Changes, Writing

\* A call that goes on keeps its operation and its arguments.
LEMMA CallGoesOn ==
  ASSUME NEW c, CallOK(c), c.pc # "idle", NEW pc \in Writing \cup {"otp", "answer"},
         pc = "otp" => c.op = "register", pc \in Writing => Persists(c.op)
  PROVE  LET d == [c EXCEPT !.pc = pc]
         IN  /\ CallOK(d) /\ d.pc = pc /\ d.op = c.op /\ d.email = c.email /\ d.n = c.n /\ d.agent = c.agent
             /\ d.ops = c.ops /\ d.tokens = c.tokens
<1> DEFINE d == [c EXCEPT !.pc = pc]
<1>1. /\ c \in CallRecord /\ pc \in Changes \cup Writing \cup {"idle", "insert", "otp", "answer"} /\ pc # "idle"
      /\ pc # "insert" /\ pc \notin Changes
  BY DEF CallOK, Changes, Writing
<1>2. /\ d \in CallRecord /\ d.pc = pc /\ d.op = c.op /\ d.email = c.email /\ d.n = c.n /\ d.agent = c.agent
      /\ d.ops = c.ops /\ d.tokens = c.tokens
  BY <1>1 DEF CallRecord
<1>3. CallOK(d)
  BY <1>1, <1>2 DEF CallOK
<1> QED
  BY <1>2, <1>3

\* Only the thread at work changes.
LEMMA OneCallMoves ==
  ASSUME AccountsTypeOK, NEW t \in Thread, NEW d, CallOK(d), serving' = [serving EXCEPT ![t] = d]
  PROVE  /\ serving' \in [Thread -> CallRecord] /\ \A u \in Thread : CallOK(serving'[u])
         /\ serving'[t] = d /\ \A u \in Thread \ {t} : serving'[u] = serving[u]
  BY DEF AccountsTypeOK, CallOK

\* While calls do not overlap, the other threads are idle, and the file is the memory
\* unless this thread is about to write it.
LEMMA AloneAtWork ==
  ASSUME AccountsTypeOK, AccountsInv, ~mishap.raced, NEW t \in Thread, serving[t].pc # "idle"
  PROVE  /\ Registered /\ SeenAndDone(serving[t]) /\ \A u \in Thread \ {t} : serving[u] = NoCall
         /\ nodeUp /\ ~mishap.unsaved =>
              /\ Honoured(operators, sessions)
              /\ opFile.readable => Honoured(opFile.operators, opFile.sessions)
              /\ serving[t].pc \in Writing \cup {"otp"} \/ opFile = OperatorDb(operators, sessions)
<1>1. \A u \in Thread \ {t} : serving[u].pc = "idle"
  BY DEF AccountsInv, Alone
<1>2. \A u \in Thread \ {t} : serving[u] = NoCall
  BY <1>1 DEF AccountsTypeOK, CallOK
<1>3. \A u \in Thread : serving[u].pc \in Writing \cup {"otp"} => u = t
  BY <1>1 DEF Writing
<1> QED
  BY <1>2, <1>3 DEF AccountsInv, AnswersSurvive

\* A step of a call keeps the invariant when it leaves accounts, tokens and file well kept,
\* and its call with what it is to have done.
LEMMA CallKeeps ==
  ASSUME AccountsTypeOK, AccountsInv, NEW t \in Thread, serving[t].pc # "idle",
         NEW d, CallOK(d), serving' = [serving EXCEPT ![t] = d],
         UNCHANGED <<nodeUp, calls>>, mishap' \in [raced : BOOLEAN, unsaved : BOOLEAN],
         mishap'.raced = mishap.raced,
         operators' \in [Number -> Operator], sessions' \in Tokens, bindings' \in SUBSET Pair,
         byEmail' \in [Email -> 0 .. MaxCall], otps' \in [Email -> 0 .. MaxCall],
         opFile' \in [readable : BOOLEAN, operators : [Number -> Operator], sessions : Tokens],
         provedWith' \in [Number -> 0 .. MaxCall],
         promised' \in [verified : SUBSET Number, loggedOut : SUBSET Number, leaving : SUBSET Number,
                        bound : SUBSET Pair, staying : SUBSET Number],
         ~mishap.raced => Registered' /\ SeenAndDone(d)',
         ~mishap.raced /\ nodeUp /\ ~mishap'.unsaved =>
           /\ Honoured(operators, sessions)'
           /\ opFile'.readable => Honoured(opFile.operators, opFile.sessions)'
           /\ d.pc \in Writing \cup {"otp"} \/ opFile' = OperatorDb(operators, sessions)'
  PROVE  AccountsTypeOK' /\ AccountsInv'
<1>1. /\ serving' \in [Thread -> CallRecord] /\ \A u \in Thread : CallOK(serving'[u])
      /\ serving'[t] = d /\ \A u \in Thread \ {t} : serving'[u] = serving[u]
  BY OneCallMoves
<1>2. AccountsTypeOK'
  BY <1>1 DEF AccountsTypeOK
<1>3. SUFFICES ASSUME ~mishap.raced PROVE AccountsInv'
  BY <1>2 DEF AccountsInv
<1>4. \A u \in Thread \ {t} : serving'[u] = NoCall
  BY <1>1, <1>3, AloneAtWork
<1>5. Alone(serving)'
  BY <1>4, EmptyBooks DEF Alone
<1>6. \A u \in Thread : SeenAndDone(serving[u])'
  <2>1. TAKE u \in Thread
  <2>2. CASE u = t
    BY <1>1, <1>3, <2>2
  <2>3. CASE u # t
    BY <1>4, <2>1, <2>3, EmptyBooks DEF SeenAndDone, Writing
  <2> QED
    BY <2>2, <2>3
<1>7. nodeUp' /\ ~mishap'.unsaved => AnswersSurvive'
  BY <1>1, <1>3 DEF AnswersSurvive
<1> QED
  BY <1>3, <1>5, <1>6, <1>7 DEF AccountsInv

LEMMA InsertKeeps ==
  ASSUME AccountsTypeOK, AccountsInv, NEW t \in Thread, Insert(t), UNCHANGED <<nodeUp, calls, reboots, mishap>>
  PROVE  AccountsTypeOK' /\ AccountsInv'
<1>1. PICK c : c = serving[t]
  OBVIOUS
<1>2. PICK d : d = [c EXCEPT !.pc = "otp"]
  OBVIOUS
<1>3. PICK o : o = [NoOperator EXCEPT !.email = c.email]
  OBVIOUS
<1>4. /\ CallOK(c) /\ c.pc = "insert" /\ c.op = "register" /\ c.n \in Number /\ c.email \in Email
  BY <1>1 DEF Insert, AccountsTypeOK, CallOK
<1>5. /\ CallOK(d) /\ d.pc = "otp" /\ d.op = "register" /\ d.email = c.email /\ d.n = c.n
  BY <1>2, <1>4, CallGoesOn DEF Writing
<1>6. /\ o \in Operator /\ o.email = c.email /\ ~o.verified /\ ~o.leaving
  BY <1>3, <1>4 DEF NoOperator, Operator
<1>7. /\ operators' = [operators EXCEPT ![c.n] = o] /\ byEmail' = [byEmail EXCEPT ![c.email] = c.n]
      /\ serving' = [serving EXCEPT ![t] = d]
      /\ UNCHANGED <<otps, sessions, bindings, opFile, provedWith, promised>>
  BY <1>1, <1>2, <1>3 DEF Insert, Goes
<1>8. /\ operators' \in [Number -> Operator] /\ operators'[c.n] = o
      /\ \A n \in Number \ {c.n} : operators'[n] = operators[n]
      /\ byEmail' \in [Email -> 0 .. MaxCall] /\ byEmail'[c.email] = c.n
      /\ \A e \in Email \ {c.email} : byEmail'[e] = byEmail[e]
  BY <1>4, <1>6, <1>7, AccountsAssumption DEF AccountsTypeOK, Number
<1>9. ASSUME ~mishap.raced PROVE Registered' /\ SeenAndDone(d)'
  <2>1. /\ Registered /\ c.n <= calls /\ byEmail[c.email] = 0 /\ operators[c.n] = NoOperator
        /\ c.n \notin promised.verified \cup promised.leaving
    BY <1>1, <1>4, <1>9, AloneAtWork DEF SeenAndDone
  <2>2. c.email # "none" /\ 0 \notin Number
    BY <1>4, AccountsAssumption DEF Number
  <2>3. \A n \in Number : operators[n].email # c.email
    BY <1>4, <2>1, <2>2 DEF Registered
  <2>4. \A k \in Number : sessions[k] # 0 => sessions[k] \in Number /\ sessions[k] # c.n
    BY <2>1, EmptyBooks DEF Registered, WellKept, AccountsTypeOK, Tokens, Number
  <2>5. WellKept(operators, sessions)'
    BY <1>4, <1>6, <1>7, <1>8, <2>1, <2>2, <2>3, <2>4 DEF Registered, WellKept
  <2>6. WellKept(opFile.operators, opFile.sessions)'
    BY <1>7, <2>1 DEF Registered, WellKept
  <2>7. \A e \in Email, n \in Number : byEmail'[e] = n <=> operators'[n].email = e
    BY <1>4, <1>6, <1>8, <2>1, <2>2, <2>3, EmptyBooks, AccountsAssumption DEF Registered
  <2>8. \A e \in Email : otps'[e] # 0 => otps'[e] = byEmail'[e]
    BY <1>4, <1>7, <1>8, <2>1 DEF Registered
  <2>9. Registered'
    BY <1>7, <2>1, <2>5, <2>6, <2>7, <2>8 DEF Registered
  <2> QED
    BY <1>5, <1>7, <1>8, <2>1, <2>9 DEF SeenAndDone, Writing
<1>10. ASSUME ~mishap.raced, nodeUp, ~mishap.unsaved
       PROVE  Honoured(operators, sessions)' /\ (opFile'.readable => Honoured(opFile.operators, opFile.sessions)')
  <2>1. /\ Honoured(operators, sessions) /\ (opFile.readable => Honoured(opFile.operators, opFile.sessions))
        /\ c.n \notin promised.verified \cup promised.leaving
    BY <1>1, <1>4, <1>10, AloneAtWork DEF SeenAndDone
  <2> QED
    BY <1>6, <1>7, <1>8, <2>1 DEF Honoured, AccountsTypeOK
<1> QED
  BY <1>1, <1>4, <1>5, <1>7, <1>8, <1>9, <1>10, CallKeeps DEF AccountsTypeOK

LEMMA GiveOtpKeeps ==
  ASSUME AccountsTypeOK, AccountsInv, NEW t \in Thread, GiveOtp(t), UNCHANGED <<nodeUp, calls, reboots, mishap>>
  PROVE  AccountsTypeOK' /\ AccountsInv'
<1>1. PICK c : c = serving[t]
  OBVIOUS
<1>2. PICK d : d = [c EXCEPT !.pc = "dump"]
  OBVIOUS
<1>3. /\ CallOK(c) /\ c.pc = "otp" /\ c.op = "register" /\ c.n \in Number /\ c.email \in Email
  BY <1>1 DEF GiveOtp, AccountsTypeOK, CallOK
<1>4. /\ CallOK(d) /\ d.pc = "dump" /\ d.op = "register" /\ d.n = c.n
  BY <1>2, <1>3, CallGoesOn DEF Writing, Persists
<1>5. /\ otps' = [otps EXCEPT ![c.email] = c.n] /\ serving' = [serving EXCEPT ![t] = d]
      /\ UNCHANGED <<operators, byEmail, sessions, bindings, opFile, provedWith, promised>>
  BY <1>1, <1>2 DEF GiveOtp, Goes
<1>6. /\ otps' \in [Email -> 0 .. MaxCall] /\ otps'[c.email] = c.n
      /\ \A e \in Email \ {c.email} : otps'[e] = otps[e]
  BY <1>3, <1>5, AccountsAssumption DEF AccountsTypeOK, Number
<1>7. ASSUME ~mishap.raced PROVE Registered' /\ SeenAndDone(d)'
  <2>1. Registered /\ c.n <= calls /\ byEmail[c.email] = c.n
    BY <1>1, <1>3, <1>7, AloneAtWork DEF SeenAndDone
  <2>2. Registered'
    BY <1>3, <1>5, <1>6, <2>1 DEF Registered, WellKept
  <2> QED
    BY <1>4, <2>1, <2>2 DEF SeenAndDone, Writing
<1>8. ASSUME ~mishap.raced, nodeUp, ~mishap.unsaved
      PROVE  Honoured(operators, sessions)' /\ (opFile'.readable => Honoured(opFile.operators, opFile.sessions)')
  BY <1>1, <1>3, <1>5, <1>8, AloneAtWork DEF Honoured
<1> QED
  BY <1>1, <1>3, <1>4, <1>5, <1>6, <1>7, <1>8, CallKeeps DEF AccountsTypeOK, Writing

LEMMA VerifyKeeps ==
  ASSUME AccountsTypeOK, AccountsInv, NEW t \in Thread, Verify(t), UNCHANGED <<nodeUp, calls, reboots, mishap>>
  PROVE  AccountsTypeOK' /\ AccountsInv'
<1>1. PICK c : c = serving[t]
  OBVIOUS
<1>2. PICK d : d = IF otps[c.email] = 0 THEN NoCall ELSE [c EXCEPT !.pc = "dump"]
  OBVIOUS
<1>3. /\ CallOK(c) /\ c \in CallRecord /\ c.pc = "verify" /\ c.op = "verify" /\ c.n \in Number /\ c.email \in Email
      /\ c.otp \in 0 .. MaxCall
  BY <1>1 DEF Verify, AccountsTypeOK, CallOK, CallRecord, Changes
<1>4. CallOK(d) /\ (otps[c.email] # 0 => d.pc = "dump" /\ d.op = "verify" /\ d.n = c.n)
  <2>1. CASE otps[c.email] = 0
    BY <1>2, <2>1, EmptyBooks
  <2>2. CASE otps[c.email] # 0
    <3>1. d = [c EXCEPT !.pc = "dump"]
      BY <1>2, <2>2
    <3>2. "dump" \in Writing /\ Persists(c.op)
      BY <1>3 DEF Writing, Persists
    <3> QED
      BY <1>3, <3>1, <3>2, CallGoesOn
  <2> QED
    BY <2>1, <2>2
<1>5. PICK o : o = [operators[c.n] EXCEPT !.verified = TRUE]
  OBVIOUS
<1>6. /\ o \in Operator /\ o.email = operators[c.n].email /\ o.verified /\ o.leaving = operators[c.n].leaving
  <2>1. operators[c.n] \in [email : Email \cup {"none"}, verified : BOOLEAN, leaving : BOOLEAN]
    BY <1>3 DEF AccountsTypeOK, Operator
  <2> QED
    BY <1>5, <2>1 DEF Operator
<1>7. /\ operators' = [operators EXCEPT ![c.n] = o] /\ provedWith' = [provedWith EXCEPT ![c.n] = c.otp]
      /\ otps' = [otps EXCEPT ![c.email] = 0] /\ serving' = [serving EXCEPT ![t] = d]
      /\ UNCHANGED <<byEmail, sessions, bindings, opFile, promised>>
  BY <1>1, <1>2, <1>5 DEF Verify
<1>8. /\ operators' \in [Number -> Operator] /\ operators'[c.n] = o
      /\ \A n \in Number \ {c.n} : operators'[n] = operators[n]
      /\ provedWith' \in [Number -> 0 .. MaxCall] /\ provedWith'[c.n] = c.otp
      /\ \A n \in Number \ {c.n} : provedWith'[n] = provedWith[n]
      /\ otps' \in [Email -> 0 .. MaxCall] /\ otps'[c.email] = 0
      /\ \A e \in Email \ {c.email} : otps'[e] = otps[e]
  BY <1>3, <1>6, <1>7, AccountsAssumption DEF AccountsTypeOK
<1>9. ASSUME ~mishap.raced PROVE Registered' /\ SeenAndDone(d)' /\ otps[c.email] # 0
  <2>1. Registered /\ c.n <= calls /\ c.otp = c.n /\ byEmail[c.email] = c.n /\ otps[c.email] = c.n /\ c.n # 0
    <3>1. Registered /\ SeenAndDone(c)
      BY <1>1, <1>3, <1>9, AloneAtWork
    <3>2. c.n <= calls /\ c.otp = c.n /\ byEmail[c.email] = c.n /\ otps[c.email] = c.n
      BY <1>3, <3>1 DEF SeenAndDone
    <3>3. c.n # 0
      BY <1>3, AccountsAssumption DEF Number
    <3> QED
      BY <3>1, <3>2, <3>3
  <2>2. operators[c.n].email = c.email /\ c.email # "none"
    BY <1>3, <2>1, AccountsAssumption DEF Registered
  <2>3. \A n \in Number : operators'[n].email = operators[n].email /\ (operators[n].verified => operators'[n].verified)
    BY <1>6, <1>8
  <2>4. \A k \in Number : sessions[k] # 0 => sessions[k] \in Number
    BY AccountsAssumption DEF AccountsTypeOK, Tokens, Number
  <2>5. WellKept(operators, sessions)'
    BY <1>3, <1>7, <1>8, <2>1, <2>2, <2>3, <2>4 DEF Registered, WellKept
  <2>6. WellKept(opFile.operators, opFile.sessions)'
    BY <1>7, <1>8, <2>1 DEF Registered, WellKept
  <2>7. Registered'
    BY <1>3, <1>7, <1>8, <2>1, <2>3, <2>5, <2>6 DEF Registered
  <2> QED
    BY <1>4, <1>6, <1>8, <2>1, <2>7 DEF SeenAndDone, Writing
<1>10. ASSUME ~mishap.raced, nodeUp, ~mishap.unsaved
       PROVE  Honoured(operators, sessions)' /\ (opFile'.readable => Honoured(opFile.operators, opFile.sessions)')
  <2>1. /\ Honoured(operators, sessions) /\ (opFile.readable => Honoured(opFile.operators, opFile.sessions))
    BY <1>1, <1>3, <1>10, AloneAtWork
  <2> QED
    BY <1>6, <1>7, <1>8, <2>1 DEF Honoured, AccountsTypeOK
<1> QED
  BY <1>1, <1>3, <1>4, <1>7, <1>8, <1>9, <1>10, CallKeeps DEF AccountsTypeOK, Writing

\* The assignment of a call that logs in or out, or tells the wish to leave or stay.
LEMMA AssignFacts ==
  ASSUME AccountsTypeOK, NEW t \in Thread, Assign(t)
  PROVE  \E c, d :
           /\ c = serving[t] /\ CallOK(c) /\ c.pc = c.op /\ c.op \in {"login", "logout", "leave", "stay"}
           /\ c.n \in Number /\ (c.op = "login" => c.email \in Email)
           /\ CallOK(d) /\ d.pc = "dump" /\ d.op = c.op /\ d.n = c.n /\ serving' = [serving EXCEPT ![t] = d]
           /\ UNCHANGED <<byEmail, otps, bindings, opFile, provedWith, promised>>
<1>1. PICK c : c = serving[t]
  OBVIOUS
<1>2. PICK d : d = [c EXCEPT !.pc = "dump"]
  OBVIOUS
<1>3. /\ CallOK(c) /\ c.pc = c.op /\ c.op \in {"login", "logout", "leave", "stay"}
      /\ c.n \in Number /\ (c.op = "login" => c.email \in Email) /\ c.pc # "idle"
  BY <1>1 DEF Assign, AccountsTypeOK, CallOK, Changes
<1>4. CallOK(d) /\ d.pc = "dump" /\ d.op = c.op /\ d.n = c.n
  BY <1>2, <1>3, CallGoesOn DEF Writing, Persists
<1> QED
  BY <1>1, <1>2, <1>3, <1>4 DEF Assign, Goes

LEMMA TokenAssignKeeps ==
  ASSUME AccountsTypeOK, AccountsInv, NEW t \in Thread, Assign(t), serving[t].op \in {"login", "logout"},
         UNCHANGED <<nodeUp, calls, reboots, mishap>>
  PROVE  AccountsTypeOK' /\ AccountsInv'
<1>1. PICK c, d :
        /\ c = serving[t] /\ CallOK(c) /\ c.pc = c.op /\ c.op \in {"login", "logout"}
        /\ c.n \in Number /\ (c.op = "login" => c.email \in Email)
        /\ CallOK(d) /\ d.pc = "dump" /\ d.op = c.op /\ d.n = c.n /\ serving' = [serving EXCEPT ![t] = d]
        /\ UNCHANGED <<byEmail, otps, bindings, opFile, provedWith, promised>>
  BY AssignFacts
<1>2. PICK k : k = IF c.op = "login" THEN byEmail[c.email] ELSE 0
  OBVIOUS
<1>3. /\ sessions' = [sessions EXCEPT ![c.n] = k] /\ operators' = operators
  BY <1>1, <1>2 DEF Assign
<1>4. k \in 0 .. MaxCall
  BY <1>1, <1>2, AccountsAssumption DEF AccountsTypeOK
<1>5. sessions' \in Tokens /\ sessions'[c.n] = k /\ \A n \in Number \ {c.n} : sessions'[n] = sessions[n]
  BY <1>1, <1>3, <1>4 DEF AccountsTypeOK, Tokens
<1>6. ASSUME ~mishap.raced
      PROVE  /\ Registered /\ c.n <= calls /\ (k # 0 => operators[k].verified)
             /\ (c.n \in promised.loggedOut => k = 0)
  BY <1>1, <1>2, <1>6, AloneAtWork DEF SeenAndDone
<1>7. ASSUME ~mishap.raced PROVE Registered' /\ SeenAndDone(d)'
  <2>1. WellKept(operators, sessions)'
    BY <1>1, <1>3, <1>5, <1>6, <1>7 DEF Registered, WellKept
  <2>2. Registered'
    BY <1>1, <1>3, <1>6, <1>7, <2>1 DEF Registered, WellKept
  <2> QED
    BY <1>1, <1>2, <1>5, <1>6, <1>7, <2>2 DEF SeenAndDone, Writing
<1>8. ASSUME ~mishap.raced, nodeUp, ~mishap.unsaved
      PROVE  Honoured(operators, sessions)' /\ (opFile'.readable => Honoured(opFile.operators, opFile.sessions)')
  <2>1. /\ Honoured(operators, sessions) /\ (opFile.readable => Honoured(opFile.operators, opFile.sessions))
    BY <1>1, <1>8, AloneAtWork
  <2> QED
    BY <1>1, <1>3, <1>5, <1>6, <1>8, <2>1 DEF Honoured, AccountsTypeOK
<1> QED
  BY <1>1, <1>3, <1>5, <1>7, <1>8, CallKeeps DEF AccountsTypeOK, Writing

LEMMA WishAssignKeeps ==
  ASSUME AccountsTypeOK, AccountsInv, NEW t \in Thread, Assign(t), serving[t].op \in {"leave", "stay"},
         UNCHANGED <<nodeUp, calls, reboots, mishap>>
  PROVE  AccountsTypeOK' /\ AccountsInv'
<1>1. PICK c, d :
        /\ c = serving[t] /\ CallOK(c) /\ c.pc = c.op /\ c.op \in {"leave", "stay"}
        /\ c.n \in Number /\ c.pc # "idle"
        /\ CallOK(d) /\ d.pc = "dump" /\ d.op = c.op /\ d.n = c.n /\ serving' = [serving EXCEPT ![t] = d]
        /\ UNCHANGED <<byEmail, otps, bindings, opFile, provedWith, promised>>
  BY AssignFacts
<1>2. PICK a : a = operators[c.n]
  OBVIOUS
<1>3. PICK leaves \in BOOLEAN : leaves <=> c.op = "leave"
  OBVIOUS
<1>4. PICK o : o = [a EXCEPT !.leaving = leaves]
  OBVIOUS
<1>5. a \in [email : Email \cup {"none"}, verified : BOOLEAN, leaving : BOOLEAN]
  BY <1>1, <1>2 DEF AccountsTypeOK, Operator
<1>6. o \in Operator /\ o.email = a.email /\ o.verified = a.verified /\ o.leaving = leaves
  BY <1>3, <1>4, <1>5 DEF Operator
<1>7. operators' = [operators EXCEPT ![c.n] = o] /\ sessions' = sessions
  <2>1. operators' = [operators EXCEPT ![c.n].leaving = c.op = "leave"]
    BY <1>1 DEF Assign
  <2>2. (c.op = "leave") = leaves
    BY <1>3
  <2>3. sessions' = sessions
    BY <1>1 DEF Assign
  <2> QED
    BY <1>2, <1>4, <2>1, <2>2, <2>3
<1>8. /\ operators' \in [Number -> Operator] /\ operators'[c.n] = o
      /\ \A n \in Number \ {c.n} : operators'[n] = operators[n]
  BY <1>1, <1>6, <1>7 DEF AccountsTypeOK
<1>9. ASSUME ~mishap.raced
      PROVE  /\ Registered /\ c.n <= calls /\ a.email # "none"
             /\ c.n \notin promised.leaving \cup promised.staying
  BY <1>1, <1>2, <1>9, AloneAtWork DEF SeenAndDone
<1>10. ASSUME ~mishap.raced PROVE Registered' /\ SeenAndDone(d)'
  <2>1. \A n \in Number : operators'[n].email = operators[n].email /\ operators'[n].verified = operators[n].verified
    BY <1>2, <1>6, <1>8
  <2>2. \A k \in Number : sessions[k] # 0 => sessions[k] \in Number
    BY AccountsAssumption DEF AccountsTypeOK, Tokens, Number
  <2>3. WellKept(operators, sessions)'
    BY <1>1, <1>2, <1>6, <1>7, <1>8, <1>9, <1>10, <2>1, <2>2 DEF Registered, WellKept
  <2>4. Registered'
    BY <1>1, <1>7, <1>9, <1>10, <2>1, <2>3 DEF Registered, WellKept
  <2>5. /\ operators'[d.n].email # "none" /\ d.n \notin promised.leaving \cup promised.staying
        /\ operators'[d.n].leaving = leaves
    BY <1>1, <1>6, <1>8, <1>9, <1>10
  <2>6. operators'[d.n].leaving = (d.op = "leave")
    BY <1>1, <1>3, <2>5
  <2> QED
    BY <1>1, <1>9, <1>10, <2>4, <2>5, <2>6 DEF SeenAndDone, Writing
<1>11. ASSUME ~mishap.raced, nodeUp, ~mishap.unsaved
       PROVE  Honoured(operators, sessions)' /\ (opFile'.readable => Honoured(opFile.operators, opFile.sessions)')
  <2>1. /\ Honoured(operators, sessions) /\ (opFile.readable => Honoured(opFile.operators, opFile.sessions))
    BY <1>1, <1>11, AloneAtWork
  <2>2. c.n \notin promised.leaving \cup promised.staying /\ operators[c.n].verified = operators'[c.n].verified
    BY <1>2, <1>6, <1>8, <1>9, <1>11
  <2> QED
    BY <1>1, <1>7, <1>8, <2>1, <2>2 DEF Honoured, AccountsTypeOK
<1> QED
  BY <1>1, <1>7, <1>8, <1>10, <1>11, CallKeeps DEF AccountsTypeOK, Writing

LEMMA RebindKeeps ==
  ASSUME AccountsTypeOK, AccountsInv, NEW t \in Thread, Rebind(t), UNCHANGED <<nodeUp, calls, reboots, mishap>>
  PROVE  AccountsTypeOK' /\ AccountsInv'
<1>1. PICK c : c = serving[t]
  OBVIOUS
<1>2. PICK d : d = [c EXCEPT !.pc = "answer"]
  OBVIOUS
<1>3. /\ CallOK(c) /\ c.pc = c.op /\ c.op \in {"bind", "unbind"} /\ c.n \in Number /\ c.agent \in AgentId
      /\ c.kept \in SUBSET Pair /\ c.pc # "idle"
  BY <1>1 DEF Rebind, AccountsTypeOK, CallOK, CallRecord, Changes
<1>4. CallOK(d) /\ d.pc = "answer" /\ d.op = c.op /\ d.n = c.n /\ d.agent = c.agent
  BY <1>2, <1>3, CallGoesOn DEF Writing
<1>5. /\ bindings' = IF c.op = "bind" THEN bindings \cup {<<c.n, c.agent>>} ELSE c.kept
      /\ serving' = [serving EXCEPT ![t] = d]
      /\ UNCHANGED <<operators, byEmail, otps, sessions, opFile, provedWith, promised>>
  BY <1>1, <1>2 DEF Rebind, Goes
<1>6. bindings' \in SUBSET Pair
  BY <1>3, <1>5 DEF AccountsTypeOK, Pair
<1>7. ASSUME ~mishap.raced PROVE Registered' /\ SeenAndDone(d)'
  <2>1. Registered /\ c.n <= calls /\ (c.op = "unbind" => promised.bound \subseteq c.kept)
    BY <1>1, <1>3, <1>7, AloneAtWork DEF SeenAndDone
  <2>2. promised.bound \subseteq bindings'
    BY <1>3, <1>5, <2>1 DEF Registered
  <2>3. Registered'
    BY <1>5, <2>1, <2>2 DEF Registered, WellKept
  <2>4. d.op = "bind" => <<d.n, d.agent>> \in bindings'
    BY <1>4, <1>5
  <2> QED
    BY <1>3, <1>4, <2>1, <2>3, <2>4 DEF SeenAndDone, Writing
<1>8. ASSUME ~mishap.raced, nodeUp, ~mishap.unsaved
      PROVE  /\ Honoured(operators, sessions)' /\ (opFile'.readable => Honoured(opFile.operators, opFile.sessions)')
             /\ opFile' = OperatorDb(operators, sessions)'
  <2>1. c.pc \notin Writing \cup {"otp"}
    BY <1>3 DEF Writing
  <2> QED
    BY <1>1, <1>3, <1>5, <1>8, <2>1, AloneAtWork DEF Honoured, OperatorDb
<1> QED
  BY <1>1, <1>3, <1>4, <1>5, <1>6, <1>7, <1>8, CallKeeps DEF AccountsTypeOK, Writing

LEMMA DumpOperatorsKeeps ==
  ASSUME AccountsTypeOK, AccountsInv, NEW t \in Thread, DumpOperators(t),
         UNCHANGED <<nodeUp, calls, reboots, mishap>>
  PROVE  AccountsTypeOK' /\ AccountsInv'
<1>1. PICK c : c = serving[t]
  OBVIOUS
<1>2. PICK d : d = [c EXCEPT !.pc = "tokens", !.ops = operators]
  OBVIOUS
<1>3. CallOK(c) /\ c \in CallRecord /\ c.pc = "dump" /\ c.n \in Number /\ Persists(c.op)
  BY <1>1 DEF DumpOperators, AccountsTypeOK, CallOK, Writing
<1>4. /\ d \in CallRecord /\ d.pc = "tokens" /\ d.op = c.op /\ d.email = c.email /\ d.n = c.n /\ d.agent = c.agent
      /\ d.ops = operators
  BY <1>2, <1>3 DEF CallRecord, AccountsTypeOK, Writing
<1>5. CallOK(d)
  BY <1>3, <1>4 DEF CallOK, Changes, Writing
<1>6. /\ serving' = [serving EXCEPT ![t] = d]
      /\ UNCHANGED <<operators, byEmail, otps, sessions, bindings, opFile, provedWith, promised>>
  BY <1>1, <1>2, <1>3 DEF DumpOperators
<1>7. ASSUME ~mishap.raced PROVE Registered' /\ SeenAndDone(d)'
  <2>1. Registered /\ SeenAndDone(c)
    BY <1>1, <1>3, <1>7, AloneAtWork
  <2>2. Registered'
    BY <1>6, <2>1 DEF Registered, WellKept
  <2> QED
    BY <1>3, <1>4, <1>6, <2>1, <2>2 DEF SeenAndDone, Writing
<1>8. ASSUME ~mishap.raced, nodeUp, ~mishap.unsaved
      PROVE  Honoured(operators, sessions)' /\ (opFile'.readable => Honoured(opFile.operators, opFile.sessions)')
  BY <1>1, <1>3, <1>6, <1>8, AloneAtWork DEF Honoured
<1> QED
  BY <1>1, <1>3, <1>4, <1>5, <1>6, <1>7, <1>8, CallKeeps DEF AccountsTypeOK, Writing

LEMMA DumpTokensKeeps ==
  ASSUME AccountsTypeOK, AccountsInv, NEW t \in Thread, DumpTokens(t), UNCHANGED <<nodeUp, calls, reboots, mishap>>
  PROVE  AccountsTypeOK' /\ AccountsInv'
<1>1. PICK c : c = serving[t]
  OBVIOUS
<1>2. PICK d : d = [c EXCEPT !.pc = "write", !.tokens = sessions]
  OBVIOUS
<1>3. CallOK(c) /\ c \in CallRecord /\ c.pc = "tokens" /\ c.n \in Number /\ Persists(c.op)
  BY <1>1 DEF DumpTokens, AccountsTypeOK, CallOK, Writing
<1>4. /\ d \in CallRecord /\ d.pc = "write" /\ d.op = c.op /\ d.email = c.email /\ d.n = c.n /\ d.agent = c.agent
      /\ d.ops = c.ops /\ d.tokens = sessions
  BY <1>2, <1>3 DEF CallRecord, AccountsTypeOK, Writing
<1>5. CallOK(d)
  BY <1>3, <1>4 DEF CallOK, Changes, Writing
<1>6. /\ serving' = [serving EXCEPT ![t] = d] /\ opFile' = TornDb
      /\ UNCHANGED <<operators, byEmail, otps, sessions, bindings, provedWith, promised>>
  BY <1>1, <1>2, <1>3 DEF DumpTokens
<1>7. /\ opFile' \in [readable : BOOLEAN, operators : [Number -> Operator], sessions : Tokens]
      /\ ~opFile'.readable /\ opFile'.operators = NoOne /\ opFile'.sessions = NoToken
  BY <1>6, EmptyBooks DEF TornDb
<1>8. ASSUME ~mishap.raced PROVE Registered' /\ SeenAndDone(d)'
  <2>1. Registered /\ SeenAndDone(c)
    BY <1>1, <1>3, <1>8, AloneAtWork
  <2>2. /\ \A n \in Number : NoOne[n] = NoOperator /\ NoOne[n].email = "none" /\ ~NoOne[n].verified
        /\ \A k \in Number : NoToken[k] = 0
    BY EmptyBooks DEF NoOne, NoToken
  <2>3. WellKept(opFile.operators, opFile.sessions)'
    BY <1>7, <2>2 DEF WellKept
  <2>4. Registered'
    BY <1>6, <2>1, <2>3 DEF Registered, WellKept
  <2> QED
    BY <1>3, <1>4, <1>6, <2>1, <2>4 DEF SeenAndDone, Writing
<1>9. ASSUME ~mishap.raced, nodeUp, ~mishap.unsaved PROVE Honoured(operators, sessions)'
  BY <1>1, <1>3, <1>6, <1>9, AloneAtWork DEF Honoured
<1> QED
  BY <1>1, <1>3, <1>4, <1>5, <1>6, <1>7, <1>8, <1>9, CallKeeps DEF AccountsTypeOK, Writing

LEMMA WriteFileKeeps ==
  ASSUME AccountsTypeOK, AccountsInv, NEW t \in Thread, WriteFile(t), UNCHANGED <<nodeUp, calls, reboots, mishap>>
  PROVE  AccountsTypeOK' /\ AccountsInv'
<1>1. PICK c : c = serving[t]
  OBVIOUS
<1>2. PICK d : d = [c EXCEPT !.pc = "answer"]
  OBVIOUS
<1>3. CallOK(c) /\ c \in CallRecord /\ c.pc = "write" /\ c.n \in Number
  BY <1>1 DEF WriteFile, AccountsTypeOK, CallOK
<1>4. CallOK(d) /\ d.pc = "answer" /\ d.op = c.op /\ d.n = c.n /\ d.agent = c.agent
  <2>1. "answer" \in Writing \cup {"otp", "answer"} /\ "answer" \notin Writing /\ c.pc # "idle"
    BY <1>3 DEF Writing
  <2> QED
    BY <1>2, <1>3, <2>1, CallGoesOn
<1>5. /\ serving' = [serving EXCEPT ![t] = d] /\ opFile' = OperatorDb(c.ops, c.tokens)
      /\ UNCHANGED <<operators, byEmail, otps, sessions, bindings, provedWith, promised>>
  BY <1>1, <1>2 DEF WriteFile, Goes
<1>6. /\ opFile' \in [readable : BOOLEAN, operators : [Number -> Operator], sessions : Tokens]
      /\ opFile'.operators = c.ops /\ opFile'.sessions = c.tokens
  BY <1>3, <1>5 DEF OperatorDb, CallRecord
<1>7. ASSUME ~mishap.raced PROVE Registered /\ SeenAndDone(c) /\ c.ops = operators /\ c.tokens = sessions
  BY <1>1, <1>3, <1>7, AloneAtWork DEF SeenAndDone
<1>8. ASSUME ~mishap.raced PROVE Registered' /\ SeenAndDone(d)'
  <2>1. WellKept(opFile.operators, opFile.sessions)'
    BY <1>5, <1>6, <1>7, <1>8 DEF Registered, WellKept
  <2>2. Registered'
    BY <1>5, <1>7, <1>8, <2>1 DEF Registered, WellKept
  <2> QED
    BY <1>3, <1>4, <1>5, <1>7, <1>8, <2>2 DEF SeenAndDone, Writing
<1>9. ASSUME ~mishap.raced, nodeUp, ~mishap.unsaved
      PROVE  /\ Honoured(operators, sessions)' /\ Honoured(opFile.operators, opFile.sessions)'
             /\ opFile' = OperatorDb(operators, sessions)'
  <2>1. Honoured(operators, sessions)
    BY <1>1, <1>3, <1>9, AloneAtWork
  <2> QED
    BY <1>5, <1>6, <1>7, <1>9, <2>1 DEF Honoured, OperatorDb
<1> QED
  BY <1>1, <1>3, <1>4, <1>5, <1>6, <1>8, <1>9, CallKeeps DEF AccountsTypeOK

LEMMA WriteFailsKeeps ==
  ASSUME AccountsTypeOK, AccountsInv, NEW t \in Thread, WriteFails(t),
         mishap' = [mishap EXCEPT !.unsaved = TRUE], UNCHANGED <<nodeUp, calls, reboots>>
  PROVE  AccountsTypeOK' /\ AccountsInv'
<1>1. PICK c : c = serving[t]
  OBVIOUS
<1>2. PICK d : d = [c EXCEPT !.pc = "answer"]
  OBVIOUS
<1>3. CallOK(c) /\ c \in CallRecord /\ c.pc \in Writing /\ c.pc # "idle" /\ c.n \in Number
  BY <1>1 DEF WriteFails, AccountsTypeOK, CallOK, Writing
<1>4. CallOK(d) /\ d.pc = "answer" /\ d.op = c.op /\ d.n = c.n /\ d.agent = c.agent
  BY <1>2, <1>3, CallGoesOn DEF Writing
<1>5. /\ serving' = [serving EXCEPT ![t] = d]
      /\ UNCHANGED <<operators, byEmail, otps, sessions, bindings, opFile, provedWith, promised>>
  BY <1>1, <1>2 DEF WriteFails, Goes
<1>6. mishap' \in [raced : BOOLEAN, unsaved : BOOLEAN] /\ mishap'.raced = mishap.raced /\ mishap'.unsaved
  BY DEF AccountsTypeOK
<1>7. ASSUME ~mishap.raced PROVE Registered' /\ SeenAndDone(d)'
  <2>1. Registered /\ SeenAndDone(c)
    BY <1>1, <1>3, <1>7, AloneAtWork
  <2>2. Registered'
    BY <1>5, <2>1 DEF Registered, WellKept
  <2> QED
    BY <1>3, <1>4, <1>5, <2>1, <2>2 DEF SeenAndDone, Writing
<1> QED
  BY <1>1, <1>3, <1>4, <1>5, <1>6, <1>7, CallKeeps DEF AccountsTypeOK

LEMMA AnswerCallKeeps ==
  ASSUME AccountsTypeOK, AccountsInv, NEW t \in Thread, AnswerCall(t), UNCHANGED <<nodeUp, calls, reboots, mishap>>
  PROVE  AccountsTypeOK' /\ AccountsInv'
<1>1. PICK c : c = serving[t]
  OBVIOUS
<1>2. PICK d : d = NoCall
  OBVIOUS
<1>3. CallOK(c) /\ c \in CallRecord /\ c.pc = "answer" /\ c.n \in Number /\ (c.op = "bind" => c.agent \in AgentId)
  BY <1>1 DEF AnswerCall, AccountsTypeOK, CallOK
<1>4. /\ serving' = [serving EXCEPT ![t] = d]
      /\ UNCHANGED <<operators, byEmail, otps, sessions, bindings, opFile, provedWith>>
  BY <1>1, <1>2 DEF AnswerCall
<1>5. PICK v, l, g, b, s :
        /\ promised' = [verified |-> v, loggedOut |-> l, leaving |-> g, bound |-> b, staying |-> s]
        /\ v = promised.verified \cup (IF c.op = "verify" THEN {c.n} ELSE {})
        /\ l = promised.loggedOut \cup (IF c.op = "logout" THEN {c.n} ELSE {})
        /\ g = promised.leaving \cup (IF c.op = "leave" THEN {c.n} ELSE {})
        /\ b = promised.bound \cup (IF c.op = "bind" THEN {<<c.n, c.agent>>} ELSE {})
        /\ s = promised.staying \cup (IF c.op = "stay" THEN {c.n} ELSE {})
  <2>1. promised \in [verified : SUBSET Number, loggedOut : SUBSET Number, leaving : SUBSET Number,
                      bound : SUBSET Pair, staying : SUBSET Number]
    BY DEF AccountsTypeOK
  <2>2. CASE c.op = "verify"
    <3>1. promised' = [promised EXCEPT !.verified = @ \cup {c.n}]
      BY <1>1, <2>2 DEF AnswerCall
    <3> QED
      BY <2>1, <2>2, <3>1
  <2>3. CASE c.op = "logout"
    <3>1. promised' = [promised EXCEPT !.loggedOut = @ \cup {c.n}]
      BY <1>1, <2>3 DEF AnswerCall
    <3> QED
      BY <2>1, <2>3, <3>1
  <2>4. CASE c.op = "leave"
    <3>1. promised' = [promised EXCEPT !.leaving = @ \cup {c.n}]
      BY <1>1, <2>4 DEF AnswerCall
    <3> QED
      BY <2>1, <2>4, <3>1
  <2>5. CASE c.op = "stay"
    <3>1. promised' = [promised EXCEPT !.staying = @ \cup {c.n}]
      BY <1>1, <2>5 DEF AnswerCall
    <3> QED
      BY <2>1, <2>5, <3>1
  <2>6. CASE c.op = "bind"
    <3>1. promised' = [promised EXCEPT !.bound = @ \cup {<<c.n, c.agent>>}]
      BY <1>1, <2>6 DEF AnswerCall
    <3> QED
      BY <2>1, <2>6, <3>1
  <2>7. CASE c.op \notin {"verify", "logout", "leave", "stay", "bind"}
    <3>1. promised' = promised
      BY <1>1, <2>7 DEF AnswerCall
    <3> QED
      BY <2>1, <2>7, <3>1
  <2> QED
    BY <2>2, <2>3, <2>4, <2>5, <2>6, <2>7
<1>6. promised' \in [verified : SUBSET Number, loggedOut : SUBSET Number, leaving : SUBSET Number,
                     bound : SUBSET Pair, staying : SUBSET Number]
  BY <1>3, <1>5 DEF AccountsTypeOK, Pair
<1>7. CallOK(d) /\ d.pc = "idle" /\ d.op = "none"
  BY <1>2, EmptyBooks
<1>8. ASSUME ~mishap.raced
      PROVE  /\ Registered /\ c.n <= calls
             /\ c.op = "verify" => operators[c.n].verified
             /\ c.op = "logout" => sessions[c.n] = 0
             /\ c.op \in {"leave", "stay"} => operators[c.n].leaving = (c.op = "leave")
             /\ c.op = "bind" => <<c.n, c.agent>> \in bindings
  BY <1>1, <1>3, <1>8, AloneAtWork DEF SeenAndDone
<1>9. ASSUME ~mishap.raced PROVE Registered' /\ SeenAndDone(d)'
  <2>1. promised'.bound \subseteq bindings
    BY <1>5, <1>8, <1>9 DEF Registered
  <2>2. \A n \in promised'.verified \cup promised'.loggedOut \cup promised'.leaving \cup promised'.staying : n <= calls
    BY <1>5, <1>8, <1>9 DEF Registered
  <2>3. Registered'
    BY <1>4, <1>8, <1>9, <2>1, <2>2 DEF Registered, WellKept
  <2> QED
    BY <1>7, <2>3 DEF SeenAndDone, Writing
<1>10. ASSUME ~mishap.raced, nodeUp, ~mishap.unsaved
       PROVE  /\ Honoured(operators, sessions)' /\ Honoured(opFile.operators, opFile.sessions)'
              /\ opFile' = OperatorDb(operators, sessions)'
  <2>1. Honoured(operators, sessions) /\ opFile = OperatorDb(operators, sessions)
    BY <1>1, <1>3, <1>10, AloneAtWork DEF Writing
  <2>2. opFile.operators = operators /\ opFile.sessions = sessions
    BY <2>1 DEF OperatorDb
  <2>3. Honoured(operators, sessions)'
    BY <1>4, <1>5, <1>8, <1>10, <2>1 DEF Honoured
  <2> QED
    BY <1>4, <2>1, <2>2, <2>3 DEF Honoured, OperatorDb
<1> QED
  BY <1>1, <1>3, <1>4, <1>6, <1>7, <1>9, <1>10, CallKeeps DEF AccountsTypeOK

\* A call that begins finds no other under way, or calls overlap from now on.
LEMMA CallBegins ==
  ASSUME AccountsTypeOK, AccountsInv, NEW t \in Thread, NEW c, CallOK(c), c.pc \in Changes \cup {"insert", "dump"},
         Called(t, c), mishap' = [mishap EXCEPT !.raced = @ \/ ~Alone(serving')], UNCHANGED <<nodeUp, reboots>>,
         promised' \in [verified : SUBSET Number, loggedOut : SUBSET Number, leaving : SUBSET Number,
                        bound : SUBSET Pair, staying : SUBSET Number],
         promised'.verified \subseteq promised.verified, promised'.loggedOut \subseteq promised.loggedOut,
         promised'.leaving \subseteq promised.leaving, promised'.staying \subseteq promised.staying,
         promised'.bound \subseteq promised.bound,
         Registered => SeenAndDone(c)'
  PROVE  AccountsTypeOK' /\ AccountsInv'
<1>1. /\ nodeUp /\ serving[t].pc = "idle" /\ calls < MaxCall /\ calls' = calls + 1
      /\ serving' = [serving EXCEPT ![t] = c]
      /\ UNCHANGED <<operators, byEmail, otps, sessions, bindings, opFile, provedWith>>
  BY DEF Called
<1>2. /\ serving' \in [Thread -> CallRecord] /\ \A u \in Thread : CallOK(serving'[u])
      /\ serving'[t] = c /\ \A u \in Thread \ {t} : serving'[u] = serving[u]
  BY <1>1, OneCallMoves
<1>3. /\ mishap' \in [raced : BOOLEAN, unsaved : BOOLEAN] /\ mishap'.unsaved = mishap.unsaved
      /\ ~mishap'.raced => ~mishap.raced /\ Alone(serving')
  BY DEF AccountsTypeOK
<1>4. calls \in Nat /\ calls' \in 0 .. MaxCall
  BY <1>1, AccountsAssumption DEF AccountsTypeOK
<1>5. AccountsTypeOK'
  BY <1>1, <1>2, <1>3, <1>4 DEF AccountsTypeOK
<1>6. SUFFICES ASSUME ~mishap'.raced PROVE AccountsInv'
  BY <1>5 DEF AccountsInv
<1>7. c.pc # "idle"
  BY DEF Changes
<1>8. \A u \in Thread \ {t} : serving'[u] = serving[u] /\ serving[u].pc = "idle" /\ serving'[u] = NoCall
  BY <1>1, <1>2, <1>3, <1>6, <1>7 DEF Alone, AccountsTypeOK, CallOK
<1>9. Registered /\ (nodeUp /\ ~mishap.unsaved => AnswersSurvive) /\ \A u \in Thread : serving[u].pc = "idle"
  BY <1>1, <1>3, <1>6, <1>8 DEF AccountsInv
<1>10. Registered'
  <2>1. calls' > calls
    BY <1>1, <1>4
  <2>2. \A n \in Number : n <= calls => n <= calls'
    BY <1>4, <2>1, AccountsAssumption DEF Number
  <2>3. WellKept(operators, sessions)' /\ WellKept(opFile.operators, opFile.sessions)'
    BY <1>1, <1>9, <2>2 DEF Registered, WellKept
  <2>4. \A n \in promised'.verified \cup promised'.loggedOut \cup promised'.leaving \cup promised'.staying : n <= calls'
    BY <1>9, <2>2 DEF Registered
  <2> QED
    BY <1>1, <1>9, <2>3, <2>4 DEF Registered
<1>11. \A u \in Thread : SeenAndDone(serving[u])'
  <2>1. TAKE u \in Thread
  <2>2. CASE u = t
    BY <1>2, <1>9, <2>2
  <2>3. CASE u # t
    BY <1>8, <2>1, <2>3, EmptyBooks DEF SeenAndDone, Writing
  <2> QED
    BY <2>2, <2>3
<1>12. nodeUp' /\ ~mishap'.unsaved => AnswersSurvive'
  <2>1. SUFFICES ASSUME nodeUp, ~mishap.unsaved PROVE AnswersSurvive'
    BY <1>3
  <2>2. /\ Honoured(operators, sessions) /\ (opFile.readable => Honoured(opFile.operators, opFile.sessions))
        /\ opFile = OperatorDb(operators, sessions)
    BY <1>9, <2>1 DEF AnswersSurvive, Writing
  <2>3. Honoured(operators, sessions)' /\ (opFile'.readable => Honoured(opFile.operators, opFile.sessions)')
    BY <1>1, <2>2 DEF Honoured
  <2>4. opFile' = OperatorDb(operators, sessions)'
    BY <1>1, <2>2 DEF OperatorDb
  <2> QED
    BY <2>3, <2>4 DEF AnswersSurvive
<1> QED
  BY <1>3, <1>6, <1>10, <1>11, <1>12 DEF AccountsInv

\* A proposal changes nothing here, and writes the file.
LEMMA ConsumeProposeKeeps ==
  ASSUME AccountsTypeOK, AccountsInv, NEW t \in Thread, ConsumePropose(t),
         mishap' = [mishap EXCEPT !.raced = @ \/ ~Alone(serving')], UNCHANGED <<nodeUp, reboots>>
  PROVE  AccountsTypeOK' /\ AccountsInv'
<1>1. PICK c : c = [NoCall EXCEPT !.pc = "dump", !.op = "propose", !.n = calls + 1]
  OBVIOUS
<1>2. Called(t, c) /\ promised' = promised /\ calls < MaxCall /\ calls' = calls + 1
  BY <1>1 DEF ConsumePropose, Called
<1>3. NoCall \in CallRecord /\ calls \in Nat /\ (calls < MaxCall => calls + 1 \in Number) /\ Number \subseteq 0 .. MaxCall
  BY EmptyBooks, AccountsAssumption DEF AccountsTypeOK, Number
<1>4. c \in CallRecord /\ c.pc = "dump" /\ c.op = "propose" /\ c.n = calls + 1
  BY <1>1, <1>2, <1>3 DEF CallRecord, Writing
<1>5. CallOK(c) /\ c.pc \in Changes \cup {"insert", "dump"}
  BY <1>2, <1>3, <1>4 DEF CallOK, Changes, Writing, Persists
<1>6. SeenAndDone(c)'
  BY <1>2, <1>3, <1>4 DEF SeenAndDone, Writing
<1>7. /\ promised' \in [verified : SUBSET Number, loggedOut : SUBSET Number, leaving : SUBSET Number,
                        bound : SUBSET Pair, staying : SUBSET Number]
  BY <1>2 DEF AccountsTypeOK
<1> QED
  BY <1>2, <1>5, <1>6, <1>7, CallBegins

LEMMA AddressCallKeeps ==
  ASSUME AccountsTypeOK, AccountsInv, NEW t \in Thread, AddressCall(t),
         mishap' = [mishap EXCEPT !.raced = @ \/ ~Alone(serving')], UNCHANGED <<nodeUp, reboots>>
  PROVE  AccountsTypeOK' /\ AccountsInv'
<1>0. SUFFICES ASSUME NEW e \in Email,
                      RegisterOperator(t, e) \/ Login(t, e) \/ \E otp \in Number : VerifyEmail(t, e, otp)
               PROVE  AccountsTypeOK' /\ AccountsInv'
  BY ConsumeProposeKeeps DEF AddressCall
<1>1. RegisterOperator(t, e) \/ Login(t, e) \/ \E otp \in Number : VerifyEmail(t, e, otp)
  BY <1>0
<1>2. NoCall \in CallRecord /\ 0 \notin Number /\ Number \subseteq 0 .. MaxCall
  BY EmptyBooks, AccountsAssumption DEF Number
<1>3. promised' = promised
  BY <1>1 DEF RegisterOperator, Login, VerifyEmail
<1>4. /\ promised' \in [verified : SUBSET Number, loggedOut : SUBSET Number, leaving : SUBSET Number,
                        bound : SUBSET Pair, staying : SUBSET Number]
  BY <1>3 DEF AccountsTypeOK
<1>5. calls \in Nat /\ (calls < MaxCall => calls + 1 \in Number) /\ \A n \in Number : n <= calls => n # calls + 1
  BY AccountsAssumption DEF AccountsTypeOK, Number
<1>6. CASE RegisterOperator(t, e)
  <2>1. PICK c : c = [NoCall EXCEPT !.pc = "insert", !.op = "register", !.email = e, !.n = calls + 1]
    OBVIOUS
  <2>2. Called(t, c) /\ byEmail[e] = 0 /\ calls < MaxCall /\ calls' = calls + 1
    BY <1>6, <2>1 DEF RegisterOperator, Called
  <2>3. c \in CallRecord /\ c.pc = "insert" /\ c.op = "register" /\ c.email = e /\ c.n = calls + 1
    BY <1>2, <1>5, <2>1, <2>2 DEF CallRecord
  <2>4. CallOK(c) /\ c.pc \in Changes \cup {"insert", "dump"}
    BY <1>5, <2>2, <2>3 DEF CallOK, Changes, Writing
  <2>5. ASSUME Registered PROVE SeenAndDone(c)'
    <3>1. operators[c.n] = NoOperator
      BY <1>5, <2>2, <2>3, <2>5 DEF Registered, WellKept
    <3>2. c.n \notin promised.verified \cup promised.leaving
      BY <1>5, <2>2, <2>3, <2>5 DEF Registered, AccountsTypeOK
    <3>3. UNCHANGED <<operators, byEmail>>
      BY <2>2 DEF Called
    <3>4. c.n <= calls'
      BY <1>5, <2>2, <2>3
    <3> QED
      BY <1>3, <2>2, <2>3, <3>1, <3>2, <3>3, <3>4 DEF SeenAndDone, Writing
  <2> QED
    BY <1>3, <1>4, <2>2, <2>4, <2>5, CallBegins
<1>7. CASE Login(t, e)
  <2>1. PICK c : c = [NoCall EXCEPT !.pc = "login", !.op = "login", !.email = e, !.n = calls + 1]
    OBVIOUS
  <2>2. Called(t, c) /\ byEmail[e] # 0 /\ operators[byEmail[e]].verified /\ calls < MaxCall /\ calls' = calls + 1
    BY <1>7, <2>1 DEF Login, Called
  <2>3. c \in CallRecord /\ c.pc = "login" /\ c.op = "login" /\ c.email = e /\ c.n = calls + 1
    BY <1>2, <1>5, <2>1, <2>2 DEF CallRecord, Changes
  <2>4. CallOK(c) /\ c.pc \in Changes \cup {"insert", "dump"}
    BY <1>5, <2>2, <2>3 DEF CallOK, Changes, Writing
  <2>5. ASSUME Registered PROVE SeenAndDone(c)'
    <3>1. c.n \notin promised.loggedOut
      BY <1>5, <2>2, <2>3, <2>5 DEF Registered, AccountsTypeOK
    <3>2. UNCHANGED <<operators, byEmail>>
      BY <2>2 DEF Called
    <3>3. c.n <= calls'
      BY <1>5, <2>2, <2>3
    <3> QED
      BY <1>3, <2>2, <2>3, <3>1, <3>2, <3>3 DEF SeenAndDone, Writing
  <2> QED
    BY <1>3, <1>4, <2>2, <2>4, <2>5, CallBegins
<1>8. ASSUME NEW otp \in Number, VerifyEmail(t, e, otp) PROVE AccountsTypeOK' /\ AccountsInv'
  <2>1. PICK c : c = [NoCall EXCEPT !.pc = "verify", !.op = "verify", !.email = e, !.n = byEmail[e], !.otp = otp]
    OBVIOUS
  <2>2. /\ Called(t, c) /\ byEmail[e] \in Number /\ otps[e] = otp /\ otp # 0 /\ calls' = calls + 1
    BY <1>8, <2>1, AccountsAssumption DEF VerifyEmail, Called, AccountsTypeOK, Number
  <2>3. c \in CallRecord /\ c.pc = "verify" /\ c.op = "verify" /\ c.email = e /\ c.n = byEmail[e] /\ c.otp = otp
    BY <1>2, <2>1, <2>2 DEF CallRecord, Changes
  <2>4. CallOK(c) /\ c.pc \in Changes \cup {"insert", "dump"}
    BY <2>2, <2>3 DEF CallOK, Changes, Writing
  <2>5. ASSUME Registered PROVE SeenAndDone(c)'
    <3>1. otps[e] = byEmail[e]
      BY <2>2, <2>5 DEF Registered
    <3>2. UNCHANGED <<otps, byEmail>>
      BY <2>2 DEF Called
    <3>3. operators[c.n].email = e /\ e # "none"
      BY <2>2, <2>3, <2>5, AccountsAssumption DEF Registered
    <3>4. c.n <= calls
      BY <2>2, <2>3, <2>5, <3>3 DEF Registered, WellKept
    <3>5. c.n <= calls' /\ c.n \in Nat
      BY <1>5, <2>2, <2>3, <3>4 DEF Number
    <3> QED
      BY <2>2, <2>3, <3>1, <3>2, <3>5 DEF SeenAndDone, Writing
  <2> QED
    BY <1>3, <1>4, <2>2, <2>4, <2>5, CallBegins
<1> QED
  BY <1>1, <1>6, <1>7, <1>8

\* The latest of some calls.
LEMMA GreatestCall ==
  ASSUME NEW of \in SUBSET (0 .. MaxCall), of # {}
  PROVE  \E n \in of : \A k \in of : k <= n
<1> DEFINE Rest == {MaxCall - n : n \in of}
<1>1. MaxCall \in Nat /\ Rest \in SUBSET (0 .. MaxCall) /\ Rest # {}
  <2>1. MaxCall \in Nat
    BY AccountsAssumption
  <2>2. \A n \in of : MaxCall - n \in 0 .. MaxCall
    BY <2>1
  <2>3. PICK m \in of : TRUE
    OBVIOUS
  <2>4. MaxCall - m \in Rest
    BY <2>3
  <2> QED
    BY <2>1, <2>2, <2>4
<1>2. PICK x \in Rest : \A y \in Rest : x <= y
  <2> HIDE DEF Rest
  <2> QED
    BY <1>1, Least
<1>3. PICK n \in of : x = MaxCall - n
  BY <1>2
<1>4. \A k \in of : MaxCall - n <= MaxCall - k
  BY <1>2, <1>3
<1> QED
  BY <1>1, <1>3, <1>4

\* The account of a token is one with an address.
LEMMA AccountOfToken ==
  ASSUME AccountsTypeOK, NEW token \in Number, OperatorOf(token) # 0
  PROVE  /\ OperatorOf(token) \in Number
         /\ Registered => operators[OperatorOf(token)].email # "none" /\ OperatorOf(token) <= calls
<1>1. OperatorOf(token) = sessions[token] /\ operators[sessions[token]] # NoOperator
  BY DEF OperatorOf
<1>2. OperatorOf(token) \in Number
  BY <1>1, AccountsAssumption DEF AccountsTypeOK, Tokens, Number
<1> QED
  BY <1>1, <1>2 DEF Registered, WellKept

LEMMA SessionCallKeeps ==
  ASSUME AccountsTypeOK, AccountsInv, NEW t \in Thread, SessionCall(t),
         mishap' = [mishap EXCEPT !.raced = @ \/ ~Alone(serving')], UNCHANGED <<nodeUp, reboots>>
  PROVE  AccountsTypeOK' /\ AccountsInv'
<1>1. PICK token \in Number :
        \/ Logout(t, token)
        \/ \E op \in {"leave", "stay"} : Deletion(t, token, op)
        \/ \E a \in AgentId : Bind(t, token, a) \/ Unbind(t, token, a)
  BY DEF SessionCall
<1>2. /\ NoCall \in CallRecord /\ 0 \notin Number /\ Number \subseteq 0 .. MaxCall /\ calls \in Nat
      /\ Number \subseteq Nat
  BY EmptyBooks, AccountsAssumption DEF Number, AccountsTypeOK
<1>3. promised \in [verified : SUBSET Number, loggedOut : SUBSET Number, leaving : SUBSET Number,
                    bound : SUBSET Pair, staying : SUBSET Number]
  BY DEF AccountsTypeOK
<1>4. PICK m : m = OperatorOf(token)
  OBVIOUS
<1>5. m # 0 => m \in Number /\ (Registered => operators[m].email # "none" /\ m <= calls)
  BY <1>4, AccountOfToken
<1>6. CASE Logout(t, token)
  <2>1. PICK c : c = [NoCall EXCEPT !.pc = "logout", !.op = "logout", !.n = token]
    OBVIOUS
  <2>2. Called(t, c) /\ sessions[token] # 0 /\ calls' = calls + 1 /\ promised' = promised
    BY <1>6, <2>1 DEF Logout, Called
  <2>3. c \in CallRecord /\ c.pc = "logout" /\ c.op = "logout" /\ c.n = token
    BY <1>2, <2>1 DEF CallRecord, Changes
  <2>4. CallOK(c) /\ c.pc \in Changes \cup {"insert", "dump"}
    BY <2>3 DEF CallOK, Changes, Writing
  <2>5. ASSUME Registered PROVE SeenAndDone(c)'
    <3>1. c.n <= calls
      BY <2>2, <2>3, <2>5 DEF Registered, WellKept
    <3>2. c.n <= calls'
      BY <1>2, <2>2, <2>3, <3>1
    <3> QED
      BY <2>3, <3>2 DEF SeenAndDone, Writing
  <2> QED
    BY <1>3, <2>2, <2>4, <2>5, CallBegins
<1>7. ASSUME NEW op \in {"leave", "stay"}, Deletion(t, token, op) PROVE AccountsTypeOK' /\ AccountsInv'
  <2>1. PICK c : c = [NoCall EXCEPT !.pc = op, !.op = op, !.n = m]
    OBVIOUS
  <2>2. /\ Called(t, c) /\ m # 0 /\ calls' = calls + 1
        /\ promised' = [promised EXCEPT !.leaving = @ \ {m}, !.staying = @ \ {m}]
    BY <1>4, <1>7, <2>1 DEF Deletion, Called
  <2>3. c \in CallRecord /\ c.pc = op /\ c.op = op /\ c.n = m
    BY <1>2, <1>5, <2>1, <2>2 DEF CallRecord, Changes
  <2>4. CallOK(c) /\ c.pc \in Changes \cup {"insert", "dump"}
    BY <1>5, <2>2, <2>3 DEF CallOK, Changes, Writing
  <2>5. /\ promised' \in [verified : SUBSET Number, loggedOut : SUBSET Number, leaving : SUBSET Number,
                          bound : SUBSET Pair, staying : SUBSET Number]
        /\ promised'.verified = promised.verified /\ promised'.loggedOut = promised.loggedOut
        /\ promised'.leaving = promised.leaving \ {m} /\ promised'.staying = promised.staying \ {m}
        /\ promised'.bound = promised.bound
    BY <1>3, <2>2
  <2>6. ASSUME Registered PROVE SeenAndDone(c)'
    <3>1. c.n <= calls /\ operators[c.n].email # "none"
      BY <1>5, <2>2, <2>3, <2>6
    <3>2. c.n <= calls'
      BY <1>2, <1>5, <2>2, <2>3, <3>1
    <3>3. operators' = operators
      BY <2>2 DEF Called
    <3> QED
      BY <2>3, <2>5, <3>1, <3>2, <3>3 DEF SeenAndDone, Writing
  <2> QED
    BY <2>2, <2>4, <2>5, <2>6, CallBegins
<1>8. ASSUME NEW a \in AgentId, Bind(t, token, a) PROVE AccountsTypeOK' /\ AccountsInv'
  <2>1. PICK c : c = [NoCall EXCEPT !.pc = "bind", !.op = "bind", !.n = m, !.agent = a]
    OBVIOUS
  <2>2. Called(t, c) /\ m # 0 /\ calls' = calls + 1 /\ promised' = promised
    BY <1>4, <1>8, <2>1 DEF Bind, Called
  <2>3. c \in CallRecord /\ c.pc = "bind" /\ c.op = "bind" /\ c.n = m /\ c.agent = a
    BY <1>2, <1>5, <2>1, <2>2 DEF CallRecord, Changes
  <2>4. CallOK(c) /\ c.pc \in Changes \cup {"insert", "dump"}
    BY <1>5, <2>2, <2>3 DEF CallOK, Changes, Writing
  <2>5. ASSUME Registered PROVE SeenAndDone(c)'
    <3>1. c.n <= calls'
      BY <1>2, <1>5, <2>2, <2>3, <2>5
    <3> QED
      BY <2>3, <3>1 DEF SeenAndDone, Writing
  <2> QED
    BY <1>3, <2>2, <2>4, <2>5, CallBegins
<1>9. ASSUME NEW a \in AgentId, Unbind(t, token, a) PROVE AccountsTypeOK' /\ AccountsInv'
  <2>1. PICK k : k = bindings \ {<<m, a>>}
    OBVIOUS
  <2>2. PICK c : c = [NoCall EXCEPT !.pc = "unbind", !.op = "unbind", !.n = m, !.agent = a, !.kept = k]
    OBVIOUS
  <2>3. /\ Called(t, c) /\ m # 0 /\ calls' = calls + 1
        /\ promised' = [promised EXCEPT !.bound = @ \ {<<m, a>>}]
    BY <1>4, <1>9, <2>1, <2>2 DEF Unbind, Called
  <2>4. k \in SUBSET Pair
    BY <2>1 DEF AccountsTypeOK
  <2>5. c \in CallRecord /\ c.pc = "unbind" /\ c.op = "unbind" /\ c.n = m /\ c.agent = a /\ c.kept = k
    BY <1>2, <1>5, <2>2, <2>3, <2>4 DEF CallRecord, Changes
  <2>6. CallOK(c) /\ c.pc \in Changes \cup {"insert", "dump"}
    BY <1>5, <2>3, <2>5 DEF CallOK, Changes, Writing
  <2>7. /\ promised' \in [verified : SUBSET Number, loggedOut : SUBSET Number, leaving : SUBSET Number,
                          bound : SUBSET Pair, staying : SUBSET Number]
        /\ promised'.verified = promised.verified /\ promised'.loggedOut = promised.loggedOut
        /\ promised'.leaving = promised.leaving /\ promised'.staying = promised.staying
        /\ promised'.bound = promised.bound \ {<<m, a>>}
    BY <1>3, <2>3
  <2>8. ASSUME Registered PROVE SeenAndDone(c)'
    <3>1. c.n <= calls'
      BY <1>2, <1>5, <2>3, <2>5, <2>8
    <3>2. promised'.bound \subseteq c.kept
      BY <2>1, <2>5, <2>7, <2>8 DEF Registered
    <3> QED
      BY <2>5, <3>1, <3>2 DEF SeenAndDone, Writing
  <2> QED
    BY <2>3, <2>6, <2>7, <2>8, CallBegins
<1> QED
  BY <1>1, <1>6, <1>7, <1>8, <1>9

LEMMA RestartNodeKeeps ==
  ASSUME AccountsTypeOK, AccountsInv, RestartNode
  PROVE  AccountsTypeOK' /\ AccountsInv'
<1>1. /\ nodeUp' = opFile.readable /\ operators' = opFile.operators /\ sessions' = opFile.sessions
      /\ otps' = [e \in Email |-> 0] /\ bindings' = {} /\ serving' = [t \in Thread |-> NoCall]
      /\ nodeUp /\ UNCHANGED <<opFile, calls, provedWith, mishap>>
  BY DEF RestartNode
<1>2. /\ promised' \in [verified : SUBSET Number, loggedOut : SUBSET Number, leaving : SUBSET Number,
                        bound : SUBSET Pair, staying : SUBSET Number]
      /\ promised'.verified = promised.verified /\ promised'.loggedOut = promised.loggedOut
      /\ promised'.leaving = promised.leaving /\ promised'.staying = promised.staying
      /\ promised'.bound = {}
  <2>1. promised' = [promised EXCEPT !.bound = {}]
    BY DEF RestartNode
  <2>2. promised \in [verified : SUBSET Number, loggedOut : SUBSET Number, leaving : SUBSET Number,
                      bound : SUBSET Pair, staying : SUBSET Number]
    BY DEF AccountsTypeOK
  <2> QED
    BY <2>1, <2>2
<1>3. 0 \notin Number /\ 0 \in 0 .. MaxCall /\ Number \subseteq 0 .. MaxCall /\ "none" \notin Email /\ Number \subseteq Int
  BY AccountsAssumption DEF Number
<1>4. opFile.operators \in [Number -> Operator] /\ opFile.sessions \in Tokens /\ opFile.readable \in BOOLEAN
  BY DEF AccountsTypeOK
<1>5. ASSUME NEW e \in Email, ~mishap.raced
      PROVE  byEmail'[e] \in 0 .. MaxCall /\ \A n \in Number : byEmail'[e] = n <=> opFile.operators[n].email = e
  <2>1. PICK of : of = {n \in Number : opFile.operators[n].email = e}
    OBVIOUS
  <2>2. byEmail'[e] = IF of = {} THEN 0 ELSE CHOOSE n \in of : \A k \in of : k <= n
    BY <2>1 DEF RestartNode
  <2>3. WellKept(opFile.operators, opFile.sessions)
    BY <1>5 DEF AccountsInv, Registered
  <2>4. \A n, k \in of : n = k
    BY <1>3, <2>1, <2>3 DEF WellKept
  <2>5. CASE of = {}
    BY <1>3, <2>1, <2>2, <2>5
  <2>6. CASE of # {}
    <3>1. PICK m \in of : TRUE
      BY <2>6
    <3>2. of \subseteq Number /\ \A k \in of : k <= m
      BY <1>3, <2>1, <2>4, <3>1
    <3>3. (CHOOSE n \in of : \A k \in of : k <= n) \in of
      BY <3>1, <3>2
    <3>4. byEmail'[e] = m
      BY <2>2, <2>4, <2>6, <3>1, <3>3
    <3> QED
      BY <1>3, <2>1, <2>4, <3>1, <3>2, <3>4
  <2> QED
    BY <2>5, <2>6
<1>6. byEmail' \in [Email -> 0 .. MaxCall]
  <2>1. SUFFICES ASSUME NEW e \in Email PROVE byEmail'[e] \in 0 .. MaxCall
    BY DEF RestartNode
  <2>2. PICK of : of = {n \in Number : opFile.operators[n].email = e}
    OBVIOUS
  <2>3. byEmail'[e] = IF of = {} THEN 0 ELSE CHOOSE n \in of : \A k \in of : k <= n
    BY <2>2 DEF RestartNode
  <2>4. CASE of = {}
    BY <1>3, <2>3, <2>4
  <2>5. CASE of # {}
    <3>1. of \subseteq 0 .. MaxCall
      BY <1>3, <2>2
    <3>2. \E n \in of : \A k \in of : k <= n
      BY <2>5, <3>1, AccountsAssumption, GreatestCall
    <3> QED
      BY <2>3, <2>5, <3>1, <3>2
  <2> QED
    BY <2>4, <2>5
<1>7. AccountsTypeOK'
  BY <1>1, <1>2, <1>3, <1>4, <1>6, EmptyBooks DEF AccountsTypeOK
<1>8. SUFFICES ASSUME ~mishap.raced PROVE AccountsInv'
  BY <1>1, <1>7 DEF AccountsInv
<1>9. Registered /\ (nodeUp /\ ~mishap.unsaved => AnswersSurvive)
  BY <1>8 DEF AccountsInv
<1>10. Registered'
  <2>1. WellKept(operators, sessions)' /\ WellKept(opFile.operators, opFile.sessions)'
    BY <1>1, <1>9 DEF Registered, WellKept
  <2>2. \A n \in promised'.verified \cup promised'.loggedOut \cup promised'.leaving \cup promised'.staying : n <= calls'
    BY <1>1, <1>2, <1>9 DEF Registered
  <2>3. \A e \in Email, n \in Number : byEmail'[e] = n <=> operators'[n].email = e
    BY <1>1, <1>5, <1>8
  <2> QED
    BY <1>1, <1>2, <2>1, <2>2, <2>3 DEF Registered
<1>11. Alone(serving)' /\ \A u \in Thread : SeenAndDone(serving[u])'
  BY <1>1, EmptyBooks DEF Alone, SeenAndDone, Writing
<1>12. nodeUp' /\ ~mishap'.unsaved => AnswersSurvive'
  <2>1. SUFFICES ASSUME opFile.readable, ~mishap.unsaved PROVE AnswersSurvive'
    BY <1>1
  <2>2. Honoured(opFile.operators, opFile.sessions)
    BY <1>1, <1>9, <2>1 DEF AnswersSurvive
  <2>3. Honoured(operators, sessions)' /\ Honoured(opFile.operators, opFile.sessions)'
    BY <1>1, <1>2, <2>2 DEF Honoured
  <2>4. opFile = [readable |-> TRUE, operators |-> opFile.operators, sessions |-> opFile.sessions]
    BY <2>1 DEF AccountsTypeOK
  <2>5. opFile' = OperatorDb(operators, sessions)'
    BY <1>1, <2>4 DEF OperatorDb
  <2> QED
    BY <2>3, <2>5 DEF AnswersSurvive
<1> QED
  BY <1>1, <1>8, <1>10, <1>11, <1>12 DEF AccountsInv

\* node/operators.py, operator_persist.py, operator_bindings.py: for any addresses, agents,
\* calls and restarts, with torn files: accounts belong to who proved their address and
\* tokens to such accounts while calls do not overlap, and what was answered then holds
\* until a later call changes it, also after a restart, if no write failed.
THEOREM AccountsAlwaysSound == AccountsSpec => []AccountsAreSound
<1>1. AccountsInit => AccountsTypeOK /\ AccountsInv
  <2>1. SUFFICES ASSUME AccountsInit PROVE AccountsTypeOK /\ AccountsInv
    OBVIOUS
  <2>2. /\ operators = NoOne /\ sessions = NoToken /\ bindings = {} /\ nodeUp = TRUE /\ calls = 0
        /\ byEmail = [e \in Email |-> 0] /\ otps = [e \in Email |-> 0]
        /\ opFile = OperatorDb(operators, sessions) /\ serving = [t \in Thread |-> NoCall]
        /\ provedWith = [n \in Number |-> 0] /\ mishap = [raced |-> FALSE, unsaved |-> FALSE]
        /\ promised = [verified |-> {}, loggedOut |-> {}, leaving |-> {}, bound |-> {}, staying |-> {}]
    BY <2>1 DEF AccountsInit
  <2>3. 0 \in 0 .. MaxCall /\ 0 \notin Number /\ "none" \notin Email
    BY AccountsAssumption DEF Number
  <2>4. /\ opFile \in [readable : BOOLEAN, operators : [Number -> Operator], sessions : Tokens]
        /\ opFile.operators = operators /\ opFile.sessions = sessions
    BY <2>2, EmptyBooks DEF OperatorDb
  <2>5. AccountsTypeOK
    BY <2>2, <2>3, <2>4, EmptyBooks DEF AccountsTypeOK
  <2>6. /\ \A n \in Number : operators[n] = NoOperator
        /\ \A k \in Number : sessions[k] = 0
    BY <2>2 DEF NoOne, NoToken
  <2>7. WellKept(operators, sessions)
    BY <2>6, EmptyBooks DEF WellKept
  <2>8. Registered
    BY <2>2, <2>3, <2>4, <2>6, <2>7, EmptyBooks DEF Registered
  <2>9. Alone(serving) /\ \A t \in Thread : SeenAndDone(serving[t])
    BY <2>2, EmptyBooks DEF Alone, SeenAndDone, Writing
  <2>10. AnswersSurvive
    BY <2>2, <2>4 DEF AnswersSurvive, Honoured
  <2> QED
    BY <2>5, <2>8, <2>9, <2>10 DEF AccountsInv
<1>2. AccountsTypeOK /\ AccountsInv /\ [AccountsNext]_accountVars => AccountsTypeOK' /\ AccountsInv'
  <2>1. SUFFICES ASSUME AccountsTypeOK, AccountsInv, [AccountsNext]_accountVars
                 PROVE  AccountsTypeOK' /\ AccountsInv'
    OBVIOUS
  <2>2. ASSUME NEW t \in Thread, AddressCall(t) \/ SessionCall(t),
               mishap' = [mishap EXCEPT !.raced = @ \/ ~Alone(serving')], UNCHANGED <<nodeUp, reboots>>
        PROVE  AccountsTypeOK' /\ AccountsInv'
    BY <2>1, <2>2, AddressCallKeeps, SessionCallKeeps
  <2>3. ASSUME NEW t \in Thread, Serves(t), UNCHANGED <<nodeUp, calls, reboots, mishap>>
        PROVE  AccountsTypeOK' /\ AccountsInv'
    <3>1. CASE Assign(t)
      <4>1. serving[t].op \in {"login", "logout", "leave", "stay"}
        BY <2>1, <2>3, <3>1 DEF Assign, AccountsTypeOK, CallOK, Changes
      <4> QED
        BY <2>1, <2>3, <3>1, <4>1, TokenAssignKeeps, WishAssignKeeps
    <3> QED
      BY <2>1, <2>3, <3>1, InsertKeeps, GiveOtpKeeps, VerifyKeeps, RebindKeeps, DumpOperatorsKeeps,
         DumpTokensKeeps, WriteFileKeeps, AnswerCallKeeps DEF Serves
  <2>4. ASSUME NEW t \in Thread, WriteFails(t), mishap' = [mishap EXCEPT !.unsaved = TRUE],
               UNCHANGED <<nodeUp, calls, reboots>>
        PROVE  AccountsTypeOK' /\ AccountsInv'
    BY <2>1, <2>4, WriteFailsKeeps
  <2>5. CASE RestartNode
    BY <2>1, <2>5, RestartNodeKeeps
  <2>6. CASE UNCHANGED accountVars
    BY <2>1, <2>6 DEF accountVars, AccountsTypeOK, AccountsInv, Registered, WellKept, SeenAndDone, Honoured,
                      AnswersSurvive, Alone
  <2> QED
    BY <2>1, <2>2, <2>3, <2>4, <2>5, <2>6 DEF AccountsNext
<1>3. AccountsTypeOK /\ AccountsInv => AccountsAreSound
  <2>1. SUFFICES ASSUME AccountsTypeOK, AccountsInv PROVE AccountsAreSound
    OBVIOUS
  <2>2. ASSUME ~mishap.raced
        PROVE  /\ Registered /\ \A k \in Number : OperatorOf(k) # 0 => OperatorOf(k) = sessions[k]
    BY <2>1, <2>2 DEF AccountsInv, OperatorOf
  <2>3. OwnedByAddress
    <3>1. SUFFICES ASSUME ~mishap.raced, NEW n \in Number
                   PROVE  /\ operators[n].verified => provedWith[n] = n
                          /\ operators[n] # NoOperator => byEmail[operators[n].email] = n
      BY DEF OwnedByAddress
    <3>2. operators[n].email \in Email \cup {"none"}
      BY <2>1 DEF AccountsTypeOK, Operator
    <3> QED
      BY <2>2, <3>1, <3>2 DEF Registered, WellKept
  <2>4. TokensAreOfVerified
    BY <2>2 DEF TokensAreOfVerified, Registered, WellKept
  <2>5. PromisesAreKept
    BY <2>1 DEF PromisesAreKept, AccountsInv, AnswersSurvive, Honoured, Registered
  <2> QED
    BY <2>3, <2>4, <2>5 DEF AccountsAreSound
<1> QED
  BY <1>1, <1>2, <1>3, PTL DEF AccountsSpec

---------------------------------------------------------------------------
(* The listings.                                                           *)

\* What holds at an id that a call does not touch, and of a thread that it is not of.
LEMMA ElsewhereKeeps ==
  ASSUME ListingsInv, NEW i, NEW c \in Caller,
         \A j \in ListingId \ {i} :
           /\ listing'[j] = listing[j] /\ chain'[j] = chain[j]
           /\ j \in raced' <=> j \in raced
           /\ j \in withdrawn' <=> j \in withdrawn,
         \A d \in Caller \ {c} : owes'[d] = owes[d],
         owes[c].op \in {"publish", "withdraw"} => owes[c].id = i,
         owes'[c].op \in {"publish", "withdraw"} => owes'[c].id = i,
         ListingsTypeOK, ListingsTypeOK',
         DebtsAreCurrent',
         i \in ListingId /\ AtRest(i)' /\ listing'[i].offer.hash # 0 /\ i \notin withdrawn' =>
           chain'[i] = Commitment(listing'[i]),
         i \in ListingId /\ AtRest(i)' /\ i \in withdrawn' =>
           chain'[i] = NoCommitment \/ chain'[i].seller # listing'[i].seller
  PROVE  ListingsInv'
<1>1. \A j \in ListingId \ {i} : AtRest(j)' => AtRest(j)
  <2>1. SUFFICES ASSUME NEW j \in ListingId \ {i}, AtRest(j)' PROVE AtRest(j)
    OBVIOUS
  <2>2. \A d \in Caller : ~(owes'[d].id = j /\ owes'[d].op \in {"publish", "withdraw"})
    BY <2>1 DEF AtRest, Owed
  <2>3. \A d \in Caller : ~(owes[d].id = j /\ owes[d].op \in {"publish", "withdraw"})
    BY <2>2
  <2> QED
    BY <2>1, <2>3 DEF AtRest, Owed
<1>2. ChainAgrees'
  <2>1. SUFFICES ASSUME NEW j \in ListingId, AtRest(j)', listing'[j].offer.hash # 0, j \notin withdrawn'
                 PROVE  chain'[j] = Commitment(listing'[j])
    BY DEF ChainAgrees, Commitment
  <2>2. CASE j = i
    BY <2>1, <2>2
  <2>3. CASE j # i
    BY <1>1, <2>1, <2>3 DEF ListingsInv, ChainAgrees
  <2> QED
    BY <2>2, <2>3
<1>3. RevokedIsGone'
  <2>1. SUFFICES ASSUME NEW j \in ListingId, AtRest(j)', j \in withdrawn'
                 PROVE  chain'[j] = NoCommitment \/ chain'[j].seller # listing'[j].seller
    BY DEF RevokedIsGone, NoCommitment
  <2>2. CASE j = i
    BY <2>1, <2>2
  <2>3. CASE j # i
    BY <1>1, <2>1, <2>3 DEF ListingsInv, RevokedIsGone
  <2> QED
    BY <2>2, <2>3
<1> QED
  BY <1>2, <1>3 DEF ListingsInv

\* A call that changes the cache: it owes the index what it put there, or nothing.
LEMMA CacheKeeps ==
  ASSUME ListingsTypeOK, ListingsInv, NEW c \in Caller, NEW i \in ListingId, NEW l \in Entered,
         NEW debt \in {Through} \cup Debts, Upsert(i, l), UNCHANGED chain,
         owes[c].op \in {"none", "read"}, owes' = [owes EXCEPT ![c] = debt],
         \/ debt.op = "none" /\ l.offer.hash = 0 /\ withdrawn' = withdrawn \ {i}
         \/ debt.op = "publish" /\ withdrawn' = withdrawn \ {i}
         \/ debt.op = "withdraw" /\ withdrawn' = withdrawn \cup {i},
         debt.op # "none" => debt.id = i /\ debt.of = Commitment(l)
  PROVE  ListingsTypeOK' /\ ListingsInv'
<1>1. /\ listing' \in [ListingId -> Entered \cup {NoListing}]
      /\ listing'[i] = l /\ \A j \in ListingId \ {i} : listing'[j] = listing[j]
  BY DEF Upsert, ListingsTypeOK
<1>2. order' \in Seq(ListingId)
  <2>1. order' = order \/ order' = Append(order, i)
    BY DEF Upsert
  <2> QED
    BY <2>1 DEF ListingsTypeOK
<1>3. raced' \subseteq ListingId /\ withdrawn' \subseteq ListingId
  BY DEF Upsert, ListingsTypeOK
<1>4. /\ owes' \in [Caller -> {Through} \cup Debts]
      /\ owes'[c] = debt /\ \A d \in Caller \ {c} : owes'[d] = owes[d]
  <2>1. PICK D : D = {Through} \cup Debts
    OBVIOUS
  <2>2. owes \in [Caller -> D] /\ debt \in D
    BY <2>1 DEF ListingsTypeOK
  <2> QED
    BY <2>1, <2>2
<1>5. ListingsTypeOK'
  BY <1>1, <1>2, <1>3, <1>4 DEF ListingsTypeOK
<1>6. Owed(i) => i \in raced'
  BY DEF Upsert
<1>7. \A j \in ListingId \ {i} : (j \in raced' <=> j \in raced) /\ (j \in withdrawn' <=> j \in withdrawn)
  BY DEF Upsert
<1>8. DebtsAreCurrent'
  <2>1. ASSUME NEW d \in Caller, owes'[d].op \in {"publish", "withdraw"}, owes'[d].id \notin raced'
        PROVE  /\ Commitment(listing'[owes'[d].id]) = owes'[d].of
               /\ owes'[d].id \in withdrawn' <=> owes'[d].op = "withdraw"
    <3>1. CASE d = c
      <4>1. owes'[d] = debt /\ debt.id = i /\ debt.of = Commitment(l)
        BY <1>4, <2>1, <3>1
      <4>2. i \in withdrawn' <=> debt.op = "withdraw"
        BY <2>1, <4>1
      <4> QED
        BY <1>1, <4>1, <4>2
    <3>2. CASE d # c
      <4>1. owes'[d] = owes[d]
        BY <1>4, <2>1, <3>2
      <4>2. owes[d].id # i
        BY <1>6, <2>1, <4>1 DEF Owed
      <4>3. owes[d].id \in ListingId
        <5>1. owes[d] \in {Through} \cup Debts
          BY <2>1 DEF ListingsTypeOK
        <5> QED
          BY <2>1, <4>1, <5>1 DEF Through, Debts
      <4>4. owes[d].id \notin raced
        BY <1>7, <2>1, <4>1, <4>2, <4>3
      <4>5. /\ Commitment(listing[owes[d].id]) = owes[d].of
            /\ owes[d].id \in withdrawn <=> owes[d].op = "withdraw"
        BY <2>1, <4>1, <4>4 DEF ListingsInv, DebtsAreCurrent
      <4> QED
        BY <1>1, <1>7, <4>1, <4>2, <4>3, <4>5
    <3> QED
      BY <3>1, <3>2
  <2>2. ASSUME NEW d \in Caller, NEW e \in Caller,
               owes'[d].op \in {"publish", "withdraw"}, owes'[e].op \in {"publish", "withdraw"},
               owes'[d].id = owes'[e].id, owes'[d].id \notin raced'
        PROVE  d = e
    <3>1. ASSUME NEW f \in Caller, f # c, owes'[f].op \in {"publish", "withdraw"}, owes'[f].id \notin raced'
          PROVE  owes'[f] = owes[f] /\ owes[f].id # i /\ owes[f].id \notin raced
      <4>1. owes'[f] = owes[f]
        BY <1>4, <3>1
      <4>2. owes[f].id # i
        BY <1>6, <3>1, <4>1 DEF Owed
      <4>3. owes[f].id \in ListingId
        <5>1. owes[f] \in {Through} \cup Debts
          BY <3>1 DEF ListingsTypeOK
        <5> QED
          BY <3>1, <4>1, <5>1 DEF Through, Debts
      <4> QED
        BY <1>7, <3>1, <4>1, <4>2, <4>3
    <3>2. owes'[c].op \in {"publish", "withdraw"} => owes'[c].id = i
      BY <1>4
    <3>3. CASE d # c /\ e # c
      <4>1. owes'[d] = owes[d] /\ owes'[e] = owes[e] /\ owes[d].id \notin raced
        BY <2>2, <3>1, <3>3
      <4> QED
        BY <2>2, <4>1 DEF ListingsInv, DebtsAreCurrent
    <3>4. CASE d = c /\ e # c
      BY <2>2, <3>1, <3>2, <3>4
    <3>5. CASE d # c /\ e = c
      BY <2>2, <3>1, <3>2, <3>5
    <3> QED
      BY <3>3, <3>4, <3>5
  <2> QED
    BY <2>1, <2>2 DEF DebtsAreCurrent, Commitment
<1>9. AtRest(i)' => debt.op = "none"
  <2>1. SUFFICES ASSUME AtRest(i)', debt.op # "none" PROVE FALSE
    OBVIOUS
  <2>2. owes'[c].id = i /\ owes'[c].op \in {"publish", "withdraw"}
    BY <1>4, <2>1
  <2> QED
    BY <2>1, <2>2 DEF AtRest, Owed
<1>10. debt.op = "none" => l.offer.hash = 0 /\ i \notin withdrawn'
  OBVIOUS
<1> QED
  BY <1>1, <1>4, <1>5, <1>7, <1>8, <1>9, <1>10, ElsewhereKeeps

LEMMA EnterKeeps ==
  ASSUME ListingsTypeOK, ListingsInv, NEW c \in Caller, NEW i \in ListingId, NEW s \in Seller, NEW o \in Offer,
         NEW status \in {"active"} \cup Status, EnterListing(c, i, Listed(s, o, status))
  PROVE  ListingsTypeOK' /\ ListingsInv'
<1>1. PICK l : l = Listed(s, o, status)
  OBVIOUS
<1>2. l \in Entered /\ l.offer.hash \in Nat
  BY <1>1, ListingsAssumption DEF Listed, Entered
<1>3. Commitment(l) \in Commitments
  BY <1>2 DEF Commitment, Commitments, Entered
<1>4. PICK debt : debt = IF l.offer.hash = 0 THEN Through ELSE [op |-> "publish", id |-> i, of |-> Commitment(l)]
  OBVIOUS
<1>5. /\ debt \in {Through} \cup Debts
      /\ (debt.op = "none" /\ l.offer.hash = 0) \/ debt.op = "publish"
      /\ debt.op # "none" => debt.id = i /\ debt.of = Commitment(l)
  BY <1>3, <1>4 DEF Through, Debts
<1>6. /\ Upsert(i, l) /\ UNCHANGED chain /\ owes[c].op = "none" /\ owes' = [owes EXCEPT ![c] = debt]
      /\ withdrawn' = withdrawn \ {i}
  BY <1>1, <1>4 DEF EnterListing
<1> QED
  BY <1>2, <1>5, <1>6, CacheKeeps

LEMMA RevokeReadKeeps ==
  ASSUME ListingsTypeOK, ListingsInv, NEW c \in Caller, NEW i \in ListingId, ReadRevoked(c, i)
  PROVE  ListingsTypeOK' /\ ListingsInv'
<1>1. PICK debt : debt = [op |-> "read", id |-> i, of |-> listing[i]]
  OBVIOUS
<1>2. debt \in Debts /\ debt.op = "read"
  BY <1>1 DEF ReadRevoked, ListingsTypeOK, Debts
<1>3. /\ owes' \in [Caller -> {Through} \cup Debts]
      /\ owes'[c] = debt /\ owes[c].op = "none" /\ \A d \in Caller \ {c} : owes'[d] = owes[d]
  <2>1. PICK D : D = {Through} \cup Debts
    OBVIOUS
  <2>2. owes \in [Caller -> D] /\ debt \in D /\ owes' = [owes EXCEPT ![c] = debt] /\ owes[c].op = "none"
    BY <1>1, <1>2, <2>1 DEF ListingsTypeOK, ReadRevoked
  <2> QED
    BY <2>1, <2>2
<1>4. UNCHANGED <<listing, order, chain, raced, withdrawn>>
  BY DEF ReadRevoked
<1>5. ListingsTypeOK'
  BY <1>3, <1>4 DEF ListingsTypeOK
<1>6. \A d \in Caller : owes'[d].op \in {"publish", "withdraw"} => owes'[d] = owes[d]
  BY <1>2, <1>3
<1>7. DebtsAreCurrent'
  <2>1. \A d \in Caller : owes'[d].op \in {"publish", "withdraw"} /\ owes'[d].id \notin raced =>
          /\ Commitment(listing[owes'[d].id]) = owes'[d].of
          /\ owes'[d].id \in withdrawn <=> owes'[d].op = "withdraw"
    BY <1>6 DEF ListingsInv, DebtsAreCurrent
  <2>2. \A d, e \in Caller :
          {owes'[d].op, owes'[e].op} \subseteq {"publish", "withdraw"} /\ owes'[e].id = owes'[d].id
            /\ owes'[d].id \notin raced => d = e
    BY <1>6 DEF ListingsInv, DebtsAreCurrent
  <2> QED
    BY <1>4, <2>1, <2>2 DEF DebtsAreCurrent, Commitment
<1>8. \A j \in ListingId : AtRest(j)' <=> AtRest(j)
  <2>1. \A j \in ListingId : (Owed(j))' <=> Owed(j)
    BY <1>2, <1>3 DEF Owed
  <2> QED
    BY <1>4, <2>1 DEF AtRest
<1>9. ChainAgrees' /\ RevokedIsGone'
  BY <1>4, <1>8 DEF ListingsInv, ChainAgrees, RevokedIsGone, Commitment
<1> QED
  BY <1>5, <1>7, <1>9 DEF ListingsInv

LEMMA WithdrawKeeps ==
  ASSUME ListingsTypeOK, ListingsInv, NEW c \in Caller, Withdraw(c)
  PROVE  ListingsTypeOK' /\ ListingsInv'
<1>1. PICK i, m : i = owes[c].id /\ m = owes[c].of
  OBVIOUS
<1>2. i \in ListingId /\ m \in Entered
  <2>1. owes[c] \in {Through} \cup Debts /\ owes[c].op = "read"
    BY DEF Withdraw, ListingsTypeOK
  <2> QED
    BY <1>1, <2>1 DEF Through, Debts
<1>3. PICK l : l = [m EXCEPT !.status = "revoked"]
  OBVIOUS
<1>4. l \in Entered /\ Commitment(l) \in Commitments
  <2>1. l \in Entered
    BY <1>2, <1>3 DEF Entered
  <2>2. l.seller \in Seller /\ l.offer \in Offer
    BY <2>1 DEF Entered
  <2> QED
    BY <2>1, <2>2, ListingsAssumption DEF Commitment, Commitments
<1>5. PICK debt : debt = [op |-> "withdraw", id |-> i, of |-> Commitment(l)]
  OBVIOUS
<1>6. debt \in {Through} \cup Debts /\ debt.op = "withdraw" /\ debt.id = i /\ debt.of = Commitment(l)
  BY <1>2, <1>4, <1>5 DEF Debts
<1>7. /\ Upsert(i, l) /\ UNCHANGED chain /\ owes[c].op = "read" /\ owes' = [owes EXCEPT ![c] = debt]
      /\ withdrawn' = withdrawn \cup {i}
  BY <1>1, <1>3, <1>5 DEF Withdraw
<1> QED
  BY <1>2, <1>4, <1>6, <1>7, CacheKeeps

\* The second step of a call: the index follows what the cache held.
LEMMA IndexKeeps ==
  ASSUME ListingsTypeOK, ListingsInv, NEW c \in Caller, Publish(c) \/ Unpublish(c)
  PROVE  ListingsTypeOK' /\ ListingsInv'
<1>1. PICK i, m : i = owes[c].id /\ m = owes[c].of
  OBVIOUS
<1>2. i \in ListingId /\ m \in Commitments /\ owes[c].op \in {"publish", "withdraw"}
  <2>1. owes[c] \in {Through} \cup Debts /\ owes[c].op \in {"publish", "withdraw"}
    BY DEF Publish, Unpublish, ListingsTypeOK
  <2> QED
    BY <1>1, <2>1 DEF Through, Debts
<1>3. /\ UNCHANGED <<listing, order, raced, withdrawn>>
      /\ \/ owes[c].op = "publish" /\ chain' = [chain EXCEPT ![i] = m]
         \/ owes[c].op = "withdraw" /\ chain[i].seller = m.seller /\ chain' = [chain EXCEPT ![i] = NoCommitment]
         \/ owes[c].op = "withdraw" /\ chain[i].seller # m.seller /\ chain' = chain
  BY <1>1 DEF Publish, Unpublish
<1>4. /\ chain' \in [ListingId -> Commitments \cup {NoCommitment}]
      /\ \A j \in ListingId \ {i} : chain'[j] = chain[j]
      /\ owes[c].op = "publish" => chain'[i] = m
      /\ owes[c].op = "withdraw" => chain'[i] = NoCommitment \/ chain'[i].seller # m.seller
  <2>1. PICK C : C = Commitments \cup {NoCommitment}
    OBVIOUS
  <2>2. chain \in [ListingId -> C] /\ m \in C /\ NoCommitment \in C
    BY <1>2, <2>1 DEF ListingsTypeOK
  <2> QED
    BY <1>2, <1>3, <2>1, <2>2
<1>5. /\ owes' \in [Caller -> {Through} \cup Debts]
      /\ owes'[c].op = "none" /\ \A d \in Caller \ {c} : owes'[d] = owes[d]
  <2>1. PICK D : D = {Through} \cup Debts
    OBVIOUS
  <2>2. owes \in [Caller -> D] /\ Through \in D /\ owes' = [owes EXCEPT ![c] = Through]
    BY <2>1 DEF ListingsTypeOK, Publish, Unpublish
  <2>3. Through.op = "none"
    BY DEF Through
  <2> QED
    BY <2>1, <2>2, <2>3
<1>6. ListingsTypeOK'
  BY <1>3, <1>4, <1>5 DEF ListingsTypeOK
<1>7. \A d \in Caller : owes'[d].op \in {"publish", "withdraw"} => owes'[d] = owes[d]
  BY <1>5
<1>8. DebtsAreCurrent'
  <2>1. \A d \in Caller : owes'[d].op \in {"publish", "withdraw"} /\ owes'[d].id \notin raced =>
          /\ Commitment(listing[owes'[d].id]) = owes'[d].of
          /\ owes'[d].id \in withdrawn <=> owes'[d].op = "withdraw"
    BY <1>7 DEF ListingsInv, DebtsAreCurrent
  <2>2. \A d, e \in Caller :
          {owes'[d].op, owes'[e].op} \subseteq {"publish", "withdraw"} /\ owes'[e].id = owes'[d].id
            /\ owes'[d].id \notin raced => d = e
    BY <1>7 DEF ListingsInv, DebtsAreCurrent
  <2> QED
    BY <1>3, <2>1, <2>2 DEF DebtsAreCurrent, Commitment
<1>9. i \notin raced => Commitment(listing[i]) = m /\ (i \in withdrawn <=> owes[c].op = "withdraw")
  BY <1>1, <1>2 DEF ListingsInv, DebtsAreCurrent
<1>10. m.seller = listing[i].seller \/ i \in raced
  BY <1>9 DEF Commitment
<1>11. AtRest(i)' => i \notin raced
  BY <1>3 DEF AtRest
<1> QED
  BY <1>1, <1>2, <1>3, <1>4, <1>5, <1>6, <1>8, <1>9, <1>10, <1>11, ElsewhereKeeps

LEMMA ForemostIsPart ==
  ASSUME NEW P, NEW n
  PROVE  /\ Foremost(P, n) \subseteq P
         /\ \A k \in Foremost(P, n) : Cardinality({m \in P : m <= k}) <= n
<1>1. Foremost(P, n) \subseteq P
  BY DEF Foremost
<1>2. \A k \in Foremost(P, n) : Cardinality({m \in P : m <= k}) <= n
  BY Zenon DEF Foremost
<1> QED
  BY <1>1, <1>2

\* What a search can offer: active listings, whose scores are numbers.
LEMMA AbleFacts ==
  ASSUME ListingsTypeOK, NEW q, q.price \in Nat \ {0}, q.slow \in Nat \ {0}
  PROVE  /\ Able(q) \subseteq Discover(q) /\ Discover(q) \subseteq 1 .. Len(order)
         /\ IsFiniteSet(Able(q)) /\ Cardinality(Able(q)) \in Nat
         /\ \A k \in Able(q) : Score(order[k], q) \in Int
<1>1. PICK active : active = {k \in DOMAIN order : listing[order[k]].status = "active"}
  OBVIOUS
<1>2. /\ Discover(q) \subseteq active /\ active \subseteq 1 .. Len(order) /\ Able(q) \subseteq Discover(q)
      /\ Len(order) \in Nat
  <2>1. PICK F : F = Foremost(active, Fetch)
    OBVIOUS
  <2>2. PICK P : P = {k \in F : Fits(order[k], q)}
    OBVIOUS
  <2>3. PICK n : Discover(q) = Foremost(P, n)
    BY <1>1, <2>1, <2>2 DEF Discover
  <2>4. Discover(q) \subseteq P /\ P \subseteq F /\ F \subseteq active
    BY <2>1, <2>2, <2>3, ForemostIsPart
  <2>5. active \subseteq 1 .. Len(order) /\ Len(order) \in Nat
    BY <1>1 DEF ListingsTypeOK
  <2>6. Able(q) \subseteq Discover(q)
    BY DEF Able
  <2> QED
    BY <2>4, <2>5, <2>6
<1>3. IsFiniteSet(Able(q)) /\ Cardinality(Able(q)) \in Nat
  <2>1. IsFiniteSet(1 .. Len(order))
    BY <1>2, FS_Interval
  <2>2. IsFiniteSet(Able(q))
    BY <1>2, <2>1, FS_Subset
  <2> QED
    BY <2>2, FS_CardinalityType
<1>4. ASSUME NEW k \in Able(q) PROVE Score(order[k], q) \in Int
  <2>0. k \in 1 .. Len(order) /\ order \in Seq(ListingId)
    BY <1>2, <1>4 DEF ListingsTypeOK
  <2>1. PICK i \in ListingId : i = order[k]
    BY <2>0
  <2>2. listing[i].status = "active"
    BY <1>1, <1>2, <1>4, <2>1
  <2>3. listing[i] \in Entered
    BY <2>2 DEF ListingsTypeOK, NoListing
  <2>4. PICK price \in Nat, slow \in Nat, eff \in Nat, disc \in Nat :
          /\ price = listing[i].offer.price /\ slow = listing[i].offer.slow
          /\ eff = Effective[listing[i].seller] /\ disc = Discounted[listing[i].seller]
    BY <2>3, ListingsAssumption DEF Entered
  <2>5. PICK wp \in Nat, ws \in Nat, wr \in Nat : wp = Weigh.price /\ ws = Weigh.sla /\ wr = Weigh.rep
    BY ListingsAssumption
  <2>6. PICK pp \in Int, ss \in Int :
          pp = 100 - (100 * price) \div q.price /\ ss = 100 - (100 * slow) \div q.slow
    BY <2>4
  <2>7. PICK w \in Nat : w = wp + ws + wr
    OBVIOUS
  <2>8. PICK a \in Int, b \in Int, c \in Int, d \in Int : a = wp * pp /\ b = ws * ss /\ c = wr * eff /\ d = w * disc
    <3>1. wp * pp \in Int
      OBVIOUS
    <3>2. ws * ss \in Int
      OBVIOUS
    <3>3. wr * eff \in Int
      OBVIOUS
    <3>4. w * disc \in Int
      OBVIOUS
    <3> QED
      BY <3>1, <3>2, <3>3, <3>4
  <2>9. Score(i, q) = IF a + b + c > d THEN a + b + c - d ELSE 0
    BY <2>4, <2>5, <2>6, <2>7, <2>8 DEF Score
  <2> QED
    BY <2>1, <2>8, <2>9
<1> QED
  BY <1>2, <1>3, <1>4

\* The ranks of those that are able are 1, 2, 3 and so on, the better first.
LEMMA RanksAreNumbers ==
  ASSUME ListingsTypeOK, NEW q, q.price \in Nat \ {0}, q.slow \in Nat \ {0}
  PROVE  /\ \A k \in Able(q) : Rank(k, q) \in 1 .. Cardinality(Able(q))
         /\ \A j, k \in Able(q) : Before(j, k, q) => Rank(j, q) < Rank(k, q)
         /\ \A j, k \in Able(q) : Rank(j, q) = Rank(k, q) => j = k
         /\ \A r \in 1 .. Cardinality(Able(q)) : \E k \in Able(q) : Rank(k, q) = r
<1>1. PICK A : A = Able(q)
  OBVIOUS
<1>2. PICK n \in Nat : n = Cardinality(A)
  BY <1>1, AbleFacts
<1>3. IsFiniteSet(A) /\ A \subseteq Nat
  <2>1. A \subseteq 1 .. Len(order) /\ Len(order) \in Nat
    BY <1>1, AbleFacts DEF ListingsTypeOK
  <2> QED
    BY <1>1, <2>1, AbleFacts
<1>4. PICK f : f = [k \in A |-> Score(order[k], q)]
  OBVIOUS
<1>5. f \in [A -> Int] /\ \A k \in A : f[k] = Score(order[k], q)
  BY <1>1, <1>4, AbleFacts
<1>6. \A j, k \in A : Before(j, k, q) <=> f[j] > f[k] \/ (f[j] = f[k] /\ j < k)
  BY <1>5 DEF Before
<1>7. /\ \A j, k, m \in A : Before(j, k, q) /\ Before(k, m, q) => Before(j, m, q)
      /\ \A k \in A : ~Before(k, k, q)
      /\ \A j, k \in A : j = k \/ Before(j, k, q) \/ Before(k, j, q)
  BY <1>3, <1>5, <1>6
<1>8. PICK L : L = [k \in A |-> {j \in A : Before(j, k, q)}]
  OBVIOUS
<1>9. ASSUME NEW k \in A
      PROVE  /\ L[k] \in SUBSET (A \ {k}) /\ IsFiniteSet(L[k])
             /\ Cardinality(L[k]) \in Nat /\ Rank(k, q) = 1 + Cardinality(L[k])
             /\ Rank(k, q) \in 1 .. n
  <2>1. L[k] = {j \in A : Before(j, k, q)} /\ L[k] \in SUBSET (A \ {k})
    BY <1>7, <1>8
  <2>2. IsFiniteSet(A \ {k}) /\ Cardinality(A \ {k}) = n - 1
    BY <1>2, <1>3, FS_RemoveElement
  <2>3. IsFiniteSet(L[k]) /\ Cardinality(L[k]) <= n - 1 /\ Cardinality(L[k]) \in Nat
    BY <2>1, <2>2, FS_Subset, FS_CardinalityType
  <2>4. Rank(k, q) = 1 + Cardinality(L[k])
    BY <1>1, <2>1 DEF Rank
  <2> QED
    BY <2>1, <2>3, <2>4
<1>10. ASSUME NEW j \in A, NEW k \in A, Before(j, k, q) PROVE Rank(j, q) < Rank(k, q)
  <2>1. L[j] \in SUBSET L[k] /\ j \in L[k] /\ j \notin L[j]
    BY <1>7, <1>8, <1>10
  <2>2. Cardinality(L[j]) <= Cardinality(L[k]) /\ Cardinality(L[k]) # Cardinality(L[j])
    BY <1>9, <2>1, FS_Subset
  <2> QED
    BY <1>9, <2>2
<1>11. ASSUME NEW j \in A, NEW k \in A, Rank(j, q) = Rank(k, q) PROVE j = k
  BY <1>7, <1>9, <1>10, <1>11
<1>12. PICK g : g = [k \in A |-> Rank(k, q)]
  OBVIOUS
<1>13. PICK N : N = 1 .. n
  OBVIOUS
<1>14. g \in [A -> N] /\ \A j, k \in A : g[j] = g[k] => j = k
  BY <1>9, <1>11, <1>12, <1>13
<1>15. g \in Injection(A, N)
  BY <1>14 DEF Injection, IsInjective
<1>16. IsFiniteSet(N) /\ Cardinality(N) = n
  BY <1>2, <1>13, FS_Interval
<1>17. g \in Surjection(A, N)
  BY <1>2, <1>15, <1>16, FS_Injection
<1>18. \A r \in N : \E k \in A : g[k] = r
  BY <1>17 DEF Surjection
<1> QED
  BY <1>1, <1>2, <1>9, <1>10, <1>11, <1>12, <1>13, <1>18

\* No search passes over a better offer, whatever the listings are.
LEMMA BestIsAnswered ==
  ASSUME ListingsTypeOK PROVE AnswersAreBest
<1>1. SUFFICES ASSUME NEW query \in Query
               PROVE  LET q == WithFloor(query)  ranked == FindProviders(query)
                          fair == {i \in {order[k] : k \in Discover(q)} :
                                     Effective[listing[i].seller] >= q.floor}
                      IN  /\ Range(ranked) \subseteq fair
                          /\ fair # {} => ranked # <<>>
                          /\ \A n \in DOMAIN ranked : \A j \in fair :
                               Score(j, q) > Score(ranked[n], q) => j \in {ranked[k] : k \in 1 .. n - 1}
  BY DEF AnswersAreBest
<1>2. PICK q : q = WithFloor(query)
  OBVIOUS
<1>3. PICK ranked : ranked = FindProviders(query)
  OBVIOUS
<1>4. PICK fair : fair = {i \in {order[k] : k \in Discover(q)} : Effective[listing[i].seller] >= q.floor}
  OBVIOUS
<1>5. q.price \in Nat \ {0} /\ q.slow \in Nat \ {0}
  BY <1>1, <1>2, ListingsAssumption DEF WithFloor, Query
<1>6. fair = {order[k] : k \in Able(q)}
  BY <1>4 DEF Able
<1>7. PICK c \in Nat : c = Cardinality(Able(q))
  BY <1>5, AbleFacts
<1>8. PICK len \in Nat : len = (IF c < Limit THEN c ELSE Limit) /\ len <= c
  BY <1>7, ListingsAssumption
<1>9. PICK at : at = [r \in 1 .. len |-> CHOOSE k \in Able(q) : Rank(k, q) = r]
  OBVIOUS
<1>10. ranked = [r \in 1 .. len |-> order[CHOOSE k \in Able(q) : Rank(k, q) = r]]
  BY <1>2, <1>3, <1>7, <1>8 DEF FindProviders, Route
<1>11. DOMAIN ranked = 1 .. len /\ \A r \in 1 .. len : ranked[r] = order[at[r]]
  BY <1>9, <1>10
<1>12. \A r \in 1 .. len : at[r] \in Able(q) /\ Rank(at[r], q) = r
  <2>1. SUFFICES ASSUME NEW r \in 1 .. len PROVE at[r] \in Able(q) /\ Rank(at[r], q) = r
    OBVIOUS
  <2>2. \E k \in Able(q) : Rank(k, q) = r
    BY <1>5, <1>7, <1>8, RanksAreNumbers
  <2> QED
    BY <1>9, <2>2
<1>13. Range(ranked) \subseteq fair
  BY <1>6, <1>11, <1>12 DEF Range
<1>14. fair # {} => ranked # <<>>
  <2>1. SUFFICES ASSUME fair # {} PROVE ranked # <<>>
    OBVIOUS
  <2>2. PICK k \in Able(q) : TRUE
    BY <1>6, <2>1
  <2>3. c # 0
    BY <1>5, <1>7, <2>2, AbleFacts, FS_EmptySet
  <2>4. Limit # 0
    <3>1. PICK active : active = {m \in DOMAIN order : listing[order[m]].status = "active"}
      OBVIOUS
    <3>2. PICK P, n : /\ Discover(q) = Foremost(P, n) /\ P \subseteq Foremost(active, Fetch)
                      /\ n = Limit * DiscoverFactor
      BY <3>1 DEF Discover
    <3>3. PICK U : U = {m \in P : m <= k}
      OBVIOUS
    <3>4. k \in Discover(q)
      BY <2>2 DEF Able
    <3>5. k \in P /\ Cardinality(U) <= n
      <4>1. k \in P
        BY <3>2, <3>4, ForemostIsPart
      <4>2. Cardinality(U) <= n
        <5>1. \A i \in Foremost(P, n) : Cardinality({m \in P : m <= i}) <= n
          BY ForemostIsPart
        <5>2. k \in Foremost(P, n)
          BY <3>2, <3>4
        <5>3. Cardinality({m \in P : m <= k}) <= n
          BY <5>1, <5>2, Zenon
        <5> QED
          BY <3>3, <5>3, Zenon
      <4> QED
        BY <4>1, <4>2
    <3>6. P \subseteq active /\ active \subseteq 1 .. Len(order) /\ Len(order) \in Nat
      <4>1. P \subseteq active
        BY <3>2, ForemostIsPart
      <4>2. active \subseteq 1 .. Len(order) /\ Len(order) \in Nat
        BY <3>1 DEF ListingsTypeOK
      <4> QED
        BY <4>1, <4>2
    <3>7. k \in U /\ U \subseteq 1 .. Len(order)
      <4>1. k \in Int
        BY <3>5, <3>6
      <4>2. k <= k
        BY <4>1
      <4> QED
        BY <3>3, <3>5, <3>6, <4>2
    <3>8. IsFiniteSet(U) /\ Cardinality(U) \in Nat /\ Cardinality(U) # 0
      <4>1. IsFiniteSet(1 .. Len(order))
        BY <3>6, FS_Interval
      <4>2. IsFiniteSet(U)
        BY <3>7, <4>1, FS_Subset
      <4>3. Cardinality(U) \in Nat
        BY <4>2, FS_CardinalityType
      <4>4. Cardinality(U) # 0
        BY <3>7, <4>2, FS_EmptySet
      <4> QED
        BY <4>2, <4>3, <4>4
    <3>9. 0 * DiscoverFactor = 0
      BY ListingsAssumption
    <3> QED
      BY <3>2, <3>5, <3>8, <3>9
  <2>5. len # 0
    BY <1>8, <2>3, <2>4
  <2>6. 1 \in DOMAIN ranked
    BY <1>8, <1>11, <2>5
  <2> QED
    BY <2>6
<1>15. ASSUME NEW r \in 1 .. len, NEW j \in fair, Score(j, q) > Score(ranked[r], q)
       PROVE  j \in {ranked[k] : k \in 1 .. r - 1}
  <2>1. PICK k \in Able(q) : j = order[k]
    BY <1>6, <1>15
  <2>2. Before(k, at[r], q)
    BY <1>11, <1>15, <2>1 DEF Before
  <2>3. at[r] \in Able(q) /\ Rank(at[r], q) = r
    BY <1>12, <1>15
  <2>4. Rank(k, q) \in 1 .. r - 1
    BY <1>5, <1>7, <2>1, <2>2, <2>3, RanksAreNumbers
  <2>5. PICK s \in 1 .. r - 1 : s = Rank(k, q)
    BY <2>4
  <2>6. s \in 1 .. len
    BY <1>8, <1>15, <2>5
  <2>7. at[s] = k
    <3>1. at[s] \in Able(q) /\ Rank(at[s], q) = Rank(k, q)
      BY <1>12, <2>5, <2>6
    <3> QED
      BY <1>5, <2>1, <3>1, RanksAreNumbers
  <2>8. ranked[s] = j
    BY <1>11, <2>1, <2>6, <2>7
  <2> QED
    BY <2>5, <2>8
<1> QED
  BY <1>2, <1>3, <1>4, <1>11, <1>13, <1>14, <1>15

\* marketplace/*.py: the index commits to what the cache holds and to nothing revoked, and
\* a search answers with the best offers of those it found, for any offers, weights,
\* scores and limits.
THEOREM ListingsAlwaysSound == ListingsSpec => []ListingsAreSound
<1>1. ListingsInit => ListingsTypeOK /\ ListingsInv
  <2>1. SUFFICES ASSUME ListingsInit PROVE ListingsTypeOK /\ ListingsInv
    OBVIOUS
  <2>2. \A i \in ListingId : listing[i] = NoListing /\ listing[i].offer.hash = 0
    BY <2>1 DEF ListingsInit, NoListing
  <2>3. /\ withdrawn = {} /\ raced = {} /\ owes \in [Caller -> {Through} \cup Debts]
        /\ \A c \in Caller : owes[c].op = "none"
    <3>1. Through.op = "none" /\ owes = [c \in Caller |-> Through] /\ withdrawn = {} /\ raced = {}
      BY <2>1 DEF ListingsInit, Through
    <3> QED
      BY <3>1
  <2>4. ListingsTypeOK
    BY <2>1, <2>3, EmptySeq DEF ListingsInit, ListingsTypeOK
  <2> QED
    BY <2>2, <2>3, <2>4 DEF ListingsInv, ChainAgrees, RevokedIsGone, DebtsAreCurrent
<1>2. ListingsTypeOK /\ ListingsInv /\ [ListingsNext]_listingVars => ListingsTypeOK' /\ ListingsInv'
  <2>1. SUFFICES ASSUME ListingsTypeOK, ListingsInv, [ListingsNext]_listingVars
                 PROVE  ListingsTypeOK' /\ ListingsInv'
    OBVIOUS
  <2>2. CASE UNCHANGED listingVars
    <3>1. ListingsTypeOK'
      BY <2>1, <2>2 DEF listingVars, ListingsTypeOK
    <3>2. DebtsAreCurrent' /\ ChainAgrees' /\ RevokedIsGone'
      BY <2>1, <2>2 DEF listingVars, ListingsInv, ChainAgrees, RevokedIsGone, DebtsAreCurrent,
                        AtRest, Owed, Commitment
    <3> QED
      BY <3>1, <3>2 DEF ListingsInv
  <2>3. ASSUME NEW c \in Caller, NEW i \in ListingId, NEW s \in Seller, NEW o \in Offer, RegisterListing(c, i, s, o)
        PROVE  ListingsTypeOK' /\ ListingsInv'
    BY <2>1, <2>3, EnterKeeps DEF RegisterListing
  <2>4. ASSUME NEW c \in Caller, NEW i \in ListingId, NEW s \in Seller, NEW o \in Offer, NEW status \in Status,
               UpdateListing(c, i, s, o, status)
        PROVE  ListingsTypeOK' /\ ListingsInv'
    BY <2>1, <2>4, EnterKeeps DEF UpdateListing
  <2>5. ASSUME NEW c \in Caller, NEW s \in Seller, NEW o \in Offer, SyncManifest(c, s, o) \/ ImportListing(c, s, o)
        PROVE  ListingsTypeOK' /\ ListingsInv'
    <3>1. PICK i \in ListingId : RegisterListing(c, i, s, o)
      BY <2>5, ListingsAssumption DEF SyncManifest, ImportListing
    <3> QED
      BY <2>3, <3>1
  <2> QED
    BY <2>1, <2>2, <2>3, <2>4, <2>5, RevokeReadKeeps, WithdrawKeeps, IndexKeeps DEF ListingsNext
<1>3. ListingsTypeOK /\ ListingsInv => ListingsAreSound
  BY BestIsAnswered DEF ListingsInv, ListingsAreSound
<1> QED
  BY <1>1, <1>2, <1>3, PTL DEF ListingsSpec

---------------------------------------------------------------------------
(* The scores.                                                             *)

\* The trades of an agent are finitely many.
LEMMA GoodFacts ==
  ASSUME NEW a, NEW T \in SUBSET Trade
  PROVE  IsFiniteSet(T) /\ Cardinality(T) \in Nat
  BY ScoresAssumption, FS_Subset, FS_CardinalityType

\* The penalty is bounded, and a view is one.
LEMMA PenaltyFacts ==
  ASSUME ScoresTypeOK, NEW a \in Trader PROVE Penalty(a) \in 0 .. 95
<1>1. PICK w \in 0 .. 100 : w = washed[a]
  BY DEF ScoresTypeOK
<1>2. PICK s \in {0, 55} : s = sybil[a]
  BY DEF ScoresTypeOK
<1>3. PICK z : z = 100 - s
  OBVIOUS
<1>4. z \in {100, 45}
  BY <1>2, <1>3
<1>5. PICK y \in 0 .. 100 : y = 100 - w
  BY <1>1
<1>6. PICK x : x = y * z
  OBVIOUS
<1>7. x \in 0 .. 10000
  <2>1. CASE z = 100
    BY <1>5, <1>6, <2>1
  <2>2. CASE z = 45
    BY <1>5, <1>6, <2>2
  <2> QED
    BY <1>4, <2>1, <2>2
<1>8. PICK p : p = 100 - x \div 100
  OBVIOUS
<1>9. p \in 0 .. 100
  <2>1. PICK v \in Int : v = x /\ 0 <= v /\ v <= 10000
    BY <1>7
  <2>2. PICK d : d = v \div 100
    OBVIOUS
  <2>3. d \in Int /\ 0 <= d /\ d <= 100
    BY <2>1, <2>2
  <2> QED
    BY <1>8, <2>1, <2>2, <2>3
<1>10. Penalty(a) = IF SelfDealt(a) \/ p > 95 THEN 95 ELSE p
  BY <1>1, <1>2, <1>3, <1>5, <1>6, <1>8 DEF Penalty
<1> QED
  BY <1>9, <1>10

\* Entries are finitely many, too.
LEMMA EntryFacts ==
  ASSUME NEW E \in SUBSET LogEntry
  PROVE  IsFiniteSet(E) /\ Cardinality(E) \in Nat
<1> DEFINE Roles == {"client", "provider"}
           Of(p) == [trade |-> p[1], role |-> p[2]]
<1>1. IsFiniteSet(Roles)
  <2>1. IsFiniteSet({}) /\ IsFiniteSet({} \cup {"client"})
    BY FS_EmptySet, FS_AddElement
  <2>2. IsFiniteSet(({} \cup {"client"}) \cup {"provider"})
    BY <2>1, FS_AddElement
  <2> QED
    BY <2>2
<1>2. IsFiniteSet(Trade \X Roles)
  BY <1>1, ScoresAssumption, FS_Product
<1>3. PICK P : P = Trade \X Roles
  OBVIOUS
<1>4. PICK f : f = [p \in P |-> Of(p)]
  OBVIOUS
<1>5. f \in Surjection(P, LogEntry)
  <2>1. \A p \in P : Of(p) \in LogEntry
    BY <1>3 DEF LogEntry
  <2>2. \A e \in LogEntry : \E p \in P : f[p] = e
    <3>1. SUFFICES ASSUME NEW e \in LogEntry PROVE \E p \in P : f[p] = e
      OBVIOUS
    <3>2. e.trade \in Trade /\ e.role \in Roles /\ e = [trade |-> e.trade, role |-> e.role]
      BY DEF LogEntry
    <3>3. <<e.trade, e.role>> \in P /\ f[<<e.trade, e.role>>] = e
      BY <1>3, <1>4, <3>2
    <3> QED
      BY <3>3
  <2>3. f \in [P -> LogEntry]
    BY <1>4, <2>1
  <2> QED
    BY <2>2, <2>3 DEF Surjection
<1>6. IsFiniteSet(LogEntry)
  BY <1>2, <1>3, <1>5, FS_Surjection
<1> QED
  BY <1>6, FS_Subset, FS_CardinalityType

LEMMA WeightFacts ==
  ASSUME NEW E \in SUBSET LogEntry PROVE WeightOf(E) \in Nat
<1>1. PICK c2, c15, c100 : /\ c2 = Cardinality({e \in E : Weight(e.trade) = 2})
                           /\ c15 = Cardinality({e \in E : Weight(e.trade) = 15})
                           /\ c100 = Cardinality({e \in E : Weight(e.trade) = 100})
  OBVIOUS
<1>2. c2 \in Nat /\ c15 \in Nat /\ c100 \in Nat
  <2>1. /\ {e \in E : Weight(e.trade) = 2} \in SUBSET LogEntry
        /\ {e \in E : Weight(e.trade) = 15} \in SUBSET LogEntry
        /\ {e \in E : Weight(e.trade) = 100} \in SUBSET LogEntry
    OBVIOUS
  <2> QED
    BY <1>1, <2>1, EntryFacts
<1>3. WeightOf(E) = 2 * c2 + 15 * c15 + 100 * c100
  BY <1>1 DEF WeightOf
<1> QED
  BY <1>2, <1>3

LEMMA ViewFacts ==
  ASSUME ScoresTypeOK, NEW a \in Trader PROVE ViewOf(a) \in View
<1>1. Logged(a) \in SUBSET LogEntry /\ Succeeded(a) \in SUBSET LogEntry
  BY DEF Logged, Succeeded
<1>2. Cardinality(Imported(a)) \in Nat /\ Cardinality({e \in Imported(a) : e.good}) \in Nat
  <2>1. Imported(a) \in SUBSET Foreign /\ {e \in Imported(a) : e.good} \in SUBSET Foreign
    BY DEF Imported, ScoresTypeOK
  <2>2. IsFiniteSet(Imported(a)) /\ IsFiniteSet({e \in Imported(a) : e.good})
    BY <2>1, ScoresAssumption, FS_Subset
  <2> QED
    BY <2>2, FS_CardinalityType
<1>8. PICK i \in Nat, j \in Nat : i = Cardinality(Imported(a)) /\ j = Cardinality({e \in Imported(a) : e.good})
  BY <1>2
<1>9. PICK x \in Nat, y \in Nat, m \in Nat :
        x = WeightOf(Succeeded(a)) /\ y = WeightOf(Logged(a)) /\ m = Cardinality(Logged(a))
  BY <1>1, WeightFacts, EntryFacts
<1>3. PICK g \in Nat, l \in Nat, n \in Nat : g = Gained(a) /\ l = Entire(a) /\ n = m + i
  <2>1. Gained(a) = x + 2 * j
    BY <1>8, <1>9 DEF Gained
  <2>2. Entire(a) = y + 2 * i
    BY <1>8, <1>9 DEF Entire
  <2>3. x + 2 * j \in Nat /\ y + 2 * i \in Nat /\ m + i \in Nat
    OBVIOUS
  <2> QED
    BY <2>1, <2>2, <2>3
<1>4. PICK p \in 0 .. 95 : p = Penalty(a)
  BY PenaltyFacts
<1>5. PICK s : s = IF l = 0 THEN 0 ELSE ((100 * g) \div l) * (100 - p)
  OBVIOUS
<1>6. s \in Nat
  <2>1. CASE l = 0
    BY <1>5, <2>1
  <2>2. CASE l # 0
    <3>1. PICK h \in Nat : h = (100 * g) \div l
      BY <1>3, <2>2
    <3>2. PICK r \in Nat : r = 100 - p
      BY <1>4
    <3>3. h * r \in Nat
      OBVIOUS
    <3> QED
      BY <1>5, <2>2, <3>1, <3>2, <3>3
  <2> QED
    BY <2>1, <2>2
<1>7. ViewOf(a) = [cached |-> TRUE, trades |-> n, score |-> s, penalty |-> p]
  BY <1>3, <1>4, <1>5, <1>8, <1>9 DEF ViewOf
<1> QED
  BY <1>3, <1>4, <1>6, <1>7 DEF View

\* A view depends on the entries about the agent that the log has, on what is known of
\* their amounts, and on the agent's signals.
LEMMA SameView ==
  ASSUME NEW a,
         \A t \in Trade : a \in Parties(t) =>
           /\ ended'[t] = "rejected" <=> ended[t] = "rejected"
           /\ ended'[t] = "settled" <=> ended[t] = "settled"
           /\ ended[t] \in {"settled", "rejected"} =>
                (t \in told' <=> t \in told) /\ (t \in volume' <=> t \in volume),
         mirrored' = mirrored, washed'[a] = washed[a], sybil'[a] = sybil[a],
         \A t : Parties(t) = {a} => (t \in pairLog' <=> t \in pairLog)
  PROVE  ViewOf(a)' = ViewOf(a)
<1>1. PICK L, G : L = Logged(a) /\ G = Succeeded(a)
  OBVIOUS
<1>a. \A e \in LogEntry : e.trade[e.role] = a => e.trade \in Trade /\ a \in Parties(e.trade)
  <2>1. SUFFICES ASSUME NEW e \in LogEntry, e.trade[e.role] = a PROVE e.trade \in Trade /\ a \in Parties(e.trade)
    OBVIOUS
  <2>2. e.trade \in Trade /\ e.role \in {"client", "provider"}
    BY DEF LogEntry
  <2> QED
    BY <2>1, <2>2 DEF Parties
<1>2. L = Logged(a)' /\ G = Succeeded(a)'
  <2>1. \A e \in LogEntry : (e \in Logged(a))' <=> e \in L
    BY <1>1, <1>a DEF Logged
  <2>2. Logged(a)' = L
    BY <1>1, <2>1 DEF Logged
  <2>3. \A e \in L : ended'[e.trade] = "settled" <=> ended[e.trade] = "settled"
    BY <1>1, <1>a DEF Logged
  <2> QED
    BY <1>1, <2>2, <2>3 DEF Succeeded
<1>3. \A e \in L \cup G : Weight(e.trade)' = Weight(e.trade)
  BY <1>1, <1>a DEF Logged, Succeeded, Weight
<1>4. ASSUME NEW w
      PROVE  /\ Cardinality({e \in Logged(a) : Weight(e.trade) = w})' = Cardinality({e \in Logged(a) : Weight(e.trade) = w})
             /\ Cardinality({e \in Succeeded(a) : Weight(e.trade) = w})'
                  = Cardinality({e \in Succeeded(a) : Weight(e.trade) = w})
  <2>1. {e \in Logged(a) : Weight(e.trade) = w}' = {e \in Logged(a) : Weight(e.trade) = w}
    BY <1>1, <1>2, <1>3
  <2>2. {e \in Succeeded(a) : Weight(e.trade) = w}' = {e \in Succeeded(a) : Weight(e.trade) = w}
    BY <1>1, <1>2, <1>3
  <2> QED
    BY <2>1, <2>2
<1>5. Penalty(a)' = Penalty(a)
  <2>1. SelfDealt(a)' <=> SelfDealt(a)
    BY DEF SelfDealt, Parties
  <2> QED
    BY <2>1 DEF Penalty
<1>6. WeightOf(Logged(a))' = WeightOf(Logged(a)) /\ WeightOf(Succeeded(a))' = WeightOf(Succeeded(a))
  BY <1>4 DEF WeightOf
<1>7. Cardinality(Logged(a))' = Cardinality(Logged(a)) /\ Imported(a)' = Imported(a)
  BY <1>1, <1>2 DEF Imported
<1> QED
  BY <1>5, <1>6, <1>7 DEF ViewOf, Gained, Entire

LEMMA ViewStays ==
  ASSUME UNCHANGED <<ended, mirrored, volume, told, washed, sybil, pairLog>>, NEW a
  PROVE  ViewOf(a)' = ViewOf(a)
  BY SameView

\* What was earned stays earned, because a trade that has settled stays settled.
LEMMA EarnedStays ==
  ASSUME PenaltyIsEarned, \A t \in Trade : ended[t] = "settled" => ended'[t] = "settled", NEW a \in Trader
  PROVE  /\ washed[a] > 0 =>
              \E u \in Good(a)' : Cardinality({t \in Good(a)' : Parties(t) = Parties(u)}) >= WashThreshold
         /\ sybil[a] > 0 => \E t \in Good(a)' : t.dust /\ Parties(t) # {a}
<1>1. PICK G, H : G = Good(a) /\ H = Good(a)'
  OBVIOUS
<1>2. G \subseteq H /\ H \subseteq Trade
  BY <1>1 DEF Good
<1>3. ASSUME washed[a] > 0
      PROVE  \E u \in H : Cardinality({t \in H : Parties(t) = Parties(u)}) >= WashThreshold
  <2>1. PICK u \in G : Cardinality({t \in G : Parties(t) = Parties(u)}) >= WashThreshold
    BY <1>1, <1>3 DEF PenaltyIsEarned
  <2>2. PICK S, T : S = {t \in G : Parties(t) = Parties(u)} /\ T = {t \in H : Parties(t) = Parties(u)}
    OBVIOUS
  <2>3. S \subseteq T /\ T \in SUBSET Trade /\ S \in SUBSET Trade
    BY <1>2, <2>2
  <2>4. IsFiniteSet(T) /\ Cardinality(T) \in Nat /\ Cardinality(S) \in Nat
    BY <2>3, GoodFacts
  <2>5. Cardinality(S) <= Cardinality(T)
    BY <2>3, <2>4, FS_Subset
  <2>6. Cardinality(S) >= WashThreshold
    BY <2>1, <2>2
  <2>7. Cardinality(T) >= WashThreshold
    BY <2>4, <2>5, <2>6, ScoresAssumption
  <2> QED
    BY <1>2, <2>2, <2>7
<1>4. sybil[a] > 0 => \E t \in H : t.dust /\ Parties(t) # {a}
  BY <1>1, <1>2 DEF PenaltyIsEarned
<1> QED
  BY <1>1, <1>3, <1>4

LEMMA EarnedRests ==
  ASSUME PenaltyIsEarned, \A t \in Trade : ended[t] = "settled" => ended'[t] = "settled",
         UNCHANGED <<washed, sybil>>
  PROVE  PenaltyIsEarned'
<1>1. SUFFICES ASSUME NEW a \in Trader
               PROVE  /\ washed'[a] > 0 =>
                           \E u \in Good(a)' : Cardinality({t \in Good(a)' : Parties(t) = Parties(u)}) >= WashThreshold
                      /\ sybil'[a] > 0 => \E t \in Good(a)' : t.dust /\ Parties(t) # {a}
  BY DEF PenaltyIsEarned
<1>2. washed' = washed /\ sybil' = sybil
  OBVIOUS
<1> QED
  BY <1>1, <1>2, EarnedStays

LEMMA ReadKeeps ==
  ASSUME ScoresTypeOK, ScoresInv, NEW a \in Watched, ReadView(a)
  PROVE  ScoresTypeOK' /\ ScoresInv'
<1>1. UNCHANGED <<ended, mirrored, stage, volume, washed, sybil, pairLog, edges, cache, told, excused, queued>>
  BY DEF ReadView
<1>2. reading' \in [agent : Trader, view : View]
  <2>1. PICK v \in View : v = ViewOf(a)
    BY ViewFacts, ScoresAssumption
  <2>2. reading' = [agent |-> a, view |-> v] /\ a \in Trader
    BY <2>1, ScoresAssumption DEF ReadView
  <2> QED
    BY <2>1, <2>2
<1>3. ScoresTypeOK'
  BY <1>1, <1>2 DEF ScoresTypeOK
<1>4. CacheIsFresh'
  BY <1>1, ViewStays DEF ScoresInv, CacheIsFresh
<1>5. PenaltyIsEarned'
  BY <1>1, EarnedRests DEF ScoresInv
<1> QED
  BY <1>1, <1>3, <1>4, <1>5 DEF ScoresInv, EndsAreSeen, SignalsFollow

LEMMA StoreKeeps ==
  ASSUME ScoresTypeOK, ScoresInv, StoreView
  PROVE  ScoresTypeOK' /\ ScoresInv'
<1>1. UNCHANGED <<ended, mirrored, stage, volume, washed, sybil, pairLog, edges, told, queued>>
  BY DEF StoreView
<1>2. PICK a \in Trader, v \in View : a = reading.agent /\ v = reading.view
  BY DEF StoreView, ScoresTypeOK
<1>3. cache' = [cache EXCEPT ![a] = v] /\ reading' = Nobody
      /\ excused' = IF v = ViewOf(a) THEN excused \ {a} ELSE excused \cup {a}
  BY <1>2 DEF StoreView
<1>4. cache' \in [Trader -> View] /\ cache'[a] = v /\ \A b \in Trader \ {a} : cache'[b] = cache[b]
  BY <1>3 DEF ScoresTypeOK
<1>5. ScoresTypeOK'
  BY <1>1, <1>3, <1>4 DEF ScoresTypeOK
<1>6. CacheIsFresh'
  <2>1. SUFFICES ASSUME NEW b \in Trader
                 PROVE  \/ cache'[b] = NoView \/ b \in excused'
                        \/ \E t \in Trade : b \in Parties(t) /\ stage'[t] \in {"ended", "seen"}
                        \/ cache'[b] = ViewOf(b)'
    BY DEF CacheIsFresh
  <2>2. ViewOf(b)' = ViewOf(b)
    BY <1>1, ViewStays
  <2>3. CASE b = a
    BY <1>3, <1>4, <2>2, <2>3
  <2>4. CASE b # a
    <3>1. cache'[b] = cache[b] /\ (b \in excused => b \in excused')
      BY <1>3, <1>4, <2>1, <2>4
    <3> QED
      BY <1>1, <2>1, <2>2, <3>1 DEF ScoresInv, CacheIsFresh
  <2> QED
    BY <2>3, <2>4
<1>7. PenaltyIsEarned'
  BY <1>1, EarnedRests DEF ScoresInv
<1> QED
  BY <1>1, <1>5, <1>6, <1>7 DEF ScoresInv, EndsAreSeen, SignalsFollow

LEMMA EndKeeps ==
  ASSUME ScoresTypeOK, ScoresInv, NEW t \in Trade, NEW o \in Outcome, End(t, o)
  PROVE  ScoresTypeOK' /\ ScoresInv'
<1>1. UNCHANGED <<mirrored, volume, washed, sybil, pairLog, edges, cache, reading, told, excused, queued>>
  BY DEF End
<1>2. /\ ended[t] = "open" /\ o # "open"
      /\ ended' = [ended EXCEPT ![t] = o] /\ stage' = [stage EXCEPT ![t] = "ended"]
  BY ScoresAssumption DEF End
<1>3. /\ ended' \in [Trade -> Outcome \cup {"open"}] /\ ended'[t] = o
      /\ stage' \in [Trade -> {"open", "ended", "seen", "done"}] /\ stage'[t] = "ended"
      /\ \A u \in Trade \ {t} : ended'[u] = ended[u] /\ stage'[u] = stage[u]
  BY <1>2 DEF ScoresTypeOK
<1>4. ScoresTypeOK'
  BY <1>1, <1>3 DEF ScoresTypeOK
<1>5. EndsAreSeen'
  BY <1>2, <1>3 DEF ScoresInv, EndsAreSeen
<1>6. \A u \in Trade : ended[u] = "settled" => ended'[u] = "settled"
  BY <1>2, <1>3
<1>7. SignalsFollow'
  BY <1>1, <1>6 DEF ScoresInv, SignalsFollow, ScoresTypeOK
<1>8. CacheIsFresh'
  <2>1. SUFFICES ASSUME NEW a \in Trader
                 PROVE  \/ cache'[a] = NoView \/ a \in excused'
                        \/ \E u \in Trade : a \in Parties(u) /\ stage'[u] \in {"ended", "seen"}
                        \/ cache'[a] = ViewOf(a)'
    BY DEF CacheIsFresh
  <2>2. CASE a \in Parties(t)
    BY <1>3, <2>2
  <2>3. CASE a \notin Parties(t)
    <3>1. ViewOf(a)' = ViewOf(a)
      BY <1>1, <1>3, <2>3, SameView
    <3>2. \A u \in Trade : a \in Parties(u) => stage'[u] = stage[u]
      BY <1>3, <2>3
    <3> QED
      BY <1>1, <2>1, <3>1, <3>2 DEF ScoresInv, CacheIsFresh
  <2> QED
    BY <2>2, <2>3
<1>9. PenaltyIsEarned'
  BY <1>1, <1>6, EarnedRests DEF ScoresInv
<1> QED
  BY <1>4, <1>5, <1>7, <1>8, <1>9 DEF ScoresInv

\* Who is in a cluster is a party of one of its edges.
LEMMA ClustersAreEdged ==
  ASSUME NEW w, NEW a \in UNION NewClusters(w)
  PROVE  \E t \in Edged(w) : a \in Parties(t)
<1>1. PICK V : V = UNION {Parties(t) : t \in Edged(w)}
  OBVIOUS
<1>2. PICK C \in Clusters(w) : a \in C
  BY DEF NewClusters
<1>3. PICK b \in V : C = Component(b, w)
  BY <1>1 DEF Clusters
<1>4. V \in SUBSET Trader
  <2>1. SUFFICES ASSUME NEW t \in Trade PROVE Parties(t) \subseteq Trader
    BY <1>1 DEF Edged
  <2> QED
    BY ScoresAssumption DEF Parties
<1>5. Neighbours(V, w) \subseteq V
  <2>1. PICK U : U = {u \in Edged(w) : Parties(u) \cap V # {}}
    OBVIOUS
  <2>2. Neighbours(V, w) = V \cup UNION {Parties(t) : t \in U}
    BY <2>1 DEF Neighbours
  <2>3. U \subseteq Edged(w)
    BY <2>1
  <2> QED
    BY <1>1, <2>2, <2>3
<1>6. a \in V
  BY <1>2, <1>3, <1>4, <1>5 DEF Component
<1> QED
  BY <1>1, <1>6

\* A wash signal counts the settled trades of one pair.
LEMMA WashIsEarned ==
  ASSUME ScoresTypeOK, ScoresInv, NEW t \in Trade, Wash(t) # 0
  PROVE  /\ ended[t] = "settled"
         /\ \A a \in Parties(t) :
              Cardinality({u \in Good(a) : Parties(u) = Parties(t)}) >= WashThreshold
<1>1. ended[t] = "settled" /\ Cardinality(PairOf(t)) >= WashThreshold
  BY DEF Wash
<1>2. ASSUME NEW a \in Parties(t)
      PROVE  Cardinality({u \in Good(a) : Parties(u) = Parties(t)}) >= WashThreshold
  <2>1. PICK S, T : S = PairOf(t) /\ T = {u \in Good(a) : Parties(u) = Parties(t)}
    OBVIOUS
  <2>2. T \in SUBSET Trade /\ S \in SUBSET T
    <3>1. T \in SUBSET Trade
      BY <2>1 DEF Good
    <3>2. ASSUME NEW u \in S PROVE u \in T
      <4>1. u \in Trade /\ ended[u] = "settled" /\ Parties(u) = Parties(t)
        BY <1>1, <2>1, <3>2 DEF PairOf, ScoresInv, SignalsFollow, ScoresTypeOK
      <4> QED
        BY <1>2, <2>1, <4>1 DEF Good
    <3> QED
      BY <3>1, <3>2
  <2>3. Cardinality(S) <= Cardinality(T) /\ Cardinality(T) \in Nat /\ Cardinality(S) \in Nat
    <3>1. IsFiniteSet(T) /\ Cardinality(T) \in Nat
      BY <2>2, GoodFacts
    <3>2. S \in SUBSET Trade
      BY <2>2
    <3> QED
      BY <2>2, <3>1, <3>2, FS_Subset, GoodFacts
  <2> QED
    BY <1>1, <2>1, <2>3, ScoresAssumption
<1> QED
  BY <1>1, <1>2

LEMMA WashIsBounded ==
  ASSUME ScoresTypeOK, NEW t \in Trade PROVE Wash(t) \in 0 .. 100
<1>1. PairOf(t) \in SUBSET Trade
  BY DEF PairOf, ScoresTypeOK
<1>2. PICK n \in Nat : n = Cardinality(PairOf(t))
  BY <1>1, GoodFacts
<1>3. Wash(t) = 0 \/ (n >= WashThreshold /\ Wash(t) = IF n - WashThreshold >= 6 THEN 100 ELSE 40 + 10 * (n - WashThreshold))
  BY <1>2 DEF Wash
<1> QED
  BY <1>2, <1>3, ScoresAssumption

LEMMA ObserveKeeps ==
  ASSUME ScoresTypeOK, ScoresInv, NEW t \in Trade, Observe(t)
  PROVE  ScoresTypeOK' /\ ScoresInv'
<1>1. PICK w : w = IF ended[t] = "settled" /\ t.dust /\ t.client # t.provider THEN [edges EXCEPT ![t] = 2] ELSE edges
  OBVIOUS
<1>2. PICK sev \in 0 .. 100 : sev = Wash(t)
  BY WashIsBounded
<1>3. PICK named : named = UNION NewClusters(w)
  OBVIOUS
<1>4. /\ stage[t] = "ended" /\ stage' = [stage EXCEPT ![t] = "seen"]
      /\ volume' = volume \cup {t}
      /\ pairLog' = IF ended[t] = "settled" THEN pairLog \cup {t} ELSE pairLog
      /\ washed' = [a \in Trader |-> IF a \in Parties(t) /\ sev > washed[a] THEN sev ELSE washed[a]]
      /\ edges' = w
      /\ sybil' = [a \in Trader |-> IF a \in named THEN 55 ELSE sybil[a]]
      /\ excused' = excused \cup (named \ Parties(t))
      /\ UNCHANGED <<ended, mirrored, cache, reading, queued, told>>
  BY <1>1, <1>2, <1>3 DEF Observe
<1>5. /\ w \in [Trade -> 0 .. 2]
      /\ \A u \in Trade : w[u] > 0 => ended[u] = "settled" /\ u.dust /\ u.client # u.provider
  <2>1. CASE ended[t] = "settled" /\ t.dust /\ t.client # t.provider
    BY <1>1, <2>1 DEF ScoresTypeOK, ScoresInv, SignalsFollow
  <2>2. CASE ~(ended[t] = "settled" /\ t.dust /\ t.client # t.provider)
    BY <1>1, <2>2 DEF ScoresTypeOK, ScoresInv, SignalsFollow
  <2> QED
    BY <2>1, <2>2
<1>6. /\ stage' \in [Trade -> {"open", "ended", "seen", "done"}] /\ stage'[t] = "seen"
      /\ \A u \in Trade \ {t} : stage'[u] = stage[u]
  BY <1>4 DEF ScoresTypeOK
<1>7. washed' \in [Trader -> 0 .. 100] /\ sybil' \in [Trader -> {0, 55}]
  BY <1>2, <1>4 DEF ScoresTypeOK
<1>8. ScoresTypeOK'
  <2>1. pairLog' \subseteq Trade
    BY <1>4 DEF ScoresTypeOK
  <2> QED
    BY <1>4, <1>5, <1>6, <1>7, <2>1 DEF ScoresTypeOK
<1>9. EndsAreSeen'
  BY <1>4, <1>6 DEF ScoresInv, EndsAreSeen
<1>10. SignalsFollow'
  BY <1>4, <1>5 DEF ScoresInv, SignalsFollow
<1>11. CacheIsFresh'
  <2>1. SUFFICES ASSUME NEW a \in Trader
                 PROVE  \/ cache'[a] = NoView \/ a \in excused'
                        \/ \E u \in Trade : a \in Parties(u) /\ stage'[u] \in {"ended", "seen"}
                        \/ cache'[a] = ViewOf(a)'
    BY DEF CacheIsFresh
  <2>2. CASE a \in Parties(t)
    BY <1>6, <2>2
  <2>3. CASE a \notin Parties(t) /\ a \in named
    BY <1>4, <2>3
  <2>4. CASE a \notin Parties(t) /\ a \notin named
    <3>1. washed'[a] = washed[a] /\ sybil'[a] = sybil[a]
      BY <1>4, <2>1, <2>4
    <3>2. \A u : Parties(u) = {a} => (u \in pairLog' <=> u \in pairLog)
      BY <1>4, <2>4
    <3>3. \A u \in Trade : a \in Parties(u) => (u \in volume' <=> u \in volume)
      BY <1>4, <2>4
    <3>4. ended' = ended /\ told' = told /\ mirrored' = mirrored
      BY <1>4
    <3>5. ViewOf(a)' = ViewOf(a)
      BY <3>1, <3>2, <3>3, <3>4, SameView
    <3>6. \A u \in Trade : a \in Parties(u) => stage'[u] = stage[u]
      BY <1>6, <2>4
    <3> QED
      BY <1>4, <2>1, <3>5, <3>6 DEF ScoresInv, CacheIsFresh
  <2> QED
    BY <2>2, <2>3, <2>4
<1>12. PenaltyIsEarned'
  <2>1. SUFFICES ASSUME NEW a \in Trader
                 PROVE  /\ washed'[a] > 0 =>
                             \E u \in Good(a)' : Cardinality({v \in Good(a)' : Parties(v) = Parties(u)}) >= WashThreshold
                        /\ sybil'[a] > 0 => \E u \in Good(a)' : u.dust /\ Parties(u) # {a}
    BY DEF PenaltyIsEarned
  <2>2. \A u \in Trade : ended[u] = "settled" => ended'[u] = "settled"
    BY <1>4
  <2>3. /\ washed[a] > 0 =>
             \E u \in Good(a)' : Cardinality({v \in Good(a)' : Parties(v) = Parties(u)}) >= WashThreshold
        /\ sybil[a] > 0 => \E u \in Good(a)' : u.dust /\ Parties(u) # {a}
    BY <2>2, EarnedStays DEF ScoresInv
  <2>4. Good(a)' = Good(a)
    BY <1>4 DEF Good
  <2>7. washed'[a] > 0 =>
          \E u \in Good(a)' : Cardinality({v \in Good(a)' : Parties(v) = Parties(u)}) >= WashThreshold
    <3>1. CASE washed'[a] = washed[a]
      BY <2>3, <3>1
    <3>2. CASE washed'[a] # washed[a]
      <4>1. a \in Parties(t) /\ sev > 0
        <5>1. washed'[a] = IF a \in Parties(t) /\ sev > washed[a] THEN sev ELSE washed[a]
          BY <1>4, <2>1
        <5> QED
          BY <1>2, <2>1, <3>2, <5>1 DEF ScoresTypeOK
      <4>2. /\ ended[t] = "settled"
            /\ Cardinality({u \in Good(a) : Parties(u) = Parties(t)}) >= WashThreshold
        BY <1>2, <4>1, WashIsEarned
      <4>3. t \in Good(a)
        BY <4>1, <4>2 DEF Good
      <4>4. PICK G : G = Good(a)
        OBVIOUS
      <4>5. Good(a)' = G
        BY <2>4, <4>4
      <4>6. Cardinality({v \in G : Parties(v) = Parties(t)}) >= WashThreshold
        BY <4>2, <4>4
      <4>7. \E u \in G : Cardinality({v \in G : Parties(v) = Parties(u)}) >= WashThreshold
        BY <4>3, <4>4, <4>6
      <4> QED
        BY <4>5, <4>7
    <3> QED
      BY <3>1, <3>2
  <2>8. sybil'[a] > 0 => \E u \in Good(a)' : u.dust /\ Parties(u) # {a}
    <3>1. CASE a \in named
      <4>1. PICK u \in Edged(w) : a \in Parties(u)
        BY <1>3, <3>1, ClustersAreEdged
      <4>2. u \in Trade /\ ended[u] = "settled" /\ u.dust /\ u.client # u.provider
        BY <1>5, <4>1 DEF Edged
      <4>3. u \in Good(a) /\ Parties(u) # {a}
        BY <4>1, <4>2 DEF Good, Parties
      <4> QED
        BY <2>4, <4>2, <4>3
    <3>2. CASE a \notin named
      <4>1. sybil'[a] = sybil[a]
        BY <1>4, <2>1, <3>2
      <4> QED
        BY <2>3, <4>1
    <3> QED
      BY <3>1, <3>2
  <2> QED
    BY <2>7, <2>8
<1> QED
  BY <1>8, <1>9, <1>10, <1>11, <1>12 DEF ScoresInv

\* The sink is through with a trade: the views of its parties are dropped, or excused.
LEMMA DoneKeeps ==
  ASSUME ScoresTypeOK, ScoresInv, NEW t \in Trade, Invalidate(t) \/ Overlook(t)
  PROVE  ScoresTypeOK' /\ ScoresInv'
<1>1. /\ stage[t] \in {"ended", "seen"} /\ stage' = [stage EXCEPT ![t] = "done"]
      /\ UNCHANGED <<ended, mirrored, volume, washed, sybil, pairLog, edges, reading, queued, told>>
  BY DEF Invalidate, Overlook
<1>2. \/ cache' = Forgotten(Parties(t)) /\ excused' = excused \ Parties(t)
      \/ cache' = cache /\ excused' = excused \cup Parties(t)
  BY DEF Invalidate, Overlook
<1>3. /\ stage' \in [Trade -> {"open", "ended", "seen", "done"}] /\ stage'[t] = "done"
      /\ \A u \in Trade \ {t} : stage'[u] = stage[u]
  BY <1>1 DEF ScoresTypeOK
<1>4. NoView \in View
  BY DEF NoView, View
<1>5. /\ cache' \in [Trader -> View]
      /\ \A a \in Trader : /\ a \in Parties(t) => cache'[a] = NoView \/ a \in excused'
                           /\ a \notin Parties(t) => cache'[a] = cache[a] /\ (a \in excused => a \in excused')
  <2>1. CASE cache' = Forgotten(Parties(t)) /\ excused' = excused \ Parties(t)
    <3>1. cache' = [a \in Trader |-> IF a \in Parties(t) THEN NoView ELSE cache[a]]
      BY <2>1 DEF Forgotten
    <3> QED
      BY <1>4, <2>1, <3>1 DEF ScoresTypeOK
  <2>2. CASE cache' = cache /\ excused' = excused \cup Parties(t)
    BY <2>2 DEF ScoresTypeOK
  <2> QED
    BY <1>2, <2>1, <2>2
<1>6. ScoresTypeOK'
  BY <1>1, <1>3, <1>5 DEF ScoresTypeOK
<1>7. EndsAreSeen'
  BY <1>1, <1>3 DEF ScoresInv, EndsAreSeen
<1>8. CacheIsFresh'
  <2>1. SUFFICES ASSUME NEW a \in Trader
                 PROVE  \/ cache'[a] = NoView \/ a \in excused'
                        \/ \E u \in Trade : a \in Parties(u) /\ stage'[u] \in {"ended", "seen"}
                        \/ cache'[a] = ViewOf(a)'
    BY DEF CacheIsFresh
  <2>2. CASE a \in Parties(t)
    BY <1>5, <2>1, <2>2
  <2>3. CASE a \notin Parties(t)
    <3>1. \A u \in Trade : a \in Parties(u) => stage'[u] = stage[u]
      BY <1>3, <2>3
    <3>2. ViewOf(a)' = ViewOf(a)
      BY <1>1, ViewStays
    <3> QED
      BY <1>5, <2>1, <2>3, <3>1, <3>2 DEF ScoresInv, CacheIsFresh
  <2> QED
    BY <2>2, <2>3
<1>9. PenaltyIsEarned'
  BY <1>1, EarnedRests DEF ScoresInv
<1> QED
  BY <1>1, <1>6, <1>7, <1>8, <1>9 DEF ScoresInv, SignalsFollow

\* The device: what it tells the sink of a trade that has not ended changes no view, and
\* the views of one that has are about to be dropped.
LEMMA DeviceKeeps ==
  ASSUME ScoresTypeOK, ScoresInv, NEW t \in Remote, QueueLeg(t) \/ FlushLeg(t)
  PROVE  ScoresTypeOK' /\ ScoresInv'
<1>1. t \in Trade /\ UNCHANGED <<ended, mirrored, stage, washed, sybil, pairLog, edges, cache, reading, excused>>
  BY ScoresAssumption DEF QueueLeg, FlushLeg
<1>2. \/ told' = told /\ volume' = volume
      \/ stage[t] \notin {"seen", "done"} /\ told' = told \cup {t} /\ volume' = volume \cup {t}
  BY DEF QueueLeg, FlushLeg
<1>3. queued' \subseteq Trade
  BY <1>1 DEF QueueLeg, FlushLeg, ScoresTypeOK
<1>4. ScoresTypeOK'
  BY <1>1, <1>3 DEF ScoresTypeOK
<1>5. CacheIsFresh'
  <2>1. SUFFICES ASSUME NEW a \in Trader
                 PROVE  \/ cache'[a] = NoView \/ a \in excused'
                        \/ \E u \in Trade : a \in Parties(u) /\ stage'[u] \in {"ended", "seen"}
                        \/ cache'[a] = ViewOf(a)'
    BY DEF CacheIsFresh
  <2>2. CASE a \in Parties(t) /\ stage[t] = "ended"
    BY <1>1, <2>2
  <2>3. CASE a \notin Parties(t) \/ stage[t] # "ended"
    <3>1. \A u \in Trade : a \in Parties(u) /\ ended[u] \in {"settled", "rejected"} =>
            (u \in told' <=> u \in told) /\ (u \in volume' <=> u \in volume)
      <4>1. stage[t] = "open" => ended[t] = "open"
        BY <1>1 DEF ScoresInv, EndsAreSeen
      <4>2. stage[t] \in {"open", "ended", "seen", "done"}
        BY <1>1 DEF ScoresTypeOK
      <4> QED
        BY <1>2, <2>3, <4>1, <4>2
    <3>2. ViewOf(a)' = ViewOf(a)
      BY <1>1, <3>1, SameView
    <3> QED
      BY <1>1, <2>1, <3>2 DEF ScoresInv, CacheIsFresh
  <2> QED
    BY <2>2, <2>3
<1>6. PenaltyIsEarned'
  BY <1>1, EarnedRests DEF ScoresInv
<1> QED
  BY <1>1, <1>4, <1>5, <1>6 DEF ScoresInv, EndsAreSeen, SignalsFollow

\* An import leaves the view of the agent as an excuse, and no others.
LEMMA ImportKeeps ==
  ASSUME ScoresTypeOK, ScoresInv, NEW e \in Foreign, ImportEntry(e)
  PROVE  ScoresTypeOK' /\ ScoresInv'
<1>1. /\ UNCHANGED <<ended, stage, volume, washed, sybil, pairLog, edges, cache, reading, queued, told>>
      /\ mirrored' = mirrored \cup {e} /\ excused' = excused \cup {e.agent}
  BY DEF ImportEntry
<1>2. ScoresTypeOK'
  BY <1>1 DEF ScoresTypeOK
<1>3. CacheIsFresh'
  <2>1. SUFFICES ASSUME NEW a \in Trader, a # e.agent
                 PROVE  \/ cache'[a] = NoView \/ a \in excused'
                        \/ \E u \in Trade : a \in Parties(u) /\ stage'[u] \in {"ended", "seen"}
                        \/ cache'[a] = ViewOf(a)'
    BY <1>1 DEF CacheIsFresh
  <2>2. Imported(a)' = Imported(a)
    BY <1>1, <2>1 DEF Imported
  <2>3. \A t \in Trade : Weight(t)' = Weight(t)
    BY <1>1 DEF Weight
  <2>4. Penalty(a)' = Penalty(a)
    BY <1>1 DEF Penalty, SelfDealt
  <2>5. Logged(a)' = Logged(a) /\ Succeeded(a)' = Succeeded(a)
    BY <1>1 DEF Logged, Succeeded
  <2>6. WeightOf(Logged(a))' = WeightOf(Logged(a)) /\ WeightOf(Succeeded(a))' = WeightOf(Succeeded(a))
    <3>1. \A t : Weight(t)' = Weight(t)
      BY <1>1 DEF Weight
    <3> QED
      BY <2>5, <3>1 DEF WeightOf
  <2>7. ViewOf(a)' = ViewOf(a)
    BY <2>2, <2>4, <2>5, <2>6 DEF ViewOf, Gained, Entire
  <2> QED
    BY <1>1, <2>1, <2>7 DEF ScoresInv, CacheIsFresh
<1>4. PenaltyIsEarned'
  BY <1>1, EarnedRests DEF ScoresInv
<1> QED
  BY <1>1, <1>2, <1>3, <1>4 DEF ScoresInv, EndsAreSeen, SignalsFollow

LEMMA DecayKeeps ==
  ASSUME ScoresTypeOK, ScoresInv, Decay
  PROVE  ScoresTypeOK' /\ ScoresInv'
<1>1. UNCHANGED <<ended, mirrored, stage, volume, washed, sybil, pairLog, cache, reading, queued, told, excused>>
  BY DEF Decay
<1>2. edges' = [t \in Trade |-> IF edges[t] > 0 THEN edges[t] - 1 ELSE 0]
  BY DEF Decay
<1>3. edges' \in [Trade -> 0 .. 2] /\ \A t \in Trade : edges'[t] > 0 => edges[t] > 0
  <2>1. \A t \in Trade : edges[t] \in 0 .. 2
    BY DEF ScoresTypeOK
  <2> QED
    BY <1>2, <2>1
<1>4. ScoresTypeOK'
  BY <1>1, <1>3 DEF ScoresTypeOK
<1>5. SignalsFollow'
  BY <1>1, <1>3 DEF ScoresInv, SignalsFollow
<1>6. CacheIsFresh'
  BY <1>1, ViewStays DEF ScoresInv, CacheIsFresh
<1>7. PenaltyIsEarned'
  BY <1>1, EarnedRests DEF ScoresInv
<1> QED
  BY <1>1, <1>4, <1>5, <1>6, <1>7 DEF ScoresInv, EndsAreSeen

\* A market without signals, trades that were observed and views.
LEMMA EmptyMarket ==
  ASSUME pairLog = {}, edges = NoEdges, washed = Zeros, sybil = Zeros, cache = NoViews,
         reading = Nobody, queued = {}, mirrored \subseteq Foreign,
         ended \in [Trade -> Outcome \cup {"open"}], stage \in [Trade -> {"open", "ended", "seen", "done"}],
         EndsAreSeen
  PROVE  ScoresTypeOK /\ ScoresInv
<1>1. NoView \in View
  BY DEF NoView, View
<1>2. ScoresTypeOK
  BY <1>1 DEF ScoresTypeOK, NoEdges, Zeros, NoViews
<1>3. SignalsFollow
  BY DEF SignalsFollow, NoEdges
<1>4. CacheIsFresh
  BY DEF CacheIsFresh, NoViews
<1>5. PenaltyIsEarned
  BY DEF PenaltyIsEarned, Zeros
<1> QED
  BY <1>2, <1>3, <1>4, <1>5 DEF ScoresInv

LEMMA MarketRestarts ==
  ASSUME ScoresTypeOK, RestartMarket
  PROVE  ScoresTypeOK' /\ ScoresInv'
<1>1. /\ stage' = [t \in Trade |-> IF ended[t] = "open" THEN "open" ELSE "done"] /\ ended' = ended
      /\ mirrored' = mirrored /\ pairLog' = {} /\ edges' = NoEdges /\ washed' = Zeros /\ sybil' = Zeros
      /\ cache' = NoViews /\ reading' = Nobody /\ queued' = {}
  BY DEF RestartMarket
<1>2. stage' \in [Trade -> {"open", "ended", "seen", "done"}] /\ EndsAreSeen'
  BY <1>1 DEF EndsAreSeen
<1>3. ended' \in [Trade -> Outcome \cup {"open"}]
  BY <1>1 DEF ScoresTypeOK
<1>4. NoView \in View
  BY DEF NoView, View
<1>5. ScoresTypeOK'
  BY <1>1, <1>2, <1>3, <1>4 DEF ScoresTypeOK, NoEdges, Zeros, NoViews
<1>6. SignalsFollow'
  BY <1>1 DEF SignalsFollow, NoEdges
<1>7. CacheIsFresh'
  BY <1>1 DEF CacheIsFresh, NoViews
<1>8. PenaltyIsEarned'
  BY <1>1 DEF PenaltyIsEarned, Zeros
<1> QED
  BY <1>2, <1>5, <1>6, <1>7, <1>8 DEF ScoresInv

\* marketplace/*.py: for any trades, readers and devices, a cached view is the one that the
\* log and the signals give, but for the excuses named, and every penalty comes from one's
\* own settled trades.
THEOREM ScoresAlwaysHonest == ScoresSpec => []ScoresAreHonest
<1>1. ScoresInit => ScoresTypeOK /\ ScoresInv
  <2>1. SUFFICES ASSUME ScoresInit PROVE ScoresTypeOK /\ ScoresInv
    OBVIOUS
  <2>2. /\ ended \in [Trade -> Outcome \cup {"open"}] /\ stage \in [Trade -> {"open", "ended", "seen", "done"}]
        /\ EndsAreSeen
    BY <2>1 DEF ScoresInit, EndsAreSeen
  <2> QED
    BY <2>1, <2>2, EmptyMarket DEF ScoresInit
<1>2. ScoresTypeOK /\ ScoresInv /\ [ScoresNext]_scoreVars => ScoresTypeOK' /\ ScoresInv'
  <2>1. SUFFICES ASSUME ScoresTypeOK, ScoresInv, [ScoresNext]_scoreVars
                 PROVE  ScoresTypeOK' /\ ScoresInv'
    OBVIOUS
  <2>2. CASE UNCHANGED scoreVars
    <3>1. UNCHANGED <<ended, mirrored, stage, volume, washed, sybil, pairLog, edges, cache, reading, queued, told, excused>>
      BY <2>2 DEF scoreVars
    <3>2. CacheIsFresh'
      BY <2>1, <3>1, ViewStays DEF ScoresInv, CacheIsFresh
    <3>3. PenaltyIsEarned'
      BY <2>1, <3>1, EarnedRests DEF ScoresInv
    <3> QED
      BY <2>1, <3>1, <3>2, <3>3 DEF ScoresTypeOK, ScoresInv, EndsAreSeen, SignalsFollow
  <2>3. CASE ScoresNext
    BY <2>1, <2>3, ReadKeeps, StoreKeeps, DecayKeeps, MarketRestarts, EndKeeps, ObserveKeeps, DoneKeeps,
       DeviceKeeps, ImportKeeps DEF ScoresNext
  <2> QED
    BY <2>1, <2>2, <2>3
<1>3. ScoresTypeOK /\ ScoresInv => ScoresAreHonest
  BY DEF ScoresInv, ScoresAreHonest
<1> QED
  BY <1>1, <1>2, <1>3, PTL DEF ScoresSpec
=============================================================================
