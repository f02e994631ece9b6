--------------------------- MODULE RegistryProofs ---------------------------
(***************************************************************************)
(* Theorems about the registries beside the engine, for any number of      *)
(* threads, keys, credentials, claims and stewards and any bounds.         *)
(***************************************************************************)
EXTENDS Propose, Delegation, ClaimRegistry, Certifications, FiniteSetTheorems,
        WellFoundedInduction, TLAPS

\* A thread goes on from one step to another, and who was alone stays alone.
LEMMA StaysAlone ==
  ASSUME NEW work, NEW next, Alone(work), NEW t \in Thread, work[t].pc # "idle",
         \A u \in Thread \ {t} : next[u] = work[u]
  PROVE  Alone(next)
<1>1. \A u \in Thread \ {t} : work[u].pc = "idle"
  BY DEF Alone
<1> QED BY <1>1 DEF Alone

---------------------------------------------------------------------------
(* Delegations.                                                            *)

LEMMA AskedAreInts == \A e \in Exchange : Asked \cup {Price[e]} \subseteq Int
BY DelegationAssumption

LEMMA DelegationInitType == DelegationInit => DelegationTypeOK
<1> SUFFICES ASSUME DelegationInit PROVE DelegationTypeOK
  OBVIOUS
<1>1. 0 \in Period /\ MaxAmount \in Nat
  BY DelegationAssumption DEF Period
<1>2. Zero \in [Cred -> [Period -> Within]] /\ Zero \in [Cred -> [Period -> Nat]]
  BY <1>1 DEF Zero, Within
<1>3. NoAction \in [pc : {"idle", "charge", "act"}, cred : Cred \cup {NoCred},
                      act : {"none", "propose", "escrow"}, ex : Exchange \cup {NoCred},
                      period : Period, sum : Int, amount : Int]
  BY <1>1 DEF NoAction
<1>4. NoAction.pc = "idle"
  BY DEF NoAction
<1> QED BY <1>1, <1>2, <1>3, <1>4 DEF DelegationInit, DelegationTypeOK

\* The fields of a thread at work.
LEMMA ActionFields ==
  ASSUME DelegationTypeOK, NEW t \in Thread, acting[t].pc # "idle"
  PROVE  /\ acting[t].cred \in Cred /\ acting[t].ex \in Exchange
         /\ acting[t].period \in Period /\ acting[t].sum \in Int
         /\ spent[acting[t].cred][acting[t].period] \in Within
         /\ granted[acting[t].cred][acting[t].period] \in Nat
         /\ credited[acting[t].cred][acting[t].period] \in Nat
         /\ acting[t].amount \in Int /\ grants[acting[t].period] \in Nat
<1>1. /\ acting[t].cred \in Cred /\ acting[t].ex \in Exchange
      /\ acting[t].period \in Period /\ acting[t].sum \in Int /\ acting[t].amount \in Int
  BY DEF DelegationTypeOK
<1>2. /\ spent \in [Cred -> [Period -> Within]] /\ granted \in [Cred -> [Period -> Nat]]
      /\ credited \in [Cred -> [Period -> Nat]] /\ grants \in [Period -> Nat]
  BY DEF DelegationTypeOK, Within
<1> QED BY <1>1, <1>2

\* The steps of the threads, of the issuers and of time are well typed.
LEMMA DelegationStepType ==
  ASSUME DelegationTypeOK, [DelegationNext]_delegationVars
  PROVE  DelegationTypeOK'
<1> DEFINE Action == [pc : {"idle", "charge", "act"}, cred : Cred \cup {NoCred},
                      act : {"none", "propose", "escrow"}, ex : Exchange \cup {NoCred},
                      period : Period, sum : Int, amount : Int]
<1>0. actionsRaced' \in BOOLEAN /\ restarted' \in BOOLEAN
  BY Zenon DEF DelegationTypeOK, DelegationNext, delegationVars
<1>1. ASSUME NEW t \in Thread, NEW c \in Cred, NEW e \in Exchange, NEW n \in Int, Validate(t, c, e, n)
      PROVE  DelegationTypeOK'
  <2> DEFINE a == [pc |-> "charge", cred |-> c, act |-> IF stage[e] = "new" THEN "propose" ELSE "escrow",
                   ex |-> e, period |-> period, sum |-> spent[c][period] + n, amount |-> n]
  <2>1. spent[c] \in [Period -> Within] /\ period \in Period
    BY DEF DelegationTypeOK, Within
  <2>2. spent[c][period] + n \in Int
    BY <2>1 DEF Within
  <2>3. a \in Action
    BY <2>1, <2>2
  <2> HIDE DEF a
  <2>4. acting' = [acting EXCEPT ![t] = a]
    BY <1>1 DEF Validate, a
  <2>5. a.cred \in Cred /\ a.ex \in Exchange
    BY DEF a
  <2> QED BY <1>0, <1>1, <2>3, <2>4, <2>5 DEF Validate, DelegationTypeOK
<1>2. NoAction \in Action /\ NoAction.pc = "idle"
  BY DelegationAssumption DEF NoAction, Period
<1>3. ASSUME NEW t \in Thread, acting' = [acting EXCEPT ![t] = NoAction],
             UNCHANGED <<known, revoked, spent, expired, period, granted, credited, grants, toldRevoked>>,
             stage' \in [Exchange -> {"new", "proposed", "escrowed"}]
      PROVE  DelegationTypeOK'
  <2> HIDE DEF Action
  <2>1. acting \in [Thread -> Action]
    BY DEF DelegationTypeOK, Action
  <2>2. acting' \in [Thread -> Action]
    BY <1>2, <1>3, <2>1
  <2>3. \A u \in Thread : acting'[u] = acting[u] \/ acting'[u] = NoAction
    BY <1>3, <2>1
  <2> QED BY <1>0, <1>2, <1>3, <2>2, <2>3 DEF DelegationTypeOK, Action
<1>4. ASSUME NEW t \in Thread, Charge(t) PROVE DelegationTypeOK'
  <2>1. PICK c, p, x, z, y, n :
           /\ c = acting[t].cred /\ p = acting[t].period /\ y = acting[t].sum /\ n = grants[p] + 1
           /\ x = IF acting[t].amount > 0 THEN granted[c][p] + acting[t].amount ELSE granted[c][p]
           /\ z = IF acting[t].amount > 0 THEN credited[c][p] ELSE credited[c][p] - acting[t].amount
    OBVIOUS
  <2>2. /\ c \in Cred /\ p \in Period /\ x \in Nat /\ z \in Nat /\ y \in Within /\ n \in Nat
    BY <1>4, <2>1, ActionFields, DelegationAssumption DEF Charge, Exceeded, Within
  <2>3. /\ spent' = [spent EXCEPT ![c][p] = y] /\ granted' = [granted EXCEPT ![c][p] = x]
        /\ credited' = [credited EXCEPT ![c][p] = z]
        /\ grants' = [grants EXCEPT ![p] = n] /\ acting' = [acting EXCEPT ![t].pc = "act"]
    BY <1>4, <2>1 DEF Charge
  <2>4. /\ spent' \in [Cred -> [Period -> Within]] /\ credited' \in [Cred -> [Period -> Nat]]
        /\ granted' \in [Cred -> [Period -> Nat]] /\ grants' \in [Period -> Nat]
    BY <2>2, <2>3 DEF DelegationTypeOK
  <2>5. acting[t].pc = "charge"
    BY <1>4 DEF Charge
  <2>6. acting' \in [Thread -> Action] /\ \A u \in Thread : acting'[u].pc # "idle" =>
                                   acting'[u].cred \in Cred /\ acting'[u].ex \in Exchange
    <3>1. [acting[t] EXCEPT !.pc = "act"] \in Action
      BY DEF DelegationTypeOK
    <3>2. PICK b : b = [acting[t] EXCEPT !.pc = "act"]
      OBVIOUS
    <3>3. b.cred \in Cred /\ b.ex \in Exchange
      BY <2>5, <3>2 DEF DelegationTypeOK
    <3>4. acting' = [acting EXCEPT ![t] = b] /\ b \in Action
      BY <2>3, <3>1, <3>2
    <3> HIDE DEF Action
    <3>5. \A u \in Thread : acting'[u] = IF u = t THEN b ELSE acting[u]
      BY <3>4 DEF DelegationTypeOK
    <3>6. acting' \in [Thread -> Action]
      BY <3>4 DEF DelegationTypeOK, Action
    <3> QED BY <3>3, <3>5, <3>6 DEF DelegationTypeOK
  <2> QED BY <1>0, <1>4, <2>4, <2>6 DEF DelegationTypeOK, Charge
<1>5. ASSUME NEW t \in Thread, Act(t) PROVE DelegationTypeOK'
  <2>1. stage' \in [Exchange -> {"new", "proposed", "escrowed"}]
    BY <1>5 DEF Act, DelegationTypeOK
  <2> QED BY <1>3, <1>5, <2>1 DEF Act
<1>6. ASSUME NEW t \in Thread, Refuse(t) \/ ActFails(t) PROVE DelegationTypeOK'
  <2>1. stage' \in [Exchange -> {"new", "proposed", "escrowed"}]
    BY <1>6 DEF Refuse, ActFails, DelegationTypeOK
  <2> QED BY <1>3, <1>6, <2>1 DEF Refuse, ActFails
<1>7. ASSUME NEW t \in Thread, ActionStep(t) PROVE DelegationTypeOK'
  BY <1>1, AskedAreInts, <1>4, <1>5, <1>6, <1>7 DEF ActionStep
<1>8. ASSUME NEW c \in Cred, Register(c) \/ Revoke(c) \/ Expire(c) PROVE DelegationTypeOK'
  BY <1>0, <1>8 DEF Register, Revoke, Expire, DelegationTypeOK
<1>9. NextPeriod => DelegationTypeOK'
  <2>1. NextPeriod => period' \in Period
    BY DelegationAssumption DEF NextPeriod, Period, DelegationTypeOK
  <2> QED BY <1>0, <2>1 DEF NextPeriod, DelegationTypeOK
<1>10. Restart => DelegationTypeOK'
  <2>1. Zero \in [Cred -> [Period -> Within]]
    BY DelegationAssumption DEF Zero, Within
  <2>2. Restart => acting' \in [Thread -> Action] /\ \A u \in Thread : acting'[u].pc = "idle"
    BY <1>2 DEF Restart
  <2> QED BY <1>0, <2>1, <2>2 DEF Restart, DelegationTypeOK
<1>11. UNCHANGED delegationVars => DelegationTypeOK'
  BY DEF delegationVars, DelegationTypeOK
<1> QED BY <1>7, <1>8, <1>9, <1>10, <1>11 DEF DelegationNext

\* A thread's step covers what it charges.
LEMMA ActionStepCovered ==
  ASSUME DelegationTypeOK, DelegationInv, NEW t \in Thread, ActionStep(t)
  PROVE  /\ \A c \in Cred, p \in Period : spent'[c][p] <= granted'[c][p]
         /\ ChargeIsCovered'
<1> DEFINE Cover(s, g) == \A c \in Cred, p \in Period : s[c][p] <= g[c][p]
<1>0. /\ spent \in [Cred -> [Period -> Int]] /\ granted \in [Cred -> [Period -> Nat]]
      /\ period \in Period
  BY DEF DelegationTypeOK, Within
<1>1. ASSUME NEW c \in Cred, NEW e \in Exchange, NEW n \in Int, Validate(t, c, e, n)
      PROVE  Cover(spent', granted') /\ ChargeIsCovered'
  <2>1. spent[c][period] + n <= granted[c][period] + n
    <3>1. spent[c][period] \in Int /\ granted[c][period] \in Nat
      BY <1>0
    <3>2. spent[c][period] <= granted[c][period]
      BY <1>0 DEF DelegationInv
    <3> QED BY <3>1, <3>2
  <2> DEFINE a == [pc |-> "charge", cred |-> c, act |-> IF stage[e] = "new" THEN "propose" ELSE "escrow",
                   ex |-> e, period |-> period, sum |-> spent[c][period] + n, amount |-> n]
  <2>2. acting' = [acting EXCEPT ![t] = a] /\ UNCHANGED <<spent, granted>>
    BY <1>1 DEF Validate
  <2>3. a.sum <= granted[a.cred][a.period] + a.amount
    BY <2>1
  <2> HIDE DEF a
  <2> QED BY <2>2, <2>3 DEF DelegationInv, ChargeIsCovered, DelegationTypeOK
<1>2. ASSUME Charge(t) PROVE Cover(spent', granted') /\ ChargeIsCovered'
  <2>1. PICK c, p, x, y :
           /\ c = acting[t].cred /\ p = acting[t].period /\ y = acting[t].sum
           /\ x = IF acting[t].amount > 0 THEN granted[c][p] + acting[t].amount ELSE granted[c][p]
    OBVIOUS
  <2>2. /\ c \in Cred /\ p \in Period /\ x \in Nat /\ y \in Int /\ y <= x
        /\ granted[c][p] <= x
    <3>1. acting[t].pc = "charge"
      BY <1>2 DEF Charge
    <3>2. y <= granted[c][p] + acting[t].amount
      BY <2>1, <3>1 DEF DelegationInv, ChargeIsCovered
    <3> QED BY <2>1, <3>1, <3>2, ActionFields
  <2>3. /\ spent' = [spent EXCEPT ![c][p] = y] /\ granted' = [granted EXCEPT ![c][p] = x]
        /\ acting' = [acting EXCEPT ![t].pc = "act"]
    BY <1>2, <2>1 DEF Charge
  <2>4. Cover(spent', granted')
    BY <1>0, <2>2, <2>3 DEF DelegationInv
  <2>5. \A d \in Cred, q \in Period : granted[d][q] <= granted'[d][q]
    BY <1>0, <2>2, <2>3
  <2>6. ASSUME NEW u \in Thread, acting'[u].pc = "charge"
        PROVE  acting'[u].sum <= granted'[acting'[u].cred][acting'[u].period] + acting'[u].amount
    <3>1. u # t /\ acting'[u] = acting[u]
      BY <2>3, <2>6 DEF DelegationTypeOK
    <3>2. /\ acting[u].cred \in Cred /\ acting[u].period \in Period
          /\ acting[u].sum \in Int /\ acting[u].amount \in Int
          /\ granted[acting[u].cred][acting[u].period] \in Nat
      BY <2>6, <3>1, ActionFields
    <3>3. granted'[acting[u].cred][acting[u].period] \in Nat
      BY <1>0, <2>2, <2>3, <3>2
    <3>4. acting[u].sum <= granted[acting[u].cred][acting[u].period] + acting[u].amount
      BY <2>6, <3>1 DEF DelegationInv, ChargeIsCovered
    <3> QED BY <2>5, <3>1, <3>2, <3>3, <3>4
  <2> QED BY <2>4, <2>6 DEF ChargeIsCovered
<1>3. ASSUME Refuse(t) \/ Act(t) \/ ActFails(t)
      PROVE  Cover(spent', granted') /\ ChargeIsCovered'
  <2>1. acting' = [acting EXCEPT ![t] = NoAction] /\ UNCHANGED <<spent, granted>>
    BY <1>3 DEF Refuse, Act, ActFails
  <2> QED BY <2>1 DEF DelegationInv, ChargeIsCovered, DelegationTypeOK, NoAction
<1> QED BY <1>1, <1>2, <1>3, AskedAreInts DEF ActionStep

\* A thread that is alone keeps the books.
LEMMA BooksStep ==
  ASSUME DelegationTypeOK, BooksAgree, NEW t \in Thread, ActionStep(t), Alone(acting')
  PROVE  BooksAgree'
<1>0. /\ spent \in [Cred -> [Period -> Int]] /\ granted \in [Cred -> [Period -> Nat]]
      /\ credited \in [Cred -> [Period -> Nat]] /\ period \in Period
      /\ \A c \in Cred, p \in Period : spent[c][p] = granted[c][p] - credited[c][p]
      /\ Alone(acting)
  BY DEF DelegationTypeOK, BooksAgree, Within
<1>1. ASSUME NEW c \in Cred, NEW e \in Exchange, NEW n \in Int, Validate(t, c, e, n) PROVE BooksAgree'
  <2> DEFINE a == [pc |-> "charge", cred |-> c, act |-> IF stage[e] = "new" THEN "propose" ELSE "escrow",
                   ex |-> e, period |-> period, sum |-> spent[c][period] + n, amount |-> n]
  <2>2. acting' = [acting EXCEPT ![t] = a] /\ UNCHANGED <<spent, granted, credited>>
    BY <1>1 DEF Validate
  <2>3. a.sum = spent[a.cred][a.period] + a.amount
    OBVIOUS
  <2> HIDE DEF a
  <2> QED BY <2>2, <2>3 DEF BooksAgree, DelegationTypeOK
<1>2. ASSUME Charge(t) PROVE BooksAgree'
  <2>1. PICK c, p, x, z, y :
           /\ c = acting[t].cred /\ p = acting[t].period /\ y = acting[t].sum
           /\ x = IF acting[t].amount > 0 THEN granted[c][p] + acting[t].amount ELSE granted[c][p]
           /\ z = IF acting[t].amount > 0 THEN credited[c][p] ELSE credited[c][p] - acting[t].amount
    OBVIOUS
  <2>2. acting[t].pc = "charge"
    BY <1>2 DEF Charge
  <2>3. /\ c \in Cred /\ p \in Period /\ y = x - z
    <3>1. y = spent[c][p] + acting[t].amount /\ spent[c][p] = granted[c][p] - credited[c][p]
      BY <1>0, <2>1, <2>2, ActionFields DEF BooksAgree
    <3>2. PICK g, k, a : g = granted[c][p] /\ k = credited[c][p] /\ a = acting[t].amount
      OBVIOUS
    <3>3. g \in Nat /\ k \in Nat /\ a \in Int /\ y = g - k + a
      BY <2>1, <2>2, <3>1, <3>2, ActionFields
    <3>4. x = (IF a > 0 THEN g + a ELSE g) /\ z = (IF a > 0 THEN k ELSE k - a)
      BY <2>1, <3>2
    <3>5. y = x - z
      BY <3>3, <3>4
    <3> QED BY <2>1, <2>2, <3>5, ActionFields
  <2>4. /\ spent' = [spent EXCEPT ![c][p] = y] /\ granted' = [granted EXCEPT ![c][p] = x]
        /\ credited' = [credited EXCEPT ![c][p] = z] /\ acting' = [acting EXCEPT ![t].pc = "act"]
    BY <1>2, <2>1 DEF Charge
  <2>5. \A d \in Cred, q \in Period : spent'[d][q] = granted'[d][q] - credited'[d][q]
    BY <1>0, <2>3, <2>4
  <2>6. \A u \in Thread : acting'[u].pc # "charge"
    <3>1. \A u \in Thread \ {t} : acting[u].pc = "idle"
      BY <1>0, <2>2 DEF Alone
    <3> QED BY <2>4, <3>1 DEF DelegationTypeOK
  <2> QED BY <2>5, <2>6 DEF BooksAgree
<1>3. ASSUME Refuse(t) \/ Act(t) \/ ActFails(t) PROVE BooksAgree'
  <2>1. acting' = [acting EXCEPT ![t] = NoAction] /\ UNCHANGED <<spent, granted, credited>>
    BY <1>3 DEF Refuse, Act, ActFails
  <2> QED BY <2>1 DEF BooksAgree, DelegationTypeOK, NoAction
<1> QED BY <1>1, <1>2, <1>3, AskedAreInts DEF ActionStep

LEMMA DelegationInitSound == DelegationInit => DelegationInv
<1> SUFFICES ASSUME DelegationInit PROVE DelegationInv
  OBVIOUS
<1>1. /\ \A c \in Cred, p \in Period : spent[c][p] = 0 /\ granted[c][p] = 0 /\ credited[c][p] = 0
      /\ \A t \in Thread : acting[t].pc = "idle"
      /\ toldRevoked = {}
  BY DEF DelegationInit, Zero, NoAction
<1> QED BY <1>1 DEF DelegationInv, ChargeIsCovered, BooksAgree, Alone

LEMMA DelegationStepSound ==
  ASSUME DelegationTypeOK, DelegationInv, [DelegationNext]_delegationVars
  PROVE  DelegationInv'
<1>1. ASSUME NEW t \in Thread, ActionStep(t), actionsRaced' = (actionsRaced \/ ~Alone(acting')),
             UNCHANGED restarted
      PROVE  DelegationInv'
  <2>1. UNCHANGED <<revoked, toldRevoked>>
    BY <1>1 DEF ActionStep, Validate, Charge, Refuse, Act, ActFails
  <2>2. ~actionsRaced' /\ ~restarted' => BooksAgree'
    BY <1>1, BooksStep DEF DelegationInv
  <2> QED BY <1>1, <2>1, <2>2, ActionStepCovered DEF DelegationInv
<1>2. ASSUME NEW c \in Cred, Register(c) \/ Revoke(c) \/ Expire(c),
             UNCHANGED <<actionsRaced, restarted>>
      PROVE  DelegationInv'
  BY <1>2 DEF Register, Revoke, Expire, DelegationInv, ChargeIsCovered, BooksAgree
<1>3. ASSUME NextPeriod, UNCHANGED <<actionsRaced, restarted>> PROVE DelegationInv'
  BY <1>3 DEF NextPeriod, DelegationInv, ChargeIsCovered, BooksAgree
<1>4. ASSUME Restart, restarted' = TRUE PROVE DelegationInv'
  <2>1. \A c \in Cred, p \in Period : spent'[c][p] = 0 /\ granted'[c][p] \in Nat
    BY <1>4 DEF Restart, Zero, DelegationTypeOK
  <2>2. \A t \in Thread : acting'[t].pc = "idle"
    BY <1>4 DEF Restart, NoAction
  <2> QED BY <1>4, <2>1, <2>2 DEF DelegationInv, ChargeIsCovered
<1>5. UNCHANGED delegationVars => DelegationInv'
  BY DEF delegationVars, DelegationInv, ChargeIsCovered, BooksAgree
<1> QED BY <1>1, <1>2, <1>3, <1>4, <1>5 DEF DelegationNext

\* What a delegation charged was let through, and nobody who is alone is charged wrongly.
THEOREM DelegationBooksAreSound == DelegationSpec => [](DelegationTypeOK /\ DelegationInv)
<1>1. DelegationTypeOK /\ DelegationInv /\ [DelegationNext]_delegationVars
        => (DelegationTypeOK /\ DelegationInv)'
  BY DelegationStepType, DelegationStepSound
<1> QED BY <1>1, DelegationInitType, DelegationInitSound, PTL DEF DelegationSpec

\* The limit of a delegation is kept in each period while requests do not overlap and
\* the registry is not lost, but for what amounts below zero took off the sum; it is
\* never charged for more than it let through (delegate.py).
THEOREM LimitIsAlwaysKept == DelegationSpec => []LimitIsKept
<1>1. DelegationTypeOK /\ DelegationInv => LimitIsKept
  <2> SUFFICES ASSUME DelegationTypeOK, DelegationInv, NEW c \in Cred, NEW p \in Period
               PROVE  /\ ~actionsRaced /\ ~restarted => granted[c][p] <= MaxAmount + credited[c][p]
                      /\ spent[c][p] <= granted[c][p]
    BY DEF LimitIsKept
  <2>1. /\ spent[c][p] \in Int /\ spent[c][p] <= MaxAmount /\ MaxAmount \in Nat
        /\ granted[c][p] \in Nat /\ credited[c][p] \in Nat
    BY DelegationAssumption DEF DelegationTypeOK, Within
  <2> QED BY <2>1 DEF DelegationInv, BooksAgree
<1> QED BY <1>1, DelegationBooksAreSound, PTL

\* No request begins with a credential that expired, or that the process was told to be
\* revoked, however often it is registered again (delegate.py).
THEOREM RevokedBeginsNothing == DelegationSpec => RevokedLetsNothingBegin
<1> DEFINE Kept == \A t \in Thread : acting[t].pc = "idle" /\ acting'[t].pc = "charge" =>
                     acting'[t].cred \notin expired \cup IF restarted THEN {} ELSE toldRevoked
<1>1. ASSUME DelegationTypeOK, DelegationInv, [DelegationNext]_delegationVars PROVE [Kept]_acting
  <2>0. ASSUME NEW t \in Thread, NEW a, acting' = [acting EXCEPT ![t] = a]
        PROVE  \A u \in Thread : acting'[u] = IF u = t THEN a ELSE acting[u]
    BY <1>1, <2>0 DEF DelegationTypeOK
  <2>1. ASSUME NEW t \in Thread, ActionStep(t) PROVE Kept
    <3>1. ASSUME NEW c \in Cred, NEW e \in Exchange, NEW n \in Int, Validate(t, c, e, n) PROVE Kept
      <4>1. c \notin expired /\ c \notin revoked
        BY <3>1 DEF Validate, Valid
      <4> DEFINE a == [pc |-> "charge", cred |-> c,
                       act |-> IF stage[e] = "new" THEN "propose" ELSE "escrow", ex |-> e,
                       period |-> period, sum |-> spent[c][period] + n, amount |-> n]
      <4>2. acting' = [acting EXCEPT ![t] = a] /\ a.cred = c
        BY <3>1 DEF Validate
      <4> HIDE DEF a
      <4>3. \A u \in Thread : acting'[u] = IF u = t THEN a ELSE acting[u]
        BY <2>0, <4>2
      <4> QED BY <1>1, <4>1, <4>2, <4>3 DEF DelegationInv
    <3>2. ASSUME Charge(t) \/ Refuse(t) \/ Act(t) \/ ActFails(t) PROVE Kept
      <4>1. \A u \in Thread : acting'[u] = acting[u] \/ acting'[u].pc \in {"act", "idle"}
        BY <1>1, <2>0, <2>1, <3>2 DEF Charge, Refuse, Act, ActFails, NoAction, DelegationTypeOK
      <4> QED BY <4>1
    <3> QED BY <2>1, <3>1, <3>2, AskedAreInts DEF ActionStep
  <2>2. Restart => Kept
    BY DEF Restart, NoAction
  <2>3. (\E c \in Cred : Register(c) \/ Revoke(c) \/ Expire(c)) \/ NextPeriod
        \/ UNCHANGED delegationVars => UNCHANGED acting
    BY DEF Register, Revoke, Expire, NextPeriod, delegationVars
  <2> QED BY <1>1, <2>1, <2>2, <2>3 DEF DelegationNext
<1>2. DelegationTypeOK /\ DelegationInv /\ [DelegationNext]_delegationVars => [Kept]_acting
  BY <1>1
<1> QED BY <1>2, DelegationBooksAreSound, PTL DEF DelegationSpec, RevokedLetsNothingBegin
---------------------------------------------------------------------------
(* Proposals.                                                              *)

ProposeRequest == [pc : {"idle", "count", "lookup", "add", "set"},
                   key : Key \cup {NoExchange}, day : Day, used : 0 .. Limit,
                   id : Id \cup {NoExchange}]

LEMMA ProposeFacts ==
  /\ NoExchange \notin Id /\ Id \subseteq Nat /\ Day \subseteq Nat /\ 0 \in Day
  /\ Limit \in Nat /\ NoRequest \in ProposeRequest /\ NoRequest.pc = "idle"
BY ProposeAssumption DEF Id, Day, NoRequest, ProposeRequest

\* What a thread's record is after a step, and that the rest of the pool is unchanged.
LEMMA RequestStep ==
  ASSUME ProposeTypeOK, NEW t \in Thread, NEW r \in ProposeRequest,
         r.pc # "idle" => r.key \in Key, requesting' = [requesting EXCEPT ![t] = r]
  PROVE  /\ requesting' \in [Thread -> ProposeRequest]
         /\ \A u \in Thread : requesting'[u] = IF u = t THEN r ELSE requesting[u]
         /\ \A u \in Thread : requesting'[u].pc # "idle" => requesting'[u].key \in Key
<1> USE DEF ProposeTypeOK
<1>1. requesting \in [Thread -> ProposeRequest]
  BY DEF ProposeRequest
<1>2. \A u \in Thread : requesting'[u] = IF u = t THEN r ELSE requesting[u]
  BY <1>1
<1> QED BY <1>1, <1>2

\* Each step of a request, by what it does to its own record.
ProposeMove(t, r) ==
  /\ requesting' = [requesting EXCEPT ![t] = r] /\ today' = today
  /\ r.pc # "idle" => r.key \in Key
  /\ \/ /\ requesting[t].pc = "idle" /\ r.pc = "count"
        /\ r.day = today /\ r.used = used[today] /\ used[today] < Limit
        /\ UNCHANGED <<exchanges, idem, used, admitted, answers>>
     \/ /\ requesting[t].pc = "count" /\ r.pc = "lookup"
        /\ used' = [used EXCEPT ![requesting[t].day] = requesting[t].used + 1]
        /\ admitted' = [admitted EXCEPT ![requesting[t].day] = @ + 1]
        /\ UNCHANGED <<exchanges, idem, answers>>
     \/ /\ requesting[t].pc = "lookup" /\ r.pc = "idle"
        /\ idem[requesting[t].key] # NoExchange
        /\ answers' = [answers EXCEPT ![requesting[t].key] = @ \cup {idem[requesting[t].key]}]
        /\ UNCHANGED <<exchanges, idem, used, admitted>>
     \/ /\ requesting[t].pc = "lookup" /\ r.pc = "add" /\ r.key = requesting[t].key
        /\ idem[requesting[t].key] = NoExchange
        /\ UNCHANGED <<exchanges, idem, used, admitted, answers>>
     \/ \E i \in Id \ DOMAIN exchanges :
        /\ requesting[t].pc = "add" /\ r.pc = "set" /\ r.id = i /\ r.key = requesting[t].key
        /\ exchanges' = [j \in DOMAIN exchanges \cup {i} |->
                           IF j = i THEN requesting[t].key ELSE exchanges[j]]
        /\ UNCHANGED <<idem, used, admitted, answers>>
     \/ /\ requesting[t].pc = "set" /\ r.pc = "idle"
        /\ idem' = [idem EXCEPT ![requesting[t].key] = requesting[t].id]
        /\ answers' = [answers EXCEPT ![requesting[t].key] = @ \cup {requesting[t].id}]
        /\ UNCHANGED <<exchanges, used, admitted>>

LEMMA ProposeStepMoves ==
  ASSUME ProposeTypeOK, NEW t \in Thread, ProposeStep(t)
  PROVE  \E r \in ProposeRequest : ProposeMove(t, r)
<1>1. /\ requesting \in [Thread -> ProposeRequest] /\ today \in Day
      /\ used \in [Day -> 0 .. Limit]
      /\ \A u \in Thread : requesting[u].pc # "idle" => requesting[u].key \in Key
  BY DEF ProposeTypeOK, ProposeRequest
<1> DEFINE Moved(pc) == [requesting[t] EXCEPT !.pc = pc]
<1>2. \A pc \in {"lookup", "add", "set"} :
        /\ Moved(pc) \in ProposeRequest /\ Moved(pc).pc = pc
        /\ Moved(pc).key = requesting[t].key
        /\ [requesting EXCEPT ![t].pc = pc] = [requesting EXCEPT ![t] = Moved(pc)]
  BY <1>1 DEF ProposeRequest
<1>3. ASSUME NEW k \in Key, ReadQuota(t, k) PROVE \E r \in ProposeRequest : ProposeMove(t, r)
  <2> DEFINE r == [NoRequest EXCEPT !.pc = "count", !.key = k, !.day = today,
                                    !.used = used[today]]
  <2>1. used[today] \in 0 .. Limit
    BY <1>1
  <2>2. /\ r \in ProposeRequest /\ r.pc = "count" /\ r.key = k /\ r.day = today
        /\ r.used = used[today]
    BY <1>1, <2>1, ProposeFacts DEF NoRequest, ProposeRequest
  <2>3. /\ used[today] < Limit /\ requesting' = [requesting EXCEPT ![t] = r] /\ today' = today
        /\ requesting[t].pc = "idle" /\ UNCHANGED <<exchanges, idem, used, admitted, answers>>
    BY <1>3 DEF ReadQuota, Remaining
  <2> HIDE DEF r
  <2> QED BY <2>2, <2>3 DEF ProposeMove
<1>5. CASE CountQuota(t)
  <2>1. Moved("lookup") \in ProposeRequest /\ ProposeMove(t, Moved("lookup"))
    BY <1>1, <1>2, <1>5 DEF CountQuota, ProposeMove
  <2> QED BY <2>1
<1>6. CASE LookUp(t) /\ Known(requesting[t].key)
  <2>1. ProposeMove(t, NoRequest)
    BY <1>6, ProposeFacts DEF LookUp, Known, ProposeMove
  <2> QED BY <2>1, ProposeFacts
<1>7. CASE LookUp(t) /\ ~Known(requesting[t].key)
  <2>1. Moved("add") \in ProposeRequest /\ ProposeMove(t, Moved("add"))
    BY <1>1, <1>2, <1>7 DEF LookUp, Known, ProposeMove
  <2> QED BY <2>1
<1>8. CASE Add(t)
  <2>1. PICK i \in Id \ DOMAIN exchanges :
          /\ requesting[t].pc = "add"
          /\ exchanges' = [j \in DOMAIN exchanges \cup {i} |->
                             IF j = i THEN requesting[t].key ELSE exchanges[j]]
          /\ requesting' = [requesting EXCEPT ![t].pc = "set", ![t].id = i]
          /\ UNCHANGED <<idem, used, today, admitted, answers>>
    BY <1>8 DEF Add
  <2> DEFINE r == [Moved("set") EXCEPT !.id = i]
  <2>2. /\ r \in ProposeRequest /\ r.pc = "set" /\ r.id = i /\ r.key = requesting[t].key
        /\ requesting' = [requesting EXCEPT ![t] = r]
    BY <1>1, <2>1 DEF ProposeRequest
  <2>3. requesting[t].key \in Key
    BY <1>1, <2>1
  <2> HIDE DEF r
  <2> QED BY <2>1, <2>2, <2>3 DEF ProposeMove
<1>9. CASE SetKey(t)
  <2>1. ProposeMove(t, NoRequest)
    BY <1>9, ProposeFacts DEF SetKey, ProposeMove
  <2> QED BY <2>1, ProposeFacts
<1> QED BY <1>3, <1>5, <1>6, <1>7, <1>8, <1>9 DEF ProposeStep

LEMMA ProposeInitType == ProposeInit => ProposeTypeOK
<1> SUFFICES ASSUME ProposeInit PROVE ProposeTypeOK
  OBVIOUS
<1>1. /\ exchanges = [i \in {} |-> NoExchange] /\ idem = [k \in Key |-> NoExchange]
      /\ used = [d \in Day |-> 0] /\ today = 0
      /\ requesting = [t \in Thread |-> NoRequest]
      /\ admitted = [d \in Day |-> 0] /\ answers = [k \in Key |-> {}]
      /\ requestsRaced = FALSE /\ crashed = FALSE
  BY DEF ProposeInit
<1>2. 0 \in 0 .. Limit
  BY ProposeAssumption
<1>3. requesting \in [Thread -> ProposeRequest]
  BY <1>1, ProposeFacts
<1> QED BY <1>1, <1>2, <1>3, ProposeFacts DEF ProposeTypeOK, ProposeRequest

\* What the three tables are after a step of a request.
LEMMA ProposeTables ==
  ASSUME ProposeTypeOK, ProposeInv, NEW t \in Thread, NEW r \in ProposeRequest, ProposeMove(t, r)
  PROVE  /\ DOMAIN exchanges \subseteq DOMAIN exchanges' /\ DOMAIN exchanges' \subseteq Id
         /\ \A i \in DOMAIN exchanges : exchanges'[i] = exchanges[i]
         /\ exchanges' \in [DOMAIN exchanges' -> Key]
         /\ idem' \in [Key -> Id \cup {NoExchange}]
         /\ answers' \in [Key -> SUBSET Id]
         /\ used' \in [Day -> 0 .. Limit] /\ admitted' \in [Day -> Nat]
<1>1. /\ requesting[t].pc # "idle" => requesting[t].key \in Key
      /\ requesting[t].day \in Day /\ requesting[t].used \in 0 .. Limit
      /\ requesting[t].id \in Id \cup {NoExchange}
      /\ DOMAIN exchanges \subseteq Id /\ exchanges \in [DOMAIN exchanges -> Key]
      /\ idem \in [Key -> Id \cup {NoExchange}] /\ answers \in [Key -> SUBSET Id]
      /\ used \in [Day -> 0 .. Limit] /\ admitted \in [Day -> Nat]
  BY DEF ProposeTypeOK
<1>2. requesting[t].pc = "count" => requesting[t].used + 1 \in 0 .. Limit
  BY <1>1, ProposeFacts DEF ProposeInv
<1>3. requesting[t].pc = "set" => requesting[t].id \in Id
  BY <1>1 DEF ProposeInv
<1>4. UNCHANGED exchanges \/ \E i \in Id \ DOMAIN exchanges :
        /\ requesting[t].pc = "add"
        /\ exchanges' = [j \in DOMAIN exchanges \cup {i} |->
                           IF j = i THEN requesting[t].key ELSE exchanges[j]]
  BY DEF ProposeMove
<1>5. /\ DOMAIN exchanges \subseteq DOMAIN exchanges' /\ DOMAIN exchanges' \subseteq Id
      /\ \A i \in DOMAIN exchanges : exchanges'[i] = exchanges[i]
      /\ exchanges' \in [DOMAIN exchanges' -> Key]
  BY <1>1, <1>4
<1>6. UNCHANGED <<used, admitted>> \/
        /\ requesting[t].pc = "count"
        /\ used' = [used EXCEPT ![requesting[t].day] = requesting[t].used + 1]
        /\ admitted' = [admitted EXCEPT ![requesting[t].day] = @ + 1]
  BY DEF ProposeMove
<1>7. used' \in [Day -> 0 .. Limit]
  BY <1>1, <1>2, <1>6
<1>8. admitted' \in [Day -> Nat]
  BY <1>1, <1>6
<1>9. idem' \in [Key -> Id \cup {NoExchange}]
  BY <1>1 DEF ProposeMove
<1>10. \/ UNCHANGED answers
       \/ \E k \in Key, i \in Id : answers' = [answers EXCEPT ![k] = @ \cup {i}]
  BY <1>1, <1>3 DEF ProposeMove
<1>11. answers' \in [Key -> SUBSET Id]
  BY <1>1, <1>10
<1> QED BY <1>5, <1>7, <1>8, <1>9, <1>11

LEMMA ProposeStepType ==
  ASSUME ProposeTypeOK, ProposeInv, [ProposeNext]_proposeVars
  PROVE  ProposeTypeOK'
<1>0. requestsRaced' \in BOOLEAN /\ crashed' \in BOOLEAN
  BY Zenon DEF ProposeTypeOK, ProposeNext, proposeVars
<1>1. ASSUME NEW t \in Thread, ProposeStep(t) PROVE ProposeTypeOK'
  <2>1. PICK r \in ProposeRequest : ProposeMove(t, r)
    BY <1>1, ProposeStepMoves
  <2>2. /\ requesting' \in [Thread -> ProposeRequest] /\ today' \in Day
        /\ \A u \in Thread : requesting'[u].pc # "idle" => requesting'[u].key \in Key
    BY <2>1, RequestStep DEF ProposeMove, ProposeTypeOK
  <2> QED BY <1>0, <2>1, <2>2, ProposeTables DEF ProposeTypeOK, ProposeRequest
<1>2. ASSUME Midnight PROVE ProposeTypeOK'
  <2>1. today' \in Day
    BY <1>2, ProposeAssumption DEF Midnight, ProposeTypeOK, Day
  <2> QED BY <1>0, <1>2, <2>1 DEF Midnight, ProposeTypeOK
<1>3. ASSUME ProposeCrash PROVE ProposeTypeOK'
  <2>1. requesting' \in [Thread -> ProposeRequest]
        /\ \A t \in Thread : requesting'[t].pc = "idle"
    BY <1>3, ProposeFacts DEF ProposeCrash
  <2>2. used' \in [Day -> 0 .. Limit]
    BY <1>3, ProposeAssumption DEF ProposeCrash, ProposeTypeOK
  <2> QED BY <1>0, <1>3, <2>1, <2>2 DEF ProposeCrash, ProposeTypeOK, ProposeRequest
<1>4. ASSUME UNCHANGED proposeVars PROVE ProposeTypeOK'
  BY <1>4 DEF proposeVars, ProposeTypeOK
<1> QED BY <1>1, <1>2, <1>3, <1>4 DEF ProposeNext

\* Every step keeps what is stored, answered and counted.
LEMMA ProposeStepSound ==
  ASSUME ProposeTypeOK, ProposeInv, [ProposeNext]_proposeVars
  PROVE  ProposeInv'
<1>1. ASSUME NEW t \in Thread, ProposeStep(t) PROVE ProposeInv'
  <2>1. PICK r \in ProposeRequest : ProposeMove(t, r)
    BY <1>1, ProposeStepMoves
  <2>2. \A u \in Thread : requesting'[u] = IF u = t THEN r ELSE requesting[u]
    BY <2>1, RequestStep DEF ProposeMove
  <2>3. /\ DOMAIN exchanges \subseteq DOMAIN exchanges'
        /\ \A i \in DOMAIN exchanges : exchanges'[i] = exchanges[i]
    BY <2>1, ProposeTables
  <2>4. /\ requesting[t].pc # "idle" => requesting[t].key \in Key
        /\ \A u \in Thread : requesting[u].day \in Day /\ requesting[u].used \in 0 .. Limit
        /\ used \in [Day -> 0 .. Limit] /\ admitted \in [Day -> Nat] /\ today \in Day
        /\ idem \in [Key -> Id \cup {NoExchange}] /\ answers \in [Key -> SUBSET Id]
    BY DEF ProposeTypeOK
  <2>5. \A d \in Day : used'[d] \in Nat /\ admitted'[d] \in Nat /\ used[d] \in Nat
                       /\ admitted[d] \in Nat /\ admitted[d] <= admitted'[d]
    <3>1. UNCHANGED <<used, admitted>> \/
            /\ used' = [used EXCEPT ![requesting[t].day] = requesting[t].used + 1]
            /\ admitted' = [admitted EXCEPT ![requesting[t].day] = @ + 1]
      BY <2>1 DEF ProposeMove
    <3> QED BY <2>4, <3>1, ProposeFacts
  <2>6. AnswersAreStored'
    <3>1. ASSUME NEW k \in Key, NEW i \in answers[k] \cup ({idem[k]} \ {NoExchange})
          PROVE  i \in DOMAIN exchanges' /\ exchanges'[i] = k
      BY <2>3, <3>1 DEF ProposeInv, AnswersAreStored
    <3>2. requesting[t].pc = "set" =>
            /\ requesting[t].id \in DOMAIN exchanges'
            /\ exchanges'[requesting[t].id] = requesting[t].key
      BY <2>3 DEF ProposeInv
    <3>3. \A k \in Key : idem'[k] = idem[k] \/
            (requesting[t].pc = "set" /\ k = requesting[t].key /\ idem'[k] = requesting[t].id)
      BY <2>1, <2>4 DEF ProposeMove
    <3>4. \A k \in Key : \A i \in answers'[k] :
            \/ i \in answers[k]
            \/ i = idem[k] /\ i # NoExchange
            \/ requesting[t].pc = "set" /\ k = requesting[t].key /\ i = requesting[t].id
      <4> DEFINE key == requesting[t].key
      <4>1. \/ UNCHANGED answers
            \/ /\ key \in Key /\ idem[key] # NoExchange
               /\ answers' = [answers EXCEPT ![key] = @ \cup {idem[key]}]
            \/ /\ key \in Key /\ requesting[t].pc = "set"
               /\ answers' = [answers EXCEPT ![key] = @ \cup {requesting[t].id}]
        BY <2>1, <2>4 DEF ProposeMove
      <4> HIDE DEF key
      <4>2. key = requesting[t].key
        BY DEF key
      <4> QED BY <2>4, <4>1, <4>2
    <3>5. ASSUME NEW k \in Key, NEW i, i \in answers'[k] \cup ({idem'[k]} \ {NoExchange})
          PROVE  i \in DOMAIN exchanges' /\ exchanges'[i] = k
      BY <3>1, <3>2, <3>3, <3>4, <3>5
    <3> QED BY <3>5 DEF AnswersAreStored
  <2>7. \A d \in Day : used'[d] <= admitted'[d]
    <3>1. UNCHANGED <<used, admitted>> \/
            /\ requesting[t].pc = "count"
            /\ used' = [used EXCEPT ![requesting[t].day] = requesting[t].used + 1]
            /\ admitted' = [admitted EXCEPT ![requesting[t].day] = @ + 1]
      BY <2>1 DEF ProposeMove
    <3>2. requesting[t].pc = "count" => requesting[t].used <= admitted[requesting[t].day]
      BY DEF ProposeInv
    <3>3. \A d \in Day : used[d] <= admitted[d]
      BY DEF ProposeInv
    <3> QED BY <2>4, <3>1, <3>2, <3>3, ProposeFacts
  <2>8. ASSUME NEW u \in Thread, requesting'[u].pc = "count"
        PROVE  /\ requesting'[u].used < Limit
               /\ requesting'[u].used <= admitted'[requesting'[u].day]
    <3>1. CASE u # t
      <4>1. requesting'[u] = requesting[u]
        BY <2>2, <3>1
      <4>2. requesting[u].used < Limit /\ requesting[u].used <= admitted[requesting[u].day]
        BY <2>8, <4>1 DEF ProposeInv
      <4>3. requesting[u].day \in Day /\ requesting[u].used \in 0 .. Limit
        BY <2>4
      <4>4. /\ admitted[requesting[u].day] \in Nat /\ admitted'[requesting[u].day] \in Nat
            /\ admitted[requesting[u].day] <= admitted'[requesting[u].day]
        BY <2>5, <4>3
      <4>5. requesting[u].used \in Nat
        BY <4>3, ProposeFacts
      <4> QED BY <4>1, <4>2, <4>4, <4>5
    <3>2. CASE u = t
      <4>1. r.day = today /\ r.used = used[today] /\ used[today] < Limit /\ requesting'[u] = r
        BY <2>1, <2>2, <2>8, <3>2 DEF ProposeMove
      <4>2. used[today] <= admitted[today]
        BY <2>4 DEF ProposeInv
      <4> QED BY <2>4, <2>5, <4>1, <4>2
    <3> QED BY <3>1, <3>2
  <2>9. ASSUME NEW u \in Thread, requesting'[u].pc = "set"
        PROVE  /\ requesting'[u].id \in DOMAIN exchanges'
               /\ exchanges'[requesting'[u].id] = requesting'[u].key
    <3>1. CASE u # t
      BY <2>2, <2>3, <2>9, <3>1 DEF ProposeInv
    <3>2. CASE u = t
      <4>1. PICK i \in Id \ DOMAIN exchanges :
              /\ r.id = i /\ r.key = requesting[t].key
              /\ exchanges' = [j \in DOMAIN exchanges \cup {i} |->
                                 IF j = i THEN requesting[t].key ELSE exchanges[j]]
        BY <2>1, <2>2, <2>9, <3>2 DEF ProposeMove
      <4> QED BY <2>2, <3>2, <4>1
    <3> QED BY <3>1, <3>2
  <2> QED BY <2>6, <2>7, <2>8, <2>9 DEF ProposeInv
<1>2. ASSUME Midnight PROVE ProposeInv'
  BY <1>2 DEF Midnight, ProposeInv, AnswersAreStored
<1>3. ASSUME ProposeCrash PROVE ProposeInv'
  <2>1. \A d \in Day : used'[d] <= admitted'[d]
    BY <1>3 DEF ProposeCrash, ProposeInv, ProposeTypeOK
  <2> QED BY <1>3, <2>1, ProposeFacts DEF ProposeCrash, ProposeInv, AnswersAreStored
<1>4. ASSUME UNCHANGED proposeVars PROVE ProposeInv'
  BY <1>4 DEF proposeVars, ProposeInv, AnswersAreStored
<1> QED BY <1>1, <1>2, <1>3, <1>4 DEF ProposeNext

LEMMA ProposeInitSound == ProposeInit => ProposeInv /\ ProposeAloneInv
<1> SUFFICES ASSUME ProposeInit PROVE ProposeInv /\ ProposeAloneInv
  OBVIOUS
<1>1. /\ DOMAIN exchanges = {} /\ \A k \in Key : idem[k] = NoExchange /\ answers[k] = {}
      /\ \A d \in Day : used[d] = 0 /\ admitted[d] = 0
      /\ \A t \in Thread : requesting[t].pc = "idle"
  BY ProposeFacts DEF ProposeInit
<1> QED BY <1>1 DEF ProposeInv, ProposeAloneInv, ProposeAlone, AnswersAreStored, Alone

\* A request that is alone finds the counter and the keys as the last one left them.
LEMMA ProposeAloneStep ==
  ASSUME ProposeTypeOK, ProposeInv, ProposeAlone, NEW t \in Thread, ProposeStep(t),
         Alone(requesting')
  PROVE  ProposeAlone'
<1>1. PICK r \in ProposeRequest : ProposeMove(t, r)
  BY ProposeStepMoves
<1>2. \A u \in Thread : requesting'[u] = IF u = t THEN r ELSE requesting[u]
  BY <1>1, RequestStep DEF ProposeMove
<1>3. /\ requesting[t].pc # "idle" => requesting[t].key \in Key
      /\ requesting[t].day \in Day /\ requesting[t].used \in 0 .. Limit
      /\ used \in [Day -> 0 .. Limit] /\ admitted \in [Day -> Nat] /\ today \in Day
      /\ idem \in [Key -> Id \cup {NoExchange}] /\ exchanges \in [DOMAIN exchanges -> Key]
  BY DEF ProposeTypeOK
<1>4. /\ \A d \in Day : used[d] = admitted[d]
      /\ requesting[t].pc = "count" => requesting[t].used = used[requesting[t].day]
      /\ requesting[t].pc = "add" => \A i \in DOMAIN exchanges : exchanges[i] # requesting[t].key
      /\ \A i, j \in DOMAIN exchanges : exchanges[i] = exchanges[j] => i = j
  BY DEF ProposeAlone
<1>5. /\ r.pc # "idle" => \A u \in Thread \ {t} : requesting'[u].pc = "idle"
      /\ requesting[t].pc # "idle" => \A u \in Thread \ {t} : requesting[u].pc = "idle"
  BY <1>2 DEF Alone, ProposeAlone
<1>6. \A i \in DOMAIN exchanges :
        idem[exchanges[i]] = i \/ (requesting[t].pc = "set" /\ requesting[t].id = i)
        \/ requesting[t].pc = "idle"
  BY <1>5 DEF ProposeAlone
<1>7. \A d \in Day : used'[d] = admitted'[d]
  <2>1. UNCHANGED <<used, admitted>> \/
          /\ requesting[t].pc = "count"
          /\ used' = [used EXCEPT ![requesting[t].day] = requesting[t].used + 1]
          /\ admitted' = [admitted EXCEPT ![requesting[t].day] = @ + 1]
    BY <1>1 DEF ProposeMove
  <2> QED BY <1>3, <1>4, <2>1
<1>8. CASE requesting[t].pc = "idle"
  <2>1. /\ r.pc = "count" /\ r.day = today /\ r.used = used[today]
        /\ UNCHANGED <<exchanges, idem, used>>
    BY <1>1, <1>8 DEF ProposeMove
  <2>2. \A u \in Thread \ {t} : requesting[u].pc = "idle"
    BY <1>2, <1>5, <2>1
  <2>3. \A i \in DOMAIN exchanges : idem[exchanges[i]] = i
    BY <1>8, <2>2 DEF ProposeAlone
  <2> QED BY <1>2, <1>4, <1>7, <2>1, <2>2, <2>3 DEF ProposeAlone
<1>9. CASE requesting[t].pc = "count"
  <2>1. r.pc = "lookup" /\ UNCHANGED <<exchanges, idem>>
    BY <1>1, <1>9 DEF ProposeMove
  <2> QED BY <1>2, <1>4, <1>5, <1>6, <1>7, <1>9, <2>1 DEF ProposeAlone
<1>10. CASE requesting[t].pc = "lookup"
  <2>1. /\ UNCHANGED <<exchanges, idem, used>> /\ r.pc \in {"idle", "add"}
        /\ r.pc = "add" => r.key = requesting[t].key /\ idem[requesting[t].key] = NoExchange
    BY <1>1, <1>10 DEF ProposeMove
  <2>2. \A i \in DOMAIN exchanges : idem[exchanges[i]] = i /\ i # NoExchange
    BY <1>6, <1>10, ProposeFacts DEF ProposeTypeOK
  <2> QED BY <1>2, <1>4, <1>5, <1>7, <1>10, <2>1, <2>2 DEF ProposeAlone
<1>11. CASE requesting[t].pc = "add"
  <2>1. PICK i \in Id \ DOMAIN exchanges :
          /\ r.pc = "set" /\ r.id = i /\ UNCHANGED <<idem, used>>
          /\ exchanges' = [j \in DOMAIN exchanges \cup {i} |->
                             IF j = i THEN requesting[t].key ELSE exchanges[j]]
    BY <1>1, <1>11 DEF ProposeMove
  <2>2. \A j, k \in DOMAIN exchanges' : exchanges'[j] = exchanges'[k] => j = k
    BY <1>4, <1>11, <2>1
  <2>3. \A j \in DOMAIN exchanges' : idem'[exchanges'[j]] = j \/
          \E u \in Thread : requesting'[u].pc = "set" /\ requesting'[u].id = j
    BY <1>2, <1>6, <1>11, <2>1
  <2> QED BY <1>2, <1>5, <1>7, <1>11, <2>1, <2>2, <2>3 DEF ProposeAlone
<1>12. CASE requesting[t].pc = "set"
  <2>1. /\ r.pc = "idle" /\ UNCHANGED <<exchanges, used>>
        /\ idem' = [idem EXCEPT ![requesting[t].key] = requesting[t].id]
    BY <1>1, <1>12 DEF ProposeMove
  <2>2. /\ requesting[t].id \in DOMAIN exchanges
        /\ exchanges[requesting[t].id] = requesting[t].key
    BY <1>12 DEF ProposeInv
  <2>3. \A i \in DOMAIN exchanges : idem'[exchanges[i]] = i
    BY <1>3, <1>4, <1>6, <1>12, <2>1, <2>2
  <2> QED BY <1>2, <1>4, <1>5, <1>7, <1>12, <2>1, <2>3 DEF ProposeAlone
<1>13. requesting[t].pc \in {"idle", "count", "lookup", "add", "set"}
  BY DEF ProposeTypeOK
<1> QED BY <1>8, <1>9, <1>10, <1>11, <1>12, <1>13

LEMMA ProposeAloneStepSound ==
  ASSUME ProposeTypeOK, ProposeInv, ProposeAloneInv, [ProposeNext]_proposeVars
  PROVE  ProposeAloneInv'
<1>1. ASSUME NEW t \in Thread, ProposeStep(t), UNCHANGED crashed,
             requestsRaced' = (requestsRaced \/ ~Alone(requesting'))
      PROVE  ProposeAloneInv'
  BY <1>1, ProposeAloneStep DEF ProposeAloneInv
<1>2. ASSUME Midnight, UNCHANGED <<requestsRaced, crashed>> PROVE ProposeAloneInv'
  BY <1>2 DEF Midnight, ProposeAloneInv, ProposeAlone
<1>3. ASSUME crashed' = TRUE PROVE ProposeAloneInv'
  BY <1>3 DEF ProposeAloneInv
<1>4. ASSUME UNCHANGED proposeVars PROVE ProposeAloneInv'
  BY <1>4 DEF proposeVars, ProposeAloneInv, ProposeAlone
<1> QED BY <1>1, <1>2, <1>3, <1>4 DEF ProposeNext

\* The inductive invariant: what is stored, counted and answered, with and without
\* other threads at work.
THEOREM ProposeIsSound == ProposeSpec => [](ProposeTypeOK /\ ProposeInv /\ ProposeAloneInv)
<1>1. ProposeTypeOK /\ ProposeInv /\ ProposeAloneInv /\ [ProposeNext]_proposeVars
        => (ProposeTypeOK /\ ProposeInv /\ ProposeAloneInv)'
  BY ProposeStepType, ProposeStepSound, ProposeAloneStepSound
<1> QED BY <1>1, ProposeInitType, ProposeInitSound, PTL DEF ProposeSpec

\* What a client was answered for its key is a stored exchange of that key, whatever
\* races or crashes; without them a key has one exchange and no day has more requests
\* than its quota (exchange.propose, operators.consume_propose).
THEOREM ProposalsStaySound == ProposeSpec => []ProposalsAreSound
<1>1. ProposeTypeOK /\ ProposeInv /\ ProposeAloneInv => ProposalsAreSound
  <2> SUFFICES ASSUME ProposeTypeOK, ProposeInv, ProposeAloneInv PROVE ProposalsAreSound
    OBVIOUS
  <2>1. \A d \in Day : used[d] \in 0 .. Limit
    BY DEF ProposeTypeOK
  <2>2. QuotaIsKept
    BY <2>1, ProposeFacts DEF QuotaIsKept, ProposeInv, ProposeAloneInv, ProposeAlone
  <2>3. OneExchangePerKey
    BY DEF OneExchangePerKey, ProposeAloneInv, ProposeAlone
  <2> QED BY <2>2, <2>3 DEF ProposalsAreSound, ProposeInv
<1> QED BY <1>1, ProposeIsSound, PTL
---------------------------------------------------------------------------
(* Claims.                                                                 *)

LineageEntry == [from : Agent, order : Order]
Claims == [Claim -> ClaimRecord]
ClaimWork == [pc : {"idle", "change", "append", "hold", "dump", "truncate", "write", "answer"},
              op : Op \cup {"issue", NoClaim}, claim : Claim \cup {NoClaim},
              order : Order \cup {NoClaim}, from : Agent \cup {NoClaim}, out : Claims]

LEMMA AbsentRecord ==
  /\ Absent \in ClaimRecord /\ NoClaims \in Claims /\ Owned(NoClaims) /\ Signed(NoClaims)
  /\ LedBy(NoClaims)
  /\ NoOrder \in ClaimWork /\ NoOrder.pc = "idle" /\ NoOrder.out = NoClaims
<1>1. Absent \in ClaimRecord /\ Absent.status = "absent" /\ Absent.holder = NoClaim
      /\ Absent.lineage = <<>>
  BY DEF Absent, ClaimRecord, ClaimStatus
<1>2. NoClaims \in Claims /\ \A c \in Claim : NoClaims[c] = Absent
  BY <1>1 DEF NoClaims, Claims
<1>3. LeadsToHolder(Absent) /\ GiversHeld(Absent) /\ HasHeld(Absent, Absent.holder)
  BY <1>1 DEF LeadsToHolder, GiversHeld, HasHeld
<1>4. NoOrder \in ClaimWork /\ NoOrder.pc = "idle" /\ NoOrder.out = NoClaims
  BY <1>2 DEF NoOrder, ClaimWork
<1> QED BY <1>1, <1>2, <1>3, <1>4 DEF Owned, Signed, LedBy

SignedRecord(r) == \A i \in DOMAIN r.lineage : r.lineage[i].from = r.lineage[i].order.by

\* A later state of an issued claim: who held it held it, and the entries stand.
Follows(r, q) ==
  /\ q.status # "absent"
  /\ \A a \in Agent : HasHeld(r, a) => HasHeld(q, a)
  /\ \A j \in DOMAIN r.lineage : j \in DOMAIN q.lineage /\ q.lineage[j] = r.lineage[j]

StandingClaim(r) ==
  /\ r \in ClaimRecord /\ r.status # "absent" /\ r.holder \in Agent
  /\ GiversHeld(r) /\ HasHeld(r, r.holder)

\* What an entry appended to r, from f and for the order o, leaves of it.
Extended(r, f, o, q) ==
  /\ StandingClaim(q) /\ Follows(r, q) /\ q.status = r.status
  /\ \E j \in DOMAIN q.lineage : q.lineage[j].order.to = o.to
  /\ f = o.by /\ SignedRecord(r) => SignedRecord(q)
  /\ LeadsToHolder(r) /\ f = r.holder => LeadsToHolder([q EXCEPT !.holder = o.to])

\* An entry is appended whose giver held the claim.
LEMMA AppendedRecord ==
  ASSUME NEW r, StandingClaim(r), NEW o \in Order, NEW f \in Agent, HasHeld(r, f),
         NEW q, q = [r EXCEPT !.lineage = Append(@, [from |-> f, order |-> o])]
  PROVE  Extended(r, f, o, q)
<1> DEFINE l == r.lineage
           e == [from |-> f, order |-> o]
           k == Append(l, e)
<1>1. /\ l \in Seq(LineageEntry) /\ e \in LineageEntry /\ o.to \in Agent
      /\ r = [status |-> r.status, holder |-> r.holder, lineage |-> l] /\ r.status \in ClaimStatus
  BY DEF StandingClaim, ClaimRecord, LineageEntry, Order
<1>2. q = [status |-> r.status, holder |-> r.holder, lineage |-> k]
  BY <1>1
<1>3. /\ k \in Seq(LineageEntry) /\ Len(k) = Len(l) + 1 /\ Len(l) \in Nat
      /\ \A i \in 1 .. Len(l) : k[i] = l[i]
      /\ k[Len(l) + 1] = e
      /\ DOMAIN l = 1 .. Len(l) /\ DOMAIN k = 1 .. Len(k) /\ k # <<>>
  BY <1>1
<1>4. q \in ClaimRecord /\ q.status = r.status /\ q.holder = r.holder /\ q.lineage = k
  BY <1>1, <1>2, <1>3 DEF ClaimRecord, LineageEntry, StandingClaim
<1>5. ASSUME NEW a \in Agent, HasHeld(r, a) PROVE HasHeld(q, a)
  <2>1. CASE l = <<>>
    <3>1. a = f /\ k[1] = e
      BY <1>3, <1>5, <2>1 DEF HasHeld
    <3> QED BY <1>3, <1>4, <3>1 DEF HasHeld
  <2>2. CASE l # <<>>
    <3>1. k[1] = l[1] /\ \A j \in DOMAIN l : j \in DOMAIN k /\ k[j] = l[j]
      BY <1>1, <1>3, <2>2
    <3> QED BY <1>3, <1>4, <1>5, <2>2, <3>1 DEF HasHeld
  <2> QED BY <2>1, <2>2
<1>6. GiversHeld(q)
  <2> SUFFICES ASSUME NEW i \in DOMAIN k
               PROVE  k[i].from = k[1].from \/ \E j \in 1 .. i - 1 : k[j].order.to = k[i].from
    BY <1>4 DEF GiversHeld
  <2>1. CASE i \in DOMAIN l
    <3>1. l[i].from = l[1].from \/ \E j \in 1 .. i - 1 : l[j].order.to = l[i].from
      BY <2>1 DEF GiversHeld, StandingClaim
    <3>2. k[i] = l[i] /\ k[1] = l[1] /\ \A j \in 1 .. i - 1 : k[j] = l[j]
      BY <1>3, <2>1
    <3> QED BY <3>1, <3>2
  <2>2. CASE i = Len(l) + 1 /\ l = <<>>
    BY <1>1, <1>3, <2>2
  <2>3. CASE i = Len(l) + 1 /\ l # <<>>
    <3>1. f = l[1].from \/ \E j \in DOMAIN l : l[j].order.to = f
      BY <2>3 DEF HasHeld
    <3>2. k[1] = l[1] /\ k[i].from = f /\ \A j \in DOMAIN l : j \in 1 .. i - 1 /\ k[j] = l[j]
      BY <1>1, <1>3, <2>3
    <3> QED BY <3>1, <3>2
  <2> QED BY <1>3, <2>1, <2>2, <2>3
<1>7. HasHeld(q, q.holder)
  BY <1>4, <1>5 DEF StandingClaim
<1>8. \A j \in DOMAIN l : j \in DOMAIN k /\ k[j] = l[j]
  BY <1>3
<1>9. \E j \in DOMAIN q.lineage : q.lineage[j].order.to = o.to
  <2>1. Len(k) \in DOMAIN k /\ k[Len(k)].order.to = o.to
    BY <1>3
  <2> QED BY <1>4, <2>1
<1>10. ASSUME f = o.by, SignedRecord(r) PROVE SignedRecord(q)
  <2>1. \A i \in DOMAIN k : i \in DOMAIN l \/ k[i] = e
    BY <1>3
  <2> QED BY <1>4, <1>8, <1>10, <2>1 DEF SignedRecord
<1>11. ASSUME LeadsToHolder(r), f = r.holder PROVE LeadsToHolder([q EXCEPT !.holder = o.to])
  <2> DEFINE p == [q EXCEPT !.holder = o.to]
  <2>0. p.lineage = k /\ p.holder = o.to
    BY <1>2
  <2>1. Last(k).order.to = p.holder
    BY <1>3, <2>0 DEF Last
  <2>2. ASSUME NEW i \in 1 .. Len(k) - 1 PROVE k[i].order.to = k[i + 1].from
    <3>1. CASE i < Len(l)
      <4>1. l[i].order.to = l[i + 1].from
        BY <1>3, <1>11, <2>2, <3>1 DEF LeadsToHolder
      <4> QED BY <1>3, <2>2, <3>1, <4>1
    <3>2. CASE i = Len(l)
      <4>1. l # <<>> /\ Last(l) = l[Len(l)]
        BY <1>3, <2>2, <3>2 DEF Last
      <4>2. l[i].order.to = r.holder
        BY <1>11, <3>2, <4>1 DEF LeadsToHolder
      <4> QED BY <1>3, <1>11, <2>2, <3>2, <4>2
    <3> QED BY <1>3, <2>2, <3>1, <3>2
  <2> HIDE DEF p
  <2>3. LeadsToHolder(p)
    BY <2>0, <2>1, <2>2 DEF LeadsToHolder
  <2> QED BY <2>3 DEF p
<1>12. StandingClaim(q) /\ Follows(r, q)
  BY <1>4, <1>5, <1>6, <1>7, <1>8 DEF StandingClaim, Follows
<1> QED BY <1>4, <1>9, <1>10, <1>11, <1>12 DEF Extended

\* The holder of an entry becomes the holder of the claim.
LEMMA PassedRecord ==
  ASSUME NEW r, StandingClaim(r), NEW a \in Agent, \E j \in DOMAIN r.lineage : r.lineage[j].order.to = a,
         NEW q, q = [r EXCEPT !.holder = a]
  PROVE  StandingClaim(q) /\ Follows(r, q) /\ q.status = r.status /\ q.lineage = r.lineage
<1>1. q \in ClaimRecord /\ q.status = r.status /\ q.holder = a /\ q.lineage = r.lineage
  BY DEF ClaimRecord, StandingClaim
<1>2. r.lineage # <<>>
  OBVIOUS
<1>3. \A b \in Agent : HasHeld(r, b) => HasHeld(q, b)
  BY <1>1, <1>2 DEF HasHeld
<1>4. HasHeld(q, q.holder)
  BY <1>1, <1>2 DEF HasHeld
<1> QED BY <1>1, <1>3, <1>4 DEF StandingClaim, Follows, GiversHeld

\* The claim gets another status.
LEMMA StatusRecord ==
  ASSUME NEW r, StandingClaim(r), NEW s \in ClaimStatus \ {"absent"}, NEW q, q = [r EXCEPT !.status = s]
  PROVE  /\ StandingClaim(q) /\ Follows(r, q) /\ q.status = s /\ q.lineage = r.lineage
         /\ q.holder = r.holder
<1>1. q \in ClaimRecord /\ q.status = s /\ q.holder = r.holder /\ q.lineage = r.lineage
  BY DEF ClaimRecord, StandingClaim
<1>2. \A b : HasHeld(r, b) <=> HasHeld(q, b)
  BY <1>1 DEF HasHeld
<1> QED BY <1>1, <1>2 DEF StandingClaim, Follows, GiversHeld

\* Each step of a request, by what it does to its own record.
ClaimMove(t, h) ==
  LET c == handling[t].claim  op == handling[t].op IN
  /\ handling' = [handling EXCEPT ![t] = h] /\ UNCHANGED <<up, crashes>>
  /\ h.pc # "idle" => h.claim \in Claim /\ h.op \in Op \cup {"issue"}
                      /\ (h.op = "assign" => h.order \in Order)
                      /\ (h.pc \in {"append", "hold"} => h.op = "assign")
  /\ \/ /\ handling[t].pc = "idle" /\ h.pc = "dump" /\ h.op = "issue" /\ up
        /\ h.out = NoClaims /\ mem[h.claim] = Absent
        /\ \E a \in Agent :
             mem' = [mem EXCEPT ![h.claim] = [Absent EXCEPT !.status = "open", !.holder = a]]
        /\ UNCHANGED <<file, paid, told>>
     \/ /\ handling[t].pc = "idle" /\ h.pc = "change" /\ h.op \in Op /\ up
        /\ h.out = NoClaims /\ Allowed(h.op, mem[h.claim], h.order)
        /\ UNCHANGED <<mem, file, paid, told>>
     \/ /\ handling[t].pc = "change" /\ op = "assign"
        /\ h = [handling[t] EXCEPT !.pc = "append", !.from = mem[c].holder]
        /\ UNCHANGED <<mem, file, paid, told>>
     \/ /\ handling[t].pc = "append" /\ h = [handling[t] EXCEPT !.pc = "hold"]
        /\ mem' = [mem EXCEPT ![c] = [mem[c] EXCEPT !.lineage = Append(@, Entry(t))]]
        /\ UNCHANGED <<file, paid, told>>
     \/ /\ handling[t].pc = "hold" /\ h = [handling[t] EXCEPT !.pc = "dump"]
        /\ mem' = [mem EXCEPT ![c] = [mem[c] EXCEPT !.holder = handling[t].order.to]]
        /\ UNCHANGED <<file, paid, told>>
     \/ /\ handling[t].pc = "change" /\ op # "assign" /\ h = [handling[t] EXCEPT !.pc = "dump"]
        /\ mem' = [mem EXCEPT ![c] = [mem[c] EXCEPT !.status = StatusAfter(op)]]
        /\ UNCHANGED <<file, paid, told>>
     \/ /\ handling[t].pc = "dump" /\ h = [handling[t] EXCEPT !.pc = "truncate", !.out = mem]
        /\ UNCHANGED <<mem, file, paid, told>>
     \/ /\ handling[t].pc = "dump" /\ h = NoOrder
        /\ \E u \in Thread : handling[u].pc = "dump" /\ handling[u].claim # c
        /\ UNCHANGED <<mem, file, paid, told>>
     \/ /\ handling[t].pc = "truncate" /\ h = [handling[t] EXCEPT !.pc = "write"]
        /\ file' = Torn /\ UNCHANGED <<mem, paid, told>>
     \/ /\ handling[t].pc = "write" /\ h = [handling[t] EXCEPT !.pc = "answer"]
        /\ file' \in {Text(handling[t].out)} \cup Mixed(t) /\ UNCHANGED <<mem, paid, told>>
     \/ /\ handling[t].pc = "answer" /\ h = NoOrder
        /\ paid' = [paid EXCEPT ![c] = @ + IF op \in {"capture", "redeem"} THEN 1 ELSE 0]
        /\ \/ op \in {"capture", "redeem"} /\ told' = [told EXCEPT ![c] = "spent"]
           \/ op = "release" /\ told' = [told EXCEPT ![c] = "released"]
           \/ op \notin {"capture", "redeem", "release"} /\ told' = [told EXCEPT ![c] = @]
        /\ UNCHANGED <<mem, file>>

ClaimStep(t) == ClaimRequest(t) \/ Continue(t)

LEMMA ClaimStepMoves ==
  ASSUME ClaimTypeOK, NEW t \in Thread, ClaimStep(t)
  PROVE  \E h \in ClaimWork : ClaimMove(t, h)
<1> DEFINE Found == \E h \in ClaimWork : ClaimMove(t, h)
<1>1. /\ handling \in [Thread -> ClaimWork] /\ mem \in Claims
      /\ handling[t].pc # "idle" =>
           /\ handling[t].claim \in Claim
           /\ handling[t].op \in Op \cup {"issue"}
           /\ handling[t].op = "assign" => handling[t].order \in Order
           /\ handling[t].pc \in {"append", "hold"} => handling[t].op = "assign"
  BY DEF ClaimTypeOK, ClaimWork, Claims
<1> DEFINE Moved(pc) == [handling[t] EXCEPT !.pc = pc]
<1>2. \A pc \in {"hold", "dump", "write", "answer"} :
        /\ Moved(pc) \in ClaimWork /\ Moved(pc).pc = pc
        /\ Moved(pc).claim = handling[t].claim /\ Moved(pc).op = handling[t].op
        /\ Moved(pc).order = handling[t].order
        /\ [handling EXCEPT ![t].pc = pc] = [handling EXCEPT ![t] = Moved(pc)]
  BY <1>1 DEF ClaimWork
<1>3. ASSUME NEW c \in Claim, NEW a \in Agent, Issue(t, c, a) PROVE Found
  <2> DEFINE h == [NoOrder EXCEPT !.pc = "dump", !.op = "issue", !.claim = c]
  <2>1. h \in ClaimWork /\ h.pc = "dump" /\ h.op = "issue" /\ h.claim = c /\ h.out = NoClaims
    BY AbsentRecord DEF NoOrder, ClaimWork
  <2>2. /\ handling' = [handling EXCEPT ![t] = h] /\ handling[t].pc = "idle" /\ up
        /\ mem[c] = Absent /\ UNCHANGED <<file, up, paid, told, crashes>>
        /\ mem' = [mem EXCEPT ![c] = [Absent EXCEPT !.status = "open", !.holder = a]]
    BY <1>3 DEF Issue
  <2> HIDE DEF h
  <2>3. ClaimMove(t, h)
    BY <2>1, <2>2 DEF ClaimMove
  <2> QED BY <2>1, <2>3
<1>4. ASSUME NEW c \in Claim, NEW op \in Op, NEW o \in Order \cup {NoClaim},
             op = "assign" => o \in Order, Check(t, op, c, o)
      PROVE  Found
  <2> DEFINE h == [NoOrder EXCEPT !.pc = "change", !.op = op, !.claim = c, !.order = o]
  <2>1. /\ h \in ClaimWork /\ h.pc = "change" /\ h.op = op /\ h.claim = c /\ h.out = NoClaims
        /\ h.order = o
    BY AbsentRecord DEF NoOrder, ClaimWork
  <2>2. /\ handling' = [handling EXCEPT ![t] = h] /\ handling[t].pc = "idle" /\ up
        /\ Allowed(op, mem[c], o) /\ UNCHANGED <<mem, file, up, paid, told, crashes>>
    BY <1>4 DEF Check
  <2> HIDE DEF h
  <2>3. ClaimMove(t, h)
    BY <1>4, <2>1, <2>2 DEF ClaimMove
  <2> QED BY <2>1, <2>3
<1>5. ClaimRequest(t) => Found
  BY <1>3, <1>4 DEF ClaimRequest, Op
<1>6. ReadGiver(t) \/ AppendEntry(t) \/ PassOn(t) \/ Change(t) => Found
  <2>0. \A d \in Claim : mem[d] \in ClaimRecord /\ mem[d].holder \in Agent \cup {NoClaim}
    BY <1>1 DEF Claims, ClaimRecord
  <2>1. ASSUME ReadGiver(t) PROVE Found
    <3> DEFINE h == [handling[t] EXCEPT !.pc = "append", !.from = mem[handling[t].claim].holder]
    <3>1. /\ h \in ClaimWork /\ h.pc = "append" /\ h.claim = handling[t].claim
          /\ h.op = handling[t].op /\ h.order = handling[t].order
          /\ handling' = [handling EXCEPT ![t] = h]
      BY <1>1, <2>0, <2>1 DEF ReadGiver, ClaimWork
    <3>2. ClaimMove(t, h)
      BY <1>1, <2>1, <3>1 DEF ReadGiver, ClaimMove
    <3> QED BY <3>1, <3>2
  <2>2. ASSUME AppendEntry(t) PROVE Moved("hold") \in ClaimWork /\ ClaimMove(t, Moved("hold"))
    <3>1. mem' = [mem EXCEPT ![handling[t].claim] =
                    [mem[handling[t].claim] EXCEPT !.lineage = Append(@, Entry(t))]]
      BY <1>1, <2>0, <2>2 DEF AppendEntry, Claims
    <3> QED BY <1>1, <1>2, <2>2, <3>1 DEF AppendEntry, ClaimMove
  <2>3. ASSUME PassOn(t) PROVE Moved("dump") \in ClaimWork /\ ClaimMove(t, Moved("dump"))
    <3>1. mem' = [mem EXCEPT ![handling[t].claim] =
                    [mem[handling[t].claim] EXCEPT !.holder = handling[t].order.to]]
      BY <1>1, <2>0, <2>3 DEF PassOn, Claims
    <3> QED BY <1>1, <1>2, <2>3, <3>1 DEF PassOn, ClaimMove
  <2>4. ASSUME Change(t) PROVE Moved("dump") \in ClaimWork /\ ClaimMove(t, Moved("dump"))
    <3>1. mem' = [mem EXCEPT ![handling[t].claim] =
                    [mem[handling[t].claim] EXCEPT !.status = StatusAfter(handling[t].op)]]
      BY <1>1, <2>0, <2>4 DEF Change, Claims
    <3> QED BY <1>1, <1>2, <2>4, <3>1 DEF Change, ClaimMove
  <2> QED BY <2>1, <2>2, <2>3, <2>4
<1>7. Dump(t) => Found
  <2> DEFINE h == [handling[t] EXCEPT !.pc = "truncate", !.out = mem]
  <2>1. /\ h \in ClaimWork /\ h.claim = handling[t].claim /\ h.op = handling[t].op
        /\ h.order = handling[t].order /\ h.pc = "truncate"
        /\ [handling EXCEPT ![t].pc = "truncate", ![t].out = mem] = [handling EXCEPT ![t] = h]
    BY <1>1 DEF ClaimWork
  <2>2. Dump(t) => ClaimMove(t, h)
    BY <1>1, <2>1 DEF Dump, ClaimMove
  <2> QED BY <2>1, <2>2
<1>8. DumpFails(t) => Found
  <2>1. DumpFails(t) => ClaimMove(t, NoOrder)
    BY AbsentRecord DEF DumpFails, ClaimMove
  <2> QED BY <2>1, AbsentRecord
<1>9. Truncate(t) => Found
  <2> SUFFICES ASSUME Truncate(t) PROVE Moved("write") \in ClaimWork /\ ClaimMove(t, Moved("write"))
    OBVIOUS
  <2> QED BY <1>1, <1>2 DEF Truncate, ClaimMove
<1>10. Write(t) => Found
  <2> SUFFICES ASSUME Write(t) PROVE Moved("answer") \in ClaimWork /\ ClaimMove(t, Moved("answer"))
    OBVIOUS
  <2> QED BY <1>1, <1>2 DEF Write, ClaimMove
<1>11. Answer(t) => Found
  <2>1. ASSUME Answer(t) PROVE ClaimMove(t, NoOrder)
    <3> DEFINE c == handling[t].claim
               op == handling[t].op
    <3>1. /\ handling[t].pc = "answer" /\ handling' = [handling EXCEPT ![t] = NoOrder]
          /\ paid' = [paid EXCEPT ![c] = @ + IF op \in {"capture", "redeem"} THEN 1 ELSE 0]
          /\ told' = [told EXCEPT ![c] = CASE op \in {"capture", "redeem"} -> "spent"
                                           [] op = "release" -> "released"
                                           [] OTHER -> @]
          /\ UNCHANGED <<mem, file, up, crashes>>
      BY <2>1 DEF Answer
    <3>2. \/ op \in {"capture", "redeem"} /\ told' = [told EXCEPT ![c] = "spent"]
          \/ op = "release" /\ told' = [told EXCEPT ![c] = "released"]
          \/ op \notin {"capture", "redeem", "release"} /\ told' = [told EXCEPT ![c] = @]
      <4>1. CASE op \in {"capture", "redeem"}
        BY <3>1, <4>1
      <4>2. CASE op = "release"
        BY <3>1, <4>2
      <4>3. CASE op \notin {"capture", "redeem", "release"}
        BY <3>1, <4>3
      <4> QED BY <4>1, <4>2, <4>3
    <3> QED BY <3>1, <3>2, AbsentRecord DEF ClaimMove
  <2> QED BY <2>1, AbsentRecord
<1> QED BY <1>5, <1>6, <1>7, <1>8, <1>9, <1>10, <1>11 DEF ClaimStep, Continue

\* The pool after a step of a thread.
LEMMA ClaimPool ==
  ASSUME ClaimTypeOK, NEW t \in Thread, NEW h \in ClaimWork, ClaimMove(t, h)
  PROVE  /\ handling' \in [Thread -> ClaimWork]
         /\ \A u \in Thread : handling'[u] = IF u = t THEN h ELSE handling[u]
         /\ \A u \in Thread : handling'[u].pc # "idle" =>
              /\ handling'[u].claim \in Claim /\ handling'[u].op \in Op \cup {"issue"}
              /\ handling'[u].op = "assign" => handling'[u].order \in Order
              /\ handling'[u].pc \in {"append", "hold"} => handling'[u].op = "assign"
<1>1. handling \in [Thread -> ClaimWork] /\ handling' = [handling EXCEPT ![t] = h]
  BY DEF ClaimTypeOK, ClaimWork, Claims, ClaimMove
<1>2. \A u \in Thread : handling'[u] = IF u = t THEN h ELSE handling[u]
  BY <1>1
<1>3. h.pc # "idle" => h.claim \in Claim /\ h.op \in Op \cup {"issue"}
                       /\ (h.op = "assign" => h.order \in Order)
                       /\ (h.pc \in {"append", "hold"} => h.op = "assign")
  BY DEF ClaimMove
<1>4. \A u \in Thread : handling[u].pc # "idle" =>
        /\ handling[u].claim \in Claim /\ handling[u].op \in Op \cup {"issue"}
        /\ handling[u].op = "assign" => handling[u].order \in Order
        /\ handling[u].pc \in {"append", "hold"} => handling[u].op = "assign"
  BY DEF ClaimTypeOK
<1>5. handling' \in [Thread -> ClaimWork]
  BY <1>1
<1> QED BY <1>2, <1>3, <1>4, <1>5

\* The memory and the file after a step of a thread.
LEMMA ClaimBooks ==
  ASSUME ClaimTypeOK, LineageInv, NEW t \in Thread, NEW h \in ClaimWork, ClaimMove(t, h)
  PROVE  /\ mem' \in Claims /\ Owned(mem')
         /\ file' \in [ok : BOOLEAN, claims : Claims] /\ Owned(file'.claims)
         /\ \A c \in Claim : mem[c].status # "absent" => Follows(mem[c], mem'[c])
<1>1. /\ mem \in Claims /\ file \in [ok : BOOLEAN, claims : Claims]
      /\ handling[t] \in ClaimWork
      /\ handling[t].pc # "idle" =>
           /\ handling[t].claim \in Claim
           /\ handling[t].op \in Op \cup {"issue"}
           /\ handling[t].op = "assign" => handling[t].order \in Order
           /\ handling[t].pc \in {"append", "hold"} => handling[t].op = "assign"
  BY DEF ClaimTypeOK, Claims, ClaimWork
<1>2. Owned(mem) /\ Owned(file.claims) /\ Owned(handling[t].out)
  BY DEF LineageInv
<1>0. \A d \in Claim : mem[d].status # "absent" => StandingClaim(mem[d]) /\ Follows(mem[d], mem[d])
  <2>1. \A d \in Claim : mem[d] \in ClaimRecord /\ mem[d].holder \in Agent \cup {NoClaim}
    BY <1>1 DEF Claims, ClaimRecord
  <2> QED BY <1>2, <2>1 DEF Owned, StandingClaim, Follows
<1>3. ASSUME NEW c \in Claim, NEW r, mem' = [mem EXCEPT ![c] = r], StandingClaim(r),
             mem[c].status = "absent" \/ Follows(mem[c], r)
      PROVE  /\ mem' \in Claims /\ Owned(mem')
             /\ \A d \in Claim : mem[d].status # "absent" => Follows(mem[d], mem'[d])
  <2>1. \A d \in Claim : mem'[d] = IF d = c THEN r ELSE mem[d]
    BY <1>1, <1>3 DEF Claims
  <2>2. r \in ClaimRecord /\ r.status # "absent" /\ r.holder # NoClaim
        /\ GiversHeld(r) /\ HasHeld(r, r.holder)
    BY <1>3, ClaimAssumption DEF StandingClaim
  <2>3. mem' \in Claims
    BY <1>1, <1>3, <2>2 DEF Claims
  <2>4. Owned(mem')
    BY <1>2, <2>1, <2>2 DEF Owned
  <2> QED BY <1>0, <1>3, <2>1, <2>3, <2>4
<1>4. CASE handling[t].pc = "idle" /\ h.op = "issue" /\ UNCHANGED file /\ h.claim \in Claim /\
           mem[h.claim] = Absent /\ \E a \in Agent :
             mem' = [mem EXCEPT ![h.claim] = [Absent EXCEPT !.status = "open", !.holder = a]]
  <2>1. PICK a \in Agent :
          mem' = [mem EXCEPT ![h.claim] = [Absent EXCEPT !.status = "open", !.holder = a]]
    BY <1>4
  <2> DEFINE r == [Absent EXCEPT !.status = "open", !.holder = a]
  <2>2. /\ r \in ClaimRecord /\ r.status # "absent" /\ r.holder = a /\ r.lineage = <<>>
    BY AbsentRecord DEF Absent, ClaimRecord, ClaimStatus
  <2>3. StandingClaim(r) /\ mem[h.claim].status = "absent"
    BY <1>4, <2>2 DEF StandingClaim, GiversHeld, HasHeld, Absent
  <2> HIDE DEF r
  <2> QED BY <1>1, <1>2, <1>3, <1>4, <2>1, <2>2, <2>3 DEF r
<1> DEFINE c == handling[t].claim
           op == handling[t].op
<1>5. CASE handling[t].pc \in {"change", "append", "hold"} /\ UNCHANGED file /\
           \/ handling[t].pc = "append" /\ mem' =
                [mem EXCEPT ![c] = [mem[c] EXCEPT !.lineage = Append(@, Entry(t))]]
           \/ handling[t].pc = "hold" /\ mem' =
                [mem EXCEPT ![c] = [mem[c] EXCEPT !.holder = handling[t].order.to]]
           \/ handling[t].pc = "change" /\ op # "assign" /\ mem' =
                [mem EXCEPT ![c] = [mem[c] EXCEPT !.status = StatusAfter(op)]]
  <2>1. /\ c \in Claim /\ op \in Op /\ StandingClaim(mem[c])
        /\ op = "assign" => handling[t].order \in Order /\ handling[t].order.to \in Agent
    BY <1>0, <1>1, <1>5 DEF LineageInv, Order
  <2>2. \E r : StandingClaim(r) /\ Follows(mem[c], r) /\ mem' = [mem EXCEPT ![c] = r]
    <3>1. CASE handling[t].pc = "append" /\ mem' =
                [mem EXCEPT ![c] = [mem[c] EXCEPT !.lineage = Append(@, Entry(t))]]
      <4>1. handling[t].from \in Agent /\ HasHeld(mem[c], handling[t].from)
        BY <3>1 DEF LineageInv
      <4>2. PICK r : r = [mem[c] EXCEPT !.lineage = Append(@, Entry(t))]
        OBVIOUS
      <4>3. Extended(mem[c], handling[t].from, handling[t].order, r)
        BY <1>1, <2>1, <3>1, <4>1, <4>2, AppendedRecord DEF Entry
      <4> QED BY <3>1, <4>2, <4>3 DEF Extended
    <3>2. CASE handling[t].pc = "hold" /\ mem' =
                [mem EXCEPT ![c] = [mem[c] EXCEPT !.holder = handling[t].order.to]]
      <4>1. \E j \in DOMAIN mem[c].lineage : mem[c].lineage[j].order.to = handling[t].order.to
        BY <3>2 DEF LineageInv
      <4>2. PICK r : r = [mem[c] EXCEPT !.holder = handling[t].order.to]
        OBVIOUS
      <4>3. StandingClaim(r) /\ Follows(mem[c], r)
        BY <1>1, <2>1, <3>2, <4>1, <4>2, PassedRecord
      <4> QED BY <3>2, <4>2, <4>3
    <3>3. CASE op # "assign" /\ mem' = [mem EXCEPT ![c] = [mem[c] EXCEPT !.status = StatusAfter(op)]]
      <4>1. StatusAfter(op) \in ClaimStatus \ {"absent"}
        BY <2>1, <3>3 DEF StatusAfter, Op, ClaimStatus
      <4>2. PICK r : r = [mem[c] EXCEPT !.status = StatusAfter(op)]
        OBVIOUS
      <4>3. StandingClaim(r) /\ Follows(mem[c], r)
        BY <2>1, <4>1, <4>2, StatusRecord
      <4> QED BY <3>3, <4>2, <4>3
    <3> QED BY <1>5, <3>1, <3>2, <3>3
  <2> HIDE DEF c, op
  <2> QED BY <1>1, <1>2, <1>3, <1>5, <2>1, <2>2
<1>6. CASE UNCHANGED mem /\ (UNCHANGED file \/ file' = Torn \/ file' = Text(handling[t].out))
  <2>1. /\ Torn \in [ok : BOOLEAN, claims : Claims] /\ Owned(Torn.claims)
        /\ Text(handling[t].out) \in [ok : BOOLEAN, claims : Claims]
        /\ Text(handling[t].out).claims = handling[t].out
    BY <1>1, AbsentRecord DEF Torn, Text, ClaimWork
  <2> QED BY <1>0, <1>1, <1>2, <1>6, <2>1
<1> QED BY <1>4, <1>5, <1>6 DEF ClaimMove, Mixed

LEMMA ClaimInitSound == ClaimInit => ClaimTypeOK /\ LineageInv /\ ClaimAloneInv
<1> SUFFICES ASSUME ClaimInit PROVE ClaimTypeOK /\ LineageInv /\ ClaimAloneInv
  OBVIOUS
<1>1. /\ mem = NoClaims /\ file = Text(NoClaims) /\ handling = [t \in Thread |-> NoOrder]
      /\ paid = [c \in Claim |-> 0] /\ told = [c \in Claim |-> NoClaim]
      /\ requests = 0 /\ crashes = 0 /\ claimsRaced = FALSE /\ up = TRUE
  BY DEF ClaimInit
<1>2. file \in [ok : BOOLEAN, claims : Claims] /\ file.claims = NoClaims
  BY <1>1, AbsentRecord DEF Text
<1>3. handling \in [Thread -> ClaimWork] /\ \A t \in Thread : handling[t] = NoOrder
  BY <1>1, AbsentRecord
<1>4. requests \in 0 .. MaxRequest /\ crashes \in 0 .. MaxCrash
  BY <1>1, ClaimAssumption
<1>5. ClaimTypeOK
  BY <1>1, <1>2, <1>3, <1>4, AbsentRecord DEF ClaimTypeOK, Claims, ClaimWork, Owned
<1>6. LineageInv
  BY <1>1, <1>2, <1>3, AbsentRecord DEF LineageInv
<1>7. Honours(NoClaims)
  BY <1>1 DEF Honours
<1>8. ClaimAloneInv
  BY <1>1, <1>2, <1>3, <1>7, AbsentRecord DEF ClaimAloneInv, ClaimAlone, Alone, AloneAt
<1> QED BY <1>5, <1>6, <1>8

\* A crash brings the file back, if it can be read.
LEMMA CrashBooks ==
  ASSUME ClaimTypeOK, LineageInv, ClaimCrash
  PROVE  /\ mem' \in Claims /\ Owned(mem') /\ handling' \in [Thread -> ClaimWork]
         /\ \A t \in Thread : handling'[t] = NoOrder
         /\ mem' = file.claims /\ up' = file.ok /\ file' = file
<1>1. mem' = file.claims /\ up' = file.ok /\ file' = file /\ handling' = [t \in Thread |-> NoOrder]
  BY DEF ClaimCrash
<1>2. file.claims \in Claims
  BY DEF ClaimTypeOK, Claims
<1> QED BY <1>1, <1>2, AbsentRecord DEF LineageInv

LEMMA ClaimStepType ==
  ASSUME ClaimTypeOK, LineageInv, [ClaimNext]_claimVars
  PROVE  ClaimTypeOK'
<1>0. /\ claimsRaced' \in BOOLEAN
  BY Zenon DEF ClaimTypeOK, ClaimNext, claimVars
<1>1. requests' \in 0 .. MaxRequest
  <2>1. requests \in 0 .. MaxRequest /\ MaxRequest \in Nat
    BY ClaimAssumption DEF ClaimTypeOK
  <2>2. requests' = requests \/ (requests < MaxRequest /\ requests' = requests + 1)
    BY DEF ClaimNext, claimVars
  <2> QED BY <2>1, <2>2
<1>2. ASSUME NEW t \in Thread, ClaimStep(t) PROVE ClaimTypeOK'
  <2>1. PICK h \in ClaimWork : ClaimMove(t, h)
    BY <1>2, ClaimStepMoves
  <2>2. up' \in BOOLEAN /\ crashes' \in 0 .. MaxCrash
    BY <2>1 DEF ClaimMove, ClaimTypeOK
  <2>3. \A c \in Claim : mem'[c].status = "absent" <=> mem'[c].holder = NoClaim
    BY <2>1, ClaimBooks DEF Owned
  <2>4. paid' \in [Claim -> Nat] /\ told' \in [Claim -> Terminal \cup {NoClaim}]
    <3>0. paid \in [Claim -> Nat] /\ told \in [Claim -> Terminal \cup {NoClaim}]
          /\ (handling[t].pc # "idle" => handling[t].claim \in Claim)
      BY DEF ClaimTypeOK
    <3>1. UNCHANGED paid \/ \E c \in Claim, n \in {0, 1} : paid' = [paid EXCEPT ![c] = @ + n]
      BY <2>1, <3>0 DEF ClaimMove
    <3>2. UNCHANGED told \/ \E c \in Claim : \/ told' = [told EXCEPT ![c] = "spent"]
                                           \/ told' = [told EXCEPT ![c] = "released"]
                                           \/ told' = [told EXCEPT ![c] = @]
      BY <2>1, <3>0 DEF ClaimMove
    <3>3. paid' \in [Claim -> Nat]
      BY <3>0, <3>1
    <3>4. told' \in [Claim -> Terminal \cup {NoClaim}]
      BY <3>0, <3>2 DEF Terminal
    <3> QED BY <3>3, <3>4
  <2>5. /\ mem' \in Claims /\ file' \in [ok : BOOLEAN, claims : Claims]
    BY <2>1, ClaimBooks
  <2>6. /\ handling' \in [Thread -> ClaimWork]
        /\ \A u \in Thread : handling'[u].pc # "idle" =>
             /\ handling'[u].claim \in Claim /\ handling'[u].op \in Op \cup {"issue"}
             /\ handling'[u].op = "assign" => handling'[u].order \in Order
             /\ handling'[u].pc \in {"append", "hold"} => handling'[u].op = "assign"
    BY <2>1, ClaimPool
  <2> QED BY <1>0, <1>1, <2>2, <2>3, <2>4, <2>5, <2>6 DEF ClaimTypeOK, Claims, ClaimWork
<1>3. ASSUME ClaimCrash PROVE ClaimTypeOK'
  <2>1. crashes' \in 0 .. MaxCrash
    BY <1>3, ClaimAssumption DEF ClaimCrash, ClaimTypeOK
  <2>2. up' \in BOOLEAN /\ UNCHANGED <<file, paid, told>>
    BY <1>3 DEF ClaimCrash, ClaimTypeOK
  <2>3. /\ mem' \in Claims /\ Owned(mem') /\ handling' \in [Thread -> ClaimWork]
        /\ \A t \in Thread : handling'[t].pc = "idle"
    BY <1>3, CrashBooks, AbsentRecord
  <2> QED BY <1>0, <1>1, <2>1, <2>2, <2>3 DEF ClaimTypeOK, Claims, ClaimWork, Owned
<1>4. ASSUME UNCHANGED claimVars PROVE ClaimTypeOK'
  BY <1>4 DEF claimVars, ClaimTypeOK
<1> QED BY <1>2, <1>3, <1>4 DEF ClaimNext, ClaimStep

\* What LineageInv says of a thread that changes a claim.
LineageAt(t) ==
  /\ handling[t].pc \in {"change", "append", "hold"} =>
       handling[t].op # "issue" /\ mem[handling[t].claim].status # "absent"
  /\ handling[t].pc = "append" => /\ handling[t].from \in Agent
                                  /\ HasHeld(mem[handling[t].claim], handling[t].from)
  /\ handling[t].pc = "hold" =>
       \E j \in DOMAIN mem[handling[t].claim].lineage :
         mem[handling[t].claim].lineage[j].order.to = handling[t].order.to

\* Every step keeps holders and givers among those who held the claim.
LEMMA LineageStep ==
  ASSUME ClaimTypeOK, LineageInv, [ClaimNext]_claimVars
  PROVE  LineageInv'
<1>1. ASSUME NEW t \in Thread, ClaimStep(t) PROVE LineageInv'
  <2>1. PICK h \in ClaimWork : ClaimMove(t, h)
    BY <1>1, ClaimStepMoves
  <2>2. /\ Owned(mem') /\ Owned(file'.claims)
        /\ \A c \in Claim : mem[c].status # "absent" => Follows(mem[c], mem'[c])
    BY <2>1, ClaimBooks
  <2>3. \A u \in Thread : handling'[u] = IF u = t THEN h ELSE handling[u]
    BY <2>1, ClaimPool
  <2>4. Owned(h.out)
    <3>1. handling[t] \in ClaimWork /\ Owned(mem) /\ Owned(handling[t].out)
      BY DEF ClaimTypeOK, ClaimWork, Claims, LineageInv
    <3>2. h.out \in {NoClaims, mem, handling[t].out}
      BY <2>1, <3>1, AbsentRecord DEF ClaimMove, ClaimWork
    <3> QED BY <3>1, <3>2, AbsentRecord
  <2>5. LineageAt(t)'
    <3>0. handling[t] \in ClaimWork
      BY DEF ClaimTypeOK, ClaimWork, Claims
    <3>1. CASE h.pc = "change"
      <4>1. h.op \in Op /\ Allowed(h.op, mem[h.claim], h.order) /\ h.claim \in Claim
        BY <2>1, <3>0, <3>1, AbsentRecord DEF ClaimMove, ClaimWork
      <4>2. mem[h.claim].status # "absent" /\ h.op # "issue"
        BY <4>1 DEF Allowed, Op
      <4> QED BY <2>2, <2>3, <3>1, <4>1, <4>2 DEF LineageAt, Follows
    <3>2. CASE h.pc = "append"
      <4>1. /\ handling[t].pc = "change" /\ handling[t].op = "assign" /\ UNCHANGED mem
            /\ h = [handling[t] EXCEPT !.pc = "append", !.from = mem[handling[t].claim].holder]
        BY <2>1, <3>0, <3>2, AbsentRecord DEF ClaimMove, ClaimWork
      <4>2. /\ h.op = "assign" /\ h.claim = handling[t].claim /\ h.claim \in Claim
            /\ h.from = mem[h.claim].holder
        BY <3>0, <4>1 DEF ClaimTypeOK, ClaimWork
      <4>3. mem[h.claim].status # "absent"
        BY <4>1, <4>2 DEF LineageInv
      <4>4. mem[h.claim].holder \in Agent /\ HasHeld(mem[h.claim], mem[h.claim].holder)
        <5>1. mem[h.claim].holder \in Agent \cup {NoClaim}
          BY <4>2 DEF ClaimTypeOK, ClaimRecord
        <5> QED BY <4>2, <4>3, <5>1 DEF LineageInv, Owned
      <4> QED BY <2>3, <3>2, <4>1, <4>2, <4>3, <4>4 DEF LineageAt
    <3>3. CASE h.pc = "hold"
      <4>1. /\ handling[t].pc = "append" /\ h = [handling[t] EXCEPT !.pc = "hold"]
            /\ mem' = [mem EXCEPT ![handling[t].claim] =
                         [mem[handling[t].claim] EXCEPT !.lineage = Append(@, Entry(t))]]
        BY <2>1, <3>0, <3>3, AbsentRecord DEF ClaimMove, ClaimWork
      <4>2. /\ h.op = "assign" /\ h.claim = handling[t].claim /\ h.claim \in Claim
            /\ h.order = handling[t].order /\ h.order \in Order
        BY <3>0, <4>1 DEF ClaimTypeOK, ClaimWork
      <4>3. /\ mem[h.claim].status # "absent" /\ handling[t].from \in Agent
            /\ HasHeld(mem[h.claim], handling[t].from)
        BY <4>1, <4>2 DEF LineageInv
      <4>4. PICK r : r = [mem[h.claim] EXCEPT !.lineage = Append(@, Entry(t))]
        OBVIOUS
      <4>5. StandingClaim(mem[h.claim])
        <5>1. mem[h.claim] \in ClaimRecord /\ mem[h.claim].holder \in Agent \cup {NoClaim}
          BY <4>2 DEF ClaimTypeOK, ClaimRecord
        <5> QED BY <4>2, <4>3, <5>1 DEF LineageInv, Owned, StandingClaim
      <4>8. r = [mem[h.claim] EXCEPT !.lineage = Append(@, [from |-> handling[t].from, order |-> h.order])]
        BY <4>2, <4>4 DEF Entry
      <4>6. Follows(mem[h.claim], r) /\ \E j \in DOMAIN r.lineage : r.lineage[j].order.to = h.order.to
        <5>1. Extended(mem[h.claim], handling[t].from, h.order, r)
          BY <4>2, <4>3, <4>5, <4>8, AppendedRecord
        <5> QED BY <5>1 DEF Extended
      <4>7. mem'[h.claim] = r
        BY <4>1, <4>2, <4>4 DEF ClaimTypeOK
      <4> QED BY <2>3, <3>3, <4>2, <4>6, <4>7 DEF LineageAt, Follows
    <3>4. CASE h.pc \notin {"change", "append", "hold"}
      BY <2>3, <3>4 DEF LineageAt
    <3> QED BY <3>1, <3>2, <3>3, <3>4
  <2>6. ASSUME NEW u \in Thread \ {t} PROVE LineageAt(u)'
    <3>1. CASE handling[u].pc \in {"change", "append", "hold"}
      <4>1. handling[u].claim \in Claim /\ handling'[u] = handling[u]
            /\ mem[handling[u].claim].status # "absent"
        BY <2>3, <3>1 DEF ClaimTypeOK, LineageInv
      <4>2. Follows(mem[handling[u].claim], mem'[handling[u].claim])
        BY <2>2, <4>1
      <4> QED BY <4>1, <4>2 DEF LineageAt, LineageInv, Follows
    <3>2. CASE handling[u].pc \notin {"change", "append", "hold"}
      BY <2>3, <3>2 DEF LineageAt
    <3> QED BY <3>1, <3>2
  <2>7. \A u \in Thread : Owned(handling'[u].out)
    BY <2>3, <2>4 DEF LineageInv
  <2>8. \A u \in Thread : LineageAt(u)'
    BY <2>5, <2>6
  <2> QED BY <2>2, <2>7, <2>8 DEF LineageInv, LineageAt
<1>2. ASSUME ClaimCrash PROVE LineageInv'
  BY <1>2, CrashBooks, AbsentRecord DEF LineageInv
<1>3. ASSUME UNCHANGED claimVars PROVE LineageInv'
  BY <1>3 DEF claimVars, LineageInv, Owned
<1> QED BY <1>1, <1>2, <1>3 DEF ClaimNext, ClaimStep

\* A request that is alone finds file and memory as the last one left them, and leaves
\* them so; what it pays was not paid before.
LEMMA ClaimAloneStep ==
  ASSUME ClaimTypeOK, LineageInv, ClaimAlone, NEW t \in Thread, ClaimStep(t),
         Alone(handling')
  PROVE  ClaimAlone'
<1>1. PICK h \in ClaimWork : ClaimMove(t, h)
  BY ClaimStepMoves
<1>2. \A u \in Thread : handling'[u] = IF u = t THEN h ELSE handling[u]
  BY <1>1, ClaimPool
<1> DEFINE c == handling[t].claim
           op == handling[t].op
           pc == handling[t].pc
<1>3. /\ mem \in Claims /\ file \in [ok : BOOLEAN, claims : Claims] /\ handling[t] \in ClaimWork
      /\ pc # "idle" => c \in Claim /\ op \in Op \cup {"issue"}
                        /\ (op = "assign" => handling[t].order \in Order)
      /\ paid \in [Claim -> Nat] /\ told \in [Claim -> Terminal \cup {NoClaim}]
      /\ up' = up
  BY <1>1 DEF ClaimTypeOK, ClaimWork, Claims, ClaimMove
<1>4. /\ pc # "idle" => \A u \in Thread \ {t} : handling[u].pc = "idle"
      /\ h.pc # "idle" => \A u \in Thread \ {t} : handling[u].pc = "idle"
  BY <1>2 DEF ClaimAlone, Alone
<1>5. /\ Signed(mem) /\ Signed(file.claims) /\ Signed(handling[t].out)
      /\ LedBy(file.claims) /\ LedBy(handling[t].out)
      /\ \A d \in Claim : paid[d] <= 1
      /\ up => Honours(mem)
      /\ file.ok => Honours(file.claims)
      /\ AloneAt(t)
  BY DEF ClaimAlone
<1>11. pc # "hold" => LedBy(mem)
  <2>1. pc = "idle" => h.pc # "idle"
    BY <1>1, <1>3 DEF ClaimMove, ClaimWork
  <2>2. \A u \in Thread \ {t} : handling[u].pc = "idle"
    BY <1>4, <2>1
  <2> QED BY <2>2 DEF ClaimAlone
<1>6. \A u \in Thread \ {t} :
        handling'[u] = handling[u] /\ Signed(handling[u].out) /\ LedBy(handling[u].out)
  BY <1>2 DEF ClaimAlone
<1>7. \A u \in Thread : handling'[u].pc = "idle" => AloneAt(u)'
  BY DEF AloneAt
<1>10. pc # "idle" => up
  BY DEF ClaimAlone
<1>8. CASE h.pc # "idle"
  \* The thread is alone afterwards.
  <2>1. \A u \in Thread \ {t} : AloneAt(u)'
    BY <1>2, <1>4, <1>7, <1>8
  <2>2. ~ \A u \in Thread : handling'[u].pc = "idle"
    BY <1>2, <1>8
  <2>3. SUFFICES /\ Signed(mem') /\ Signed(file'.claims) /\ Signed(h.out)
                 /\ LedBy(file'.claims) /\ LedBy(h.out) /\ (h.pc # "hold" => LedBy(mem'))
                 /\ \A d \in Claim : paid'[d] <= 1
                 /\ up => Honours(mem)'
                 /\ file'.ok => Honours(file.claims)'
                 /\ up /\ AloneAt(t)'
    BY <1>2, <1>3, <1>6, <2>1, <2>2 DEF ClaimAlone
  <2>4. CASE pc = "idle" /\ h.pc = "dump"
    <3>0. /\ pc = "idle" /\ h.pc = "dump" /\ h.op = "issue" /\ up
          /\ h.out = NoClaims /\ mem[h.claim] = Absent
          /\ \E a \in Agent :
               mem' = [mem EXCEPT ![h.claim] = [Absent EXCEPT !.status = "open", !.holder = a]]
          /\ UNCHANGED <<file, paid, told>>
      BY <1>1, <1>3, <2>4, AbsentRecord DEF ClaimMove, ClaimWork
    <3>1. PICK a \in Agent :
            mem' = [mem EXCEPT ![h.claim] = [Absent EXCEPT !.status = "open", !.holder = a]]
      BY <3>0
    <3>2. h.claim \in Claim
      BY <1>1, <3>0 DEF ClaimMove
    <3>3. \A d \in Claim : mem'[d] = IF d = h.claim THEN [Absent EXCEPT !.status = "open", !.holder = a]
                                     ELSE mem[d]
      BY <1>3, <3>1 DEF Claims
    <3>4. Signed(mem')
      <4>1. \A d \in Claim : mem'[d].lineage = IF d = h.claim THEN <<>> ELSE mem[d].lineage
        BY <3>3 DEF Absent
      <4>2. DOMAIN <<>> = {}
        OBVIOUS
      <4> QED BY <1>5, <4>1, <4>2 DEF Signed
    <3>9. LedBy(mem')
      <4>1. LeadsToHolder([Absent EXCEPT !.status = "open", !.holder = a])
        BY DEF Absent, LeadsToHolder
      <4> QED BY <1>11, <3>0, <3>3, <4>1 DEF LedBy
    <3>5. mem[h.claim].status = "absent" /\ told[h.claim] \in Terminal \cup {NoClaim}
      BY <1>3, <3>0, <3>2 DEF Absent
    <3>6. Honours(mem)'
      BY <1>5, <3>0, <3>3, <3>5 DEF Honours, Terminal
    <3>7. Honours(file.claims)' <=> Honours(file.claims)
      BY <3>0 DEF Honours
    <3>8. AloneAt(t)'
      BY <1>2, <3>0 DEF AloneAt
    <3> QED BY <1>5, <3>0, <3>4, <3>6, <3>7, <3>8, <3>9, AbsentRecord
  <2>5. CASE pc = "idle" /\ h.pc = "change"
    <3>0. /\ pc = "idle" /\ h.pc = "change" /\ up
          /\ h.out = NoClaims /\ Allowed(h.op, mem[h.claim], h.order)
          /\ UNCHANGED <<mem, file, paid, told>>
      BY <1>1, <1>3, <2>5, AbsentRecord DEF ClaimMove, ClaimWork
    <3>1. file = Text(mem)
      BY <1>4, <3>0 DEF ClaimAlone
    <3>2. AloneAt(t)'
      BY <1>2, <3>0, <3>1 DEF AloneAt
    <3>3. (Honours(mem)' <=> Honours(mem)) /\ (Honours(file.claims)' <=> Honours(file.claims))
      BY <3>0 DEF Honours
    <3> QED BY <1>5, <1>11, <3>0, <3>2, <3>3, AbsentRecord
  <2>6. CASE pc = "change" /\ h.pc = "dump"
    <3>0. /\ pc = "change" /\ h = [handling[t] EXCEPT !.pc = "dump"] /\ op # "assign"
          /\ mem' = [mem EXCEPT ![c] = [mem[c] EXCEPT !.status = StatusAfter(op)]]
          /\ UNCHANGED <<file, paid, told>>
      BY <1>1, <1>3, <2>6, AbsentRecord DEF ClaimMove, ClaimWork
    <3>1. /\ h.pc = "dump" /\ h.op = op /\ h.claim = c /\ h.out = handling[t].out
          /\ c \in Claim /\ op \in Op
      BY <1>3, <3>0 DEF LineageInv, ClaimWork
    <3>12. mem[c] \in ClaimRecord
      BY <1>3, <3>1 DEF Claims
    <3>2. /\ file = Text(mem) /\ Allowed(op, mem[c], handling[t].order)
      BY <1>5, <3>0 DEF AloneAt
    <3>3. PICK q : q = [mem[c] EXCEPT !.status = StatusAfter(op)]
      OBVIOUS
    <3>13. /\ q.status = StatusAfter(op) /\ q.lineage = mem[c].lineage /\ q.holder = mem[c].holder
      BY <3>3, <3>12 DEF ClaimRecord
    <3>14. /\ op \in {"capture", "redeem"} => q.status = "spent"
           /\ op = "release" => q.status = "released"
      BY <3>13 DEF StatusAfter
    <3>4. \A d \in Claim : mem'[d] = IF d = c THEN q ELSE mem[d]
      BY <1>3, <3>0, <3>1, <3>3 DEF Claims
    <3>5. file.ok /\ file.claims = mem
      BY <3>2 DEF Text
    <3>6. mem[c].status \in {"open", "reserved"}
      BY <3>0, <3>1, <3>2 DEF Allowed, Op
    <3>7. told[c] = NoClaim /\ paid[c] = 0
      BY <1>3, <1>5, <3>1, <3>5, <3>6 DEF Honours, Terminal
    <3>8. Signed(mem')
      BY <1>5, <3>1, <3>4, <3>13 DEF Signed
    <3>15. LedBy(mem')
      BY <1>11, <3>0, <3>4, <3>13 DEF LedBy, LeadsToHolder
    <3>9. Honours(mem)'
      BY <1>5, <3>0, <3>4, <3>5, <3>7 DEF Honours
    <3>10. Honours(file.claims)'
      BY <1>5, <3>0, <3>5 DEF Honours
    <3>11. AloneAt(t)'
      BY <1>2, <3>0, <3>1, <3>4, <3>7, <3>14 DEF AloneAt
    <3> QED BY <1>5, <1>10, <3>0, <3>1, <3>8, <3>9, <3>10, <3>11, <3>15
  <2>11. CASE pc = "change" /\ h.pc = "append"
    <3>0. /\ pc = "change" /\ op = "assign"
          /\ h = [handling[t] EXCEPT !.pc = "append", !.from = mem[c].holder]
          /\ UNCHANGED <<mem, file, paid, told>>
      BY <1>1, <1>3, <2>11, AbsentRecord DEF ClaimMove, ClaimWork
    <3>1. /\ h.pc = "append" /\ h.op = op /\ h.claim = c /\ h.out = handling[t].out
          /\ h.order = handling[t].order /\ h.from = mem[c].holder
      BY <1>3, <3>0 DEF ClaimWork
    <3>2. AloneAt(t)'
      BY <1>2, <1>5, <3>0, <3>1 DEF AloneAt
    <3>3. (Honours(mem)' <=> Honours(mem)) /\ (Honours(file.claims)' <=> Honours(file.claims))
      BY <3>0 DEF Honours
    <3> QED BY <1>5, <1>10, <1>11, <3>0, <3>1, <3>2, <3>3
  <2>12. CASE pc = "append" /\ h.pc = "hold"
    <3>0. /\ pc = "append" /\ h = [handling[t] EXCEPT !.pc = "hold"]
          /\ mem' = [mem EXCEPT ![c] = [mem[c] EXCEPT !.lineage = Append(@, Entry(t))]]
          /\ UNCHANGED <<file, paid, told>>
      BY <1>1, <1>3, <2>12, AbsentRecord DEF ClaimMove, ClaimWork
    <3>1. /\ h.pc = "hold" /\ h.op = op /\ h.claim = c /\ h.out = handling[t].out
          /\ h.order = handling[t].order /\ c \in Claim /\ op = "assign" /\ h.order \in Order
      BY <1>3, <3>0 DEF ClaimWork, ClaimTypeOK
    <3>2. /\ file = Text(mem) /\ Allowed(op, mem[c], h.order) /\ handling[t].from = mem[c].holder
      BY <1>5, <3>0, <3>1 DEF AloneAt
    <3>3. mem[c].holder = h.order.by
      BY <3>1, <3>2 DEF Allowed
    <3>4. StandingClaim(mem[c]) /\ HasHeld(mem[c], mem[c].holder)
      <4>1. mem[c] \in ClaimRecord /\ mem[c].holder \in Agent \cup {NoClaim}
        BY <3>1 DEF ClaimTypeOK, ClaimRecord
      <4>2. mem[c].status # "absent"
        BY <3>0 DEF LineageInv
      <4> QED BY <3>1, <4>1, <4>2 DEF LineageInv, Owned, StandingClaim
    <3>5. PICK q : q = [mem[c] EXCEPT !.lineage = Append(@, Entry(t))]
      OBVIOUS
    <3>6. SignedRecord(mem[c]) /\ LeadsToHolder(mem[c])
      BY <1>5, <1>11, <3>0, <3>1 DEF Signed, SignedRecord, LedBy
    <3>13. q = [mem[c] EXCEPT !.lineage = Append(@, [from |-> mem[c].holder, order |-> h.order])]
      BY <3>1, <3>2, <3>5 DEF Entry
    <3>14. mem[c].holder \in Agent
      BY <3>4 DEF StandingClaim
    <3>7. /\ StandingClaim(q) /\ q.status = mem[c].status /\ SignedRecord(q)
          /\ LeadsToHolder([q EXCEPT !.holder = h.order.to])
      <4> HIDE DEF c
      <4>1. Extended(mem[c], mem[c].holder, h.order, q)
        BY <3>1, <3>4, <3>13, <3>14, AppendedRecord
      <4> QED BY <3>3, <3>6, <4>1 DEF Extended
    <3>8. \A d \in Claim : mem'[d] = IF d = c THEN q ELSE mem[d]
      BY <1>3, <3>0, <3>1, <3>5 DEF Claims
    <3>9. Signed(mem')
      BY <1>5, <3>1, <3>7, <3>8 DEF Signed, SignedRecord
    <3>10. Honours(mem)'
      BY <1>5, <1>10, <3>0, <3>7, <3>8 DEF Honours
    <3>11. Honours(file.claims)'<=> Honours(file.claims)
      BY <3>0 DEF Honours
    <3>12. AloneAt(t)'
      <4>1. \A d \in Claim : [mem' EXCEPT ![c].holder = h.order.to][d] =
              IF d = c THEN [q EXCEPT !.holder = h.order.to] ELSE mem[d]
        <5>1. mem' \in Claims
          BY <1>1, ClaimBooks
        <5> QED BY <3>1, <3>8, <5>1 DEF Claims
      <4>2. LedBy([mem' EXCEPT ![c].holder = h.order.to])
        BY <1>11, <3>0, <3>7, <4>1 DEF LedBy
      <4> QED BY <1>2, <3>1, <4>2 DEF AloneAt
    <3> QED BY <1>5, <1>10, <3>0, <3>1, <3>9, <3>10, <3>11, <3>12
  <2>13. CASE pc = "hold" /\ h.pc = "dump"
    <3>0. /\ pc = "hold" /\ h = [handling[t] EXCEPT !.pc = "dump"]
          /\ mem' = [mem EXCEPT ![c] = [mem[c] EXCEPT !.holder = handling[t].order.to]]
          /\ UNCHANGED <<file, paid, told>>
      BY <1>1, <1>3, <2>13, AbsentRecord DEF ClaimMove, ClaimWork
    <3>1. /\ h.pc = "dump" /\ h.op = op /\ h.claim = c /\ h.out = handling[t].out
          /\ c \in Claim /\ op = "assign"
      BY <1>3, <3>0 DEF ClaimWork, ClaimTypeOK
    <3>2. mem' = [mem EXCEPT ![c].holder = handling[t].order.to]
      BY <1>3, <3>0, <3>1 DEF Claims
    <3>3. LedBy(mem')
      BY <1>5, <3>0, <3>2 DEF AloneAt
    <3>4. \A d \in Claim : mem'[d].lineage = mem[d].lineage /\ mem'[d].status = mem[d].status
      BY <1>3, <3>0, <3>1 DEF Claims, ClaimRecord
    <3>5. Signed(mem')
      BY <1>5, <3>4 DEF Signed
    <3>6. Honours(mem)'
      BY <1>5, <1>10, <3>0, <3>4 DEF Honours
    <3>7. Honours(file.claims)'<=> Honours(file.claims)
      BY <3>0 DEF Honours
    <3>8. AloneAt(t)'
      BY <1>2, <3>1 DEF AloneAt
    <3> QED BY <1>5, <1>10, <3>0, <3>1, <3>3, <3>5, <3>6, <3>7, <3>8
  <2>7. CASE pc = "dump" /\ h.pc = "truncate"
    <3>0. /\ pc = "dump" /\ h = [handling[t] EXCEPT !.pc = "truncate", !.out = mem]
          /\ UNCHANGED <<mem, file, paid, told>>
      BY <1>1, <1>3, <2>7, AbsentRecord DEF ClaimMove, ClaimWork
    <3>1. h.pc = "truncate" /\ h.op = op /\ h.claim = c /\ h.out = mem
      BY <1>3, <3>0 DEF ClaimWork
    <3>2. AloneAt(t)'
      BY <1>2, <1>5, <3>0, <3>1 DEF AloneAt
    <3>3. (Honours(mem)' <=> Honours(mem)) /\ (Honours(file.claims)' <=> Honours(file.claims))
      BY <3>0 DEF Honours
    <3> QED BY <1>5, <1>10, <1>11, <3>0, <3>1, <3>2, <3>3
  <2>8. CASE pc = "truncate" /\ h.pc = "write"
    <3>0. /\ pc = "truncate" /\ h = [handling[t] EXCEPT !.pc = "write"]
          /\ file' = Torn /\ UNCHANGED <<mem, paid, told>>
      BY <1>1, <1>3, <2>8, AbsentRecord DEF ClaimMove, ClaimWork
    <3>1. h.pc = "write" /\ h.op = op /\ h.claim = c /\ h.out = handling[t].out
      BY <1>3, <3>0 DEF ClaimWork
    <3>2. AloneAt(t)'
      BY <1>2, <1>5, <3>0, <3>1 DEF AloneAt
    <3>3. Honours(mem)' <=> Honours(mem)
      BY <3>0 DEF Honours
    <3>4. ~file'.ok /\ file'.claims = NoClaims
      BY <3>0 DEF Torn
    <3> QED BY <1>5, <1>10, <1>11, <3>0, <3>1, <3>2, <3>3, <3>4, AbsentRecord
  <2>9. CASE pc = "write" /\ h.pc = "answer"
    <3>0. /\ pc = "write" /\ h = [handling[t] EXCEPT !.pc = "answer"]
          /\ file' \in {Text(handling[t].out)} \cup Mixed(t) /\ UNCHANGED <<mem, paid, told>>
      BY <1>1, <1>3, <2>9, AbsentRecord DEF ClaimMove, ClaimWork
    <3>1. h.pc = "answer" /\ h.op = op /\ h.claim = c /\ h.out = handling[t].out
      BY <1>3, <3>0 DEF ClaimWork
    <3>2. Mixed(t) = {}
      BY <1>4, <3>0 DEF Mixed
    <3>3. handling[t].out = mem
      BY <1>5, <3>0 DEF AloneAt
    <3>4. file' = Text(mem)
      BY <3>0, <3>2, <3>3
    <3>5. file'.claims = mem
      BY <3>4 DEF Text
    <3>6. AloneAt(t)'
      BY <1>2, <1>5, <3>0, <3>1, <3>4 DEF AloneAt
    <3>7. up => Honours(mem)'
      BY <1>5, <3>0 DEF Honours
    <3>8. Honours(file.claims)'
      BY <1>3, <1>5, <1>10, <3>0, <3>5 DEF Honours
    <3> QED BY <1>5, <1>10, <1>11, <3>0, <3>1, <3>5, <3>6, <3>7, <3>8
  <2>10. \/ pc = "idle" /\ (h.pc = "dump" \/ h.pc = "change")
         \/ pc = "change" /\ (h.pc = "dump" \/ h.pc = "append")
         \/ pc = "append" /\ h.pc = "hold"
         \/ pc = "hold" /\ h.pc = "dump"
         \/ pc = "dump" /\ h.pc = "truncate"
         \/ pc = "truncate" /\ h.pc = "write"
         \/ pc = "write" /\ h.pc = "answer"
    BY <1>1, <1>3, <1>8, AbsentRecord DEF ClaimMove, ClaimWork
  <2> QED BY <2>4, <2>5, <2>6, <2>7, <2>8, <2>9, <2>10, <2>11, <2>12, <2>13
<1>9. CASE h.pc = "idle"
  <2>1. \/ /\ pc = "dump" /\ \E u \in Thread : handling[u].pc = "dump" /\ handling[u].claim # c
        \/ /\ pc = "answer" /\ h = NoOrder
           /\ paid' = [paid EXCEPT ![c] = @ + IF op \in {"capture", "redeem"} THEN 1 ELSE 0]
           /\ \/ op \in {"capture", "redeem"} /\ told' = [told EXCEPT ![c] = "spent"]
              \/ op = "release" /\ told' = [told EXCEPT ![c] = "released"]
              \/ op \notin {"capture", "redeem", "release"} /\ told' = [told EXCEPT ![c] = @]
           /\ UNCHANGED <<mem, file>>
    BY <1>1, <1>3, <1>9 DEF ClaimMove, ClaimWork
  <2>2. pc # "dump"
    BY <1>4, <2>1
  <2>3. /\ h = NoOrder /\ UNCHANGED <<mem, file>> /\ file = Text(mem) /\ c \in Claim /\ up
        /\ op \in {"capture", "redeem"} => mem[c].status = "spent" /\ paid[c] = 0
        /\ op = "release" => mem[c].status = "released"
    BY <1>3, <1>5, <2>1, <2>2 DEF AloneAt, ClaimAlone
  <2>4. \A u \in Thread : handling'[u].pc = "idle"
    BY <1>2, <1>4, <1>9, <2>1
  <2>5. /\ \A d \in Claim \ {c} : paid'[d] = paid[d] /\ told'[d] = told[d]
        /\ \/ op \in {"capture", "redeem"} /\ paid'[c] = 1 /\ told'[c] = "spent"
           \/ op = "release" /\ paid'[c] = paid[c] /\ told'[c] = "released"
           \/ paid'[c] = paid[c] /\ told'[c] = told[c]
    BY <1>3, <2>1, <2>2, <2>3
  <2>6. op = "release" => paid[c] = 0
    BY <1>3, <1>5, <2>3 DEF Honours
  <2>7. Honours(mem)'
    BY <1>5, <2>3, <2>5, <2>6 DEF Honours
  <2>8. file'.claims = mem
    BY <2>3 DEF Text
  <2>9. Honours(file.claims)'
    BY <2>3, <2>7, <2>8 DEF Honours
  <2>10. \A d \in Claim : paid'[d] <= 1
    BY <1>3, <1>5, <2>5
  <2>11. \A u \in Thread : Signed(handling'[u].out) /\ LedBy(handling'[u].out)
    BY <1>2, <1>6, <2>3, AbsentRecord
  <2> QED BY <1>3, <1>5, <1>7, <1>11, <2>1, <2>3, <2>4, <2>7, <2>9, <2>10, <2>11 DEF ClaimAlone
<1> QED BY <1>8, <1>9

\* A crash leaves what the file holds: all that was answered, when it can be read.
LEMMA ClaimAloneCrash ==
  ASSUME ClaimTypeOK, LineageInv, ClaimAlone, ClaimCrash
  PROVE  ClaimAlone'
<1>1. /\ mem' = file.claims /\ up' = file.ok /\ file' = file
      /\ \A t \in Thread : handling'[t].pc = "idle" /\ Signed(handling'[t].out)
                           /\ LedBy(handling'[t].out)
  <2>1. NoOrder.out = NoClaims /\ NoOrder.pc = "idle" /\ Signed(NoClaims) /\ LedBy(NoClaims)
    BY Zenon, AbsentRecord
  <2> QED BY <2>1, CrashBooks
<1>2. UNCHANGED <<paid, told>>
  BY DEF ClaimCrash
<1>3. file \in [ok : BOOLEAN, claims : Claims]
  BY DEF ClaimTypeOK, Claims
<1>4. file.ok => file = Text(file.claims)
  BY <1>3 DEF Text
<1>5. /\ (up' => Honours(mem)') /\ (file'.ok => Honours(file.claims)')
  BY <1>1, <1>2 DEF Honours, ClaimAlone
<1>6. Alone(handling)' /\ \A t \in Thread : AloneAt(t)'
  BY <1>1 DEF Alone, AloneAt
<1>7. /\ Signed(mem') /\ Signed(file'.claims) /\ LedBy(mem') /\ LedBy(file'.claims)
      /\ \A c \in Claim : paid'[c] <= 1
  BY <1>1, <1>2 DEF ClaimAlone
<1> QED BY <1>1, <1>4, <1>5, <1>6, <1>7 DEF ClaimAlone

LEMMA ClaimAloneStepSound ==
  ASSUME ClaimTypeOK, LineageInv, ClaimAloneInv, [ClaimNext]_claimVars
  PROVE  ClaimAloneInv'
<1>1. ASSUME NEW t \in Thread, ClaimRequest(t), claimsRaced' = (claimsRaced \/ ~Alone(handling'))
      PROVE  ClaimAloneInv'
  BY <1>1, ClaimAloneStep DEF ClaimAloneInv, ClaimStep
<1>2. ASSUME NEW t \in Thread, Continue(t), UNCHANGED claimsRaced PROVE ClaimAloneInv'
  <2>1. PICK h \in ClaimWork : ClaimMove(t, h)
    BY <1>2, ClaimStepMoves DEF ClaimStep
  <2>2. \A u \in Thread : handling'[u] = IF u = t THEN h ELSE handling[u]
    BY <2>1, ClaimPool
  <2>3. handling[t].pc # "idle"
    BY <1>2 DEF Continue, ReadGiver, AppendEntry, PassOn, Change, Dump, DumpFails, Truncate, Write,
                Answer
  <2>4. ~claimsRaced => Alone(handling')
    BY <2>2, <2>3 DEF ClaimAloneInv, ClaimAlone, Alone
  <2> QED BY <1>2, <2>4, ClaimAloneStep DEF ClaimAloneInv, ClaimStep
<1>3. ASSUME ClaimCrash, UNCHANGED claimsRaced PROVE ClaimAloneInv'
  BY <1>3, ClaimAloneCrash DEF ClaimAloneInv
<1>4. ASSUME UNCHANGED claimVars PROVE ClaimAloneInv'
  BY <1>4 DEF claimVars, ClaimAloneInv, ClaimAlone, AloneAt, Honours, Signed, LedBy
<1> QED BY <1>1, <1>2, <1>3, <1>4 DEF ClaimNext

\* The inductive invariant: the lineages whatever races, and payment, answers and
\* signatures for requests that do not.
THEOREM ClaimRegistryIsSound == ClaimSpec => [](ClaimTypeOK /\ LineageInv /\ ClaimAloneInv)
<1>1. ClaimTypeOK /\ LineageInv /\ ClaimAloneInv /\ [ClaimNext]_claimVars
        => (ClaimTypeOK /\ LineageInv /\ ClaimAloneInv)'
  BY ClaimStepType, LineageStep, ClaimAloneStepSound
<1> QED BY <1>1, ClaimInitSound, PTL DEF ClaimSpec

\* Whatever races or crashes, nobody gives or holds a claim that was never given to them; as
\* long as requests do not overlap a lineage leads to the holder without a gap and each of
\* its steps is signed by the giver, a claim is paid once and what a caller was told stands
\* (claim_registry.assign, redeem, capture, _persist).
THEOREM ClaimsStaySound == ClaimSpec => []ClaimsAreSound
<1>1. ClaimTypeOK /\ LineageInv /\ ClaimAloneInv => ClaimsAreSound
  <2> SUFFICES ASSUME ClaimTypeOK, LineageInv, ClaimAloneInv PROVE ClaimsAreSound
    OBVIOUS
  <2>1. ASSUME NEW c \in Claim, ~claimsRaced
        PROVE  /\ LeadsToHolder(file.claims[c])
               /\ \/ LeadsToHolder(mem[c])
                  \/ \E t \in Thread : handling[t].pc = "hold" /\ handling[t].claim = c
               /\ \A i \in DOMAIN mem[c].lineage :
                    mem[c].lineage[i].from = mem[c].lineage[i].order.by
    <3>0. ClaimAlone /\ LedBy(file.claims) /\ Signed(mem)
      BY <2>1 DEF ClaimAloneInv, ClaimAlone
    <3>1. CASE \A t \in Thread : handling[t].pc # "hold"
      BY <3>0, <3>1 DEF ClaimAlone, LedBy, Signed
    <3>2. CASE \E t \in Thread : handling[t].pc = "hold"
      <4>1. PICK t \in Thread : handling[t].pc = "hold"
        BY <3>2
      <4>2. CASE handling[t].claim # c
        <5>1. LeadsToHolder([mem EXCEPT ![handling[t].claim].holder = handling[t].order.to][c])
          BY <3>0, <4>1 DEF ClaimAlone, AloneAt, LedBy
        <5>2. [mem EXCEPT ![handling[t].claim].holder = handling[t].order.to][c] = mem[c]
          BY <4>2 DEF ClaimTypeOK
        <5> QED BY <3>0, <5>1, <5>2 DEF LedBy, Signed
      <4> QED BY <3>0, <4>1, <4>2 DEF LedBy, Signed
    <3> QED BY <3>1, <3>2
  <2>4. LineageLeadsToHolder
    BY <2>1 DEF LineageLeadsToHolder, LineageInv, Owned
  <2>2. PaidOnce
    BY DEF PaidOnce, ClaimAloneInv, ClaimAlone
  <2>3. ToldIsKept
    BY DEF ToldIsKept, ClaimAloneInv, ClaimAlone, Honours
  <2> QED BY <2>2, <2>3, <2>4 DEF ClaimsAreSound
<1> QED BY <1>1, ClaimRegistryIsSound, PTL
---------------------------------------------------------------------------
(* Certificates.                                                           *)

\* A set of numbers up to n has a greatest one: of the intervals from its members to n
\* none is smaller than the one from the greatest.
LEMMA Greatest ==
  ASSUME NEW n \in Nat, NEW T \in SUBSET (0 .. n), T # {}
  PROVE  Max(T) \in T /\ \A y \in T : Max(T) >= y
<1> DEFINE R == StrictSubsetOrdering(0 .. n)
           F == {m .. n : m \in T}
<1>1. F \subseteq FiniteSubsetsOf(0 .. n) /\ F # {}
  <2>1. \A m \in T : m .. n \in SUBSET (0 .. n)
    OBVIOUS
  <2>2. \A m \in T : IsFiniteSet(m .. n)
    BY FS_Interval
  <2> QED BY <2>1, <2>2 DEF FiniteSubsetsOf
<1>2. IsWellFoundedOn(R, FiniteSubsetsOf(0 .. n))
  BY FS_StrictSubsetOrderingWellFounded
<1> HIDE DEF R, F
<1>3. PICK x \in F : \A y \in F : ~(<<y, x>> \in R)
  BY <1>1, <1>2, WFMin
<1>4. PICK k \in T : x = k .. n
  BY DEF F
<1>5. ASSUME NEW m \in T PROVE k >= m
  <2>1. SUFFICES ASSUME m > k PROVE FALSE
    OBVIOUS
  <2>2. m .. n \in F /\ m .. n \subseteq k .. n /\ k \in k .. n /\ k \notin m .. n
    BY <2>1 DEF F
  <2>3. <<m .. n, k .. n>> \in R
    BY <2>2 DEF R, StrictSubsetOrdering
  <2> QED BY <1>3, <1>4, <2>2, <2>3
<1> QED BY <1>5 DEF Max

LEMMA CertFacts ==
  /\ NoCert \in Cert /\ NoCerts \in Certs /\ NoClerk \in Clerk /\ NoClerk.pc = "idle"
  /\ Unasked \notin CertId /\ MaxNumber \in Nat /\ MaxCertCall \in Nat /\ MaxCertStarts \in Nat
  /\ 0 \notin Grant /\ \A r \in Cert : r # NoCert => r.grant \in Grant /\ r.status \in CertStatus
  /\ \A g \in Grant, s \in CertStatus : [grant |-> g, status |-> s] \in Cert \ {NoCert}
  /\ NoCert.grant = 0 /\ InOrder(NoCerts)
<1>1. MaxNumber \in Nat /\ MaxCertCall \in Nat /\ MaxCertStarts \in Nat
  BY CertsAssumption
<1>2. NoCert \in Cert /\ NoCerts \in Certs /\ NoCert.grant = 0
  BY DEF NoCert, Cert, NoCerts, Certs
<1>3. NoClerk \in Clerk /\ NoClerk.pc = "idle"
  BY <1>2 DEF NoClerk, Clerk
<1>4. Unasked \notin CertId
  BY DEF Unasked, CertId, Series
<1>5. 0 \notin Grant /\ \A r \in Cert : r # NoCert => r.grant \in Grant /\ r.status \in CertStatus
  BY <1>1 DEF Grant, Cert
<1>6. \A g \in Grant, s \in CertStatus : [grant |-> g, status |-> s] \in Cert \ {NoCert}
  BY <1>5 DEF Cert, NoCert
<1>7. InOrder(NoCerts)
  <2>1. \A n \in 1 .. MaxNumber : NoCerts[<<"CERT", n>>] = NoCert /\ ~(n <= 0)
    BY <1>1 DEF NoCerts, CertId, Series
  <2>2. 0 \in 0 .. MaxNumber
    BY <1>1
  <2> QED BY <2>1, <2>2 DEF InOrder
<1> QED BY <1>1, <1>2, <1>3, <1>4, <1>5, <1>6, <1>7

\* A number that the registry chooses has no record, when the L3 series is in order.
LEMMA NumberIsFresh ==
  ASSUME CertsTypeOK, NEW level \in CertLevel, NEW wish \in CertId \cup {Unasked},
         NumberFor(level, wish) \in CertId, NumberFor(level, wish) # wish, InOrder(certs)
  PROVE  IsFree(NumberFor(level, wish))
<1>1. MaxNumber \in Nat
  BY CertFacts
<1>2. CASE level = "L3" /\ wish[1] # "CERT"
  <2>1. PICK k \in 0 .. MaxNumber :
          \A n \in 1 .. MaxNumber : certs[<<"CERT", n>>] # NoCert <=> n <= k
    BY DEF InOrder
  <2>2. Issued("CERT") = 1 .. k
    BY <1>1, <2>1 DEF Issued
  <2>3. Cardinality(1 .. k) = k
    BY <1>1, FS_Interval
  <2>4. NumberFor(level, wish) = <<"CERT", k + 1>>
    BY <1>2, <2>2, <2>3 DEF NumberFor
  <2>5. k + 1 \in 1 .. MaxNumber
    BY <2>4 DEF CertId
  <2>6. <<"CERT", k + 1>>[2] = k + 1
    OBVIOUS
  <2>7. ~(k + 1 <= k) /\ \A n \in 1 .. k + 1 - 1 : n \in 1 .. MaxNumber /\ n <= k
    BY <1>1
  <2> QED BY <2>1, <2>4, <2>5, <2>6, <2>7 DEF IsFree
<1>3. CASE ~(level = "L3" /\ wish[1] # "CERT")
  <2> DEFINE T == Issued("COMP") \cup {0}
  <2>1. T \in SUBSET (0 .. MaxNumber) /\ T # {}
    BY <1>1 DEF Issued
  <2>2. Max(T) \in 0 .. MaxNumber /\ \A y \in T : Max(T) >= y
    <3> HIDE DEF T
    <3> QED BY <1>1, <2>1, Greatest
  <2> DEFINE m == Max(T) + 1
  <2>3. NumberFor(level, wish) = <<"COMP", m>>
    BY <1>3 DEF NumberFor, NextComp
  <2>4. m \notin T
    <3> HIDE DEF T
    <3> QED BY <2>2
  <2>5. m \in 1 .. MaxNumber
    <3> HIDE DEF m
    <3> QED BY <2>3 DEF CertId
  <2> HIDE DEF m
  <2>6. certs[<<"COMP", m>>] = NoCert /\ <<"COMP", m>>[1] = "COMP"
    BY <2>4, <2>5 DEF Issued
  <2> QED BY <2>3, <2>6 DEF IsFree
<1> QED BY <1>2, <1>3

\* Each step of a steward's call, by what it does to its own record.
ClerkMove(t, h) ==
  LET id == clerk[t].id  rec == clerk[t].rec IN
  /\ clerk' = [clerk EXCEPT ![t] = h] /\ UNCHANGED certStarts
  /\ h.pc # "idle" => h.id \in CertId /\ h.rec # NoCert
  /\ \/ /\ clerk[t].pc = "idle" /\ h.pc \in {"enter", "enterAsked"}
        /\ askedL3' = (askedL3 \/ (h.pc = "enterAsked" /\ h.id[1] = "CERT"))
        /\ h.pc = "enter" /\ InOrder(certs) => IsFree(h.id)
        /\ UNCHANGED <<certs, certFile, assured, replaced>>
     \/ /\ clerk[t].pc = "idle" /\ h.pc = "mark" /\ certs[h.id].grant = h.rec.grant
        /\ UNCHANGED <<certs, certFile, assured, replaced, askedL3>>
     \/ /\ clerk[t].pc \in {"enter", "enterAsked"} /\ h.pc = "dump" /\ h.id = id /\ h.rec = rec
        /\ certs' = [certs EXCEPT ![id] = rec]
        /\ replaced' = [g \in Grant |-> IF g # certs[id].grant THEN replaced[g]
                                        ELSE IF clerk[t].pc = "enter" THEN "unasked" ELSE "asked"]
        /\ UNCHANGED <<certFile, assured, askedL3>>
     \/ /\ clerk[t].pc = "mark" /\ h.pc = "dump" /\ h.id = id /\ h.rec = rec
        /\ certs' = IF certs[id].grant = rec.grant THEN [certs EXCEPT ![id] = rec] ELSE certs
        /\ UNCHANGED <<certFile, assured, replaced, askedL3>>
     \/ /\ clerk[t].pc = "dump" /\ h.pc = "empty" /\ h.id = id /\ h.rec = rec /\ h.out = certs
        /\ UNCHANGED <<certs, certFile, assured, replaced, askedL3>>
     \/ /\ clerk[t].pc = "empty" /\ h.pc = "write" /\ h.id = id /\ h.rec = rec
        /\ h.out = clerk[t].out /\ certFile' = Unreadable
        /\ UNCHANGED <<certs, assured, replaced, askedL3>>
     \/ /\ clerk[t].pc = "write" /\ h.pc = "idle"
        /\ \/ certFile' = Listing(clerk[t].out)
           \/ certFile' = Unreadable /\ \E u \in Thread \ {t} : clerk[u].pc = "write"
        /\ assured' = [assured EXCEPT ![rec.grant] = [id |-> id, status |-> rec.status]]
        /\ UNCHANGED <<certs, replaced, askedL3>>

LEMMA ClerkStepMoves ==
  ASSUME CertsTypeOK, NEW t \in Thread,
         (BeginClerk(t) /\ certCalls < MaxCertCall) \/ ContinueClerk(t)
  PROVE  \E h \in Clerk : ClerkMove(t, h)
<1> DEFINE Found == \E h \in Clerk : ClerkMove(t, h)
<1>1. /\ clerk \in [Thread -> Clerk] /\ clerk[t] \in Clerk /\ certs \in Certs
      /\ clerk[t].pc # "idle" => clerk[t].id \in CertId /\ clerk[t].rec # NoCert
      /\ certCalls \in 0 .. MaxCertCall
  BY DEF CertsTypeOK
<1>2. ASSUME NEW pc \in {"enter", "enterAsked", "mark"}, NEW id \in CertId, NEW rec \in Cert
      PROVE  LET h == [NoClerk EXCEPT !.pc = pc, !.id = id, !.rec = rec] IN
             h \in Clerk /\ h.pc = pc /\ h.id = id /\ h.rec = rec
  BY CertFacts DEF Clerk
<1>3. ASSUME NEW pc \in {"dump", "empty", "write"}, NEW out \in Certs
      PROVE  LET h == [clerk[t] EXCEPT !.pc = pc, !.out = out] IN
             /\ h \in Clerk /\ h.pc = pc /\ h.id = clerk[t].id /\ h.rec = clerk[t].rec /\ h.out = out
  BY <1>1 DEF Clerk
<1>4. \A pc \in {"dump", "empty", "write"} :
        [clerk EXCEPT ![t].pc = pc] = [clerk EXCEPT ![t] = [clerk[t] EXCEPT !.pc = pc, !.out = clerk[t].out]]
  BY <1>1 DEF Clerk
<1>5. ASSUME NEW level \in CertLevel, NEW wish \in CertId \cup {Unasked}, BeginGrant(t, level, wish),
             certCalls < MaxCertCall
      PROVE  Found
  <2> DEFINE id == NumberFor(level, wish)
             pc == IF id = wish THEN "enterAsked" ELSE "enter"
             rec == [grant |-> certCalls + 1, status |-> "active"]
             h == [NoClerk EXCEPT !.pc = pc, !.id = id, !.rec = rec]
  <2>1. /\ clerk[t].pc = "idle" /\ id \in CertId /\ clerk' = [clerk EXCEPT ![t] = h]
        /\ askedL3' = (askedL3 \/ (id = wish /\ wish[1] = "CERT"))
        /\ UNCHANGED <<certs, certFile, certStarts, assured, replaced>>
    BY <1>5 DEF BeginGrant
  <2>2. certCalls + 1 \in Grant
    BY <1>1, <1>5, CertFacts DEF Grant
  <2>3. rec \in Cert /\ rec # NoCert
    BY <2>2, CertFacts DEF CertStatus
  <2> HIDE DEF rec
  <2>4. id # wish /\ InOrder(certs) => IsFree(id)
    BY <2>1, NumberIsFresh
  <2> HIDE DEF id
  <2>5. pc \in {"enter", "enterAsked"} /\ (pc = "enterAsked" <=> id = wish)
    OBVIOUS
  <2> HIDE DEF pc
  <2>6. h \in Clerk /\ h.pc = pc /\ h.id = id /\ h.rec = rec
    <3>1. id \in CertId /\ rec \in Cert /\ pc \in {"enter", "enterAsked", "mark"}
      BY <2>1, <2>3, <2>5
    <3> QED BY <3>1, CertFacts DEF Clerk
  <2> HIDE DEF h
  <2>7. ClerkMove(t, h)
    BY <2>1, <2>3, <2>4, <2>5, <2>6 DEF ClerkMove
  <2> QED BY <2>6, <2>7
<1>6. ASSUME NEW id \in CertId, NEW status \in {"active", "revoked"}, BeginStatus(t, id, status)
      PROVE  Found
  <2> DEFINE rec == [certs[id] EXCEPT !.status = status]
             h == [NoClerk EXCEPT !.pc = "mark", !.id = id, !.rec = rec]
  <2>1. /\ clerk[t].pc = "idle" /\ certs[id] # NoCert /\ clerk' = [clerk EXCEPT ![t] = h]
        /\ UNCHANGED <<certs, certFile, certStarts, assured, replaced, askedL3>>
    BY <1>6 DEF BeginStatus
  <2>2. certs[id] \in [grant : Grant, status : CertStatus]
    BY <1>1, <2>1 DEF Certs, Cert
  <2>3. rec = [grant |-> certs[id].grant, status |-> status] /\ certs[id].grant \in Grant
    BY <2>2
  <2>4. rec \in Cert /\ rec # NoCert /\ rec.grant = certs[id].grant
    BY <2>3, CertFacts DEF CertStatus
  <2> HIDE DEF rec
  <2>5. h \in Clerk /\ h.pc = "mark" /\ h.id = id /\ h.rec = rec
    BY <1>2, <2>4
  <2> HIDE DEF h
  <2>6. ClerkMove(t, h)
    BY <2>1, <2>4, <2>5 DEF ClerkMove
  <2> QED BY <2>5, <2>6
<1> DEFINE g(pc, out) == [clerk[t] EXCEPT !.pc = pc, !.out = out]
<1>7. clerk[t].out \in Certs
  BY <1>1 DEF Clerk
<1>8. CASE Enter(t)
  <2> DEFINE h == g("dump", clerk[t].out)
  <2>1. h \in Clerk /\ h.pc = "dump" /\ h.id = clerk[t].id /\ h.rec = clerk[t].rec
    BY <1>3, <1>7
  <2>2. clerk' = [clerk EXCEPT ![t] = h]
    BY <1>4, <1>8 DEF Enter
  <2> HIDE DEF h
  <2>3. ClerkMove(t, h)
    BY <1>1, <1>8, <2>1, <2>2 DEF Enter, ClerkMove
  <2> QED BY <2>1, <2>3
<1>9. CASE Mark(t)
  <2> DEFINE h == g("dump", clerk[t].out)
  <2>1. h \in Clerk /\ h.pc = "dump" /\ h.id = clerk[t].id /\ h.rec = clerk[t].rec
    BY <1>3, <1>7
  <2>2. clerk' = [clerk EXCEPT ![t] = h]
    BY <1>4, <1>9 DEF Mark
  <2> HIDE DEF h
  <2>3. ClerkMove(t, h)
    BY <1>1, <1>9, <2>1, <2>2 DEF Mark, ClerkMove
  <2> QED BY <2>1, <2>3
<1>10. CASE DumpCerts(t)
  <2> DEFINE h == g("empty", certs)
  <2>1. h \in Clerk /\ h.pc = "empty" /\ h.id = clerk[t].id /\ h.rec = clerk[t].rec /\ h.out = certs
    BY <1>1, <1>3
  <2>2. clerk' = [clerk EXCEPT ![t] = h]
    BY <1>1, <1>10 DEF DumpCerts
  <2> HIDE DEF h
  <2>3. ClerkMove(t, h)
    BY <1>1, <1>10, <2>1, <2>2 DEF DumpCerts, ClerkMove
  <2> QED BY <2>1, <2>3
<1>11. CASE EmptyList(t)
  <2> DEFINE h == g("write", clerk[t].out)
  <2>1. /\ h \in Clerk /\ h.pc = "write" /\ h.id = clerk[t].id /\ h.rec = clerk[t].rec
        /\ h.out = clerk[t].out
    BY <1>3, <1>7
  <2>2. clerk' = [clerk EXCEPT ![t] = h]
    BY <1>4, <1>11 DEF EmptyList
  <2> HIDE DEF h
  <2>3. ClerkMove(t, h)
    BY <1>1, <1>11, <2>1, <2>2 DEF EmptyList, ClerkMove
  <2> QED BY <2>1, <2>3
<1>12. CASE WriteList(t)
  <2>1. \/ certFile' = Listing(clerk[t].out)
        \/ certFile' = Unreadable /\ \E u \in Thread \ {t} : clerk[u].pc = "write"
    BY <1>12 DEF WriteList
  <2>2. ClerkMove(t, NoClerk)
    BY <1>12, <2>1, CertFacts DEF WriteList, ClerkMove
  <2> QED BY <2>2, CertFacts
<1> QED BY <1>5, <1>6, <1>8, <1>9, <1>10, <1>11, <1>12 DEF BeginClerk, ContinueClerk

\* The threads after a step of one of them.
LEMMA ClerkPool ==
  ASSUME CertsTypeOK, NEW t \in Thread, NEW h \in Clerk, ClerkMove(t, h)
  PROVE  /\ clerk' \in [Thread -> Clerk]
         /\ \A u \in Thread : clerk'[u] = IF u = t THEN h ELSE clerk[u]
         /\ \A u \in Thread : clerk'[u].pc # "idle" => clerk'[u].id \in CertId /\ clerk'[u].rec # NoCert
<1>1. /\ clerk \in [Thread -> Clerk] /\ clerk' = [clerk EXCEPT ![t] = h]
      /\ h.pc # "idle" => h.id \in CertId /\ h.rec # NoCert
      /\ \A u \in Thread : clerk[u].pc # "idle" => clerk[u].id \in CertId /\ clerk[u].rec # NoCert
  BY DEF CertsTypeOK, ClerkMove
<1> QED BY <1>1

LEMMA CertBooks ==
  ASSUME CertsTypeOK, NEW t \in Thread, NEW h \in Clerk, ClerkMove(t, h)
  PROVE  /\ certs' \in Certs /\ certFile' \in [ok : BOOLEAN, certs : Certs]
         /\ assured' \in [Grant -> [id : CertId \cup {Unasked}, status : CertStatus \cup {"none"}]]
         /\ replaced' \in [Grant -> {"no", "asked", "unasked"}]
         /\ askedL3' \in BOOLEAN /\ certStarts' = certStarts
<1> DEFINE id == clerk[t].id
           rec == clerk[t].rec
<1>1. /\ certs \in Certs /\ certFile \in [ok : BOOLEAN, certs : Certs]
      /\ clerk[t] \in Clerk /\ rec \in Cert /\ id \in CertId \cup {Unasked} /\ clerk[t].out \in Certs
      /\ clerk[t].pc # "idle" => id \in CertId /\ rec # NoCert
      /\ assured \in [Grant -> [id : CertId \cup {Unasked}, status : CertStatus \cup {"none"}]]
      /\ replaced \in [Grant -> {"no", "asked", "unasked"}] /\ askedL3 \in BOOLEAN
  BY DEF CertsTypeOK, Clerk
<1>2. certs' \in Certs
  <2>1. UNCHANGED certs \/ certs' = [certs EXCEPT ![id] = rec]
    BY DEF ClerkMove
  <2> QED BY <1>1, <2>1 DEF Certs
<1>3. certFile' \in [ok : BOOLEAN, certs : Certs]
  <2>1. certFile' \in {certFile, Unreadable, Listing(clerk[t].out)}
    BY DEF ClerkMove
  <2>2. Unreadable \in [ok : BOOLEAN, certs : Certs] /\ Listing(clerk[t].out) \in [ok : BOOLEAN, certs : Certs]
    BY <1>1, CertFacts DEF Unreadable, Listing
  <2> QED BY <1>1, <2>1, <2>2
<1>4. assured' \in [Grant -> [id : CertId \cup {Unasked}, status : CertStatus \cup {"none"}]]
  <2>1. \/ UNCHANGED assured
        \/ /\ clerk[t].pc = "write"
           /\ assured' = [assured EXCEPT ![rec.grant] = [id |-> id, status |-> rec.status]]
    BY DEF ClerkMove
  <2>2. clerk[t].pc = "write" => rec.status \in CertStatus
    BY <1>1, CertFacts
  <2>3. clerk[t].pc = "write" => [id |-> id, status |-> rec.status] \in [id : CertId \cup {Unasked}, status : CertStatus \cup {"none"}]
    BY <1>1, <2>2
  <2> QED BY <1>1, <2>1, <2>3
<1>5. replaced' \in [Grant -> {"no", "asked", "unasked"}]
  <2>1. \/ UNCHANGED replaced
        \/ replaced' = [g \in Grant |-> IF g # certs[id].grant THEN replaced[g]
                                        ELSE IF clerk[t].pc = "enter" THEN "unasked" ELSE "asked"]
    BY DEF ClerkMove
  <2> QED BY <1>1, <2>1
<1>6. askedL3' \in BOOLEAN
  <2>1. askedL3' = askedL3 \/ \E b \in BOOLEAN : askedL3' = (askedL3 \/ b)
    BY DEF ClerkMove
  <2> QED BY <1>1, <2>1
<1>7. certStarts' = certStarts
  BY DEF ClerkMove
<1> QED BY <1>2, <1>3, <1>4, <1>5, <1>6, <1>7

LEMMA CertsStepType ==
  ASSUME CertsTypeOK, [CertsNext]_certVars
  PROVE  CertsTypeOK'
<1>1. certsRaced' \in BOOLEAN
  BY Zenon DEF CertsTypeOK, CertsNext, certVars
<1>2. certCalls' \in 0 .. MaxCertCall
  <2>1. certCalls \in 0 .. MaxCertCall /\ MaxCertCall \in Nat
    BY CertFacts DEF CertsTypeOK
  <2>2. certCalls' = certCalls \/ (certCalls < MaxCertCall /\ certCalls' = certCalls + 1)
    BY DEF CertsNext, certVars
  <2> QED BY <2>1, <2>2
<1>3. ASSUME NEW t \in Thread, (BeginClerk(t) /\ certCalls < MaxCertCall) \/ ContinueClerk(t)
      PROVE  CertsTypeOK'
  <2>1. PICK h \in Clerk : ClerkMove(t, h)
    BY <1>3, ClerkStepMoves
  <2>2. certStarts \in 0 .. MaxCertStarts
    BY DEF CertsTypeOK
  <2> QED BY <1>1, <1>2, <2>1, <2>2, ClerkPool, CertBooks DEF CertsTypeOK
<1>4. CASE RestartCerts
  <2>1. /\ certStarts \in 0 .. MaxCertStarts /\ MaxCertStarts \in Nat
        /\ certStarts < MaxCertStarts /\ certStarts' = certStarts + 1
    BY <1>4, CertFacts DEF RestartCerts, CertsTypeOK
  <2>2. certStarts' \in 0 .. MaxCertStarts
    BY <2>1
  <2>3. certs' \in Certs /\ UNCHANGED <<certFile, assured, replaced, askedL3>>
    BY <1>4 DEF RestartCerts, CertsTypeOK
  <2>4. clerk' \in [Thread -> Clerk] /\ \A t \in Thread : clerk'[t].pc = "idle"
    BY <1>4, CertFacts DEF RestartCerts
  <2> QED BY <1>1, <1>2, <2>2, <2>3, <2>4 DEF CertsTypeOK
<1>5. CASE UNCHANGED certVars
  BY <1>5 DEF certVars, CertsTypeOK
<1> QED BY <1>3, <1>4, <1>5 DEF CertsNext

\* One steward at a time: the list and the file have what was answered.
LEMMA StandStep ==
  ASSUME CertsTypeOK, StandInv, NEW t \in Thread, NEW h \in Clerk, ClerkMove(t, h), Alone(clerk')
  PROVE  StandInv'
<1> DEFINE id == clerk[t].id
           rec == clerk[t].rec
           pc == clerk[t].pc
<1>1. \A u \in Thread : clerk'[u] = IF u = t THEN h ELSE clerk[u]
  BY ClerkPool
<1>2. /\ certs \in Certs
      /\ pc # "idle" => id \in CertId /\ rec # NoCert /\ rec.grant \in Grant /\ rec.status \in CertStatus
      /\ \A g \in Grant : assured[g].id \in CertId \cup {Unasked}
      /\ pc # "idle" => rec = [grant |-> rec.grant, status |-> rec.status]
  <2>1. clerk[t] \in Clerk
    BY DEF CertsTypeOK
  <2>2. pc # "idle" => rec \in [grant : Grant, status : CertStatus] /\ id \in CertId
    BY <2>1 DEF CertsTypeOK, Clerk, Cert
  <2>3. certs \in Certs /\ (pc # "idle" => rec # NoCert)
        /\ \A g \in Grant : assured[g].id \in CertId \cup {Unasked}
    BY DEF CertsTypeOK
  <2> QED BY <2>2, <2>3
<1>3. ClerkOK(t)
  BY DEF StandInv
<1>4. /\ pc # "idle" => \A u \in Thread \ {t} : clerk[u].pc = "idle"
      /\ h.pc # "idle" => \A u \in Thread \ {t} : clerk[u].pc = "idle"
  BY <1>1 DEF StandInv, Alone
<1> DEFINE Busy(g) == \E u \in Thread : clerk[u].pc \in {"dump", "empty", "write"} /\ clerk[u].rec.grant = g
<1>5. /\ \A g \in Grant : Stands(g, certs) \/ Busy(g)
      /\ certFile.ok => \A g \in Grant : Stands(g, certFile.certs)
  BY DEF StandInv
<1>6. CASE pc = "idle" /\ UNCHANGED <<certs, certFile, assured, replaced>>
           /\ h.pc \in {"enter", "enterAsked", "mark"} /\ (h.pc = "mark" => certs[h.id].grant = h.rec.grant)
  <2>1. \A u \in Thread : ClerkOK(u)'
    BY <1>1, <1>4, <1>6 DEF ClerkOK
  <2>2. \A g \in Grant : ~Busy(g)
    BY <1>4, <1>6
  <2>3. \A g \in Grant : Stands(g, certs)' /\ (certFile'.ok => Stands(g, certFile.certs)')
    BY <1>5, <1>6, <2>2 DEF Stands
  <2> QED BY <2>1, <2>3 DEF StandInv
<1>7. CASE /\ pc \in {"enter", "enterAsked", "mark"} /\ h.pc = "dump" /\ h.id = id /\ h.rec = rec
           /\ certs' = [certs EXCEPT ![id] = rec] /\ UNCHANGED <<certFile, assured>>
           /\ \A g \in Grant : replaced'[g] = "no" => replaced[g] = "no" /\ (pc # "mark" => g # certs[id].grant)
  <2>1. \A u \in Thread : ClerkOK(u)'
    BY <1>1, <1>2, <1>4, <1>7 DEF ClerkOK, Certs
  <2>2. \A g \in Grant : Stands(g, certs)
    BY <1>4, <1>5, <1>7
  <2>3. pc = "mark" => certs[id].grant = rec.grant
    BY <1>3 DEF ClerkOK
  <2>4. ASSUME NEW g \in Grant, g # rec.grant \/ pc # "mark" PROVE Stands(g, certs)'
    <3>1. SUFFICES ASSUME assured[g].id # Unasked, replaced'[g] = "no"
                   PROVE  certs'[assured[g].id] = [grant |-> g, status |-> assured[g].status]
      BY <1>7 DEF Stands
    <3>2. certs[assured[g].id] = [grant |-> g, status |-> assured[g].status]
      BY <1>7, <2>2, <3>1 DEF Stands
    <3>3. assured[g].id # id
      BY <1>7, <2>3, <2>4, <3>1, <3>2
    <3> QED BY <1>2, <1>7, <3>1, <3>2, <3>3 DEF Certs
  <2>5. \A g \in Grant : g = rec.grant => Busy(g)'
    BY <1>1, <1>7
  <2>6. certFile'.ok => \A g \in Grant : Stands(g, certFile.certs)'
    BY <1>5, <1>7 DEF Stands
  <2> QED BY <2>1, <2>4, <2>5, <2>6 DEF StandInv
<1>8. CASE /\ \/ pc = "dump" /\ h.pc = "empty" /\ h.out = certs /\ UNCHANGED certFile
              \/ pc = "empty" /\ h.pc = "write" /\ h.out = clerk[t].out /\ certFile' = Unreadable
           /\ h.id = id /\ h.rec = rec /\ UNCHANGED <<certs, assured, replaced>>
  <2>1. \A u \in Thread : ClerkOK(u)'
    BY <1>1, <1>3, <1>4, <1>8 DEF ClerkOK
  <2>2. ASSUME NEW g \in Grant PROVE Stands(g, certs)' \/ Busy(g)'
    <3>1. CASE Busy(g)
      BY <1>1, <1>4, <1>8, <3>1
    <3>2. CASE Stands(g, certs)
      BY <1>8, <3>2 DEF Stands
    <3> QED BY <1>5, <3>1, <3>2
  <2>3. ~Unreadable.ok
    BY DEF Unreadable
  <2>4. certFile'.ok => \A g \in Grant : Stands(g, certFile.certs)'
    BY <1>5, <1>8, <2>3 DEF Stands
  <2> QED BY <2>1, <2>2, <2>4 DEF StandInv
<1>9. CASE /\ pc = "write" /\ h.pc = "idle" /\ certFile' = Listing(clerk[t].out)
           /\ assured' = [assured EXCEPT ![rec.grant] = [id |-> id, status |-> rec.status]]
           /\ UNCHANGED <<certs, replaced>>
  <2>1. clerk[t].out = certs /\ certs[id] = rec
    BY <1>3, <1>9 DEF ClerkOK
  <2>2. \A u \in Thread : clerk'[u].pc = "idle"
    BY <1>1, <1>4, <1>9
  <2>3. ASSUME NEW g \in Grant PROVE Stands(g, certs)'
    <3>1. /\ DOMAIN assured = Grant
      BY DEF CertsTypeOK
    <3>2. CASE g = rec.grant
      BY <1>2, <1>9, <2>1, <3>1, <3>2 DEF Stands
    <3>3. CASE g # rec.grant
      <4>1. Stands(g, certs) /\ assured'[g] = assured[g]
        BY <1>4, <1>5, <1>9, <3>1, <3>3
      <4> QED BY <1>9, <4>1 DEF Stands
    <3> QED BY <3>2, <3>3
  <2>4. certFile'.certs = certs
    BY <1>9, <2>1 DEF Listing
  <2>5. \A g \in Grant : Stands(g, certFile.certs)'
    BY <1>9, <2>3, <2>4 DEF Stands
  <2> QED BY <2>2, <2>3, <2>5 DEF StandInv, ClerkOK
<1> QED BY <1>3, <1>4, <1>6, <1>7, <1>8, <1>9 DEF ClerkMove, ClerkOK

\* One steward at a time, and none that asks for an L3 number: what was found is fresh.
LEMMA FreshStep ==
  ASSUME CertsTypeOK, StandInv, FreshInv, NEW t \in Thread, NEW h \in Clerk, ClerkMove(t, h),
         Alone(clerk'), ~askedL3'
  PROVE  FreshInv'
<1> DEFINE id == clerk[t].id
           rec == clerk[t].rec
           pc == clerk[t].pc
<1>1. \A u \in Thread : clerk'[u] = IF u = t THEN h ELSE clerk[u]
  BY ClerkPool
<1>2. /\ certs \in Certs /\ (pc # "idle" => id \in CertId /\ rec # NoCert)
      /\ MaxNumber \in Nat
  BY CertFacts DEF CertsTypeOK
<1>3. /\ pc # "idle" => \A u \in Thread \ {t} : clerk[u].pc = "idle"
      /\ h.pc # "idle" => \A u \in Thread \ {t} : clerk[u].pc = "idle"
      /\ ClerkOK(t)
  BY <1>1 DEF StandInv, Alone
<1>4. InOrder(certs) /\ (certFile.ok => InOrder(certFile.certs))
      /\ \A g \in Grant : replaced[g] # "unasked"
  BY DEF FreshInv
<1>5. ASSUME UNCHANGED <<certs, replaced>>, certFile'.ok => InOrder(certFile'.certs),
             h.pc = "enter" => IsFree(h.id), h.pc = "enterAsked" => h.id[1] # "CERT"
      PROVE  FreshInv'
  <2>1. \A u \in Thread \ {t} : clerk'[u] = clerk[u]
    BY <1>1
  <2>2. clerk'[t] = h
    BY <1>1
  <2>3. \A j : IsFree(j)' <=> IsFree(j)
    BY <1>5 DEF IsFree
  <2> QED BY <1>4, <1>5, <2>1, <2>2, <2>3 DEF FreshInv
<1>6. CASE /\ pc = "idle" /\ UNCHANGED <<certs, certFile, replaced>>
           /\ h.pc = "enter" => IsFree(h.id)
           /\ h.pc = "enterAsked" => h.id[1] # "CERT"
  BY <1>4, <1>5, <1>6
<1>7. CASE /\ h.pc \in {"empty", "write", "idle"} /\ UNCHANGED <<certs, replaced>>
           /\ certFile' \in {certFile, Unreadable, Listing(certs)}
  <2>1. certFile'.ok => InOrder(certFile'.certs)
    BY <1>4, <1>7 DEF Unreadable, Listing
  <2> QED BY <1>5, <1>7, <2>1
<1>8. ASSUME pc \in {"enter", "enterAsked", "mark"}, h.pc = "dump", UNCHANGED certFile,
             \A g \in Grant : replaced'[g] = "unasked" => replaced[g] = "unasked",
             InOrder(certs')
      PROVE  FreshInv'
  <2>1. \A u \in Thread : clerk'[u].pc \notin {"enter", "enterAsked"}
    BY <1>1, <1>3, <1>8
  <2> QED BY <1>4, <1>8, <2>1 DEF FreshInv
<1>9. PICK k \in 0 .. MaxNumber : \A n \in 1 .. MaxNumber : certs[<<"CERT", n>>] # NoCert <=> n <= k
  BY <1>4 DEF InOrder
<1>10. ASSUME pc \in {"enter", "enterAsked", "mark"}, certs' = [certs EXCEPT ![id] = rec]
       PROVE  InOrder(certs')
  <2>1. /\ id \in CertId /\ rec # NoCert
        /\ \A j \in CertId : certs'[j] = IF j = id THEN rec ELSE certs[j]
    BY <1>2, <1>10 DEF Certs
  <2>2. \A n \in 1 .. MaxNumber : <<"CERT", n>> \in CertId
    BY DEF CertId, Series
  <2>3. ASSUME \A n \in 1 .. MaxNumber : id = <<"CERT", n>> => certs[id] # NoCert
        PROVE  InOrder(certs')
    <3>1. \A n \in 1 .. MaxNumber : certs'[<<"CERT", n>>] # NoCert <=> n <= k
      BY <1>9, <2>1, <2>2, <2>3
    <3> QED BY <3>1 DEF InOrder
  <2>4. CASE pc = "enterAsked"
    <3>1. id[1] # "CERT"
      BY <2>4 DEF FreshInv
    <3> QED BY <2>3, <3>1
  <2>5. CASE pc = "mark"
    <3>1. certs[id].grant = rec.grant /\ rec \in Cert
      BY <1>3, <2>5 DEF ClerkOK, CertsTypeOK, Clerk
    <3>2. certs[id] # NoCert
      BY <2>1, <3>1, CertFacts
    <3> QED BY <2>3, <3>2
  <2>6. CASE pc = "enter"
    <3>1. IsFree(id)
      BY <2>6 DEF FreshInv
    <3>2. ASSUME NEW m \in 1 .. MaxNumber, id = <<"CERT", m>> PROVE InOrder(certs')
      <4>1. certs[id] = NoCert /\ \A n \in 1 .. m - 1 : certs[<<"CERT", n>>] # NoCert
        BY <3>1, <3>2 DEF IsFree
      <4>2. ~(m <= k)
        BY <1>9, <3>2, <4>1
      <4>3. m - 1 <= k
        <5>1. CASE m = 1
          BY <5>1
        <5>2. CASE m # 1
          <6>1. m - 1 \in 1 .. m - 1 /\ m - 1 \in 1 .. MaxNumber
            BY <1>2, <5>2
          <6> QED BY <1>9, <4>1, <6>1
        <5> QED BY <5>1, <5>2
      <4>4. m = k + 1
        BY <4>2, <4>3
      <4>5. \A n \in 1 .. MaxNumber : <<"CERT", n>> = id <=> n = m
        BY <3>2
      <4>6. \A n \in 1 .. MaxNumber : certs'[<<"CERT", n>>] # NoCert <=> n <= m
        <5>1. ASSUME NEW n \in 1 .. MaxNumber, n = m PROVE certs'[<<"CERT", n>>] # NoCert /\ n <= m
          BY <2>1, <3>2, <5>1
        <5>2. ASSUME NEW n \in 1 .. MaxNumber, n # m PROVE certs'[<<"CERT", n>>] = certs[<<"CERT", n>>]
          BY <2>1, <2>2, <4>5, <5>2
        <5>3. \A n \in 1 .. MaxNumber : n # m => (n <= k <=> n <= m)
          BY <4>4
        <5> QED BY <1>9, <5>1, <5>2, <5>3
      <4>7. m \in 0 .. MaxNumber
        BY <1>2
      <4> QED BY <4>6, <4>7 DEF InOrder
    <3> QED BY <2>3, <3>2
  <2> QED BY <1>10, <2>4, <2>5, <2>6
<1>11. CASE /\ pc \in {"enter", "enterAsked"} /\ h.pc = "dump" /\ UNCHANGED certFile
            /\ certs' = [certs EXCEPT ![id] = rec]
            /\ replaced' = [g \in Grant |-> IF g # certs[id].grant THEN replaced[g]
                                            ELSE IF pc = "enter" THEN "unasked" ELSE "asked"]
  <2>1. pc = "enter" => certs[id].grant \notin Grant
    BY CertFacts DEF FreshInv, IsFree
  <2>2. \A g \in Grant : replaced'[g] = "unasked" => replaced[g] = "unasked"
    BY <1>11, <2>1
  <2> QED BY <1>8, <1>10, <1>11, <2>2
<1>12. CASE /\ pc = "mark" /\ h.pc = "dump" /\ UNCHANGED <<certFile, replaced>>
            /\ certs' = IF certs[id].grant = rec.grant THEN [certs EXCEPT ![id] = rec] ELSE certs
  <2>1. certs' = [certs EXCEPT ![id] = rec]
    BY <1>3, <1>12 DEF ClerkOK
  <2> QED BY <1>8, <1>10, <1>12, <2>1
<1>13. pc = "write" => clerk[t].out = certs
  BY <1>3 DEF ClerkOK
<1> QED BY <1>4, <1>6, <1>7, <1>11, <1>12, <1>13 DEF ClerkMove

LEMMA CertsInitSound == CertsInit => CertsTypeOK /\ CertsAloneInv
<1> SUFFICES ASSUME CertsInit PROVE CertsTypeOK /\ CertsAloneInv
  OBVIOUS
<1>1. /\ certs = NoCerts /\ certFile.ok /\ certFile.certs = NoCerts
      /\ certFile \in [ok : BOOLEAN, certs : Certs]
      /\ clerk \in [Thread -> Clerk] /\ \A t \in Thread : clerk[t].pc = "idle"
      /\ \A g \in Grant : assured[g].id = Unasked /\ replaced[g] = "no"
  BY CertFacts DEF CertsInit, Listing
<1>2. assured \in [Grant -> [id : CertId \cup {Unasked}, status : CertStatus \cup {"none"}]]
  BY DEF CertsInit
<1>3. CertsTypeOK
  <2>1. MaxCertCall \in Nat /\ MaxCertStarts \in Nat
    BY CertFacts
  <2>2. certCalls \in 0 .. MaxCertCall /\ certStarts \in 0 .. MaxCertStarts
    BY <2>1 DEF CertsInit
  <2>3. /\ replaced \in [Grant -> {"no", "asked", "unasked"}]
        /\ askedL3 \in BOOLEAN /\ certsRaced \in BOOLEAN
    BY DEF CertsInit
  <2> QED BY <1>1, <1>2, <2>2, <2>3, CertFacts DEF CertsTypeOK
<1>4. StandInv
  BY <1>1 DEF StandInv, Alone, ClerkOK, Stands
<1>5. FreshInv
  BY <1>1, CertFacts DEF FreshInv
<1> QED BY <1>3, <1>4, <1>5 DEF CertsAloneInv

\* A restart finds in the file what was answered.
LEMMA CertsRestart ==
  ASSUME CertsTypeOK, RestartCerts
  PROVE  (StandInv => StandInv') /\ (FreshInv => FreshInv')
<1>1. /\ certs' = certFile.certs /\ certFile.ok /\ UNCHANGED <<certFile, assured, replaced>>
      /\ \A t \in Thread : clerk'[t].pc = "idle"
  BY CertFacts DEF RestartCerts
<1>2. ASSUME StandInv PROVE StandInv'
  BY <1>1, <1>2 DEF StandInv, Alone, ClerkOK, Stands
<1>3. ASSUME FreshInv PROVE FreshInv'
  BY <1>1, <1>3 DEF FreshInv
<1> QED BY <1>2, <1>3

LEMMA CertsAloneStep ==
  ASSUME CertsTypeOK, CertsAloneInv, [CertsNext]_certVars
  PROVE  CertsAloneInv'
<1>1. ASSUME NEW t \in Thread, (BeginClerk(t) /\ certCalls < MaxCertCall) \/ ContinueClerk(t),
             ~certsRaced, Alone(clerk')
      PROVE  StandInv' /\ (~askedL3' => FreshInv')
  <2>1. PICK h \in Clerk : ClerkMove(t, h)
    BY <1>1, ClerkStepMoves
  <2>2. askedL3 => askedL3'
    BY <2>1 DEF ClerkMove
  <2> QED BY <1>1, <2>1, <2>2, StandStep, FreshStep DEF CertsAloneInv
<1>2. ASSUME NEW t \in Thread, BeginClerk(t), certCalls < MaxCertCall,
             certsRaced' = (certsRaced \/ ~Alone(clerk'))
      PROVE  CertsAloneInv'
  BY <1>1, <1>2 DEF CertsAloneInv
<1>3. ASSUME NEW t \in Thread, ContinueClerk(t), UNCHANGED certsRaced PROVE CertsAloneInv'
  <2>1. clerk[t].pc # "idle"
    BY <1>3 DEF ContinueClerk, Enter, Mark, DumpCerts, EmptyList, WriteList
  <2>2. PICK h \in Clerk : ClerkMove(t, h)
    BY <1>3, ClerkStepMoves
  <2>3. \A u \in Thread : clerk'[u] = IF u = t THEN h ELSE clerk[u]
    BY <2>2, ClerkPool
  <2>4. ~certsRaced => Alone(clerk')
    BY <2>1, <2>3 DEF CertsAloneInv, StandInv, Alone
  <2> QED BY <1>1, <1>3, <2>4 DEF CertsAloneInv
<1>4. ASSUME RestartCerts, UNCHANGED certsRaced PROVE CertsAloneInv'
  <2>1. UNCHANGED askedL3
    BY <1>4 DEF RestartCerts
  <2> QED BY <1>4, <2>1, CertsRestart DEF CertsAloneInv
<1>5. ASSUME UNCHANGED certVars PROVE CertsAloneInv'
  BY <1>5 DEF certVars, CertsAloneInv, StandInv, FreshInv, ClerkOK, Stands, IsFree
<1> QED BY <1>2, <1>3, <1>4, <1>5 DEF CertsNext

\* The inductive invariant: of one steward at a time, list, file and answers agree.
THEOREM CertificationsAreSound == CertsSpec => [](CertsTypeOK /\ CertsAloneInv)
<1>1. CertsTypeOK /\ CertsAloneInv /\ [CertsNext]_certVars => (CertsTypeOK /\ CertsAloneInv)'
  BY CertsStepType, CertsAloneStep
<1> QED BY <1>1, CertsInitSound, PTL DEF CertsSpec

\* One steward at a time: a number that the registry chooses is nobody's, and a
\* certificate that was answered for keeps its place and status, also after a restart
\* (certifications.grant, set_status, _next_comp_id, _persist, load).
THEOREM CertificatesAlwaysStand == CertsSpec => []CertificatesStand
<1>1. CertsTypeOK /\ CertsAloneInv => CertificatesStand
  <2> SUFFICES ASSUME CertsTypeOK, CertsAloneInv PROVE CertificatesStand
    OBVIOUS
  <2>1. NumbersAreFresh
    BY DEF NumbersAreFresh, CertsAloneInv, FreshInv
  <2>2. AnsweredStatusStays
    BY DEF AnsweredStatusStays, CertsAloneInv, StandInv, Stands
  <2> QED BY <2>1, <2>2 DEF CertificatesStand
<1> QED BY <1>1, CertificationsAreSound, PTL
=============================================================================
