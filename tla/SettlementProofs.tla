-------------------------- MODULE SettlementProofs --------------------------
(***************************************************************************)
(* Theorems about VDCSettlement, for any nesting of calls, any payee and   *)
(* any number of exchanges: each value is paid once and to the party that  *)
(* was decided, what the chain decided it never decides again, and the     *)
(* balance is the sum of what is owed.  Then about Wallet, whose ledger is *)
(* such a sum too.                                                         *)
(***************************************************************************)
EXTENDS VDCSettlement, Wallet, FiniteSetTheorems, SequenceTheorems, TLAPS

\* The sequence without its last element.
LEMMA FrontOf ==
  ASSUME NEW S, NEW s \in Seq(S), s # <<>>
  PROVE  /\ Len(s) \in Nat \ {0} /\ s[Len(s)] \in S
         /\ Front(s) \in Seq(S)
         /\ Len(Front(s)) = Len(s) - 1
         /\ \A i \in 1 .. Len(s) - 1 : Front(s)[i] = s[i]
<1>1. Len(s) \in Nat \ {0} /\ s[Len(s)] \in S
  OBVIOUS
<1>2. 1 \in Int /\ Len(s) - 1 \in Int /\ \A i \in 1 .. Len(s) - 1 : s[i] \in S
  BY <1>1
<1>3. /\ SubSeq(s, 1, Len(s) - 1) \in Seq(S)
      /\ Len(SubSeq(s, 1, Len(s) - 1)) =
           IF 1 <= Len(s) - 1 THEN Len(s) - 1 - 1 + 1 ELSE 0
      /\ \A i \in 1 .. Len(s) - 1 - 1 + 1 : SubSeq(s, 1, Len(s) - 1)[i] = s[1 + i - 1]
  BY <1>2, SubSeqProperties
<1>4. \A i \in 1 .. Len(s) - 1 :
        i \in 1 .. Len(s) - 1 - 1 + 1 /\ 1 + i - 1 = i
  BY <1>1
<1>5. Len(SubSeq(s, 1, Len(s) - 1)) = Len(s) - 1
  <2>1. \A n \in Nat \ {0} : (IF 1 <= n - 1 THEN n - 1 - 1 + 1 ELSE 0) = n - 1
    OBVIOUS
  <2> QED BY <1>1, <1>3, <2>1, Zenon
<1>6. \A i \in 1 .. Len(s) - 1 : SubSeq(s, 1, Len(s) - 1)[i] = s[i]
  BY <1>3, <1>4
<1> QED BY <1>1, <1>3, <1>5, <1>6 DEF Front

\* Arithmetic of the account.
LEMMA NothingLeft ==
  ASSUME NEW a \in Nat, NEW b \in Nat, NEW c \in Nat, 0 = a + b + c
  PROVE  a = 0 /\ b = 0 /\ c = 0
OBVIOUS

\* What is kept from one world to the next is kept from the first to the last.
LEMMA KeptTransitive ==
  ASSUME NEW f, NEW g, NEW h, Kept(f, g), Kept(g, h)
  PROVE  Kept(f, h)
BY DEF Kept

LEMMA KeptReflexive ==
  ASSUME NEW f
  PROVE  Kept(f, f)
BY DEF Kept

\* A step that changes one record that is not final, and leaves it with its type.
LEMMA OneRecord ==
  ASSUME NEW x \in Exchange, vdcs \in [Exchange -> VDCRecord],
         vdcs[x].status \notin Final, NEW r \in VDCRecord,
         vdcs' = [vdcs EXCEPT ![x] = r]
  PROVE  /\ vdcs' \in [Exchange -> VDCRecord] /\ Kept(vdcs, vdcs')
         /\ vdcs'[x] = r /\ \A y \in Exchange \ {x} : vdcs'[y] = vdcs[y]
BY DEF Kept

\* The facts about the parts of a well-typed world.
LEMMA Typed ==
  ASSUME TypeOK, NEW x \in Exchange
  PROVE  /\ vdcs \in [Exchange -> VDCRecord] /\ vdcs[x] \in VDCRecord
         /\ vdcs[x].amount \in Nat /\ balance \in Nat
         /\ trustedVerifiers \subseteq Verifier
         /\ moved \in [Exchange -> [put : Nat, client : Nat, provider : Nat]]
         /\ moved[x] \in [put : Nat, client : Nat, provider : Nat]
         /\ calls \in Seq(Worlds) /\ now \in Nat
BY DEF TypeOK, World, Worlds, VDCRecord

\* The record of a new escrow has its type.
LEMMA FundedIsRecord ==
  ASSUME SettlementAssumption, NEW sender \in Account, NEW provider \in Account,
         NEW value \in 0 .. MaxAmount, NEW d \in Deadline, NEW e \in Deadline
  PROVE  Funded(sender, provider, value, d, e) \in VDCRecord
<1>1. NoRecord \in VDCRecord
  BY DEF NoRecord, VDCRecord, Status
<1>2. value \in Nat
  BY DEF SettlementAssumption
<1> QED BY <1>1, <1>2 DEF Funded, VDCRecord, Status
---------------------------------------------------------------------------
\* The entry points that run no foreign code keep the types and the account, and
\* change no final record.
LEMMA CallStep ==
  ASSUME SettlementAssumption, TypeOK, PaidOnceAsDecided, Call
  PROVE  /\ World' \in Worlds /\ Accounted(World') /\ Kept(vdcs, vdcs')
         /\ calls' = calls /\ now' = now
<1>1. ASSUME NEW sender \in Account, NEW v \in Verifier, NEW trusted \in BOOLEAN,
             SetTrustedVerifier(sender, v, trusted)
      PROVE  /\ World' \in Worlds /\ Accounted(World') /\ Kept(vdcs, vdcs')
             /\ calls' = calls /\ now' = now
  <2>1. trustedVerifiers' \subseteq Verifier
    BY <1>1, Typed DEF SetTrustedVerifier, TypeOK, World, Worlds
  <2>2. vdcs' = vdcs /\ balance' = balance /\ moved' = moved
    BY <1>1 DEF SetTrustedVerifier
  <2>3. World' \in Worlds
    BY <2>1, <2>2 DEF TypeOK, World, Worlds
  <2>4. Accounted(World')
    BY <2>2 DEF PaidOnceAsDecided, Accounted, World
  <2> QED BY <1>1, <2>2, <2>3, <2>4, KeptReflexive DEF SetTrustedVerifier
<1>2. ASSUME NEW sender \in Account, NEW x \in Exchange, NEW provider \in Account,
             NEW value \in 0 .. MaxAmount, NEW d \in Deadline, NEW e \in Deadline,
             CreateVDC(x, sender, provider, value, d, e)
      PROVE  /\ World' \in Worlds /\ Accounted(World') /\ Kept(vdcs, vdcs')
             /\ calls' = calls /\ now' = now
  <2> DEFINE r == Funded(sender, provider, value, d, e)
  <2>1. value \in Nat
    BY DEF SettlementAssumption
  <2>2. /\ vdcs' \in [Exchange -> VDCRecord] /\ Kept(vdcs, vdcs')
        /\ vdcs'[x] = r /\ \A y \in Exchange \ {x} : vdcs'[y] = vdcs[y]
    <3>1. vdcs[x].status \notin Final
      BY <1>2 DEF CreateVDC, Final
    <3>2. r \in VDCRecord
      BY FundedIsRecord
    <3>3. vdcs' = [vdcs EXCEPT ![x] = r]
      BY <1>2 DEF CreateVDC
    <3> HIDE DEF r
    <3> QED BY <3>1, <3>2, <3>3, OneRecord, Typed
  <2>3. balance' \in Nat
    BY <1>2, <2>1, Typed DEF CreateVDC
  <2>4. /\ moved' \in [Exchange -> [put : Nat, client : Nat, provider : Nat]]
        /\ moved'[x] = [moved[x] EXCEPT !.put = @ + value]
        /\ \A y \in Exchange \ {x} : moved'[y] = moved[y]
    <3>1. [moved[x] EXCEPT !.put = @ + value] \in [put : Nat, client : Nat, provider : Nat]
      <4>1. moved[x] \in [put : Nat, client : Nat, provider : Nat]
        BY Typed
      <4>2. moved[x].put + value \in Nat
        BY <2>1, <4>1
      <4> QED BY <4>1, <4>2
    <3>2. moved' = [moved EXCEPT ![x] = [moved[x] EXCEPT !.put = @ + value]]
      BY <1>2, Typed DEF CreateVDC
    <3> QED BY <3>1, <3>2, Typed
  <2>5. World' \in Worlds
    BY <1>2, <2>2, <2>3, <2>4, Typed DEF CreateVDC, World, Worlds
  <2>6. r.status = "Funded" /\ r.amount = value
    BY DEF Funded, NoRecord
  <2>7. Accounted(World')
    <3> SUFFICES ASSUME NEW y \in Exchange
                 PROVE  /\ moved'[y].put = vdcs'[y].amount + moved'[y].client + moved'[y].provider
                        /\ vdcs'[y].status = "None" => moved'[y].put = 0
                        /\ vdcs'[y].status \in Final => vdcs'[y].amount = 0
                        /\ moved'[y].client > 0 => vdcs'[y].status = "Refunded"
                        /\ moved'[y].provider > 0 => vdcs'[y].status = "Settled"
                        /\ vdcs'[y].status \in {"Fulfilled", "Disputed", "Settled"}
                             => vdcs'[y].credentialId # Zero
      BY DEF Accounted, World
    <3>1. CASE y # x
      BY <3>1, <2>2, <2>4 DEF PaidOnceAsDecided, Accounted, World
    <3>2. CASE y = x
      <4>1. vdcs[x].status = "None"
        BY <1>2 DEF CreateVDC
      <4>2. moved[x].put = 0 /\ moved[x].client = 0 /\ moved[x].provider = 0
        <5>1. /\ moved[x].put = 0
              /\ moved[x].put = vdcs[x].amount + moved[x].client + moved[x].provider
          BY <4>1 DEF PaidOnceAsDecided, Accounted, World
        <5>2. /\ vdcs[x].amount \in Nat /\ moved[x].client \in Nat
              /\ moved[x].provider \in Nat
          BY Typed
        <5>3. 0 = vdcs[x].amount + moved[x].client + moved[x].provider
          BY <5>1, Zenon
        <5>4. moved[x].client = 0 /\ moved[x].provider = 0
          BY <5>2, <5>3, NothingLeft, Zenon
        <5> QED BY <5>1, <5>4
      <4>3. moved'[x].put = value /\ moved'[x].client = 0 /\ moved'[x].provider = 0
        <5>1. moved[x] \in [put : Nat, client : Nat, provider : Nat]
          BY Typed
        <5>2. /\ moved'[x].put = moved[x].put + value /\ moved'[x].client = moved[x].client
              /\ moved'[x].provider = moved[x].provider
          BY <5>1, <2>4
        <5> QED BY <4>2, <5>2, <2>1
      <4>4. vdcs'[x].status = "Funded" /\ vdcs'[x].amount = value
        BY <2>2, <2>6
      <4> QED BY <3>2, <4>3, <4>4, <2>1 DEF Final
    <3> QED BY <3>1, <3>2
  <2> QED BY <1>2, <2>2, <2>5, <2>7 DEF CreateVDC
<1>3. ASSUME NEW x \in Exchange, NEW r \in VDCRecord,
             vdcs[x].status \in {"Funded", "Fulfilled"},
             vdcs' = [vdcs EXCEPT ![x] = r],
             r.status \in {"Fulfilled", "Disputed"}, r.amount = vdcs[x].amount,
             r.credentialId # Zero,
             UNCHANGED <<trustedVerifiers, balance, moved, calls, now>>
      PROVE  /\ World' \in Worlds /\ Accounted(World') /\ Kept(vdcs, vdcs')
             /\ calls' = calls /\ now' = now
  <2>1. /\ vdcs' \in [Exchange -> VDCRecord] /\ Kept(vdcs, vdcs')
        /\ vdcs'[x] = r /\ \A y \in Exchange \ {x} : vdcs'[y] = vdcs[y]
    BY <1>3, OneRecord, Typed DEF Final
  <2>2. World' \in Worlds
    BY <1>3, <2>1, Typed DEF World, Worlds
  <2>3. Accounted(World')
    <3> SUFFICES ASSUME NEW y \in Exchange
                 PROVE  /\ moved[y].put = vdcs'[y].amount + moved[y].client + moved[y].provider
                        /\ vdcs'[y].status = "None" => moved[y].put = 0
                        /\ vdcs'[y].status \in Final => vdcs'[y].amount = 0
                        /\ moved[y].client > 0 => vdcs'[y].status = "Refunded"
                        /\ moved[y].provider > 0 => vdcs'[y].status = "Settled"
                        /\ vdcs'[y].status \in {"Fulfilled", "Disputed", "Settled"}
                             => vdcs'[y].credentialId # Zero
      BY <1>3 DEF Accounted, World
    <3>1. CASE y # x
      BY <3>1, <2>1 DEF PaidOnceAsDecided, Accounted, World
    <3>2. CASE y = x
      <4>1. /\ moved[x].put = vdcs[x].amount + moved[x].client + moved[x].provider
            /\ moved[x].client > 0 => vdcs[x].status = "Refunded"
            /\ moved[x].provider > 0 => vdcs[x].status = "Settled"
        BY DEF PaidOnceAsDecided, Accounted, World
      <4>2. ~(moved[x].client > 0) /\ ~(moved[x].provider > 0)
        BY <1>3, <4>1
      <4> QED BY <1>3, <2>1, <3>2, <4>1, <4>2 DEF Final
    <3> QED BY <3>1, <3>2
  <2> QED BY <1>3, <2>1, <2>2, <2>3
<1>4. ASSUME NEW sender \in Account, NEW x \in Exchange, NEW credential \in Credential,
             NEW v \in Verifier, FulfillVDCWithProof(x, sender, credential, v)
      PROVE  /\ World' \in Worlds /\ Accounted(World') /\ Kept(vdcs, vdcs')
             /\ calls' = calls /\ now' = now
  <2> DEFINE r == [vdcs[x] EXCEPT !.credentialId = credential, !.verifier = v,
                                  !.status = "Fulfilled"]
  <2>1. /\ r \in VDCRecord /\ r.status = "Fulfilled" /\ r.amount = vdcs[x].amount
        /\ r.credentialId = credential
    BY Typed DEF VDCRecord, Status
  <2>2. vdcs' = [vdcs EXCEPT ![x] = r] /\ vdcs[x].status = "Funded" /\ credential # Zero
    BY <1>4 DEF FulfillVDCWithProof, Proven
  <2>3. UNCHANGED <<trustedVerifiers, balance, moved, calls, now>>
    BY <1>4 DEF FulfillVDCWithProof
  <2> HIDE DEF r
  <2> QED BY <1>3, <2>1, <2>2, <2>3
<1>5. ASSUME NEW sender \in Account, NEW x \in Exchange, InitiateDispute(x, sender)
      PROVE  /\ World' \in Worlds /\ Accounted(World') /\ Kept(vdcs, vdcs')
             /\ calls' = calls /\ now' = now
  <2> DEFINE r == [vdcs[x] EXCEPT !.status = "Disputed"]
  <2>1. /\ r \in VDCRecord /\ r.status = "Disputed" /\ r.amount = vdcs[x].amount
        /\ r.credentialId = vdcs[x].credentialId
    BY Typed DEF VDCRecord, Status
  <2>2. vdcs' = [vdcs EXCEPT ![x] = r] /\ vdcs[x].status = "Fulfilled"
    BY <1>5 DEF InitiateDispute
  <2>3. vdcs[x].credentialId # Zero
    BY <2>2 DEF PaidOnceAsDecided, Accounted, World
  <2>4. UNCHANGED <<trustedVerifiers, balance, moved, calls, now>>
    BY <1>5 DEF InitiateDispute
  <2> HIDE DEF r
  <2> QED BY <1>3, <2>1, <2>2, <2>3, <2>4
<1> QED BY <1>1, <1>2, <1>4, <1>5 DEF Call
---------------------------------------------------------------------------
\* A payment closes its record, and pays the amount to the party of its status.
LEMMA PayStep ==
  ASSUME TypeOK, PaidOnceAsDecided, NEW x \in Exchange, NEW status \in Final,
         NEW party \in Party, vdcs[x].status \in {"Funded", "Fulfilled", "Disputed"},
         status = "Settled" => party = "provider" /\ vdcs[x].credentialId # Zero,
         status = "Refunded" => party = "client",
         Pay(x, status, party)
  PROVE  /\ World' \in Worlds /\ Accounted(World') /\ Kept(vdcs, vdcs')
         /\ calls' = Append(calls, World) /\ now' = now
<1> DEFINE r == Closed(vdcs[x], status)
           a == vdcs[x].amount
           m == Paid(moved[x], party, a)
<1>1. /\ r \in VDCRecord /\ r.status = status /\ r.amount = 0
      /\ r.credentialId = vdcs[x].credentialId
  BY Typed DEF Closed, VDCRecord, Status, Final
<1>2. /\ vdcs' \in [Exchange -> VDCRecord] /\ Kept(vdcs, vdcs')
      /\ vdcs'[x] = r /\ \A y \in Exchange \ {x} : vdcs'[y] = vdcs[y]
  <2>1. vdcs[x].status \notin Final
    BY DEF Final
  <2>2. vdcs' = [vdcs EXCEPT ![x] = r]
    BY DEF Pay
  <2> HIDE DEF r
  <2> QED BY <1>1, <2>1, <2>2, OneRecord, Typed
<1>3. /\ moved[x].put \in Nat /\ moved[x].client \in Nat /\ moved[x].provider \in Nat
      /\ a \in Nat /\ moved[x] \in [put : Nat, client : Nat, provider : Nat]
  BY Typed
<1>4. moved[x].client = 0 /\ moved[x].provider = 0 /\ moved[x].put = a
  <2>1. /\ moved[x].put = a + moved[x].client + moved[x].provider
        /\ ~(moved[x].client > 0) /\ ~(moved[x].provider > 0)
    BY DEF PaidOnceAsDecided, Accounted, World
  <2> HIDE DEF a
  <2>2. moved[x].client = 0 /\ moved[x].provider = 0
    BY <1>3, <2>1
  <2> QED BY <1>3, <2>1, <2>2
<1>5. /\ m \in [put : Nat, client : Nat, provider : Nat] /\ m.put = a
      /\ party = "client" => m.client = a /\ m.provider = 0
      /\ party = "provider" => m.provider = a /\ m.client = 0
  <2> HIDE DEF a
  <2>1. CASE party = "client"
    <3>1. m = [moved[x] EXCEPT !.client = @ + a]
      BY <2>1 DEF Paid
    <3> HIDE DEF m
    <3>2. moved[x].client + a = a
      BY <1>3, <1>4
    <3> QED BY <1>3, <1>4, <2>1, <3>1, <3>2
  <2>2. CASE party = "provider"
    <3>1. m = [moved[x] EXCEPT !.provider = @ + a]
      BY <2>2 DEF Paid
    <3> HIDE DEF m
    <3>2. moved[x].provider + a = a
      BY <1>3, <1>4
    <3> QED BY <1>3, <1>4, <2>2, <3>1, <3>2
  <2> QED BY <2>1, <2>2 DEF Party
<1>6. /\ moved' \in [Exchange -> [put : Nat, client : Nat, provider : Nat]]
      /\ moved'[x] = m /\ \A y \in Exchange \ {x} : moved'[y] = moved[y]
  <2>1. moved' = [moved EXCEPT ![x] = m]
    BY DEF Pay
  <2> HIDE DEF m
  <2> QED BY <1>5, <2>1, Typed
<1>7. balance' \in Nat
  <2>1. balance' = balance - a /\ a <= balance /\ balance \in Nat
    BY Typed DEF Pay
  <2> HIDE DEF a
  <2> QED BY <1>3, <2>1
<1>8. World' \in Worlds
  BY <1>2, <1>6, <1>7, Typed DEF Pay, World, Worlds
<1>9. Accounted(World')
  <2> SUFFICES ASSUME NEW y \in Exchange
               PROVE  /\ moved'[y].put = vdcs'[y].amount + moved'[y].client + moved'[y].provider
                      /\ vdcs'[y].status = "None" => moved'[y].put = 0
                      /\ vdcs'[y].status \in Final => vdcs'[y].amount = 0
                      /\ moved'[y].client > 0 => vdcs'[y].status = "Refunded"
                      /\ moved'[y].provider > 0 => vdcs'[y].status = "Settled"
                      /\ vdcs'[y].status \in {"Fulfilled", "Disputed", "Settled"}
                           => vdcs'[y].credentialId # Zero
    BY DEF Accounted, World
  <2>1. CASE y # x
    BY <1>2, <1>6, <2>1 DEF PaidOnceAsDecided, Accounted, World
  <2>2. CASE y = x
    <3> HIDE DEF a, m, r
    <3>1. vdcs'[x].amount = 0 /\ vdcs'[x].status = status
          /\ vdcs'[x].credentialId = vdcs[x].credentialId
      BY <1>1, <1>2
    <3>2. moved'[x].put = a /\ a \in Nat
          /\ (party = "client" => moved'[x].client = a /\ moved'[x].provider = 0)
          /\ (party = "provider" => moved'[x].provider = a /\ moved'[x].client = 0)
      BY <1>3, <1>5, <1>6
    <3>3. status = "Settled" \/ status = "Refunded"
      BY DEF Final
    <3>4. CASE status = "Settled"
      BY <2>2, <3>1, <3>2, <3>4 DEF Final
    <3>5. CASE status = "Refunded"
      BY <2>2, <3>1, <3>2, <3>5 DEF Final
    <3> QED BY <3>3, <3>4, <3>5
  <2> QED BY <2>1, <2>2
<1> QED BY <1>2, <1>8, <1>9 DEF Pay

\* So every entry point that pays keeps the account.
LEMMA PayingCallStep ==
  ASSUME TypeOK, PaidOnceAsDecided, PayingCall
  PROVE  /\ World' \in Worlds /\ Accounted(World') /\ Kept(vdcs, vdcs')
         /\ calls' = Append(calls, World) /\ now' = now
<1>1. \A y \in Exchange :
        vdcs[y].status \in {"Fulfilled", "Disputed"} => vdcs[y].credentialId # Zero
  BY DEF PaidOnceAsDecided, Accounted, World
<1>2. "Settled" \in Final /\ "Refunded" \in Final /\ "client" \in Party /\ "provider" \in Party
  BY DEF Final, Party
<1>3. ASSUME NEW x \in Exchange, RefundIfTimedOut(x)
      PROVE  /\ World' \in Worlds /\ Accounted(World') /\ Kept(vdcs, vdcs')
             /\ calls' = Append(calls, World) /\ now' = now
  BY <1>2, <1>3, PayStep DEF RefundIfTimedOut, Refundable
<1>4. ASSUME NEW x \in Exchange, NEW sender \in Account,
             NEW credential \in Credential \cup {Zero}, SettlePayment(x, sender, credential)
      PROVE  /\ World' \in Worlds /\ Accounted(World') /\ Kept(vdcs, vdcs')
             /\ calls' = Append(calls, World) /\ now' = now
  BY <1>1, <1>2, <1>4, PayStep DEF SettlePayment
<1>5. ASSUME NEW x \in Exchange, NEW sender \in Account, NEW payProvider \in BOOLEAN,
             ResolveDispute(x, sender, payProvider)
      PROVE  /\ World' \in Worlds /\ Accounted(World') /\ Kept(vdcs, vdcs')
             /\ calls' = Append(calls, World) /\ now' = now
  <2>1. CASE payProvider
    <3>1. Pay(x, "Settled", "provider") /\ vdcs[x].status = "Disputed"
      BY <1>5, <2>1 DEF ResolveDispute, Ruling
    <3> QED BY <1>1, <1>2, <3>1, PayStep
  <2>2. CASE ~payProvider
    <3>1. Pay(x, "Refunded", "client") /\ vdcs[x].status = "Disputed"
      BY <1>5, <2>2 DEF ResolveDispute, Ruling
    <3> QED BY <1>2, <3>1, PayStep
  <2> QED BY <2>1, <2>2
<1> QED BY <1>3, <1>4, <1>5 DEF PayingCall
---------------------------------------------------------------------------
LEMMA InitInv ==
  ASSUME SettlementAssumption, Init
  PROVE  SettlementInv
<1>1. NoRecord \in VDCRecord /\ NoRecord.status = "None" /\ NoRecord.amount = 0
  BY DEF NoRecord, VDCRecord, Status
<1>2. vdcs \in [Exchange -> VDCRecord]
  BY <1>1 DEF Init
<1>3. /\ moved \in [Exchange -> [put : Nat, client : Nat, provider : Nat]]
      /\ \A x \in Exchange : /\ moved[x].put = 0 /\ moved[x].client = 0
                             /\ moved[x].provider = 0
  BY DEF Init
<1>4. trustedVerifiers \in SUBSET Verifier /\ balance \in Nat /\ now \in Nat
  BY DEF Init
<1>5. World \in Worlds
  BY <1>2, <1>3, <1>4 DEF World, Worlds
<1>6. calls = <<>> /\ calls \in Seq(Worlds) /\ DOMAIN calls = {}
  <2>1. calls = <<>> /\ <<>> \in Seq(Worlds)
    BY DEF Init
  <2> QED BY <2>1
<1>7. PaidOnceAsDecided
  <2>1. \A x \in Exchange : vdcs[x].status = "None" /\ vdcs[x].amount = 0
    BY <1>1 DEF Init
  <2> QED BY <1>3, <2>1 DEF PaidOnceAsDecided, Accounted, World, Final
<1> QED BY <1>4, <1>5, <1>6, <1>7 DEF SettlementInv, TypeOK

\* A step of the contract itself that opens no call.
LEMMA InvCall ==
  ASSUME SettlementInv, World' \in Worlds, Accounted(World'), Kept(vdcs, vdcs'),
         calls' = calls, now' \in Nat
  PROVE  SettlementInv'
<1>1. TypeOK' /\ PaidOnceAsDecided'
  BY DEF SettlementInv, TypeOK, PaidOnceAsDecided, World
<1>2. \A i \in DOMAIN calls : Kept(calls[i].vdcs, vdcs')
  BY KeptTransitive DEF SettlementInv
<1> QED BY <1>1, <1>2 DEF SettlementInv

\* A step that opens a call.
LEMMA InvPay ==
  ASSUME SettlementInv, World' \in Worlds, Accounted(World'), Kept(vdcs, vdcs'),
         calls' = Append(calls, World), now' = now
  PROVE  SettlementInv'
<1>1. calls \in Seq(Worlds) /\ World \in Worlds /\ World.vdcs = vdcs
  BY DEF SettlementInv, TypeOK, World
<1>2. /\ calls' \in Seq(Worlds) /\ DOMAIN calls' = 1 .. Len(calls) + 1
      /\ \A i \in 1 .. Len(calls) : calls'[i] = calls[i] /\ i \in DOMAIN calls
      /\ calls'[Len(calls) + 1] = World /\ Len(calls) \in Nat
  BY <1>1
<1>3. TypeOK' /\ PaidOnceAsDecided'
  BY <1>2 DEF SettlementInv, TypeOK, PaidOnceAsDecided, World
<1>4. ASSUME NEW i \in DOMAIN calls'
      PROVE  Accounted(calls'[i]) /\ Kept(calls'[i].vdcs, vdcs')
  <2>1. CASE i = Len(calls) + 1
    BY <1>1, <1>2, <2>1 DEF SettlementInv, PaidOnceAsDecided
  <2>2. CASE i # Len(calls) + 1
    <3>1. i \in 1 .. Len(calls)
      BY <1>2, <2>2
    <3> QED BY <1>2, <3>1, KeptTransitive DEF SettlementInv
  <2> QED BY <2>1, <2>2
<1>5. ASSUME NEW j \in DOMAIN calls', NEW i \in 1 .. j - 1
      PROVE  Kept(calls'[i].vdcs, calls'[j].vdcs)
  <2>1. i \in 1 .. Len(calls)
    BY <1>2
  <2>2. CASE j = Len(calls) + 1
    BY <1>1, <1>2, <2>1, <2>2 DEF SettlementInv
  <2>3. CASE j # Len(calls) + 1
    <3>1. j \in 1 .. Len(calls)
      BY <1>2, <2>3
    <3> QED BY <1>2, <2>1, <3>1 DEF SettlementInv
  <2> QED BY <2>2, <2>3
<1> QED BY <1>3, <1>4, <1>5 DEF SettlementInv

\* The end of a call, with the world as it is or as it was.
LEMMA InvEnd ==
  ASSUME SettlementInv, calls # <<>>, calls' = Front(calls), now' = now,
         \/ World' = World
         \/ World' = calls[Len(calls)]
  PROVE  SettlementInv'
<1>1. calls \in Seq(Worlds) /\ World \in Worlds
  BY DEF SettlementInv, TypeOK
<1>2. /\ Len(calls) \in Nat \ {0} /\ Len(calls) \in DOMAIN calls
      /\ calls[Len(calls)] \in Worlds
      /\ calls' \in Seq(Worlds) /\ DOMAIN calls' = 1 .. Len(calls) - 1
      /\ \A i \in 1 .. Len(calls) - 1 : calls'[i] = calls[i] /\ i \in DOMAIN calls
  BY <1>1, FrontOf
<1>3. World' \in Worlds /\ Accounted(World')
  BY <1>1, <1>2 DEF SettlementInv, PaidOnceAsDecided
<1>4. TypeOK' /\ PaidOnceAsDecided'
  BY <1>2, <1>3 DEF SettlementInv, TypeOK, PaidOnceAsDecided, World
<1>5. vdcs' = vdcs \/ vdcs' = calls[Len(calls)].vdcs
  <2>1. World'.vdcs = vdcs' /\ World.vdcs = vdcs
    BY DEF World
  <2> QED BY <2>1
<1>6. ASSUME NEW i \in DOMAIN calls'
      PROVE  Accounted(calls'[i]) /\ Kept(calls'[i].vdcs, vdcs')
  <2>1. i \in 1 .. Len(calls) - 1 /\ calls'[i] = calls[i] /\ i \in DOMAIN calls
    BY <1>2
  <2>2. Accounted(calls[i]) /\ Kept(calls[i].vdcs, vdcs)
    BY <2>1 DEF SettlementInv
  <2>3. Kept(calls[i].vdcs, calls[Len(calls)].vdcs)
    BY <1>2, <2>1 DEF SettlementInv
  <2> QED BY <1>5, <2>1, <2>2, <2>3
<1>7. ASSUME NEW j \in DOMAIN calls', NEW i \in 1 .. j - 1
      PROVE  Kept(calls'[i].vdcs, calls'[j].vdcs)
  <2>1. j \in 1 .. Len(calls) - 1 /\ i \in 1 .. Len(calls) - 1
    BY <1>2
  <2> QED BY <1>2, <2>1 DEF SettlementInv
<1> QED BY <1>4, <1>6, <1>7 DEF SettlementInv

\* Each step of the specification is one of these.
LEMMA NextInv ==
  ASSUME SettlementAssumption, SettlementInv, [Next]_vars
  PROVE  SettlementInv'
<1>1. TypeOK /\ PaidOnceAsDecided /\ now \in Nat
  BY DEF SettlementInv, TypeOK
<1>2. CASE Call
  BY <1>1, <1>2, CallStep, InvCall
<1>3. CASE PayingCall
  BY <1>1, <1>3, PayingCallStep, InvPay
<1>4. CASE PayeeReturns
  <2>1. World' = World /\ calls # <<>> /\ calls' = Front(calls) /\ now' = now
    BY <1>4 DEF PayeeReturns, World
  <2> QED BY <2>1, InvEnd
<1>5. CASE PayeeReverts
  <2>1. calls # <<>> /\ calls' = Front(calls) /\ now' = now
    BY <1>5 DEF PayeeReverts
  <2>2. calls[Len(calls)] \in Worlds
    BY <1>1, <2>1, FrontOf DEF TypeOK
  <2>3. World' = calls[Len(calls)]
    BY <1>5, <2>2 DEF PayeeReverts, World, Worlds
  <2> QED BY <2>1, <2>3, InvEnd
<1>6. CASE NextBlock
  <2>1. World' = World /\ vdcs' = vdcs /\ calls' = calls /\ now' \in Nat
    BY <1>1, <1>6 DEF NextBlock, World
  <2>2. World' \in Worlds /\ Accounted(World') /\ Kept(vdcs, vdcs')
    BY <1>1, <2>1, KeptReflexive DEF TypeOK, PaidOnceAsDecided
  <2> QED BY <2>1, <2>2, InvCall
<1>7. CASE UNCHANGED vars
  <2>1. World' = World /\ vdcs' = vdcs /\ calls' = calls /\ now' \in Nat
    BY <1>1, <1>7 DEF vars, World
  <2>2. World' \in Worlds /\ Accounted(World') /\ Kept(vdcs, vdcs')
    BY <1>1, <2>1, KeptReflexive DEF TypeOK, PaidOnceAsDecided
  <2> QED BY <2>1, <2>2, InvCall
<1> QED BY <1>2, <1>3, <1>4, <1>5, <1>6, <1>7 DEF Next

\* The inductive invariant holds: every world that is or could be restored is
\* accounted for, and none is ahead of a later one (VDCSettlement.sol, all functions).
THEOREM ContractIsSound == Spec => []SettlementInv
<1>1. Init => SettlementInv
  BY InitInv, SettlementAssumption
<1>2. SettlementInv /\ [Next]_vars => SettlementInv'
  BY NextInv, SettlementAssumption
<1> QED BY <1>1, <1>2, PTL DEF Spec

\* Each value is paid once, to the party its final status names, and to the provider
\* only with a credential, however the payees call back (settlePayment,
\* resolveDispute, refundIfTimedOut).
THEOREM ValueIsPaidOnce == Spec => []PaidOnceAsDecided
<1>1. SettlementInv => PaidOnceAsDecided
  BY DEF SettlementInv
<1> QED BY <1>1, ContractIsSound, PTL
---------------------------------------------------------------------------
\* A step keeps what the committed chain decided.
LEMMA CommittedKept ==
  ASSUME SettlementAssumption, SettlementInv, [Next]_vars
  PROVE  Kept(Committed, Committed')
<1>1. /\ TypeOK /\ PaidOnceAsDecided /\ calls \in Seq(Worlds)
      /\ World.vdcs = vdcs /\ World \in Worlds
  BY DEF SettlementInv, TypeOK, World
<1>2. ASSUME calls' = calls, Kept(vdcs, vdcs')
      PROVE  Kept(Committed, Committed')
  BY <1>2, KeptReflexive DEF Committed
<1>3. ASSUME calls' = Append(calls, World)
      PROVE  Kept(Committed, Committed')
  <2>1. CASE calls = <<>>
    <3>1. calls' # <<>> /\ calls'[1] = World
      BY <1>1, <1>3, <2>1
    <3> QED BY <1>1, <2>1, <3>1, KeptReflexive DEF Committed
  <2>2. CASE calls # <<>>
    <3>1. calls' # <<>> /\ calls'[1] = calls[1]
      BY <1>1, <1>3, <2>2
    <3> QED BY <2>2, <3>1, KeptReflexive DEF Committed
  <2> QED BY <2>1, <2>2
<1>4. ASSUME calls # <<>>, calls' = Front(calls),
             vdcs' = vdcs \/ vdcs' = calls[Len(calls)].vdcs
      PROVE  Kept(Committed, Committed')
  <2>1. /\ Len(calls) \in Nat \ {0} /\ calls' \in Seq(Worlds)
        /\ Len(calls') = Len(calls) - 1
        /\ \A i \in 1 .. Len(calls) - 1 : calls'[i] = calls[i]
    BY <1>1, <1>4, FrontOf
  <2>2. CASE Len(calls) = 1
    <3>1. calls' = <<>>
      BY <2>1, <2>2
    <3>2. 1 \in DOMAIN calls
      BY <1>1, <2>2
    <3>3. Kept(calls[1].vdcs, vdcs) /\ Kept(calls[1].vdcs, calls[1].vdcs)
      BY <3>2, KeptReflexive DEF SettlementInv
    <3> QED BY <1>4, <2>2, <3>1, <3>3 DEF Committed
  <2>3. CASE Len(calls) # 1
    <3>1. calls' # <<>> /\ calls'[1] = calls[1]
      BY <2>1, <2>3
    <3> QED BY <1>4, <3>1, KeptReflexive DEF Committed
  <2> QED BY <2>2, <2>3
<1>5. CASE Call
  BY <1>1, <1>2, <1>5, CallStep
<1>6. CASE PayingCall
  BY <1>1, <1>3, <1>6, PayingCallStep
<1>7. CASE PayeeReturns
  BY <1>4, <1>7 DEF PayeeReturns
<1>8. CASE PayeeReverts
  BY <1>4, <1>8 DEF PayeeReverts
<1>9. CASE NextBlock
  BY <1>2, <1>9, KeptReflexive DEF NextBlock
<1>10. CASE UNCHANGED vars
  BY <1>2, <1>10, KeptReflexive DEF vars
<1> QED BY <1>5, <1>6, <1>7, <1>8, <1>9, <1>10 DEF Next

\* What the chain settled or refunded it never touches again, whatever is nested in a
\* payment and whatever fails (the order of statements in the paying functions).
THEOREM DecisionsAreFinal == Spec => DecidedForGood
<1>1. SettlementInv /\ [Next]_vars => [Kept(Committed, Committed')]_vars
  BY CommittedKept, SettlementAssumption
<1> QED BY <1>1, ContractIsSound, PTL DEF Spec, DecidedForGood
---------------------------------------------------------------------------
(* Sums.                                                                   *)

\* Every slice has as many units as it counts.
LEMMA SliceSize ==
  ASSUME NEW x, NEW n \in Nat
  PROVE  IsFiniteSet(Slice(x, n)) /\ Cardinality(Slice(x, n)) = n
<1> DEFINE g == [k \in 1 .. n |-> <<x, k>>]
<1>1. g \in [1 .. n -> Slice(x, n)]
  BY DEF Slice
<1>2. \A t \in Slice(x, n) : \E k \in 1 .. n : g[k] = t
  BY DEF Slice
<1>3. g \in Surjection(1 .. n, Slice(x, n))
  BY <1>1, <1>2 DEF Surjection
<1>4. g \in Injection(1 .. n, Slice(x, n))
  BY <1>1 DEF Injection, IsInjective
<1>5. ExistsBijection(1 .. n, Slice(x, n))
  BY <1>3, <1>4 DEF ExistsBijection, Bijection
<1>6. IsFiniteSet(1 .. n)
  BY FS_Interval
<1> QED
  BY <1>5, <1>6, FS_Bijection, FS_CountingElements

\* The units of finitely many amounts are finitely many.
LEMMA UnitsFinite ==
  ASSUME NEW S, IsFiniteSet(S), NEW f \in [S -> Nat]
  PROVE  IsFiniteSet(Units(f))
<1> DEFINE F == {Slice(x, f[x]) : x \in S}
           g == [x \in S |-> Slice(x, f[x])]
<1>1. g \in Surjection(S, F)
  BY DEF Surjection
<1>2. IsFiniteSet(F)
  BY <1>1, FS_Surjection
<1>3. \A T \in F : IsFiniteSet(T)
  BY SliceSize
<1>4. Units(f) = UNION F
  BY DEF Units
<1> HIDE DEF F
<1> QED
  BY <1>2, <1>3, <1>4, FS_UNION

\* A sum is one of its amounts and the rest, and the rest does not depend on it.
LEMMA TotalSplits ==
  ASSUME NEW S, IsFiniteSet(S), NEW f \in [S -> Nat], NEW x \in S
  PROVE  LET rest == Cardinality(UNION {Slice(y, f[y]) : y \in S \ {x}}) IN
         Total(f) \in Nat /\ rest \in Nat /\ Total(f) = rest + f[x]
<1> DEFINE R == UNION {Slice(y, f[y]) : y \in S \ {x}}
           X == Slice(x, f[x])
<1>1. IsFiniteSet(Units(f)) /\ f[x] \in Nat /\ DOMAIN f = S
  BY UnitsFinite
<1>2. Units(f) = R \cup X
  BY <1>1 DEF Units
<1>3. IsFiniteSet(X) /\ Cardinality(X) = f[x]
  BY <1>1, SliceSize
<1>4. R \cap X = {}
  BY DEF Slice
<1> HIDE DEF R, X
<1>5. IsFiniteSet(R) /\ Cardinality(R) \in Nat
  BY <1>1, <1>2, FS_Subset, FS_CardinalityType
<1>6. Cardinality(R \cup X) = Cardinality(R) + f[x]
  BY <1>1, <1>3, <1>4, <1>5, FS_Union, FS_EmptySet
<1>7. Total(f) = Cardinality(R) + f[x] /\ Total(f) \in Nat
  BY <1>1, <1>2, <1>5, <1>6 DEF Total
<1> QED
  BY <1>5, <1>7 DEF R

\* One amount that changes changes the sum by as much.
LEMMA TotalChanges ==
  ASSUME NEW S, IsFiniteSet(S), NEW f \in [S -> Nat], NEW x \in S, NEW g \in [S -> Nat],
         \A y \in S \ {x} : g[y] = f[y]
  PROVE  /\ Total(f) \in Nat /\ Total(g) \in Nat /\ f[x] \in Nat /\ g[x] \in Nat
         /\ f[x] <= Total(f)
         /\ Total(g) + f[x] = Total(f) + g[x]
<1> DEFINE R == Cardinality(UNION {Slice(y, f[y]) : y \in S \ {x}})
<1>1. {Slice(y, f[y]) : y \in S \ {x}} = {Slice(y, g[y]) : y \in S \ {x}}
  OBVIOUS
<1>2. Total(f) \in Nat /\ R \in Nat /\ Total(f) = R + f[x]
  BY TotalSplits
<1>3. Total(g) \in Nat /\ Total(g) = R + g[x]
  BY <1>1, TotalSplits
<1>4. f[x] \in Nat /\ g[x] \in Nat
  OBVIOUS
<1> HIDE DEF R
<1> QED
  BY <1>2, <1>3, <1>4

\* A sum of nothing is nothing.
LEMMA TotalOfNothing ==
  ASSUME NEW S
  PROVE  Total([x \in S |-> 0]) = 0
<1>1. Units([x \in S |-> 0]) = {}
  BY DEF Units, Slice
<1> QED
  BY <1>1, FS_EmptySet DEF Total
---------------------------------------------------------------------------
(* The contract is solvent.                                                *)

\* What is owed in a world, record by record.
LEMMA OwedFacts ==
  ASSUME NEW w \in Worlds
  PROVE  /\ Owed(w) \in [Exchange -> Nat]
         /\ \A x \in Exchange : Owed(w)[x] = w.vdcs[x].amount
         /\ w.balance \in Nat
<1>1. \A x \in Exchange : w.vdcs[x].amount \in Nat
  BY DEF Worlds, VDCRecord
<1> QED
  BY <1>1 DEF Owed, Worlds

\* From one world to one that owes another amount for one exchange, and holds as much
\* more or less.
LEMMA OneDebt ==
  ASSUME NEW v \in Worlds, NEW w \in Worlds, Covered(v), NEW x \in Exchange,
         \A y \in Exchange \ {x} : w.vdcs[y].amount = v.vdcs[y].amount,
         w.balance + v.vdcs[x].amount = v.balance + w.vdcs[x].amount
  PROVE  Covered(w)
<1> DEFINE f == Owed(v)
           g == Owed(w)
<1>1. /\ f \in [Exchange -> Nat] /\ f[x] = v.vdcs[x].amount /\ v.balance = Total(f)
      /\ g \in [Exchange -> Nat] /\ g[x] = w.vdcs[x].amount /\ w.balance \in Nat
      /\ \A y \in Exchange \ {x} : g[y] = f[y]
  BY OwedFacts DEF Covered
<1> HIDE DEF f, g
<1>2. /\ Total(f) \in Nat /\ Total(g) \in Nat /\ f[x] \in Nat /\ g[x] \in Nat
      /\ Total(g) + f[x] = Total(f) + g[x]
  BY <1>1, TotalChanges, SettlementAssumption
<1>3. w.balance + f[x] = Total(f) + g[x]
  BY <1>1
<1>4. w.balance = Total(g)
  <2> DEFINE a == w.balance
             b == Total(g)
             c == f[x]
             d == Total(f)
             e == g[x]
  <2>1. a \in Nat /\ b \in Nat /\ c \in Nat /\ d \in Nat /\ e \in Nat
    BY <1>1, <1>2
  <2>2. a + c = d + e /\ b + c = d + e
    BY <1>2, <1>3
  <2> HIDE DEF a, b, c, d, e
  <2>3. a = b
    BY <2>1, <2>2
  <2> QED
    BY <2>3 DEF a, b
<1> QED
  BY <1>4 DEF Covered, g

\* Nothing that the contract owes is more than it holds.
LEMMA DebtIsHeld ==
  ASSUME NEW w \in Worlds, Covered(w), NEW x \in Exchange
  PROVE  w.vdcs[x].amount <= w.balance
<1> DEFINE f == Owed(w)
<1>1. f \in [Exchange -> Nat] /\ f[x] = w.vdcs[x].amount /\ w.balance = Total(f)
  BY OwedFacts DEF Covered
<1> HIDE DEF f
<1>2. f[x] <= Total(f)
  BY <1>1, TotalChanges, SettlementAssumption
<1> QED
  BY <1>1, <1>2

\* The entry points that run no foreign code hold what they owe.
LEMMA CallCovers ==
  ASSUME SettlementInv, Solvent, World' \in Worlds, Call
  PROVE  Solvent'
<1>1. World \in Worlds /\ Covered(World) /\ PaidOnceAsDecided /\ TypeOK
  BY DEF SettlementInv, TypeOK, Solvent
<1>2. /\ World.vdcs = vdcs /\ World'.vdcs = vdcs' /\ World.balance = balance
      /\ World'.balance = balance'
  BY DEF World
<1>3. \A x \in Exchange : vdcs[x].amount \in Nat
  BY <1>1, Typed
<1>4. balance \in Nat /\ vdcs \in [Exchange -> VDCRecord]
  BY <1>1 DEF World, Worlds
<1>5. ASSUME NEW x \in Exchange, NEW r, r.amount = vdcs[x].amount,
             vdcs' = [vdcs EXCEPT ![x] = r], balance' = balance
      PROVE  Solvent'
  <2>1. \A y \in Exchange : vdcs'[y].amount = vdcs[y].amount
    BY <1>4, <1>5
  <2>2. balance' + vdcs[x].amount = balance + vdcs'[x].amount
    BY <1>3, <1>4, <1>5, <2>1
  <2>3. Covered(World')
    BY <1>1, <1>2, <2>1, <2>2, OneDebt
  <2> QED
    BY <2>3 DEF Solvent
<1>6. ASSUME NEW sender \in Account, NEW v \in Verifier, NEW trusted \in BOOLEAN,
             SetTrustedVerifier(sender, v, trusted)
      PROVE  Solvent'
  <2>1. vdcs' = vdcs /\ balance' = balance
    BY <1>6 DEF SetTrustedVerifier
  <2> QED
    BY <1>1, <1>2, <2>1 DEF Solvent, Covered, Owed
<1>7. ASSUME NEW sender \in Account, NEW x \in Exchange, NEW provider \in Account,
             NEW value \in 0 .. MaxAmount, NEW d \in Deadline, NEW e \in Deadline,
             CreateVDC(x, sender, provider, value, d, e)
      PROVE  Solvent'
  <2> DEFINE r == Funded(sender, provider, value, d, e)
  <2>1. /\ vdcs[x].status = "None" /\ vdcs' = [vdcs EXCEPT ![x] = r]
        /\ balance' = balance + value
    BY <1>7 DEF CreateVDC
  <2>2. r.amount = value
    BY DEF Funded, NoRecord
  <2>3. vdcs[x].amount = 0
    <3>1. /\ moved[x].put = 0
          /\ moved[x].put = vdcs[x].amount + moved[x].client + moved[x].provider
      BY <1>1, <2>1 DEF PaidOnceAsDecided, Accounted, World
    <3>2. /\ vdcs[x].amount \in Nat /\ moved[x].client \in Nat
          /\ moved[x].provider \in Nat
      BY <1>1, Typed
    <3>3. 0 = vdcs[x].amount + moved[x].client + moved[x].provider
      BY <3>1, Zenon
    <3> QED
      BY <3>2, <3>3, NothingLeft, Zenon
  <2> HIDE DEF r
  <2>4. vdcs'[x].amount = value /\ \A y \in Exchange \ {x} : vdcs'[y].amount = vdcs[y].amount
    BY <1>4, <2>1, <2>2
  <2>5. value \in Nat
    BY SettlementAssumption
  <2>6. balance' + vdcs[x].amount = balance + vdcs'[x].amount
    BY <1>4, <2>1, <2>3, <2>4, <2>5
  <2>7. Covered(World')
    BY <1>1, <1>2, <2>4, <2>6, OneDebt
  <2> QED
    BY <2>7 DEF Solvent
<1>8. ASSUME NEW sender \in Account, NEW x \in Exchange, NEW credential \in Credential,
             NEW v \in Verifier, FulfillVDCWithProof(x, sender, credential, v)
      PROVE  Solvent'
  <2> DEFINE r == [vdcs[x] EXCEPT !.credentialId = credential, !.verifier = v,
                                  !.status = "Fulfilled"]
  <2>1. r.amount = vdcs[x].amount
    BY <1>4 DEF VDCRecord
  <2>2. vdcs' = [vdcs EXCEPT ![x] = r] /\ balance' = balance
    BY <1>8 DEF FulfillVDCWithProof
  <2> HIDE DEF r
  <2> QED
    BY <1>5, <2>1, <2>2
<1>9. ASSUME NEW sender \in Account, NEW x \in Exchange, InitiateDispute(x, sender)
      PROVE  Solvent'
  <2> DEFINE r == [vdcs[x] EXCEPT !.status = "Disputed"]
  <2>1. r.amount = vdcs[x].amount
    BY <1>4 DEF VDCRecord
  <2>2. vdcs' = [vdcs EXCEPT ![x] = r] /\ balance' = balance
    BY <1>9 DEF InitiateDispute
  <2> HIDE DEF r
  <2> QED
    BY <1>5, <2>1, <2>2
<1> QED
  BY <1>6, <1>7, <1>8, <1>9 DEF Call

\* A payment takes from the balance what it takes from the debts.
LEMMA PayCovers ==
  ASSUME SettlementInv, Solvent, World' \in Worlds, PayingCall
  PROVE  Solvent'
<1>1. World \in Worlds /\ Covered(World) /\ TypeOK
  BY DEF SettlementInv, TypeOK, Solvent
<1>2. /\ World.vdcs = vdcs /\ World'.vdcs = vdcs' /\ World.balance = balance
      /\ World'.balance = balance'
  BY DEF World
<1>3. balance \in Nat /\ vdcs \in [Exchange -> VDCRecord]
  BY <1>1 DEF World, Worlds
<1>4. ASSUME NEW x \in Exchange, NEW status, NEW party, Pay(x, status, party)
      PROVE  Solvent'
  <2> DEFINE r == Closed(vdcs[x], status)
             a == vdcs[x].amount
  <2>1. /\ vdcs' = [vdcs EXCEPT ![x] = r] /\ balance' = balance - a /\ a <= balance
    BY <1>4 DEF Pay
  <2>2. r.amount = 0 /\ a \in Nat
    BY <1>1, <1>3, Typed DEF Closed, VDCRecord
  <2> HIDE DEF r
  <2>3. vdcs'[x].amount = 0 /\ \A y \in Exchange \ {x} : vdcs'[y].amount = vdcs[y].amount
    BY <1>3, <2>1, <2>2
  <2> HIDE DEF a
  <2>4. balance' + a = balance + 0
    BY <1>3, <2>1, <2>2
  <2>5. Covered(World')
    BY <1>1, <1>2, <2>3, <2>4, OneDebt DEF a
  <2> QED
    BY <2>5 DEF Solvent
<1> QED
  BY <1>4 DEF PayingCall, RefundIfTimedOut, SettlePayment, ResolveDispute

\* At every moment, in the middle of a payment too and after a call that failed, the
\* contract holds exactly what it owes, for any exchanges and any nesting of calls.
THEOREM ContractIsSolvent == Spec => []SolvencyInv
<1>1. Init => SolvencyInv
  <2>1. SUFFICES ASSUME Init PROVE SolvencyInv
    OBVIOUS
  <2>2. SettlementInv
    BY <2>1, InitInv, SettlementAssumption
  <2>3. Owed(World) = [x \in Exchange |-> 0]
    BY <2>1 DEF Init, Owed, World, NoRecord
  <2>4. Solvent
    BY <2>1, <2>3, TotalOfNothing DEF Solvent, Covered, World, Init
  <2>5. DOMAIN calls = {}
    BY <2>1 DEF Init
  <2> QED
    BY <2>2, <2>4, <2>5 DEF SolvencyInv
<1>2. SolvencyInv /\ [Next]_vars => SolvencyInv'
  <2>1. SUFFICES ASSUME SolvencyInv, [Next]_vars PROVE SolvencyInv'
    OBVIOUS
  <2>2. SettlementInv /\ SettlementInv' /\ Solvent /\ \A i \in DOMAIN calls : Covered(calls[i])
    BY <2>1, NextInv, SettlementAssumption DEF SolvencyInv
  <2>3. /\ TypeOK /\ PaidOnceAsDecided /\ World' \in Worlds /\ calls \in Seq(Worlds)
    BY <2>2 DEF SettlementInv, TypeOK
  <2>4. CASE Call
    <3>1. calls' = calls /\ Solvent'
      BY <2>2, <2>3, <2>4, CallCovers, CallStep, SettlementAssumption
    <3> QED
      BY <2>2, <3>1 DEF SolvencyInv
  <2>5. CASE PayingCall
    <3>1. calls' = Append(calls, World) /\ Solvent'
      BY <2>2, <2>3, <2>5, PayCovers, PayingCallStep
    <3>2. World \in Worlds /\ Covered(World)
      BY <2>2, <2>3 DEF TypeOK, Solvent
    <3>3. \A i \in DOMAIN calls' : calls'[i] = World \/ (i \in DOMAIN calls /\ calls'[i] = calls[i])
      <4>1. /\ DOMAIN calls' = 1 .. Len(calls) + 1 /\ calls'[Len(calls) + 1] = World
            /\ \A i \in 1 .. Len(calls) : calls'[i] = calls[i] /\ i \in DOMAIN calls
            /\ Len(calls) \in Nat
        BY <2>3, <3>1, <3>2
      <4> QED
        BY <4>1
    <3>4. \A i \in DOMAIN calls' : Covered(calls'[i])
      BY <2>2, <3>2, <3>3
    <3> QED
      BY <2>2, <3>1, <3>4 DEF SolvencyInv
  <2>6. ASSUME calls # <<>>, calls' = Front(calls), World' = World \/ World' = calls[Len(calls)]
        PROVE  SolvencyInv'
    <3>1. /\ Len(calls) \in DOMAIN calls
          /\ \A i \in DOMAIN calls' : i \in DOMAIN calls /\ calls'[i] = calls[i]
      BY <2>3, <2>6, FrontOf
    <3>2. Covered(World')
      BY <2>2, <2>6, <3>1 DEF Solvent
    <3> QED
      BY <2>2, <3>1, <3>2 DEF SolvencyInv, Solvent
  <2>7. CASE PayeeReturns
    BY <2>6, <2>7 DEF PayeeReturns, World
  <2>8. CASE PayeeReverts
    <3>1. calls # <<>> /\ calls' = Front(calls)
      BY <2>8 DEF PayeeReverts
    <3>2. calls[Len(calls)] \in Worlds
      BY <2>3, <3>1, FrontOf
    <3>3. World' = calls[Len(calls)]
      BY <2>8, <3>2 DEF PayeeReverts, World, Worlds
    <3> QED
      BY <2>6, <3>1, <3>3
  <2>9. CASE NextBlock \/ UNCHANGED vars
    <3>1. World' = World /\ calls' = calls
      BY <2>9 DEF NextBlock, vars, World
    <3> QED
      BY <2>2, <3>1 DEF SolvencyInv, Solvent
  <2> QED
    BY <2>1, <2>4, <2>5, <2>7, <2>8, <2>9 DEF Next
<1> QED
  BY <1>1, <1>2, PTL DEF Spec

\* The balance never differs from the sum of what is owed (VDCSettlement.sol, all functions).
THEOREM AlwaysSolvent == Spec => []Solvent
<1>1. SolvencyInv => Solvent
  BY DEF SolvencyInv
<1> QED
  BY <1>1, ContractIsSolvent, PTL

\* So no payment ever fails for want of money: what one record holds, no other can take.
EveryDebtIsHeld == \A x \in Exchange : vdcs[x].amount <= balance

THEOREM DebtsAreHeld == Spec => []EveryDebtIsHeld
<1>1. SolvencyInv => EveryDebtIsHeld
  <2>1. SolvencyInv => World \in Worlds /\ Covered(World)
    BY DEF SolvencyInv, SettlementInv, TypeOK, Solvent
  <2>2. World.vdcs = vdcs /\ World.balance = balance
    BY DEF World
  <2> QED
    BY <2>1, <2>2, DebtIsHeld DEF EveryDebtIsHeld
<1> QED
  BY <1>1, ContractIsSolvent, PTL
---------------------------------------------------------------------------
(* The wallet.                                                             *)

\* The addresses of a chain are finitely many, and the agents' are no escrow's.
LEMMA AddressFacts ==
  /\ IsFiniteSet(Address)
  /\ {"client", "provider", "treasury"} \subseteq Address /\ Hold \subseteq Address
  /\ \A h \in Hold : h # "client" /\ h # "provider" /\ h # "treasury"
<1>1. IsFiniteSet({"client", "provider", "treasury"})
  <2>1. IsFiniteSet({} \cup {"client"})
    BY FS_EmptySet, FS_AddElement
  <2>2. IsFiniteSet(({} \cup {"client"}) \cup {"provider"})
    BY <2>1, FS_AddElement
  <2>3. IsFiniteSet((({} \cup {"client"}) \cup {"provider"}) \cup {"treasury"})
    BY <2>2, FS_AddElement
  <2>4. (({} \cup {"client"}) \cup {"provider"}) \cup {"treasury"} = {"client", "provider", "treasury"}
    OBVIOUS
  <2> QED
    BY <2>3, <2>4
<1>2. IsFiniteSet(Hold)
  BY WalletAssumption
<1>3. IsFiniteSet({"client", "provider", "treasury"} \cup Hold)
  BY <1>1, <1>2, FS_Union
<1> QED
  BY <1>3, WalletAssumption DEF Address

\* A transfer makes and loses nothing, and concerns two addresses.
LEMMA MoneyMoves ==
  ASSUME bal \in [Address -> Nat], NEW from \in Address, NEW to \in Address, from # to,
         NEW n \in Nat, Covers(from, n), Moved(from, to, n)
  PROVE  /\ bal' \in [Address -> Nat] /\ Total(bal') = Total(bal)
         /\ bal'[from] = bal[from] - n /\ bal'[to] = bal[to] + n
         /\ \A a \in Address \ {from, to} : bal'[a] = bal[a]
<1> DEFINE g == [bal EXCEPT ![from] = bal[from] - n]
<1>1. bal[from] \in Nat /\ bal[to] \in Nat /\ bal[from] - n \in Nat /\ bal[to] + n \in Nat
  BY DEF Covers
<1>2. /\ g \in [Address -> Nat] /\ g[from] = bal[from] - n /\ g[to] = bal[to]
      /\ \A a \in Address \ {from} : g[a] = bal[a]
  BY <1>1
<1>3. /\ bal' \in [Address -> Nat] /\ bal'[from] = bal[from] - n /\ bal'[to] = bal[to] + n
      /\ \A a \in Address \ {from, to} : bal'[a] = bal[a]
  BY <1>1 DEF Moved
<1>4. \A a \in Address \ {to} : bal'[a] = g[a]
  BY <1>2, <1>3
<1> HIDE DEF g
<1>5. /\ Total(bal) \in Nat /\ Total(g) \in Nat
      /\ Total(g) + bal[from] = Total(bal) + g[from]
  BY <1>2, AddressFacts, TotalChanges
<1>6. /\ Total(bal') \in Nat
      /\ Total(bal') + g[to] = Total(g) + bal'[to]
  BY <1>2, <1>3, <1>4, AddressFacts, TotalChanges
<1>7. Total(g) + n = Total(bal)
  BY <1>1, <1>2, <1>5
<1>8. Total(bal') = Total(g) + n
  <2> DEFINE a == Total(bal')
             b == bal[to]
             c == Total(g)
  <2>1. a \in Nat /\ b \in Nat /\ c \in Nat
    BY <1>1, <1>5, <1>6
  <2>2. a + b = c + (b + n)
    BY <1>2, <1>3, <1>6, Zenon
  <2> HIDE DEF a, b, c
  <2>3. a = c + n
    BY <2>1, <2>2
  <2> QED
    BY <2>3 DEF a, c
<1> QED
  BY <1>3, <1>7, <1>8

\* The escrows do not notice what the agents pay each other.
LEMMA AgentsPay ==
  ASSUME WalletTypeOK, LedgerIsConserved, HoldsAreBacked,
         NEW from \in {"client", "provider", "treasury"}, NEW to \in {"client", "provider", "treasury"},
         from # to, NEW n \in Nat, Covers(from, n), Moved(from, to, n),
         UNCHANGED <<hold, seeded>>
  PROVE  bal' \in [Address -> Nat] /\ LedgerIsConserved' /\ HoldsAreBacked'
<1>1. /\ bal' \in [Address -> Nat] /\ Total(bal') = Total(bal)
      /\ \A a \in Address \ {from, to} : bal'[a] = bal[a]
  BY AddressFacts, MoneyMoves DEF WalletTypeOK
<1>2. \A h \in Hold : bal'[h] = bal[h]
  BY <1>1, AddressFacts
<1> QED
  BY <1>1, <1>2 DEF LedgerIsConserved, HoldsAreBacked

\* Fees are whole numbers.
LEMMA FeesAreWhole ==
  ASSUME WalletTypeOK
  PROVE  /\ \A gas \in Nat : FeeOf(gas) \in Nat
         /\ \A i \in Nat : GasAt(i) \in Nat
<1>1. GasRate \in Nat /\ Gas \in Nat
  BY WalletAssumption
<1>2. \A a \in Nat, b \in Nat : a * b \in Nat
  OBVIOUS
<1>3. \A a \in Nat : a \div 4 \in Nat
  OBVIOUS
<1>4. \A i \in Nat : Quarters(i) \in Nat
  BY DEF Quarters, WalletTypeOK
<1>5. \A i \in Nat : Gas * Quarters(i) + 2 \in Nat
  BY <1>1, <1>2, <1>4
<1> QED
  BY <1>1, <1>2, <1>3, <1>5 DEF FeeOf, GasAt

\* The calls of the rail keep the escrows backed.
LEMMA RailKeeps ==
  ASSUME WalletTypeOK, WalletInv,
         \/ \E n \in 1 .. MaxSeed : SeedClient(n)
         \/ \E d \in Deal : BindParties(d)
         \/ \E h \in Hold, d \in Deal : Escrow(h, d)
         \/ \E h \in Hold, target \in {"settled", "refunded"} : Release(h, target)
         \/ Congestion
  PROVE  WalletTypeOK' /\ WalletInv'
<1>0. /\ HeldForDeal /\ ChargedSoFar /\ LedgerIsConserved /\ HoldsAreBacked /\ ChargedOnce
      /\ bal \in [Address -> Nat] /\ hold \in [Hold -> HoldRecord] /\ seeded \in Nat /\ bound \subseteq Deal
      /\ Cost \in [Deal -> Nat] /\ congested \in BOOLEAN
  BY WalletAssumption DEF WalletInv, WalletIsSound, WalletTypeOK
<1>1. UNCHANGED <<spare, op, sponsored>>
  BY DEF SeedClient, BindParties, Escrow, Release, Congestion
<1>2. ChargedSoFar' /\ ChargedOnce'
  BY <1>0, <1>1 DEF ChargedSoFar, ChargedOnce
<1> DEFINE Kept0 == /\ bal' \in [Address -> Nat] /\ hold' \in [Hold -> HoldRecord] /\ seeded' \in Nat
                    /\ bound' \subseteq Deal /\ congested' \in BOOLEAN
                    /\ HeldForDeal' /\ LedgerIsConserved' /\ HoldsAreBacked'
<1>3. ASSUME NEW n \in 1 .. MaxSeed, SeedClient(n) PROVE Kept0
  <2>1. /\ bal' = [bal EXCEPT !["client"] = @ + n] /\ seeded' = seeded + n
        /\ UNCHANGED <<bound, hold, congested>> /\ n \in Nat
    BY <1>3, WalletAssumption DEF SeedClient
  <2>2. /\ bal' \in [Address -> Nat] /\ bal'["client"] = bal["client"] + n
        /\ \A a \in Address \ {"client"} : bal'[a] = bal[a]
    BY <1>0, <2>1, AddressFacts
  <2>3. /\ Total(bal) \in Nat /\ Total(bal') \in Nat /\ bal["client"] \in Nat
        /\ Total(bal') + bal["client"] = Total(bal) + bal'["client"]
    BY <1>0, <2>2, AddressFacts, TotalChanges
  <2>4. Total(bal') = Total(bal) + n
    BY <2>1, <2>2, <2>3
  <2>5. \A h \in Hold : bal'[h] = bal[h]
    BY <2>2, AddressFacts
  <2>6. seeded' \in Nat
    BY <1>0, <2>1
  <2> QED
    BY <1>0, <2>1, <2>2, <2>4, <2>5, <2>6 DEF LedgerIsConserved, HoldsAreBacked, HeldForDeal
<1>4. ASSUME NEW d \in Deal, BindParties(d) PROVE Kept0
  BY <1>0, <1>4 DEF BindParties, LedgerIsConserved, HoldsAreBacked, HeldForDeal
<1>5. ASSUME Congestion PROVE Kept0
  BY <1>0, <1>5 DEF Congestion, LedgerIsConserved, HoldsAreBacked, HeldForDeal
<1>6. ASSUME NEW h \in Hold, NEW d \in Deal, Escrow(h, d) PROVE Kept0
  <2> DEFINE r == [deal |-> d, status |-> "held", backed |-> d \in bound]
  <2>1. /\ hold[h] = NoHold /\ hold' = [hold EXCEPT ![h] = r]
        /\ UNCHANGED <<seeded, congested>> /\ bound' \subseteq Deal
    BY <1>0, <1>6 DEF Escrow, Opened
  <2>2. r \in HoldRecord /\ r.status = "held" /\ r.deal = d /\ (r.backed <=> d \in bound)
    <3>1. (d \in bound) \in BOOLEAN
      OBVIOUS
    <3> DEFINE b == d \in bound
    <3>2. r = [deal |-> d, status |-> "held", backed |-> b] /\ b \in BOOLEAN
      BY <3>1
    <3> HIDE DEF b, r
    <3>3. r \in HoldRecord /\ r.status = "held" /\ r.deal = d /\ r.backed = b
      BY <3>2 DEF HoldRecord
    <3> QED
      BY <3>3 DEF b
  <2>3. bal[h] = 0
    BY <1>0, <2>1 DEF HoldsAreBacked, NoHold
  <2> HIDE DEF r
  <2>4. /\ hold' \in [Hold -> HoldRecord] /\ hold'[h] = r
        /\ \A k \in Hold \ {h} : hold'[k] = hold[k]
    BY <1>0, <2>1, <2>2
  <2>5. HeldForDeal'
    BY <1>0, <2>2, <2>4 DEF HeldForDeal
  <2>6. CASE d \in bound
    <3>1. Covers("client", Cost[d]) /\ Moved("client", h, Cost[d]) /\ Cost[d] \in Nat
      BY <1>0, <1>6, <2>6 DEF Escrow
    <3>2. /\ bal' \in [Address -> Nat] /\ Total(bal') = Total(bal) /\ bal'[h] = bal[h] + Cost[d]
          /\ \A k \in Hold \ {h} : bal'[k] = bal[k]
      BY <1>0, <3>1, AddressFacts, MoneyMoves
    <3>3. bal'[h] = Cost[d]
      BY <2>3, <3>1, <3>2
    <3> QED
      BY <1>0, <2>1, <2>2, <2>4, <2>5, <2>6, <3>2, <3>3 DEF LedgerIsConserved, HoldsAreBacked
  <2>7. CASE d \notin bound
    <3>1. bal' = bal
      BY <1>6, <2>7 DEF Escrow
    <3> QED
      BY <1>0, <2>1, <2>2, <2>3, <2>4, <2>5, <2>7, <3>1 DEF LedgerIsConserved, HoldsAreBacked
  <2> QED
    BY <2>6, <2>7
<1>7. ASSUME NEW h \in Hold, NEW target \in {"settled", "refunded"}, Release(h, target) PROVE Kept0
  <2> DEFINE n == Cost[hold[h].deal]
             to == IF target = "settled" THEN "provider" ELSE "client"
             r == [hold[h] EXCEPT !.status = target]
  <2>1. /\ hold[h].status = "held" /\ hold' = [hold EXCEPT ![h] = r]
        /\ UNCHANGED <<seeded, bound, congested>>
        /\ IF hold[h].backed THEN Covers(h, n) /\ Moved(h, to, n) ELSE UNCHANGED bal
    BY <1>7 DEF Release
  <2>2. r \in HoldRecord /\ r.status = target /\ r.deal = hold[h].deal /\ hold[h].deal \in Deal
    BY <1>0, <2>1 DEF HoldRecord, HeldForDeal
  <2>3. n \in Nat /\ to \in {"client", "provider"}
    BY <1>0, <2>2
  <2> HIDE DEF r, n, to
  <2>4. /\ hold' \in [Hold -> HoldRecord] /\ hold'[h] = r
        /\ \A k \in Hold \ {h} : hold'[k] = hold[k]
    BY <1>0, <2>1, <2>2
  <2>5. HeldForDeal'
    BY <1>0, <2>2, <2>4 DEF HeldForDeal
  <2>6. CASE hold[h].backed
    <3>1. bal[h] = n
      BY <1>0, <2>1, <2>6 DEF HoldsAreBacked, n
    <3>2. /\ bal' \in [Address -> Nat] /\ Total(bal') = Total(bal) /\ bal'[h] = bal[h] - n
          /\ \A k \in Hold \ {h} : bal'[k] = bal[k]
      BY <1>0, <2>1, <2>3, <2>6, AddressFacts, MoneyMoves
    <3>3. bal'[h] = 0
      BY <2>3, <3>1, <3>2
    <3> QED
      BY <1>0, <2>1, <2>2, <2>4, <2>5, <3>2, <3>3 DEF LedgerIsConserved, HoldsAreBacked
  <2>7. CASE ~hold[h].backed
    <3>1. bal' = bal /\ bal[h] = 0
      BY <1>0, <2>1, <2>7 DEF HoldsAreBacked
    <3> QED
      BY <1>0, <2>1, <2>2, <2>4, <2>5, <3>1 DEF LedgerIsConserved, HoldsAreBacked
  <2> QED
    BY <2>6, <2>7
<1>8. Kept0
  BY <1>3, <1>4, <1>5, <1>6, <1>7
<1> QED
  BY <1>1, <1>2, <1>8 DEF WalletTypeOK, WalletInv, WalletIsSound

\* A sponsored operation charges once.
LEMMA SponsorKeeps ==
  ASSUME WalletTypeOK, WalletInv,
         \/ \E n \in 1 .. MaxSeed : TransferWithPaymaster(n)
         \/ \E force \in BOOLEAN : SponsorResilient(force)
         \/ TryPrimary \/ PrimaryRaises \/ Fallback \/ ChargeFee \/ Transfer
  PROVE  WalletTypeOK' /\ WalletInv'
<1> DEFINE Steps == {"none", "primary", "fallback", "sponsor", "transfer", "receipt", "raised"}
           Op == [at : Steps, try : Nat, force : BOOLEAN, gas : Nat, charges : Nat, moved : Nat]
<1>0. /\ HeldForDeal /\ ChargedSoFar /\ LedgerIsConserved /\ HoldsAreBacked /\ ChargedOnce
      /\ bal \in [Address -> Nat] /\ op \in Op /\ sponsored \in Nat /\ spare \in Nat
      /\ hold \in [Hold -> HoldRecord] /\ seeded \in Nat /\ bound \subseteq Deal /\ congested \in BOOLEAN
  BY DEF WalletInv, WalletIsSound, WalletTypeOK
<1>1. UNCHANGED <<seeded, bound, hold, congested>>
  BY DEF TransferWithPaymaster, SponsorResilient, TryPrimary, PrimaryRaises, Fallback, ChargeFee, Transfer
<1>2. HeldForDeal'
  BY <1>0, <1>1 DEF HeldForDeal
<1>3. bal' = bal => bal' \in [Address -> Nat] /\ LedgerIsConserved' /\ HoldsAreBacked'
  BY <1>0, <1>1 DEF LedgerIsConserved, HoldsAreBacked
<1>4. ASSUME NEW fee \in Nat, Sponsor(fee)
      PROVE  bal' \in [Address -> Nat] /\ LedgerIsConserved' /\ HoldsAreBacked'
  BY <1>0, <1>1, <1>4, AgentsPay DEF Sponsor
<1> DEFINE Money == bal' \in [Address -> Nat] /\ LedgerIsConserved' /\ HoldsAreBacked'
           Rest == op' \in Op /\ ChargedSoFar' /\ sponsored' \in Nat /\ spare' \in Nat
<1>5. ASSUME NEW n \in 1 .. MaxSeed, TransferWithPaymaster(n) PROVE Money /\ Rest
  <2>1. PICK gas \in Estimates : op' = [NoOp EXCEPT !.at = "sponsor", !.gas = gas, !.moved = n]
    BY <1>5 DEF TransferWithPaymaster
  <2>2. op' = [at |-> "sponsor", try |-> 0, force |-> FALSE, gas |-> gas, charges |-> 0, moved |-> n]
    BY <2>1 DEF NoOp
  <2>3. gas \in Nat /\ n \in Nat
    BY WalletAssumption DEF Estimates
  <2>4. op' \in Op /\ ChargedSoFar'
    BY <2>2, <2>3 DEF ChargedSoFar
  <2>5. UNCHANGED <<bal, spare>> /\ sponsored' = sponsored + 1
    BY <1>5 DEF TransferWithPaymaster
  <2> QED
    BY <1>0, <1>3, <2>4, <2>5
<1>6. ASSUME NEW force \in BOOLEAN, SponsorResilient(force) PROVE Money /\ Rest
  <2>1. /\ op' = [at |-> "primary", try |-> 0, force |-> force, gas |-> 0, charges |-> 0, moved |-> 0]
        /\ UNCHANGED <<bal, spare>> /\ sponsored' = sponsored + 1
    BY <1>6 DEF SponsorResilient, NoOp
  <2>2. op' \in Op /\ ChargedSoFar'
    BY <2>1 DEF ChargedSoFar
  <2> QED
    BY <1>0, <1>3, <2>1, <2>2
<1>7. ASSUME NEW next \in Steps, Charged(next)
      PROVE  /\ op' \in Op /\ op'.at = next /\ op'.charges = op.charges + 1
             /\ op'.try = op.try /\ op'.moved = op.moved
  <2> DEFINE c == op.charges + 1
  <2>1. op.charges \in Nat /\ c \in Nat
    BY <1>0
  <2>2. op' = [op EXCEPT !.at = next, !.charges = c]
    BY <1>7 DEF Charged
  <2> HIDE DEF c
  <2>3. /\ op' \in Op /\ op'.at = next /\ op'.charges = c
        /\ op'.try = op.try /\ op'.moved = op.moved
    BY <1>0, <1>7, <2>1, <2>2
  <2> QED
    BY <2>3 DEF c
<1>8. ASSUME TryPrimary PROVE Money /\ Rest
  <2>1. /\ op.at = "primary" /\ Sponsor(FeeOf(GasAt(op.try))) /\ Charged("receipt")
        /\ UNCHANGED <<spare, sponsored>>
    BY <1>8 DEF TryPrimary, SponsorUserOp
  <2>2. FeeOf(GasAt(op.try)) \in Nat
    BY <1>0, FeesAreWhole
  <2>3. op' \in Op /\ op'.at = "receipt" /\ op'.charges = 1
    BY <1>0, <1>7, <2>1 DEF ChargedSoFar
  <2>4. ChargedSoFar'
    BY <2>3 DEF ChargedSoFar
  <2> QED
    BY <1>0, <1>4, <2>1, <2>2, <2>3, <2>4
<1>9. ASSUME PrimaryRaises PROVE Money /\ Rest
  <2>1. /\ op.at = "primary" /\ UNCHANGED <<bal, spare, sponsored>>
        /\ op' = [op EXCEPT !.try = @ + 1, !.at = IF op.try + 1 = MaxBumps THEN "fallback" ELSE "primary"]
    BY <1>9 DEF PrimaryRaises
  <2>2. /\ op' \in Op /\ op'.at \in {"primary", "fallback"} /\ op'.charges = op.charges
        /\ op'.moved = op.moved
    <3> DEFINE t == op.try + 1
               next == IF t = MaxBumps THEN "fallback" ELSE "primary"
    <3>1. op.try \in Nat /\ t \in Nat /\ next \in {"primary", "fallback"}
      BY <1>0
    <3>2. op' = [op EXCEPT !.try = t, !.at = next]
      BY <2>1
    <3> HIDE DEF t, next
    <3> QED
      BY <1>0, <3>1, <3>2
  <2>3. ChargedSoFar'
    BY <1>0, <2>1, <2>2 DEF ChargedSoFar
  <2> QED
    BY <1>0, <1>3, <2>1, <2>2, <2>3
<1>10. ASSUME Fallback PROVE Money /\ Rest
  <2>1. op.at = "fallback" /\ UNCHANGED <<bal, sponsored>> /\ op.charges = 0 /\ op.moved = 0
    BY <1>0, <1>10 DEF Fallback, ChargedSoFar
  <2>2. CASE FeePayerPays /\ Charged("receipt")
    <3>1. op' \in Op /\ op'.at = "receipt" /\ op'.charges = 1
      BY <1>7, <2>1, <2>2
    <3>2. spare' \in Nat
      BY <1>0, <2>2, WalletAssumption DEF FeePayerPays
    <3>3. ChargedSoFar'
      BY <3>1 DEF ChargedSoFar
    <3> QED
      BY <1>0, <1>3, <2>1, <3>1, <3>2, <3>3
  <2>3. CASE op' = [op EXCEPT !.at = "raised"] /\ UNCHANGED spare
    <3>1. op' \in Op /\ op'.at = "raised" /\ op'.charges = 0 /\ op'.moved = 0
      BY <1>0, <2>1, <2>3
    <3>2. ChargedSoFar'
      BY <3>1 DEF ChargedSoFar
    <3> QED
      BY <1>0, <1>3, <2>1, <2>3, <3>1, <3>2
  <2> QED
    BY <1>10, <2>2, <2>3 DEF Fallback
<1>11. ASSUME ChargeFee PROVE Money /\ Rest
  <2>1. op.at = "sponsor" /\ UNCHANGED <<spare, sponsored>> /\ op.charges = 0 /\ op.try = 0
    BY <1>0, <1>11 DEF ChargeFee, ChargedSoFar
  <2>2. CASE Sponsor(FeeOf(op.gas)) /\ Charged("transfer")
    <3>1. op' \in Op /\ op'.at = "transfer" /\ op'.charges = 1 /\ op'.try = 0
      BY <1>7, <2>1, <2>2
    <3>2. FeeOf(op.gas) \in Nat
      BY <1>0, FeesAreWhole
    <3>3. ChargedSoFar'
      BY <3>1 DEF ChargedSoFar
    <3> QED
      BY <1>0, <1>4, <2>1, <2>2, <3>1, <3>2, <3>3
  <2>3. CASE UNCHANGED bal /\ op' = [op EXCEPT !.at = "raised", !.moved = 0]
    <3>1. op' \in Op /\ op'.at = "raised" /\ op'.charges = 0 /\ op'.moved = 0
      BY <1>0, <2>1, <2>3
    <3>2. ChargedSoFar'
      BY <3>1 DEF ChargedSoFar
    <3> QED
      BY <1>0, <1>3, <2>1, <2>3, <3>1, <3>2
  <2> QED
    BY <1>11, <2>2, <2>3 DEF ChargeFee
<1>12. ASSUME Transfer PROVE Money /\ Rest
  <2>1. op.at = "transfer" /\ UNCHANGED <<spare, sponsored>> /\ op.charges = 1 /\ op.try = 0
    BY <1>0, <1>12 DEF Transfer, ChargedSoFar
  <2>2. CASE Covers("client", op.moved) /\ Moved("client", "provider", op.moved) /\ op' = [op EXCEPT !.at = "receipt"]
    <3>1. op' \in Op /\ op'.at = "receipt" /\ op'.charges = 1
      BY <1>0, <2>1, <2>2
    <3>2. ChargedSoFar'
      BY <3>1 DEF ChargedSoFar
    <3>3. op.moved \in Nat
      BY <1>0
    <3>4. Money
      BY <1>0, <1>1, <2>2, <3>3, AgentsPay
    <3> QED
      BY <1>0, <2>1, <3>1, <3>2, <3>4
  <2>3. CASE UNCHANGED bal /\ op' = [op EXCEPT !.at = "raised", !.moved = 0]
    <3>1. op' \in Op /\ op'.at = "raised" /\ op'.charges = 1 /\ op'.moved = 0 /\ op'.try = 0
      BY <1>0, <2>1, <2>3
    <3>2. ChargedSoFar'
      BY <3>1 DEF ChargedSoFar
    <3> QED
      BY <1>0, <1>3, <2>1, <2>3, <3>1, <3>2
  <2> QED
    BY <1>12, <2>2, <2>3 DEF Transfer
<1>13. Money /\ Rest
  BY <1>5, <1>6, <1>8, <1>9, <1>10, <1>11, <1>12
<1>14. ChargedOnce'
  BY <1>13 DEF ChargedSoFar, ChargedOnce
<1> QED
  BY <1>0, <1>1, <1>2, <1>13, <1>14 DEF WalletTypeOK, WalletInv, WalletIsSound

\* wallet/*.py, depin/gas_router.py: for any deals, escrows, prices and bumps, no call
\* makes or loses money, every escrow has its own money until it is released, and a
\* receipt was charged once.
THEOREM WalletAlwaysSound == WalletSpec => []WalletIsSound
<1>1. WalletInit => WalletTypeOK /\ WalletInv
  <2>1. SUFFICES ASSUME WalletInit PROVE WalletTypeOK /\ WalletInv
    OBVIOUS
  <2>2. /\ bal = [a \in Address |-> 0] /\ seeded = 0 /\ bound = {} /\ hold = [h \in Hold |-> NoHold]
        /\ congested = FALSE /\ spare = SparePayer.owns /\ op = NoOp /\ sponsored = 0
    BY <2>1 DEF WalletInit
  <2>3. NoHold \in HoldRecord /\ NoHold.status = "none" /\ ~NoHold.backed
    BY DEF NoHold, HoldRecord
  <2>4. spare \in Nat
    BY <2>2, WalletAssumption
  <2>5. WalletTypeOK
    BY <2>2, <2>3, <2>4 DEF WalletTypeOK, NoOp
  <2>6. HeldForDeal /\ ChargedSoFar /\ ChargedOnce
    BY <2>2, <2>3 DEF HeldForDeal, ChargedSoFar, ChargedOnce, NoOp
  <2>7. LedgerIsConserved
    BY <2>2, TotalOfNothing DEF LedgerIsConserved
  <2>8. HoldsAreBacked
    BY <2>2, <2>3, AddressFacts DEF HoldsAreBacked
  <2> QED
    BY <2>5, <2>6, <2>7, <2>8 DEF WalletInv, WalletIsSound
<1>2. WalletTypeOK /\ WalletInv /\ [WalletNext]_walletVars => WalletTypeOK' /\ WalletInv'
  <2>1. SUFFICES ASSUME WalletTypeOK, WalletInv, [WalletNext]_walletVars
                 PROVE  WalletTypeOK' /\ WalletInv'
    OBVIOUS
  <2>2. CASE UNCHANGED walletVars
    BY <2>1, <2>2 DEF walletVars, WalletTypeOK, WalletInv, WalletIsSound, HeldForDeal, ChargedSoFar,
       LedgerIsConserved, HoldsAreBacked, ChargedOnce
  <2> QED
    BY <2>1, <2>2, RailKeeps, SponsorKeeps DEF WalletNext
<1>3. WalletInv => WalletIsSound
  BY DEF WalletInv
<1> QED
  BY <1>1, <1>2, <1>3, PTL DEF WalletSpec
=============================================================================
