--------------------------- MODULE VDCSettlement ---------------------------
(***************************************************************************)
(* The escrow contract of the EVM rail.  A call that pays hands control to *)
(* the payee, whose code may call any entry point of the contract before   *)
(* the payment returns, and may make the call fail, which undoes all that  *)
(* happened since the call began.  The contract has no lock against that:  *)
(* it relies on the order of its statements.                               *)
(***************************************************************************)
EXTENDS Naturals, Sequences, FiniteSets, SequencesExt, Sums

CONSTANTS
  Exchange,   \* exchange ids (bytes32)
  Account,    \* addresses that call the contract or are paid
  Arbitrator, \* the immutable arbitrator
  Verifier,   \* addresses that may be trusted as verifiers
  Credential, \* credential ids
  Zero,       \* the zero address, id and hash
  MaxAmount,  \* bound on the value sent with a call
  Deadline,   \* deadlines; 0 is none
  MaxTime,    \* bound on block.timestamp
  MaxDepth    \* bound on the nesting of calls

ASSUME SettlementAssumption ==
  /\ IsFiniteSet(Exchange)
  /\ Arbitrator \in Account
  /\ Zero \notin Account \cup Credential \cup Verifier
  /\ Deadline \subseteq Nat
  /\ MaxAmount \in Nat /\ MaxTime \in Nat /\ MaxDepth \in Nat

Status == {"None", "Funded", "Fulfilled", "Settled", "Disputed", "Refunded"}
Final  == {"Settled", "Refunded"}
Party  == {"client", "provider"}

VDCRecord ==
  [status : Status, client : Account \cup {Zero}, provider : Account \cup {Zero},
   amount : Nat, deliverDeadline : Deadline \cup {0}, verifyDeadline : Deadline \cup {0},
   credentialId : Credential \cup {Zero}, verifier : Verifier \cup {Zero}]

NoRecord ==
  [status |-> "None", client |-> Zero, provider |-> Zero, amount |-> 0,
   deliverDeadline |-> 0, verifyDeadline |-> 0, credentialId |-> Zero, verifier |-> Zero]

VARIABLES
  vdcs,             \* _vdcs
  trustedVerifiers, \* the trusted addresses
  balance,          \* the contract's balance
  moved,            \* history: the value put in, and paid to each party, by exchange
  calls,            \* the worlds before each payment that is under way
  now               \* block.timestamp

vars == <<vdcs, trustedVerifiers, balance, moved, calls, now>>

\* All that a failing call restores.
World == [vdcs |-> vdcs, trusted |-> trustedVerifiers, balance |-> balance, moved |-> moved]
Worlds == [vdcs : [Exchange -> VDCRecord], trusted : SUBSET Verifier, balance : Nat,
           moved : [Exchange -> [put : Nat, client : Nat, provider : Nat]]]

Init ==
  /\ vdcs = [x \in Exchange |-> NoRecord]
  /\ trustedVerifiers \in SUBSET Verifier
  /\ balance = 0
  /\ moved = [x \in Exchange |-> [put |-> 0, client |-> 0, provider |-> 0]]
  /\ calls = <<>>
  /\ now = 1
---------------------------------------------------------------------------
(* The entry points.  A call whose requirement fails reverts: no step.     *)

SetTrustedVerifier(sender, v, trusted) ==
  /\ sender = Arbitrator
  /\ trustedVerifiers' = IF trusted THEN trustedVerifiers \cup {v} ELSE trustedVerifiers \ {v}
  /\ UNCHANGED <<vdcs, balance, moved, calls, now>>

\* The record a payable call creates.
Funded(sender, provider, value, deliver, verify) ==
  [NoRecord EXCEPT !.status = "Funded", !.client = sender, !.provider = provider,
                   !.amount = value, !.deliverDeadline = deliver, !.verifyDeadline = verify]

CreateVDC(x, sender, provider, value, deliver, verify) ==
  /\ vdcs[x].status = "None"
  /\ value # 0 /\ provider # Zero
  /\ vdcs' = [vdcs EXCEPT ![x] = Funded(sender, provider, value, deliver, verify)]
  /\ balance' = balance + value
  /\ moved' = [moved EXCEPT ![x].put = @ + value]
  /\ UNCHANGED <<trustedVerifiers, calls, now>>

\* A result with a credential of a trusted verifier; the result's hash is not read again.
Proven(x, sender, credential, v) ==
  /\ vdcs[x].status = "Funded"
  /\ sender \in {vdcs[x].provider, Arbitrator}
  /\ v \in trustedVerifiers
  /\ credential # Zero

FulfillVDCWithProof(x, sender, credential, v) ==
  /\ Proven(x, sender, credential, v)
  /\ vdcs' = [vdcs EXCEPT ![x] = [@ EXCEPT !.credentialId = credential, !.verifier = v,
                                           !.status = "Fulfilled"]]
  /\ UNCHANGED <<trustedVerifiers, balance, moved, calls, now>>

InitiateDispute(x, sender) ==
  /\ vdcs[x].status = "Fulfilled"
  /\ sender \in {vdcs[x].client, vdcs[x].provider}
  /\ vdcs' = [vdcs EXCEPT ![x] = [@ EXCEPT !.status = "Disputed"]]
  /\ UNCHANGED <<trustedVerifiers, balance, moved, calls, now>>

\* Mutant: the amount is not cleared.
Closed_AmountKept(r, status) == [r EXCEPT !.status = status]

\* What a record becomes before its payment.
Closed(r, status) == [r EXCEPT !.status = status, !.amount = 0]

\* The account of an exchange after a payment.
Paid(m, party, amount) == [m EXCEPT ![party] = @ + amount]

\* Close the record, then call the party's address with the amount: from here its
\* code runs.  The call fails at once when the balance is too small.
Pay(x, status, party) ==
  /\ Len(calls) < MaxDepth
  /\ vdcs[x].amount <= balance
  /\ calls' = Append(calls, World)
  /\ vdcs' = [vdcs EXCEPT ![x] = Closed(@, status)]
  /\ balance' = balance - vdcs[x].amount
  /\ moved' = [moved EXCEPT ![x] = Paid(@, party, vdcs[x].amount)]
  /\ UNCHANGED <<trustedVerifiers, now>>

\* A credential that is given must be the one of the record.
Matches(x, credential) == credential \in {Zero, vdcs[x].credentialId}

SettlePayment(x, sender, credential) ==
  /\ vdcs[x].status = "Fulfilled"
  /\ Matches(x, credential)
  /\ sender \in {vdcs[x].client, vdcs[x].provider, Arbitrator}
  /\ Pay(x, "Settled", "provider")

\* Mutant: the parties swapped.
Ruling_Swapped(payProvider) == IF payProvider THEN [status |-> "Settled", party |-> "client"]
                                              ELSE [status |-> "Refunded", party |-> "provider"]

\* The status and the party paid by a ruling.
Ruling(payProvider) == IF payProvider THEN [status |-> "Settled", party |-> "provider"]
                                      ELSE [status |-> "Refunded", party |-> "client"]

ResolveDispute(x, sender, payProvider) ==
  /\ vdcs[x].status = "Disputed"
  /\ sender = Arbitrator
  /\ Pay(x, Ruling(payProvider).status, Ruling(payProvider).party)

\* Either deadline that was set is over.
Overdue(r) == \E d \in {r.deliverDeadline, r.verifyDeadline} : d # 0 /\ now > d

\* Mutant: the status is not checked.
Refundable_AnyStatus(x) == Overdue(vdcs[x])

Refundable(x) == vdcs[x].status = "Funded" /\ Overdue(vdcs[x])

RefundIfTimedOut(x) ==
  /\ Refundable(x)
  /\ Pay(x, "Refunded", "client")
---------------------------------------------------------------------------
\* The payee's code returns, and the call that paid it ends.
PayeeReturns ==
  /\ calls # <<>>
  /\ calls' = Front(calls)
  /\ UNCHANGED <<vdcs, trustedVerifiers, balance, moved, now>>

\* The payee's code fails, and require(ok) undoes the call that paid it.
PayeeReverts ==
  /\ calls # <<>>
  /\ LET before == calls[Len(calls)] IN
       /\ vdcs' = before.vdcs
       /\ trustedVerifiers' = before.trusted
       /\ balance' = before.balance
       /\ moved' = before.moved
  /\ calls' = Front(calls)
  /\ UNCHANGED now

\* The next block; within a transaction the time stands still.
NextBlock ==
  /\ calls = <<>> /\ now < MaxTime
  /\ now' = now + 1
  /\ UNCHANGED <<vdcs, trustedVerifiers, balance, moved, calls>>

\* The calls that end before other code runs.
Call ==
  \E sender \in Account :
    \/ \E v \in Verifier, trusted \in BOOLEAN : SetTrustedVerifier(sender, v, trusted)
    \/ \E x \in Exchange :
         \/ \E provider \in Account, value \in 0 .. MaxAmount, d, e \in Deadline :
              CreateVDC(x, sender, provider, value, d, e)
         \/ \E credential \in Credential, v \in Verifier :
              FulfillVDCWithProof(x, sender, credential, v)
         \/ InitiateDispute(x, sender)

\* The calls that pay.
PayingCall ==
  \E x \in Exchange :
    \/ RefundIfTimedOut(x)
    \/ \E sender \in Account :
         \/ \E credential \in Credential \cup {Zero} : SettlePayment(x, sender, credential)
         \/ \E payProvider \in BOOLEAN : ResolveDispute(x, sender, payProvider)

Next == Call \/ PayingCall \/ PayeeReturns \/ PayeeReverts \/ NextBlock

Spec == Init /\ [][Next]_vars
---------------------------------------------------------------------------
(* Properties.                                                             *)

\* The storage, the balance and the worlds a failure would restore have their types.
TypeOK ==
  /\ World \in Worlds
  /\ calls \in Seq(Worlds)
  /\ now \in Nat

\* Every value that was put in is either still held for its exchange or was paid to
\* one party, and that is the party the final status names; the provider is paid
\* only with a credential.  The payments are made once although each runs foreign
\* code: settlePayment, resolveDispute and refundIfTimedOut.
Accounted(w) ==
  \A x \in Exchange :
    LET r == w.vdcs[x]
        m == w.moved[x] IN
    /\ m.put = r.amount + m.client + m.provider
    /\ r.status = "None" => m.put = 0
    /\ r.status \in Final => r.amount = 0
    /\ m.client > 0 => r.status = "Refunded"
    /\ m.provider > 0 => r.status = "Settled"
    /\ r.status \in {"Fulfilled", "Disputed", "Settled"} => r.credentialId # Zero

PaidOnceAsDecided == Accounted(World)

\* What a world owes for each exchange.
Owed(w) == [x \in Exchange |-> w.vdcs[x].amount]

\* At every moment, also in the middle of a payment, the contract holds exactly what
\* it owes: no record can be paid with the value of another.
Covered(w) == w.balance = Total(Owed(w))
Solvent == Covered(World)

\* What the chain keeps if the transaction under way is abandoned.
Committed == IF calls = <<>> THEN vdcs ELSE calls[1].vdcs

\* A record that is settled or refunded in the committed chain never changes again,
\* whatever is called, nested or undone afterwards.
Kept(before, after) ==
  \A x \in Exchange : before[x].status \in Final => after[x] = before[x]

DecidedForGood == [][Kept(Committed, Committed')]_vars

\* The inductive invariant: the properties hold in each world a failure would restore,
\* and no such world is ahead of a later one in what it decided.
SettlementInv ==
  /\ TypeOK
  /\ PaidOnceAsDecided
  /\ \A i \in DOMAIN calls : Accounted(calls[i]) /\ Kept(calls[i].vdcs, vdcs)
  /\ \A j \in DOMAIN calls : \A i \in 1 .. j - 1 : Kept(calls[i].vdcs, calls[j].vdcs)

\* The contract holds what it owes in each world that a failure would restore, too.
SolvencyInv ==
  /\ SettlementInv /\ Solvent
  /\ \A i \in DOMAIN calls : Covered(calls[i])
=============================================================================
