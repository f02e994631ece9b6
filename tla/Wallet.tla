------------------------------- MODULE Wallet -------------------------------
(***************************************************************************)
(* The wallet of an agent: the ledger of one chain, the rail that keeps    *)
(* escrows on it, and the paymasters that let gas be paid in the ledger's  *)
(* token.  src/novapanda/wallet (manager.py, settlement_bridge.py,         *)
(* paymaster_4337.py, rpc_evm.py, rpc_resilience.py, solana_fee_payer.py)  *)
(* and src/novapanda/depin/gas_router.py.                                  *)
(*                                                                         *)
(* Everything is in the memory of one process; a sponsored operation is    *)
(* several calls and each of them can raise.                               *)
(***************************************************************************)
EXTENDS Naturals, FiniteSets, Sums

CONSTANTS
  Deal,      \* exchanges
  Hold,      \* handles of escrows; the address escrow:<handle> has the same name
  NoDeal,
  Cost,      \* price of a deal
  MaxSeed,   \* bound on the money that is credited
  Gas,       \* gas that the chain estimates
  SpareGas,  \* gas assumed when the estimate fails three times
  GasRate,   \* token_per_gas_unit
  MaxBumps,
  SparePayer, \* the fee that the second chain charges, and what its fee payer owns
  MaxSponsored \* bound on the sponsored operations

\* Amounts are whole, an address of an escrow is no agent's, and the router tries.
ASSUME WalletAssumption ==
  /\ IsFiniteSet(Hold) /\ Hold \cap {"client", "provider", "treasury"} = {}
  /\ NoDeal \notin Deal /\ Cost \in [Deal -> Nat]
  /\ {MaxSeed, Gas, SpareGas, GasRate, SparePayer.fee, SparePayer.owns, MaxSponsored} \subseteq Nat
  /\ MaxBumps \in Nat \ {0}

VARIABLES
  bal,       \* the ledger: balance of every address
  seeded,    \* history: money credited so far
  bound,     \* deals with a pending binding of their parties
  hold,      \* the escrows
  congested, \* the congestion signal of the router
  spare,     \* balance of the fee payer on the second chain
  op,        \* the sponsored operation in work, and how the last one ended
  sponsored  \* number of sponsored operations

walletVars == <<bal, seeded, bound, hold, congested, spare, op, sponsored>>

\* ensure_account: one address for each agent on a chain.
Address == {"client", "provider", "treasury"} \cup Hold
NoHold == [deal |-> NoDeal, status |-> "none", backed |-> FALSE]
NoOp   == [at |-> "none", try |-> 0, force |-> FALSE, gas |-> 0, charges |-> 0, moved |-> 0]

WalletInit ==
  /\ bal = [a \in Address |-> 0] /\ seeded = 0
  /\ bound = {} /\ hold = [h \in Hold |-> NoHold]
  /\ congested = FALSE /\ spare = SparePayer.owns
  /\ op = NoOp /\ sponsored = 0

Idle == op.at \in {"none", "receipt", "raised"}

\* transfer raises on a short balance, and moves all or nothing.
Covers(from, n) == bal[from] >= n
Moved(from, to, n) == bal' = [bal EXCEPT ![from] = @ - n, ![to] = @ + n]
---------------------------------------------------------------------------
(* The settlement rail.                                                    *)

SeedClient(n) ==
  /\ Idle /\ seeded + n <= MaxSeed
  /\ bal' = [bal EXCEPT !["client"] = @ + n] /\ seeded' = seeded + n
  /\ UNCHANGED <<bound, hold, congested, spare, op, sponsored>>

BindParties(d) ==
  /\ Idle
  /\ bound' = bound \cup {d}
  /\ UNCHANGED <<bal, seeded, hold, congested, spare, op, sponsored>>

Opened(h, d) == hold' = [hold EXCEPT ![h] = [deal |-> d, status |-> "held", backed |-> d \in bound]]

\* escrow: with the parties bound the client's money moves to the address of the
\* handle and the binding is used up; without them the hold is a note and no more.
Escrow(h, d) ==
  /\ Idle /\ hold[h] = NoHold
  /\ IF d \in bound
       THEN Covers("client", Cost[d]) /\ Moved("client", h, Cost[d])
       ELSE UNCHANGED bal
  /\ Opened(h, d)
  /\ bound' = bound \ {d}
  /\ UNCHANGED <<seeded, congested, spare, op, sponsored>>

\* settle and refund: again to the same end is a receipt, to the other a conflict.
Release(h, target) ==
  /\ Idle /\ hold[h].status = "held"
  /\ LET n == Cost[hold[h].deal] IN
       IF hold[h].backed
         THEN Covers(h, n) /\ Moved(h, IF target = "settled" THEN "provider" ELSE "client", n)
         ELSE UNCHANGED bal
  /\ hold' = [hold EXCEPT ![h].status = target]
  /\ UNCHANGED <<seeded, bound, congested, spare, op, sponsored>>
---------------------------------------------------------------------------
(* Gas.                                                                    *)

\* mark_congested, clear_congestion
Congestion == /\ Idle
              /\ congested' = ~congested
              /\ UNCHANGED <<bal, seeded, bound, hold, spare, op, sponsored>>

\* bump_gas, in quarters: what attempt i multiplies the gas with, four times at most.
Quarters(i) ==
  LET wanted == IF congested THEN 10 + 5 * i ELSE 4 + i
  IN  IF wanted > 16 THEN 16 ELSE wanted

FeeOf(gas) == gas * GasRate
GasAt(i) == (Gas * Quarters(i) + 2) \div 4

\* sponsor of the paymasters: one transfer from the payer to the treasury.
Sponsor(fee) == Covers("client", fee) /\ Moved("client", "treasury", fee)

\* sponsor of the entry point does it for a user operation of the payer.
SponsorUserOp(gas) == Sponsor(FeeOf(gas))

\* The fee payer of the second chain pays with what it owns itself.
FeePayerPays == spare >= SparePayer.fee /\ spare' = spare - SparePayer.fee

\* The estimate of a chain never raises: after three failures a fixed amount is taken.
Estimates == {Gas, SpareGas}

SponsorResilient(force) ==
  /\ Idle /\ sponsored < MaxSponsored
  /\ op' = [NoOp EXCEPT !.at = "primary", !.force = force]
  /\ sponsored' = sponsored + 1
  /\ UNCHANGED <<bal, seeded, bound, hold, congested, spare>>

Charged(next) == op' = [op EXCEPT !.at = next, !.charges = @ + 1]

\* Mutant: the loop over the bumps goes on after a sponsor that succeeded.
TryPrimary_Again ==
  /\ op.at = "primary" /\ op.try < MaxBumps
  /\ ~op.force /\ SponsorUserOp(GasAt(op.try))
  /\ op' = [op EXCEPT !.try = @ + 1, !.charges = @ + 1,
                      !.at = IF op.try + 1 = MaxBumps THEN "receipt" ELSE "primary"]
  /\ UNCHANGED <<seeded, bound, hold, congested, spare, sponsored>>

\* An attempt on the first chain that is paid ends the loop ...
TryPrimary ==
  /\ op.at = "primary" /\ op.try < MaxBumps
  /\ ~op.force /\ SponsorUserOp(GasAt(op.try))
  /\ Charged("receipt")
  /\ UNCHANGED <<seeded, bound, hold, congested, spare, sponsored>>

\* ... one that raises is followed by a dearer one, and the last by the second chain.
PrimaryRaises ==
  /\ op.at = "primary" /\ op.try < MaxBumps
  /\ op.force \/ ~Covers("client", FeeOf(GasAt(op.try)))
  /\ op' = [op EXCEPT !.try = @ + 1, !.at = IF op.try + 1 = MaxBumps THEN "fallback" ELSE "primary"]
  /\ UNCHANGED <<bal, seeded, bound, hold, congested, spare, sponsored>>

\* The second chain: its fee payer pays, not the agent, or the rail is exhausted.
Fallback ==
  /\ op.at = "fallback"
  /\ \/ FeePayerPays /\ Charged("receipt")
     \/ /\ spare < SparePayer.fee
        /\ op' = [op EXCEPT !.at = "raised"] /\ UNCHANGED spare
  /\ UNCHANGED <<bal, seeded, bound, hold, congested, sponsored>>

\* transfer_with_paymaster: the gas is estimated,
TransferWithPaymaster(n) ==
  /\ Idle /\ sponsored < MaxSponsored
  /\ \E gas \in Estimates : op' = [NoOp EXCEPT !.at = "sponsor", !.gas = gas, !.moved = n]
  /\ sponsored' = sponsored + 1
  /\ UNCHANGED <<bal, seeded, bound, hold, congested, spare>>

\* the fee is charged before the transfer is tried,
ChargeFee ==
  /\ op.at = "sponsor"
  /\ IF Covers("client", FeeOf(op.gas))
       THEN Sponsor(FeeOf(op.gas)) /\ Charged("transfer")
       ELSE UNCHANGED bal /\ op' = [op EXCEPT !.at = "raised", !.moved = 0]
  /\ UNCHANGED <<seeded, bound, hold, congested, spare, sponsored>>

\* and stays charged when the transfer raises.
Transfer ==
  /\ op.at = "transfer"
  /\ IF Covers("client", op.moved)
       THEN Moved("client", "provider", op.moved) /\ op' = [op EXCEPT !.at = "receipt"]
       ELSE UNCHANGED bal /\ op' = [op EXCEPT !.at = "raised", !.moved = 0]
  /\ UNCHANGED <<seeded, bound, hold, congested, spare, sponsored>>

WalletNext ==
  \/ \E n \in 1 .. MaxSeed : SeedClient(n) \/ TransferWithPaymaster(n)
  \/ \E d \in Deal : BindParties(d)
  \/ \E h \in Hold, d \in Deal : Escrow(h, d)
  \/ \E h \in Hold, target \in {"settled", "refunded"} : Release(h, target)
  \/ Congestion
  \/ \E force \in BOOLEAN : SponsorResilient(force)
  \/ TryPrimary \/ PrimaryRaises \/ Fallback \/ ChargeFee \/ Transfer

WalletSpec == WalletInit /\ [][WalletNext]_walletVars
---------------------------------------------------------------------------
(* Properties.                                                             *)

\* No call makes or loses money, whichever step of it raises.
LedgerIsConserved == Total(bal) = seeded

\* Every escrow of bound parties has its own money until it is released, and none after.
HoldsAreBacked ==
  \A h \in Hold :
    bal[h] = IF hold[h].backed /\ hold[h].status = "held" THEN Cost[hold[h].deal] ELSE 0

\* An operation that gave a receipt was charged once, on one chain; the router that
\* gave up was not charged at all, and what raised moved nothing but the fee.
ChargedOnce ==
  /\ op.charges <= 1
  /\ op.at = "receipt" => op.charges = 1
  /\ op.at = "raised" => op.moved = 0 /\ (op.try > 0 => op.charges = 0)

\* wallet/*.py, depin/gas_router.py: the ledger is conserved, the escrows are backed
\* and a fee is charged once, over every sequence of calls, bumps and failures.
WalletIsSound == LedgerIsConserved /\ HoldsAreBacked /\ ChargedOnce
---------------------------------------------------------------------------
(* What the soundness of the wallet rests on.                              *)

HoldRecord == [deal : Deal \cup {NoDeal}, status : {"none", "held", "settled", "refunded"},
               backed : BOOLEAN]

WalletTypeOK ==
  /\ bal \in [Address -> Nat] /\ seeded \in Nat /\ bound \subseteq Deal
  /\ hold \in [Hold -> HoldRecord]
  /\ congested \in BOOLEAN /\ spare \in Nat /\ sponsored \in Nat
  /\ op \in [at : {"none", "primary", "fallback", "sponsor", "transfer", "receipt", "raised"},
             try : Nat, force : BOOLEAN, gas : Nat, charges : Nat, moved : Nat]

\* An escrow that is held is one of a deal.
HeldForDeal == \A h \in Hold : hold[h].status # "none" => hold[h].deal \in Deal

\* What was charged and moved when the operation is at each of its steps.
ChargedSoFar ==
  /\ op.at \in {"none", "primary", "fallback", "sponsor"} => op.charges = 0
  /\ op.at \in {"transfer", "receipt"} => op.charges = 1
  /\ op.at \in {"primary", "fallback"} => op.moved = 0
  /\ op.at \in {"sponsor", "transfer"} => op.try = 0
  /\ op.at = "raised" => op.moved = 0 /\ op.charges <= 1 /\ (op.try > 0 => op.charges = 0)

WalletInv == HeldForDeal /\ ChargedSoFar /\ WalletIsSound
=============================================================================
