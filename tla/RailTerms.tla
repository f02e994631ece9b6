----------------------------- MODULE RailTerms -----------------------------
(***************************************************************************)
(* Which rail an exchange is settled on: the registry of rails, the        *)
(* negotiation between its terms and the rails, the quote, the binding     *)
(* that the contract locks, and the money on the bound rail while the      *)
(* node is started again with other rails.  src/novapanda: rail_registry.py*)
(* settlement.py, exchange.py, terms.py.                                   *)
(***************************************************************************)
EXTENDS Integers, Sequences, SequencesExt, FiniteSets, FiniteSetsExt

CONSTANTS
  MicroMax, MacroMin,  \* thresholds of the amount classes
  ChainMax,            \* largest micropayment of the chain rail
  Amount, Priced,      \* amounts and currencies of the prices considered
  Wish,                \* preferences considered: sequences of rails
  Cap,                 \* what a party can do: sets of rails, {} for any
  Configured,          \* what a node is started with: [rails, urls], the rails in order and
                       \* those of them that have the address of a payment gateway
  MaxRestart           \* bound on the restarts

RailName == {"mock", "fiat-s1-sandbox", "x402", "ap2", "fiat"}
AmountClass == {"micro", "standard", "macro"}
Money == {"USD", "USDC", "EUR"}

ASSUME RailTermsAssumption ==
  /\ MicroMax \in Nat /\ MacroMin \in Nat /\ MicroMax < MacroMin /\ ChainMax \in Nat
  /\ Amount \subseteq Int /\ Wish \subseteq Seq(RailName)
  /\ Priced \subseteq Money /\ Priced # {} /\ Amount # {} /\ Wish # {} /\ Cap # {}
  /\ Configured \subseteq [rails : Seq(RailName), urls : SUBSET (RailName \ {"mock"})]
  /\ \A c \in Configured : c.rails # <<>>
  /\ MaxRestart \in Nat

VARIABLES
  rails,     \* registered rails of the node, in order; the first one is the active one
  gateways,  \* those of its rails that have a gateway; the others keep money in memory
  deal,      \* terms of the exchange, with the state it is in
  binding,   \* settlement_binding, or "none"
  lockedBy,  \* history: the gateways of the node that locked it
  holding,   \* status of the exchange's money on each rail, at its gateway or in memory
  receipts,  \* history: rails that gave the receipts
  restarts   \* number of restarts

railVars == <<rails, gateways, deal, binding, lockedBy, holding, receipts, restarts>>
---------------------------------------------------------------------------
(* The rails as the manifest declares them.                                *)

\* _default_currencies, and the two manifest_rail of the sandbox rail: with a gateway it
\* takes euros as well.
Currencies(r, urls) ==
  CASE r = "x402" -> {"USDC"} [] r = "ap2" -> {"EUR"}
    [] r = "fiat-s1-sandbox" /\ r \in urls -> {"USD", "EUR"}
    [] OTHER -> {"USD"}

\* _default_amount_classes; the sandbox rail declares none, and takes all.
Classes(r) == CASE r = "x402" -> {"micro", "standard"}
                [] r \in {"fiat", "ap2"} -> {"standard", "macro"}
                [] OTHER -> AmountClass

\* amount_in_micropay_range
InRange(r, n) == r = "x402" => n \in 1 .. ChainMax

\* infer_amount_class
ClassOf(n) == IF n <= MicroMax THEN "micro" ELSE IF n >= MacroMin THEN "macro" ELSE "standard"

MicroPriority == <<"x402", "ap2", "mock", "fiat", "fiat-s1-sandbox">>
MacroPriority == <<"fiat-s1-sandbox", "fiat", "ap2", "mock", "x402">>
---------------------------------------------------------------------------
(* Negotiation.                                                            *)

\* The price has a currency, and the settlement, which nobody checks, may name another.
Term == [amount : Amount, price : Priced, currency : {"none"} \cup Money, class : {"inferred"} \cup AmountClass,
         preferred : Wish, client : Cap, provider : Cap, fallback : {"reject", "mock"}]

ClassOfTerms(t) == IF t.class = "inferred" THEN ClassOf(t.amount) ELSE t.class

\* The settlement's currency comes before that of the price.
CurrencyOf(t) == IF t.currency = "none" THEN t.price ELSE t.currency

SupportsBy(r, t, urls) == /\ CurrencyOf(t) \in Currencies(r, urls)
                          /\ ClassOfTerms(t) \in Classes(r)
                          /\ InRange(r, t.amount)
Supports(r, t) == SupportsBy(r, t, gateways)

\* Mutant: only the client's capabilities are respected.
Allowed_ByClient(r, t) == t.client = {} \/ r \in t.client

\* An empty list of capabilities is no list.
Allowed(r, t) == /\ t.client = {} \/ r \in t.client
                 /\ t.provider = {} \/ r \in t.provider

\* Where a list names a rail, the last time; one it does not name comes after it.
Named(r, s) == {i \in DOMAIN s : s[i] = r}
Position(r, s) == IF Named(r, s) = {} THEN Len(s) + 1
                  ELSE CHOOSE i \in Named(r, s) : \A k \in Named(r, s) : k <= i

\* _rank_candidates: the parties' preference, else the order of the amount's class.
Preference(t) ==
  IF t.preferred # <<>> THEN t.preferred
  ELSE CASE ClassOfTerms(t) = "micro" -> MicroPriority
         [] ClassOfTerms(t) = "macro" -> MacroPriority
         [] OTHER -> <<>>

\* negotiate_rail: the best candidate, the one registered first among equals.
Candidates(t, rs) == {i \in DOMAIN rs : Supports(rs[i], t) /\ Allowed(rs[i], t)}

Best(t, rs) ==
  LET rank(i) == Position(rs[i], Preference(t)) IN
  CHOOSE i \in Candidates(t, rs) :
    \A k \in Candidates(t, rs) : rank(i) < rank(k) \/ (rank(i) = rank(k) /\ i <= k)

Negotiate(t, rs) == IF Candidates(t, rs) = {} THEN "none" ELSE rs[Best(t, rs)]

\* quote_settlement, for the currency of the terms: a rail is eligible when the
\* negotiation for it alone ends with it, the parties' own lists counting only where
\* they are given.
Eligible(r, t, rs) ==
  Negotiate([t EXCEPT !.class = "inferred", !.preferred = <<r>>,
                      !.client = IF @ = {} THEN {r} ELSE @,
                      !.provider = IF @ = {} THEN {r} ELSE @], rs) = r
Recommended(t, rs) == Negotiate([t EXCEPT !.class = "inferred"], rs)

\* finalize_settlement_binding; the last resort asks nobody.
Binding(t, rs) ==
  LET r == Negotiate(t, rs) IN
  IF r = "none" /\ t.fallback = "mock" /\ "mock" \in Range(rs) THEN "mock" ELSE r
---------------------------------------------------------------------------
(* The exchange.                                                           *)

Unproposed == [terms |-> CHOOSE t \in Term : TRUE, state |-> "none"]

RailsInit ==
  /\ \E c \in Configured : rails = c.rails /\ gateways = c.urls
  /\ deal = Unproposed /\ binding = "none" /\ lockedBy = {}
  /\ holding = [p \in RailName \X {"gateway", "memory"} |-> "none"]
  /\ receipts = {} /\ restarts = 0

\* propose keeps the terms, and the hash that both parties sign covers them.
ProposeTerms(t) ==
  /\ deal.state = "none"
  /\ deal' = [terms |-> t, state |-> "PROPOSED"]
  /\ UNCHANGED <<rails, gateways, binding, lockedBy, holding, receipts, restarts>>

\* _finalize_binding: the second signature of the contract locks the rail; without a
\* common rail it is refused and the exchange stays where it is.
LockBinding ==
  /\ deal.state = "PROPOSED"
  /\ Binding(deal.terms, rails) # "none"
  /\ binding' = Binding(deal.terms, rails) /\ lockedBy' = gateways
  /\ deal' = [deal EXCEPT !.state = "CONTRACTED"]
  /\ UNCHANGED <<rails, gateways, holding, receipts, restarts>>

\* _adapter_for raises when the bound rail is not registered any more.
BoundRail == binding \in Range(rails)
Account   == <<binding, IF binding \in gateways THEN "gateway" ELSE "memory">>

EscrowOnRail ==
  /\ deal.state = "CONTRACTED" /\ BoundRail
  /\ holding' = [holding EXCEPT ![Account] = "held"]
  /\ deal' = [deal EXCEPT !.state = "ESCROWED"]
  /\ UNCHANGED <<rails, gateways, binding, lockedBy, receipts, restarts>>

\* settle and refund, where the hold is known; the receipt names the rail, which must be the bound one.
ReleaseOnRail(end) ==
  /\ deal.state = "ESCROWED" /\ BoundRail
  /\ holding[Account] = "held"
  /\ holding' = [holding EXCEPT ![Account] = end]
  /\ receipts' = receipts \cup {binding}
  /\ deal' = [deal EXCEPT !.state = "CLOSED"]
  /\ UNCHANGED <<rails, gateways, binding, lockedBy, restarts>>

\* The node is started again with other rails; those without a gateway, the stubs of
\* x402, ap2 and fiat among them, start empty.
Reconfigure(c) ==
  /\ restarts < MaxRestart /\ deal.state # "CLOSED"
  /\ rails' = c.rails /\ gateways' = c.urls
  /\ holding' = [p \in DOMAIN holding |-> IF p[2] = "memory" THEN "none" ELSE holding[p]]
  /\ restarts' = restarts + 1
  /\ UNCHANGED <<deal, binding, lockedBy, receipts>>

RailsNext ==
  \/ \E t \in Term : ProposeTerms(t)
  \/ LockBinding \/ EscrowOnRail
  \/ \E end \in {"settled", "refunded"} : ReleaseOnRail(end)
  \/ \E c \in Configured : Reconfigure(c)

RailsSpec == RailsInit /\ [][RailsNext]_railVars
---------------------------------------------------------------------------
(* Properties.                                                             *)

\* A rail that was locked suits the terms and is on both parties' lists, whatever the
\* preference was, unless the parties agreed to fall back; it takes the money of the price,
\* which is what escrow puts there, unless the settlement names another.
BindingSuits ==
  LET t == deal.terms IN
  binding # "none" =>
    \/ /\ SupportsBy(binding, t, lockedBy)
       /\ t.currency \in {"none", t.price} => t.price \in Currencies(binding, lockedBy)
       /\ t.client # {} => binding \in t.client
       /\ t.provider # {} => binding \in t.provider
    \/ binding = "mock" /\ t.fallback = "mock"

\* The quote recommends an eligible rail and finds none only when none is, and the
\* contract that follows under the same rails locks what was recommended.
QuoteIsHonoured ==
  LET t == deal.terms  best == Recommended(t, rails)  able == {r \in Range(rails) : Eligible(r, t, rails)} IN
  deal.state = "PROPOSED" /\ t.amount >= 0 =>
    /\ IF able = {} THEN best = "none" ELSE best \in able
    /\ t.class \in {"inferred", ClassOf(t.amount)} /\ best # "none" => Binding(t, rails) = best

\* Money lies on the bound rail and is released there, whatever the node is started with,
\* and never in two places.
OneRail ==
  /\ \A p, q \in DOMAIN holding : holding[p] # "none" => p[1] = binding /\ (holding[q] # "none" => q = p)
  /\ receipts \subseteq {binding}

\* rail_registry.py, exchange.py: the rail is the one the terms allow, the quote
\* promised and the money went to.
RailsAgree == BindingSuits /\ QuoteIsHonoured /\ OneRail
---------------------------------------------------------------------------
(* What the agreement of the rails rests on.                               *)

RailsTypeOK ==
  /\ rails \in Seq(RailName) /\ gateways \subseteq RailName /\ lockedBy \subseteq RailName
  /\ deal \in [terms : Term, state : {"none", "PROPOSED", "CONTRACTED", "ESCROWED", "CLOSED"}]
  /\ binding \in RailName \cup {"none"}
  /\ holding \in [RailName \X {"gateway", "memory"} -> {"none", "held", "settled", "refunded"}]
  /\ receipts \subseteq RailName /\ restarts \in Nat

\* Nothing is bound before the contract, and no money lies anywhere before the escrow.
BoundByContract ==
  /\ deal.state \in {"none", "PROPOSED"} => binding = "none"
  /\ deal.state \in {"none", "PROPOSED", "CONTRACTED"} =>
       receipts = {} /\ \A p \in DOMAIN holding : holding[p] = "none"

RailsInv == BoundByContract /\ BindingSuits /\ OneRail
=============================================================================
