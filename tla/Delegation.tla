----------------------------- MODULE Delegation -----------------------------
(***************************************************************************)
(* The registry of delegations: credentials signed by an issuer that let a *)
(* subject propose and escrow exchanges up to an amount in each period.    *)
(* It is kept in memory; the amount spent is read and written without a    *)
(* lock, and before the action that it pays for is tried.                  *)
(***************************************************************************)
EXTENDS ServerThreads, Integers, Functions

CONSTANTS
  Cred,       \* signed credentials, each with its delegation_id
  Exchange,   \* exchanges that a subject wants to make
  NoCred,     \* no credential, no exchange
  Price,      \* the amount of each exchange, of either sign: nothing checks it
  Asked,      \* the amounts that the bodies of POST .../escrow name
  MaxAmount,  \* constraints.max_amount of each credential
  MaxPeriod,  \* bound on the periods that pass
  MaxGrants   \* bound on the actions that are granted in a period

ASSUME DelegationAssumption ==
  /\ Price \in [Exchange -> Int] /\ Asked \subseteq Int
  /\ MaxAmount \in Nat /\ MaxPeriod \in Nat /\ MaxGrants \in Nat
  /\ NoCred \notin Cred \cup Exchange

Period == 0 .. MaxPeriod

VARIABLES
  known,         \* _by_id: registered credentials
  revoked,       \* _revoked
  spent,         \* _period_spent, by credential and period
  expired,       \* credentials whose expires_at is over
  period,        \* _period_key of the present
  stage,         \* the exchanges: new, proposed or escrowed
  acting,        \* the threads: step, credential, what to do with which exchange, period and
                 \* sum of the bucket, amount
  granted,       \* history: amounts above zero that were let through, by credential and period
  credited,      \* history: amounts below zero that were let through, without their sign
  grants,        \* history: number of them, by period
  toldRevoked,   \* history: credentials whose issuer was told that they are revoked
  actionsRaced,  \* history: whether two threads were ever at work at the same time
  restarted      \* history: whether the process was ever restarted

delegationVars == <<known, revoked, spent, expired, period, stage, acting, granted, credited, grants, toldRevoked,
          actionsRaced, restarted>>

NoAction == [pc |-> "idle", cred |-> NoCred, act |-> "none", ex |-> NoCred, period |-> 0, sum |-> 0,
             amount |-> 0]
Zero == [c \in Cred |-> [p \in Period |-> 0]]

DelegationInit ==
  /\ known = {} /\ revoked = {} /\ expired = {} /\ toldRevoked = {}
  /\ spent = Zero /\ granted = Zero /\ credited = Zero
  /\ period = 0
  /\ stage = [e \in Exchange |-> "new"]
  /\ grants = [p \in Period |-> 0]
  /\ acting = [t \in Thread |-> NoAction]
  /\ actionsRaced = FALSE /\ restarted = FALSE

---------------------------------------------------------------------------
\* Mutant: a credential that is registered again is no longer revoked.
Register_Anew(c) ==
  /\ c \notin expired
  /\ known' = known \cup {c}
  /\ revoked' = revoked \ {c}
  /\ UNCHANGED <<spent, expired, period, stage, acting, granted, credited, grants, toldRevoked>>

\* register: a valid credential is stored under its id, also when it was before.
Register(c) ==
  /\ c \notin expired
  /\ known' = known \cup {c}
  /\ UNCHANGED <<revoked, spent, expired, period, stage, acting, granted, credited, grants, toldRevoked>>

\* revoke, by the issuer
Revoke(c) ==
  /\ c \in known
  /\ revoked' = revoked \cup {c}
  /\ toldRevoked' = toldRevoked \cup {c}
  /\ UNCHANGED <<known, spent, expired, period, stage, acting, granted, credited, grants>>

\* get
Valid(c) == c \in known /\ c \notin revoked /\ c \notin expired

\* validate_action for POST /exchanges, with the amount of its terms, and for POST
\* .../escrow, with the amount of its body: the checks, and the sum of the bucket.
Validate(t, c, e, a) ==
  /\ acting[t].pc = "idle" /\ Valid(c) /\ a <= MaxAmount
  /\ stage[e] = "new" => a = Price[e]
  /\ grants[period] < MaxGrants
  /\ acting' = [acting EXCEPT ![t] =
                  [pc |-> "charge", cred |-> c, act |-> IF stage[e] = "new" THEN "propose" ELSE "escrow",
                   ex |-> e, period |-> period, sum |-> spent[c][period] + a, amount |-> a]]
  /\ UNCHANGED <<known, revoked, spent, expired, period, stage, granted, credited, grants, toldRevoked>>

\* Mutant: the limit of one amount is taken for each of the two requests.
Exceeded_Doubled(t) == acting[t].sum > 2 * MaxAmount

\* period_quota_exceeded
Exceeded(t) == acting[t].sum > MaxAmount

\* bucket[key] = spent, and the request is let through ...
Charge(t) ==
  LET c == acting[t].cred  p == acting[t].period  a == acting[t].amount IN
  /\ acting[t].pc = "charge" /\ ~Exceeded(t)
  /\ spent' = [spent EXCEPT ![c][p] = acting[t].sum]
  /\ granted' = [granted EXCEPT ![c][p] = IF a > 0 THEN @ + a ELSE @]
  /\ credited' = [credited EXCEPT ![c][p] = IF a > 0 THEN @ ELSE @ - a]
  /\ grants' = [grants EXCEPT ![p] = @ + 1]
  /\ acting' = [acting EXCEPT ![t].pc = "act"]
  /\ UNCHANGED <<known, revoked, expired, period, stage, toldRevoked>>

\* ... or refused.
Refuse(t) ==
  /\ acting[t].pc = "charge" /\ Exceeded(t)
  /\ acting' = [acting EXCEPT ![t] = NoAction]
  /\ UNCHANGED <<known, revoked, spent, expired, period, stage, granted, credited, grants, toldRevoked>>

\* The engine proposes the exchange, or escrows it for the amount of its terms ...
Act(t) ==
  LET e == acting[t].ex IN
  /\ acting[t].pc = "act"
  /\ \/ acting[t].act = "propose" /\ stage[e] = "new" /\ stage' = [stage EXCEPT ![e] = "proposed"]
     \/ /\ acting[t].act = "escrow" /\ stage[e] = "proposed" /\ acting[t].amount = Price[e]
        /\ stage' = [stage EXCEPT ![e] = "escrowed"]
  /\ acting' = [acting EXCEPT ![t] = NoAction]
  /\ UNCHANGED <<known, revoked, spent, expired, period, granted, credited, grants, toldRevoked>>

\* ... or refuses it, for its amount or for a reason of its own: what was charged stays.
ActFails(t) ==
  /\ acting[t].pc = "act"
  /\ acting' = [acting EXCEPT ![t] = NoAction]
  /\ UNCHANGED <<known, revoked, spent, expired, period, stage, granted, credited, grants, toldRevoked>>

---------------------------------------------------------------------------
Expire(c) ==
  /\ expired' = expired \cup {c}
  /\ UNCHANGED <<known, revoked, spent, period, stage, acting, granted, credited, grants, toldRevoked>>

NextPeriod ==
  /\ period < MaxPeriod
  /\ period' = period + 1
  /\ UNCHANGED <<known, revoked, spent, expired, stage, acting, granted, credited, grants, toldRevoked>>

\* The process ends and starts: the registry begins empty.
Restart ==
  /\ known' = {} /\ revoked' = {} /\ spent' = Zero
  /\ acting' = [t \in Thread |-> NoAction]
  /\ UNCHANGED <<expired, period, stage, granted, credited, grants, toldRevoked>>

ActionStep(t) ==
  \/ \E c \in Cred, e \in Exchange : \E a \in Asked \cup {Price[e]} : Validate(t, c, e, a)
  \/ Charge(t) \/ Refuse(t) \/ Act(t) \/ ActFails(t)

DelegationNext ==
  \/ /\ \E t \in Thread : ActionStep(t)
     /\ actionsRaced' = (actionsRaced \/ ~Alone(acting')) /\ UNCHANGED restarted
  \/ \E c \in Cred : (Register(c) \/ Revoke(c) \/ Expire(c)) /\ UNCHANGED <<actionsRaced, restarted>>
  \/ NextPeriod /\ UNCHANGED <<actionsRaced, restarted>>
  \/ Restart /\ restarted' = TRUE /\ UNCHANGED actionsRaced

DelegationSpec == DelegationInit /\ [][DelegationNext]_delegationVars

---------------------------------------------------------------------------
(* Properties.                                                             *)

Within == {n \in Int : n <= MaxAmount}

DelegationTypeOK ==
  /\ known \subseteq Cred /\ revoked \subseteq Cred /\ expired \subseteq Cred
  /\ toldRevoked \subseteq Cred /\ period \in Period
  /\ spent \in [Cred -> [Period -> Within]]
  /\ granted \in [Cred -> [Period -> Nat]] /\ credited \in [Cred -> [Period -> Nat]] /\ grants \in [Period -> Nat]
  /\ stage \in [Exchange -> {"new", "proposed", "escrowed"}]
  /\ acting \in [Thread -> [pc : {"idle", "charge", "act"}, cred : Cred \cup {NoCred},
                           act : {"none", "propose", "escrow"}, ex : Exchange \cup {NoCred},
                           period : Period, sum : Int, amount : Int]]
  /\ \A t \in Thread :
       acting[t].pc # "idle" => acting[t].cred \in Cred /\ acting[t].ex \in Exchange
  /\ actionsRaced \in BOOLEAN /\ restarted \in BOOLEAN

\* The amounts that a delegation let through in a period are within its limit, as
\* long as requests do not overlap and the registry is not lost, but for what requests
\* of amounts below zero, which the engine refuses only after they were charged, took off
\* the sum; and it is never charged for more than it let through, in the period in
\* which the request was checked: a refused request costs nothing.
LimitIsKept ==
  \A c \in Cred, p \in Period :
    /\ ~actionsRaced /\ ~restarted => granted[c][p] <= MaxAmount + credited[c][p]
    /\ spent[c][p] <= granted[c][p]

\* A credential that expired, or whose issuer was told that it is revoked, lets
\* nothing begin any more, also when somebody registers it again, as long as the
\* process lives.
RevokedLetsNothingBegin ==
  [][\A t \in Thread : acting[t].pc = "idle" /\ acting'[t].pc = "charge" =>
       acting'[t].cred \notin expired \cup IF restarted THEN {} ELSE toldRevoked]_acting

\* profiles/NP-DELEGATE.md:86, NP-DLG-01: a revoked delegation is refused.  A
\* restart forgets it and the credential can be registered again.
RevokedForGood ==
  [][\A t \in Thread : acting[t].pc = "idle" /\ acting'[t].pc = "charge" =>
       acting'[t].cred \notin toldRevoked]_acting

\* The inductive invariant of both: a request that is being charged has read a sum that
\* what was granted covers; alone, in a process that lives, it has read the true sum.
ChargeIsCovered ==
  \A t \in Thread : acting[t].pc = "charge" =>
    acting[t].sum <= granted[acting[t].cred][acting[t].period] + acting[t].amount

BooksAgree ==
  /\ Alone(acting)
  /\ \A c \in Cred, p \in Period : spent[c][p] = granted[c][p] - credited[c][p]
  /\ \A t \in Thread : acting[t].pc = "charge" =>
       acting[t].sum = spent[acting[t].cred][acting[t].period] + acting[t].amount

DelegationInv ==
  /\ \A c \in Cred, p \in Period : spent[c][p] <= granted[c][p]
  /\ ChargeIsCovered
  /\ ~actionsRaced /\ ~restarted => BooksAgree
  /\ ~restarted => toldRevoked \subseteq revoked
=============================================================================
