------------------------------ MODULE Verdicts ------------------------------
(***************************************************************************)
(* How a delivery is judged: the verifier the node was started with (the   *)
(* JSON Schema of the rule, a panel of judges, a judge behind HTTP, or     *)
(* none), the check of metered deliveries against the charging sessions    *)
(* the node remembers, and what a third party finds that judges again.     *)
(* One exchange; a verify request waits for a remote judge with the copy   *)
(* it read, and its save is refused when the exchange has moved.  A refusal *)
(* is saved twice: with the intent to refund, and when the rail is through. *)
(***************************************************************************)
EXTENDS Naturals, FiniteSets, Sequences

CONSTANTS
  Clerk,     \* threads that serve verify requests
  Shop,      \* the verifiers a node may be started with: kind, panel, strategy
  RuleSet,   \* the rules of the exchange: type, schema, rubric
  Goods,     \* the deliveries: whole, session, kwh, sig, fits, says
  Meter,     \* the charging sessions the node can open, each once
  Kwh,       \* the amounts a session can deliver
  MaxShops,  \* bound on the starts of the node
  MaxSaves   \* bound on the version that a refusal is still stored on

Builtin == {"accept-all", "schema", "stub", "panel", "remote"}

ASSUME VerdictsAssumption ==
  /\ \A s \in Shop : s.kind \in Builtin
                  /\ (s.kind = "panel" => /\ Len(s.panel) \in Nat /\ DOMAIN s.panel = 1 .. Len(s.panel)
                                          /\ s.strategy \in {"unanimous", "majority", "left out"})
  /\ \A r \in RuleSet : r.schema \in BOOLEAN
  /\ \A b \in Goods : b.fits \in BOOLEAN
  /\ Kwh \subseteq Nat

VARIABLES
  shop,      \* the verifier of the running node
  metered,  \* _sessions of the simulator: lost when the node ends
  parcel,    \* the exchange: state, rule, body, verdict, intent to refund, version
  clerk,     \* the verify requests under way, with the copy they read
  shops      \* number of starts

verdictVars == <<shop, metered, parcel, clerk, shops>>

Unjudged == [passed |-> FALSE, by |-> [kind |-> "none"], inline |-> FALSE]
Unoccupied == [pc |-> "idle", version |-> 0, verdict |-> Unjudged]
NoBody == [session |-> "none"]
OwnMeter == "own meter" \* a session of a meter this node does not know

VerdictsInit ==
  /\ shop \in Shop /\ shops = 1
  /\ metered = [s \in Meter |-> [status |-> "none", kwh |-> 0]]
  /\ \E r \in RuleSet : parcel = [state |-> "ESCROWED", rule |-> r, body |-> NoBody,
                                  verdict |-> Unjudged, intended |-> FALSE, version |-> 0]
  /\ clerk = [w \in Clerk |-> Unoccupied]

---------------------------------------------------------------------------
(* The metered sessions and the physical types.                            *)

OpenSession(s) ==
  /\ metered[s].status = "none"
  /\ metered' = [metered EXCEPT ![s].status = "charging"]
  /\ UNCHANGED <<shop, parcel, clerk, shops>>

CompleteSession(s, k) ==
  /\ metered[s].status = "charging"
  /\ metered' = [metered EXCEPT ![s] = [status |-> "completed", kwh |-> k]]
  /\ UNCHANGED <<shop, parcel, clerk, shops>>

Known(b) == b.session \in Meter /\ metered[b.session].status \in {"charging", "completed"}

\* A session the simulator has forgotten, or never knew, refutes nothing.  The
\* signature of a meter is over the session and the amount.
MeterRefutes(b) ==
  /\ Known(b)
  /\ \/ metered[b.session].status # "completed"
     \/ b.kwh # metered[b.session].kwh
     \/ b.sig # metered[b.session].kwh

Reserved == {"energy", "robot"}

PhysicalErrors(type, b) ==
  /\ type \in Reserved
  /\ ~b.whole \/ (type = "energy" /\ MeterRefutes(b))

---------------------------------------------------------------------------
(* The verifiers.                                                          *)

\* A rule without a schema is enough for a reserved type only.
SchemaPasses(r, b) ==
  /\ ~PhysicalErrors(r.type, b)
  /\ IF r.schema THEN b.fits ELSE r.type \in Reserved

\* Mutant: the preflight is made for rules with a schema only.
NeedsPreflight_SchemaOnly(r) == r.schema

NeedsPreflight(r) == r.schema \/ r.type \in Reserved

PreflightFails(r, b) == NeedsPreflight(r) /\ ~SchemaPasses(r, b)

\* A built-in judge finds its part of the rubric in the delivery.
Opinion(j, r, b) == r.rubric /\ j \in b.says

\* Without a judge, a keyword stub that is content with a rule without rubric.
StubPasses(r, b) == r.rubric => "keywords" \in b.says

Consensus(strategy, votes) ==
  LET yes == {i \in DOMAIN votes : votes[i]}
  IN  IF strategy = "majority" THEN 2 * Cardinality(yes) > Len(votes) ELSE yes = DOMAIN votes

\* consensus:<judges> leaves the strategy out.
StrategyOf(s) == IF s.strategy = "left out" THEN "unanimous" ELSE s.strategy

PanelPasses(s, r, b) ==
  Consensus(StrategyOf(s), [i \in DOMAIN s.panel |-> Opinion(s.panel[i], r, b)])

\* The verdict of a verifier that needs nobody else.
Passes(s, r, b) ==
  CASE s.kind = "accept-all" -> TRUE
    [] s.kind = "schema"     -> SchemaPasses(r, b)
    [] s.kind = "stub"       -> ~PreflightFails(r, b) /\ StubPasses(r, b)
    [] s.kind = "panel"      -> ~PreflightFails(r, b) /\ PanelPasses(s, r, b)
    [] s.kind = "remote"     -> FALSE \* its preflight failed

\* What the result says of its judges.
Audit == shop

\* The result with the inputs of a replay: the schema goes along, the type does not.
Enriched(passed) == [passed |-> passed, by |-> Audit, inline |-> parcel.rule.schema]

---------------------------------------------------------------------------
(* The exchange: delivery, verify requests, and whatever else moves it.    *)

Deliver(b) ==
  /\ parcel.state = "ESCROWED"
  /\ b.session \in Meter => metered[b.session].status # "none"
  /\ parcel' = [parcel EXCEPT !.state = "DELIVERED", !.body = b, !.version = @ + 1]
  /\ UNCHANGED <<shop, metered, clerk, shops>>

\* The request reads the exchange and judges; a remote judge is asked after
\* the preflight, and the thread waits for it.
BeginVerify(w) ==
  /\ clerk[w].pc = "idle" /\ parcel.state = "DELIVERED"
  /\ LET remote == shop.kind = "remote" /\ ~PreflightFails(parcel.rule, parcel.body)
         passed == ~remote /\ Passes(shop, parcel.rule, parcel.body)
     IN  clerk' = [clerk EXCEPT ![w] = [pc |-> IF remote THEN "asking" ELSE "judged",
                                        version |-> parcel.version, verdict |-> Enriched(passed)]]
  /\ UNCHANGED <<shop, metered, parcel, shops>>

\* The judge may answer the same question differently each time.
JudgeAnswers(w, passed) ==
  /\ clerk[w].pc = "asking"
  /\ clerk' = [clerk EXCEPT ![w].pc = "judged", ![w].verdict.passed = passed]
  /\ UNCHANGED <<shop, metered, parcel, shops>>

\* An error status, no answer in time, no JSON or no "passed": the request
\* fails and the exchange stays delivered.
JudgeFails(w) ==
  /\ clerk[w].pc = "asking"
  /\ clerk' = [clerk EXCEPT ![w] = Unoccupied]
  /\ UNCHANGED <<shop, metered, parcel, shops>>

Fresh(w) == clerk[w].version = parcel.version

\* The save compares the version that was read.
StorePass(w) ==
  /\ clerk[w].pc = "judged" /\ clerk[w].verdict.passed
  /\ clerk' = [clerk EXCEPT ![w] = Unoccupied]
  /\ parcel' = IF Fresh(w)
               THEN [parcel EXCEPT !.state = "VERIFIED", !.verdict = clerk[w].verdict, !.version = @ + 1]
               ELSE parcel
  /\ UNCHANGED <<shop, metered, shops>>

\* A refusal is first stored with the intent to refund, while the exchange stays
\* delivered ...
StoreRefusal(w) ==
  /\ clerk[w].pc = "judged" /\ ~clerk[w].verdict.passed /\ parcel.version < MaxSaves
  /\ IF Fresh(w)
     THEN /\ parcel' = [parcel EXCEPT !.verdict = clerk[w].verdict, !.intended = TRUE, !.version = @ + 1]
          /\ clerk' = [clerk EXCEPT ![w].pc = "refunding", ![w].version = parcel.version + 1]
     ELSE clerk' = [clerk EXCEPT ![w] = Unoccupied] /\ UNCHANGED parcel
  /\ UNCHANGED <<shop, metered, shops>>

\* ... then the rail is asked, which may fail, and leave the exchange so ...
RefundFails(w) ==
  /\ clerk[w].pc = "refunding"
  /\ clerk' = [clerk EXCEPT ![w] = Unoccupied]
  /\ UNCHANGED <<shop, metered, parcel, shops>>

\* ... and only then the exchange is rejected.
Reject(w) ==
  /\ clerk[w].pc = "refunding"
  /\ clerk' = [clerk EXCEPT ![w] = Unoccupied]
  /\ parcel' = IF Fresh(w)
               THEN [parcel EXCEPT !.state = "REJECTED", !.verdict = clerk[w].verdict, !.version = @ + 1]
               ELSE parcel
  /\ UNCHANGED <<shop, metered, shops>>

\* The end of the deadline overtakes the judges; the sweep, too, stores its intent to
\* refund first.
Overtaken ==
  /\ parcel.state = "DELIVERED"
  /\ \/ parcel' = [parcel EXCEPT !.state = "OTHER", !.intended = TRUE, !.version = @ + 1]
     \/ /\ ~parcel.intended
        /\ parcel' = [parcel EXCEPT !.intended = TRUE, !.version = @ + 1]
  /\ UNCHANGED <<shop, metered, clerk, shops>>

\* What recover makes of the exchange at a start: it asks the rail again for a refund that
\* was intended and never got through, and then closes the exchange.
Recovered ==
  IF parcel.intended /\ parcel.state \in {"DELIVERED", "VERIFIED"}
  THEN {[parcel EXCEPT !.state = "OTHER", !.version = @ + 1], [parcel EXCEPT !.version = @ + 1]}
  ELSE {parcel}

\* The node ends and starts, perhaps with another verifier.
Reopen(s) ==
  /\ shops < MaxShops
  /\ shops' = shops + 1 /\ shop' = s
  /\ metered' = [t \in Meter |-> IF metered[t].status = "none" THEN metered[t]
                                  ELSE [status |-> "gone", kwh |-> 0]]
  /\ clerk' = [w \in Clerk |-> Unoccupied]
  /\ parcel' \in Recovered

VerdictsNext ==
  \/ \E s \in Meter : OpenSession(s)
  \/ \E s \in Meter, k \in Kwh : CompleteSession(s, k)
  \/ \E b \in Goods : Deliver(b)
  \/ \E w \in Clerk : \/ BeginVerify(w) \/ JudgeFails(w) \/ StorePass(w)
                     \/ StoreRefusal(w) \/ RefundFails(w) \/ Reject(w)
  \/ \E w \in Clerk, passed \in BOOLEAN : JudgeAnswers(w, passed)
  \/ Overtaken
  \/ \E s \in Shop : Reopen(s)

VerdictsSpec == VerdictsInit /\ [][VerdictsNext]_verdictVars

---------------------------------------------------------------------------
(* What a third party finds (reverify).                                    *)

\* The replay knows the schema but neither the type nor the judges.
ReplayMatches(v, b) == v.inline => (b.fits <=> v.passed)

Judged  == parcel.verdict.by.kind # "none"
Checked == Judged /\ parcel.verdict.by.kind # "accept-all"

\* Of two requests that wait for judges who disagree, one is heard: the verdict in the
\* store is the one the state came from.  Before the exchange is verified or rejected only
\* a refusal can be in the store, and none is there, and no verdict in an exchange that
\* was closed otherwise, without the intent to refund.
OneVerdict ==
  /\ parcel.state = "VERIFIED" => Judged /\ parcel.verdict.passed
  /\ parcel.state = "REJECTED" => Judged /\ ~parcel.verdict.passed /\ parcel.intended
  /\ parcel.state = "ESCROWED" => parcel.verdict = Unjudged
  /\ parcel.state = "DELIVERED" => ~parcel.verdict.passed
  /\ parcel.state \in {"DELIVERED", "OTHER"} /\ Judged => parcel.intended

\* Whatever judge let a delivery pass, a replay of the schema agrees; and when
\* the schema alone decided on a type that is not metered, also with a refusal.
ReplayAgrees ==
  Checked /\ (parcel.verdict.passed \/ (/\ parcel.verdict.by.kind = "schema"
                                        /\ parcel.rule.type \notin Reserved))
    => ReplayMatches(parcel.verdict, parcel.body)

\* A metered delivery that passed is not refuted by a session that the node
\* still remembers, whichever judge was asked and however late it answered.
MeterAgrees ==
  Checked /\ parcel.verdict.passed /\ parcel.rule.type = "energy" => ~MeterRefutes(parcel.body)

\* What a panel lets pass, each member (unanimous) or more members than not
\* (majority) lets pass when asked alone; what a judge alone refuses, no
\* unanimous panel with that judge lets pass.
PanelIsHeard ==
  Checked /\ parcel.verdict.by.kind = "panel" =>
    LET s == parcel.verdict.by
        content == {i \in DOMAIN s.panel : Opinion(s.panel[i], parcel.rule, parcel.body)}
        against == DOMAIN s.panel \ content
    IN  parcel.verdict.passed =>
          IF StrategyOf(s) = "unanimous" THEN against = {} ELSE Cardinality(content) > Cardinality(against)

\* VerdictsAreSound: a delivery gets one verdict (exchange.py verify), which is
\* confirmed by those who judge again (reverify.py), by the meters the node
\* remembers (iso15118_sim.py) and by the judges of the panel (llm_consensus.py).
VerdictsAreSound == OneVerdict /\ ReplayAgrees /\ MeterAgrees /\ PanelIsHeard
---------------------------------------------------------------------------
(* What the soundness of the verdicts rests on.                            *)

Verdict == [passed : BOOLEAN, by : Shop \cup {[kind |-> "none"]}, inline : BOOLEAN]
Charge  == [status : {"none", "charging", "completed", "gone"}, kwh : Kwh \cup {0}]
Parcel  == [state : {"ESCROWED", "DELIVERED", "VERIFIED", "REJECTED", "OTHER"}, rule : RuleSet,
            body : Goods \cup {NoBody}, verdict : Verdict, intended : BOOLEAN, version : Nat]
VerifyRequest == [pc : {"idle", "asking", "judged", "refunding"}, version : Nat, verdict : Verdict]

VerdictsTypeOK ==
  /\ shop \in Shop /\ metered \in [Meter -> Charge] /\ parcel \in Parcel
  /\ clerk \in [Clerk -> VerifyRequest] /\ shops \in Nat

\* A verdict that is in the store, or would be accepted there, is one about the delivery.
\* Once the session of a delivery is open, the meters cannot come to refute what passed.
Stands(v) ==
  /\ v.by \in Shop /\ v.inline = parcel.rule.schema
  /\ v.passed /\ v.by.kind # "accept-all" => ~PreflightFails(parcel.rule, parcel.body)
  /\ ~v.passed /\ v.by.kind = "schema" => ~SchemaPasses(parcel.rule, parcel.body)
                                         \/ parcel.rule.type \in Reserved
  /\ v.passed /\ v.by.kind = "panel" => PanelPasses(v.by, parcel.rule, parcel.body)

DeliveryInv ==
  /\ parcel.state # "ESCROWED" => parcel.body \in Goods
  /\ parcel.state # "ESCROWED" /\ parcel.body.session \in Meter => metered[parcel.body.session].status # "none"

ClerkInv ==
  \A w \in Clerk : clerk[w].pc # "idle" =>
    /\ clerk[w].version <= parcel.version
    /\ clerk[w].version = parcel.version =>
         /\ parcel.state = "DELIVERED" /\ Stands(clerk[w].verdict)
         /\ clerk[w].pc = "asking" => /\ clerk[w].verdict.by.kind = "remote"
                                     /\ ~PreflightFails(parcel.rule, parcel.body)
         /\ clerk[w].pc = "refunding" => ~clerk[w].verdict.passed /\ parcel.intended

VerdictsInv == DeliveryInv /\ ClerkInv /\ OneVerdict /\ (Judged => Stands(parcel.verdict))
=============================================================================
