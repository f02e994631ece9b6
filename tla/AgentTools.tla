----------------------------- MODULE AgentTools -----------------------------
(***************************************************************************)
(* The toolbox of an agent (NovaPandaAgentSkill): tools over a settlement   *)
(* rail, the supply chain and a paymaster, whose failures come back as      *)
(* advice: a code, a recovery and whether to retry.  Advice is read off the *)
(* exception or, failing that, guessed from the words of its message.       *)
(***************************************************************************)
EXTENDS Naturals, Sequences, FiniteSets, FiniteSetsExt

CONSTANTS
  Job,       \* exchanges that the agent pays for
  MaxAsk,    \* bound on the tool calls
  MaxTry,    \* attempts of a gateway at one request (max_retries + 1)
  GoalLegs,  \* number of legs of the goal
  FeeFunds   \* fees that the payer's tokens cover

ASSUME ToolsAssumption ==
  MaxAsk \in Nat /\ MaxTry \in Nat \ {0} /\ GoalLegs \in Nat /\ FeeFunds \in Nat

VARIABLES
  till,      \* the rail: its kind and its holds, numbered by their handles
  wired,     \* the optional parts of the toolbox that were given to it
  asking,    \* the call of the agent: step, tool, subject, attempts
  advice,    \* what the last call was answered
  known,     \* handles that the agent was given
  chainDone, \* number of legs of the supply chain that are settled
  fees,      \* fees that the paymaster took
  obeys,     \* whether the agent does as it is advised
  told,      \* history: what the agent was told of each handle, of the chain and of fees
  mislaid,   \* history: requests to freeze money whose answer was lost
  asks       \* number of calls

toolVars == <<till, wired, asking, advice, known, chainDone, fees, obeys, told, mislaid, asks>>

---------------------------------------------------------------------------
(* Faults.                                                                 *)

\* A failure by the words of its message that are looked for, and the advice that the
\* raiser wrote on it, if any.  why is the reason.
Plain(why, words) == [why |-> why, words |-> words, code |-> "none", recovery |-> "none", retryable |-> FALSE]
Marked(why, words, code, recovery, retryable) ==
  [why |-> why, words |-> words, code |-> code, recovery |-> recovery, retryable |-> retryable]

\* What classify_exception looks for, in this order: all of the first words and one of
\* the second, if there are any.
Rule(all, any, code, recovery) == [all |-> all, any |-> any, code |-> code, recovery |-> recovery]
Heuristics ==
  << Rule({}, {"timeout", "timed_out"}, "RPC_TIMEOUT", "retry_same"),
     Rule({"insufficient"}, {"fee", "paymaster", "4337"}, "PAYMASTER_UNDERFUNDED", "retry_adjust"),
     Rule({"insufficient"}, {"balance", "sol", "vault"}, "INSUFFICIENT_BALANCE", "retry_adjust"),
     Rule({"gas"}, {"estimate", "fallback"}, "GAS_ESTIMATE_DEGRADED", "retry_same"),
     Rule({}, {"stripe", "card", "payment_intent"}, "STRIPE_ERROR", "retry_adjust"),
     Rule({}, {"rpc", "connection"}, "RPC_ERROR", "retry_same"),
     Rule({"escrow"}, {"conflict", "unknown"}, "SETTLEMENT_CONFLICT", "escalate_human"),
     Rule({}, {"signer_broadcast", "live_secret"}, "SIGNER_NOT_WIRED", "escalate_human"),
     Rule({}, {"unfilled", "no_eligible", "auction"}, "AUCTION_UNFILLED", "retry_adjust"),
     Rule({}, {"deadlock", "not_all_legs", "leg_ended"}, "ORCHESTRATION_FAILED", "switch_provider"),
     Rule({"mismatch", "chain"}, {}, "CHAIN_MISMATCH", "retry_adjust") >>

Says(f, rule) == rule.all \subseteq f.words /\ (rule.any # {} => rule.any \cap f.words # {})

Told(why, code, recovery, retryable) ==
  [ok |-> FALSE, why |-> why, code |-> code, recovery |-> recovery, retryable |-> retryable]

\* classify_exception.  (A refusal of Stripe's key is escalated; no call here meets one.)
Classify(f) ==
  LET hits == {i \in DOMAIN Heuristics : Says(f, Heuristics[i])}
      rule == Heuristics[Min(hits)]
  IN IF f.code # "none" THEN Told(f.why, f.code, f.recovery, f.retryable)
     ELSE IF hits = {} THEN Told(f.why, "UNKNOWN_ERROR", "escalate_human", FALSE)
     ELSE Told(f.why, rule.code, rule.recovery, rule.recovery # "escalate_human")

Misconfigured == Told("unwired", "SKILL_MISCONFIGURED", "escalate_human", FALSE)
Fine == [ok |-> TRUE, why |-> "none", code |-> "none", recovery |-> "none", retryable |-> FALSE]

\* A failure that the orchestrator reports as the text of an error.
AsText(f) == Plain(f.why, f.words)

---------------------------------------------------------------------------
(* The agent and its calls.                                                *)

MoneyTools == {"escrow", "settle", "refund"}
\* The tools that change nothing, and the part that each needs.
Needs == [quote |-> {}, split |-> {}, compact |-> {}, classify |-> {}, auction |-> {"auctioneer"},
          discover |-> {"marketplace"}, gas |-> {"chain"}, verify |-> {"gateway"}]
ReadTools == DOMAIN Needs
Optionals == {"orchestrator", "paymaster", "marketplace", "chain", "gateway"}

Kinds      == {"mock", "partner", "stripe"}
Handles    == DOMAIN till.holds
Stopped    == [pc |-> "idle", tool |-> "none", on |-> 0, try |-> 0]

ToolsInit ==
  /\ \E k \in Kinds : till = [kind |-> k, holds |-> <<>>]
  /\ wired \in {{}, Optionals, Optionals \cup {"auctioneer"}}
  /\ asking = Stopped /\ advice = Fine /\ known = {} /\ chainDone = 0 /\ fees = 0
  /\ obeys \in BOOLEAN
  /\ told = [moved |-> {}, chain |-> FALSE, fees |-> 0] /\ mislaid = 0 /\ asks = 0

Ask(tool, on) ==
  /\ asking.pc = "idle" /\ asks < MaxAsk /\ asks' = asks + 1
  /\ asking' = [pc |-> "asked", tool |-> tool, on |-> on, try |-> 1]
  /\ UNCHANGED <<till, wired, advice, known, chainDone, fees, obeys, told, mislaid>>

\* The directions in which the agent has moved a handle or tried to.
Given(h) == {m \in told.moved : m.handle = h}

\* The agent calls again as it is advised, or calls something else.  One that obeys
\* sends what it is told to repeat, stops when a human is asked for, and moves a handle
\* in one direction.
Again == ~advice.ok /\ advice.retryable /\ Ask(asking.tool, asking.on)

AskEscrow == \E j \in Job :
  /\ obeys => advice.ok
  /\ Ask("escrow", j)

AskMove == \E tool \in {"settle", "refund"}, h \in (IF obeys THEN known ELSE known \cup {0}) :
  /\ obeys => advice.ok /\ \A m \in Given(h) : m.to = tool
  /\ Ask(tool, h)

AskOther == \E tool \in {"run", "sponsor", "unknown_tool"} \cup ReadTools :
  /\ obeys => advice.ok
  /\ Ask(tool, 0)

\* The answer of a call: the call is kept, for the agent may send it again.
Answered(a) ==
  /\ advice' = a /\ asking' = [asking EXCEPT !.pc = "idle"]
  /\ UNCHANGED <<till, wired, obeys, asks>>

Handling(tool) == asking.pc = "asked" /\ asking.tool = tool

\* invoke of a name that is no tool.
UnknownTool ==
  /\ Handling("unknown_tool")
  /\ Answered(Classify(Plain("unknown_tool", {})))
  /\ UNCHANGED <<known, chainDone, fees, told, mislaid>>

\* What a tool that reads may fail with: an argument that is missing, and at the chain
\* another chain, the network or a balance.
ReadFailures ==
  {Plain("argument", {})} \cup
  (IF asking.tool = "gas" THEN {Plain("chain", {"mismatch", "chain"}), Plain("network", {"rpc"}),
                                Plain("underfunded", {"insufficient", "balance"})} ELSE {})

\* The handlers of the tools that change nothing.
Read ==
  /\ asking.pc = "asked" /\ asking.tool \in ReadTools
  /\ IF ~(Needs[asking.tool] \subseteq wired) THEN Answered(Misconfigured)
     ELSE Answered(Fine) \/ \E f \in ReadFailures : Answered(Classify(f))
  /\ UNCHANGED <<known, chainDone, fees, told, mislaid>>

---------------------------------------------------------------------------
(* The settlement tools.                                                   *)

Target == IF asking.tool = "settle" THEN "settled" ELSE "refunded"

\* Mutant: only a held amount can be moved.
Refusal_Repeated(h) ==
  CASE h \notin Handles -> "unknown_handle"
    [] h \in Handles /\ till.holds[h].status = "held" -> "none"
    [] OTHER -> "conflict"

\* Why the rail refuses to move a handle, if it does.  In memory and at a partner a
\* repeated movement is a success; Stripe refuses it.
Refusal(h) ==
  CASE h \notin Handles -> "unknown_handle"
    [] h \in Handles /\ till.holds[h].status = "held" -> "none"
    [] h \in Handles /\ till.holds[h].status = Target -> IF till.kind = "stripe" THEN "repeated" ELSE "none"
    [] OTHER -> "conflict"

\* What the toolbox is raised for it.
Raised(why) ==
  CASE till.kind = "mock" /\ why = "unknown_handle" ->
         Marked(why, {"escrow", "unknown"}, "SETTLEMENT_UNKNOWN_HANDLE", "escalate_human", FALSE)
    [] till.kind = "mock" /\ why = "conflict" ->
         Marked(why, {"escrow", "conflict"}, "SETTLEMENT_CONFLICT", "escalate_human", FALSE)
    [] till.kind = "stripe" -> Plain(why, {"stripe", "payment_intent"})
    [] OTHER -> Plain(why, {"conflict", "unknown"})

\* The money is frozen or moved at the rail, once per attempt.
Performed ==
  IF asking.tool = "escrow"
  THEN till' = [till EXCEPT !.holds = Append(@, [of |-> asking.on, status |-> "held"])]
  ELSE IF asking.on \in Handles /\ till.holds[asking.on].status = "held"
       THEN till' = [till EXCEPT !.holds[asking.on].status = Target]
       ELSE UNCHANGED till

\* escrow, settle and refund whose answer arrives.
MoneyAnswer ==
  /\ asking.pc = "asked" /\ asking.tool \in MoneyTools
  /\ LET why == IF asking.tool = "escrow" THEN "none" ELSE Refusal(asking.on) IN
     IF why # "none"
     THEN /\ advice' = Classify(Raised(why)) /\ UNCHANGED <<till, known, told>>
     ELSE /\ advice' = Fine /\ Performed
          /\ known' = IF asking.tool = "escrow" THEN known \cup {Len(till.holds) + 1} ELSE known
          /\ told' = IF asking.tool = "escrow" THEN told
                     ELSE [told EXCEPT !.moved = @ \cup {[handle |-> asking.on, to |-> asking.tool]}]
  /\ asking' = [asking EXCEPT !.pc = "idle"]
  /\ UNCHANGED <<wired, chainDone, fees, obeys, mislaid, asks>>

\* An attempt of a gateway that is not answered: performed or not, it is made again, and
\* after the last the call fails with the text of the network.
MoneyLost ==
  /\ asking.pc = "asked" /\ asking.tool \in MoneyTools /\ till.kind # "mock"
  /\ \/ UNCHANGED <<till, mislaid>>
     \/ /\ Performed
        /\ mislaid' = IF asking.tool = "escrow" THEN mislaid + 1 ELSE mislaid
  /\ IF asking.try < MaxTry
     THEN asking' = [asking EXCEPT !.try = @ + 1] /\ UNCHANGED advice
     ELSE /\ asking' = [asking EXCEPT !.pc = "idle"]
          /\ \E text \in {"timed_out", "connection"} :
               advice' = Classify(Plain("network", {text} \cup ({"stripe"} \cap {till.kind})))
  /\ UNCHANGED <<wired, known, chainDone, fees, obeys, told, asks>>

---------------------------------------------------------------------------
(* The supply chain and the paymaster.                                     *)

\* What ends a run before its legs are settled, as the text of its error.
LegFailures ==
  {Plain("leg", {"leg_ended"}), AsText(Marked("conflict", {"escrow", "conflict"}, "SETTLEMENT_CONFLICT",
                                               "escalate_human", FALSE)),
   Plain("network", {"timed_out"})}

\* novapanda_run_supply_chain: split, auction, legs in order, and the report.
RunChain ==
  /\ Handling("run")
  /\ \/ /\ "orchestrator" \notin wired /\ Answered(Misconfigured) /\ UNCHANGED <<chainDone, told>>
     \/ /\ "orchestrator" \in wired /\ "auctioneer" \notin wired
        /\ Answered(Classify(Plain("unwired", {"auction"}))) /\ UNCHANGED <<chainDone, told>>
     \/ /\ {"orchestrator", "auctioneer"} \subseteq wired
        /\ \/ Answered(Classify(Plain("unfilled", {"auction", "unfilled"}))) /\ UNCHANGED <<chainDone, told>>
           \/ \E n \in chainDone .. GoalLegs - 1, f \in LegFailures :
                chainDone' = n /\ Answered(Classify(f)) /\ UNCHANGED told
           \/ chainDone' = GoalLegs /\ Answered(Fine) /\ told' = [told EXCEPT !.chain = TRUE]
  /\ UNCHANGED <<known, fees, mislaid>>

\* novapanda_paymaster_sponsor: the quote, the balance, the fee.
PaySponsor ==
  /\ Handling("sponsor")
  /\ \/ /\ "paymaster" \notin wired /\ Answered(Misconfigured) /\ UNCHANGED <<fees, told>>
     \/ /\ "paymaster" \in wired /\ fees = FeeFunds
        /\ Answered(Classify(Marked("underfunded", {"insufficient", "fee", "paymaster"},
                                    "PAYMASTER_UNDERFUNDED", "retry_adjust", TRUE)))
        /\ UNCHANGED <<fees, told>>
     \/ /\ "paymaster" \in wired /\ fees < FeeFunds
        /\ fees' = fees + 1 /\ Answered(Fine) /\ told' = [told EXCEPT !.fees = @ + 1]
  /\ UNCHANGED <<known, chainDone, mislaid>>

ToolsNext ==
  \/ asking.pc = "idle" /\ Again
  \/ AskEscrow \/ AskMove \/ AskOther
  \/ UnknownTool \/ Read \/ MoneyAnswer \/ MoneyLost \/ RunChain \/ PaySponsor

ToolsSpec == ToolsInit /\ [][ToolsNext]_toolVars

---------------------------------------------------------------------------
(* Properties.                                                             *)

\* An answer that says ok is true at the rail, in the chain and at the paymaster.
OkIsTrue ==
  /\ \A m \in told.moved : till.holds[m.handle].status = IF m.to = "settle" THEN "settled" ELSE "refunded"
  /\ told.chain => chainDone = GoalLegs
  /\ told.fees = fees

\* Money that is frozen without the agent knowing its handle is the money of an attempt
\* whose answer was lost.
HoldsAreAccounted ==
  known \subseteq Handles /\ Cardinality(Handles \ known) = mislaid

\* Who is told of a conflict is not told to try again, also when the orchestrator reports
\* it as text.  (At Stripe it is: its refusals are classified by the name of the rail.)
ConflictIsNotRetried ==
  advice.why = "conflict" /\ till.kind # "stripe" => ~advice.retryable

\* An agent that does as it is advised, over any lost answers, never meets a conflict in
\* what it moves itself.
ObedientNeverConflicts ==
  obeys /\ till.kind # "stripe" /\ asking.tool \in MoneyTools =>
    advice.why \notin {"conflict", "unknown_handle"}

\* agent_skill/tools.py, errors.py: answers are true and advice is safe to follow.
ToolsAreSound == OkIsTrue /\ HoldsAreAccounted /\ ConflictIsNotRetried /\ ObedientNeverConflicts
---------------------------------------------------------------------------
(* What the soundness of the tools rests on.                               *)

Movers == {"settle", "refund"}
Direct(tool) == IF tool = "settle" THEN "settled" ELSE "refunded"
Toolbox == MoneyTools \cup ReadTools \cup {"none", "run", "sponsor", "unknown_tool"}
Frozen == [of : Job, status : {"held", "settled", "refunded"}]

ToolsTypeOK ==
  /\ till \in [kind : Kinds, holds : Seq(Frozen)]
  /\ asking \in [pc : {"idle", "asked"}, tool : Toolbox, on : Job \cup Nat, try : Nat]
  /\ asking.tool = "escrow" => asking.on \in Job
  /\ asking.tool \in Movers => asking.on \in Nat
  /\ advice.ok \in BOOLEAN /\ advice.retryable \in BOOLEAN /\ (advice.ok => advice.why = "none")
  /\ chainDone \in 0 .. GoalLegs /\ fees \in Nat /\ obeys \in BOOLEAN /\ mislaid \in Nat
  /\ told \in [moved : SUBSET [handle : Nat, to : Movers], chain : BOOLEAN, fees : Nat]

\* A movement that was begun and not answered, or whose answer was lost.
Pending == asking.tool \in Movers /\ (asking.pc = "asked" \/ ~advice.ok)

\* An agent that obeys knows what it moves; what moved is what it was told, or pending, and
\* nothing is pending in the direction opposite to the one it moved in.
Obedience ==
  obeys /\ till.kind # "stripe" =>
    /\ asking.tool \in MoneyTools => advice.why \notin {"conflict", "unknown_handle"}
    /\ asking.tool \in Movers => asking.on \in known
    /\ Pending => till.holds[asking.on].status \in {"held", Direct(asking.tool)}
    /\ \A h \in Handles : till.holds[h].status # "held" =>
         \/ Pending /\ asking.on = h
         \/ \E m \in Given(h) : till.holds[h].status = Direct(m.to)

ToolsInv ==
  /\ OkIsTrue /\ HoldsAreAccounted /\ ConflictIsNotRetried
  /\ \A m \in told.moved : m.handle \in Handles
  /\ Obedience
=============================================================================
