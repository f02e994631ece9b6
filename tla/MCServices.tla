----------------------------- MODULE MCServices -----------------------------
(* Instances of the services around the engine for TLC.  The parts do not   *)
(* touch each other: a behaviour is a behaviour of one of them, while the    *)
(* others rest.                                                              *)
EXTENDS MarketScores, MarketListings, Stake, RailTerms, NodeAccounts, NodeDesk,
        NodeStart, TLC

VARIABLE part

CONSTANTS t1, t2, MaxBusy

Trades     == {[client |-> "a", provider |-> "b", dust |-> TRUE],
               [client |-> "b", provider |-> "a", dust |-> TRUE],
               [client |-> "c", provider |-> "b", dust |-> TRUE]}
Told       == {[client |-> "c", provider |-> "b", dust |-> TRUE]}
Elsewheres == {[agent |-> "c", good |-> FALSE]}
Agents     == <<"a", "b", "c">>
ManifestOf == "s1" :> "i1" @@ "s2" :> "i2"
Offers     == {[price |-> 1, slow |-> 2, hash |-> 1], [price |-> 2, slow |-> 1, hash |-> 0]}
ScoreOf    == "s1" :> 40 @@ "s2" :> 80
PenaltyOf  == "s1" :> 10 @@ "s2" :> 0
Weights    == [price |-> 7, sla |-> 5, rep |-> 6]
Wishes     == {<<>>, <<"fiat", "x402">>}
Abilities  == {{}, {"x402", "fiat", "fiat-s1-sandbox"}, {"mock", "fiat"}}
Started    == {[rails |-> <<"mock", "x402", "fiat">>, urls |-> {"x402"}],
               [rails |-> <<"fiat-s1-sandbox", "ap2">>, urls |-> {}],
               [rails |-> <<"fiat-s1-sandbox", "ap2">>, urls |-> {"fiat-s1-sandbox"}]}

Symmetric == Permutations({t1, t2})

Parts == {"scores", "listings", "stake", "rails", "accounts", "desk", "start"}

\* The parts that rest while p moves.
OthersRest(p) ==
  /\ p # "scores"   => UNCHANGED scoreVars
  /\ p # "listings" => UNCHANGED listingVars
  /\ p # "stake"    => UNCHANGED stakeVars
  /\ p # "rails"    => UNCHANGED railVars
  /\ p # "accounts" => UNCHANGED accountVars
  /\ p # "desk"     => UNCHANGED deskVars
  /\ p # "start"    => UNCHANGED startVars

Init ==
  /\ part \in Parts
  /\ ScoresInit /\ ListingsInit /\ StakeInit /\ RailsInit /\ AccountsInit /\ DeskInit /\ StartInit
  /\ part # "rails" => rails[1] = "mock"
  /\ part # "desk" => \A e \in Deals : store[e].state = "CONTRACTED"
  /\ process.partner <=> store[1].state # store[Deal].state
  /\ store[1].state = "VERIFIED" => store[Deal].state = "VERIFIED"
  /\ part # "start" => disk.file["op"] = Absent

Scores   == part = "scores" /\ ScoresNext
\* Listings do not touch each other but in a search: both callers are at work only while
\* one listing is known, one while two are.
Listings ==
  /\ part = "listings" /\ ListingsNext
  /\ Cardinality({c \in Caller : owes'[c] # Through}) + Len(order') <= MaxBusy
Staking  == part = "stake" /\ StakeNext
Settling == part = "rails" /\ RailsNext
Accounts == part = "accounts" /\ AccountsNext
Desk     == part = "desk" /\ DeskNext
\* The environment has a switch on only where it makes a difference.
Starting ==
  /\ part = "start" /\ StartNext
  /\ "strict" \in setup'.on \/ setup'.slot # "good" => "production" \in setup'.on
  /\ "claimDb" \in setup'.on => "claimsKept" \in setup'.on
  /\ setup'.rails # {OwnRail} => "db" \in setup'.on

Next ==
  /\ Scores \/ Listings \/ Staking \/ Settling \/ Accounts \/ Desk \/ Starting
  /\ UNCHANGED part /\ OthersRest(part)

servicesVars == <<part, scoreVars, listingVars, stakeVars, railVars, accountVars, deskVars,
                  startVars>>

Spec == Init /\ [][Next]_servicesVars
=============================================================================
