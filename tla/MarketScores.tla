---------------------------- MODULE MarketScores ----------------------------
(***************************************************************************)
(* Reputation and risk as the marketplace derives them from ended          *)
(* exchanges: the terminal sink, the volume index, the wash and sybil      *)
(* signals and the cached scores, and the queue of a device that tells the *)
(* sink of its legs once it is back on the network.                        *)
(* src/novapanda/marketplace: sink.py, risk.py, sybil.py, score_engine.py, *)
(* volume.py; depin/offline_sync.py.                                       *)
(*                                                                         *)
(* The threads of the node end exchanges and read scores at the same time; *)
(* all but the reputation log lives in memory.                             *)
(***************************************************************************)
EXTENDS Naturals, Sequences, SequencesExt, FiniteSets, FiniteSetsExt

CONSTANTS
  Trade,         \* exchanges: [client, provider, dust]
  AgentOrder,    \* the agents, in the order of their ids
  WashThreshold, \* wash_pair_threshold
  MinCluster,    \* min_cluster_size
  Watched,       \* the agents whose views are asked for
  Outcome,       \* how trades end: settled, rejected, expired, cancelled
  MinEdges,      \* min_edges_in_cluster, in halves
  Remote,        \* trades that a device without a network may start
  Foreign        \* the entries of another node's log: [agent, good]

Trader == Range(AgentOrder)

ASSUME ScoresAssumption ==
  /\ IsFiniteSet(Trade)
  /\ \A t \in Trade : t.client \in Trader /\ t.provider \in Trader /\ t.dust \in BOOLEAN
  /\ Watched \subseteq Trader /\ Remote \subseteq Trade /\ "open" \notin Outcome
  /\ WashThreshold \in Nat /\ IsFiniteSet(Foreign)

VARIABLES
  ended,    \* outcome of a trade, or "open"; settled and rejected ones are in the log
  mirrored, \* entries of the other log that were imported
  stage,    \* how far the thread that ended it is in the sink
  volume,   \* trades whose amount is known
  washed,   \* severity of an agent's strongest wash signal, in hundredths
  sybil,    \* severity of its sybil signal
  pairLog,  \* settled trades that the risk store has counted
  edges,    \* weight of a trade's edge in the sybil graph, in halves
  marked,   \* clusters that were marked, by their first three members
  cache,    \* cached view of an agent
  reading,  \* a view that is computed and not yet stored
  queued,   \* legs in the device's queue
  told,     \* trades the sink has seen from the queue, as settled for nothing
  excused   \* history: agents whose view an import or a cluster of others changed, a slow
            \* reader stored late, or the sink did not look at again

scoreVars == <<ended, mirrored, stage, volume, washed, sybil, pairLog, edges, marked, cache, reading, queued, told,
              excused>>

Parties(t) == {t.client, t.provider}
NoView  == [cached |-> FALSE, trades |-> 0, score |-> 0, penalty |-> 0]
Nobody  == [agent |-> "nobody", view |-> NoView]

Zeros == [a \in Trader |-> 0]
NoViews == [a \in Trader |-> NoView]
NoEdges == [t \in Trade |-> 0]

ScoresInit ==
  /\ ended = [t \in Trade |-> "open"] /\ stage = [t \in Trade |-> "open"]
  /\ mirrored = {}
  /\ volume = {} /\ pairLog = {} /\ marked = {} /\ edges = NoEdges
  /\ washed = Zeros /\ sybil = Zeros
  /\ cache = NoViews /\ reading = Nobody /\ queued = {} /\ told = {} /\ excused = {}
---------------------------------------------------------------------------
(* Scores.                                                                 *)

\* The log has an entry of each party of a settled trade, and one of the provider of a
\* rejected one.
LogEntry == [trade : Trade, role : {"client", "provider"}]
Logged(a) ==
  {e \in LogEntry : /\ e.trade[e.role] = a
                    /\ \/ ended[e.trade] = "settled"
                       \/ ended[e.trade] = "rejected" /\ e.role = "provider"}
Succeeded(a) == {e \in Logged(a) : ended[e.trade] = "settled"}

Good(a) == {t \in Trade : ended[t] = "settled" /\ a \in Parties(t)}

\* amount_weight, in hundredths: next to nothing for dust; the quantity stands in for
\* an amount that is not known.
Weight(t) == IF t \in told THEN 0 ELSE IF t \notin volume THEN 2 ELSE IF t.dust THEN 15 ELSE 100
WeightOf(E) == LET Of(w) == Cardinality({e \in E : Weight(e.trade) = w})
               IN  2 * Of(2) + 15 * Of(15) + 100 * Of(100)

\* penalty: signals of different kinds add up, of one kind the strongest counts; that of
\* trading with oneself is as strong as one can be.
SelfDealt(a) == \E t \in pairLog : Parties(t) = {a}
Penalty(a) == LET p == 100 - ((100 - washed[a]) * (100 - sybil[a])) \div 100
              IN  IF SelfDealt(a) \/ p > 95 THEN 95 ELSE p

\* Nothing is known of the amounts of imported entries.
Imported(a) == {e \in mirrored : e.agent = a}
Gained(a)   == WeightOf(Succeeded(a)) + 2 * Cardinality({e \in Imported(a) : e.good})
Entire(a)   == WeightOf(Logged(a)) + 2 * Cardinality(Imported(a))

\* _compute
ViewOf(a) ==
  [cached  |-> TRUE,
   trades  |-> Cardinality(Logged(a)) + Cardinality(Imported(a)),
   score   |-> IF Entire(a) = 0 THEN 0 ELSE ((100 * Gained(a)) \div Entire(a)) * (100 - Penalty(a)),
   penalty |-> Penalty(a)]

\* view: on a miss the view is computed ...
ReadView(a) ==
  /\ reading = Nobody /\ cache[a] = NoView
  /\ reading' = [agent |-> a, view |-> ViewOf(a)]
  /\ UNCHANGED <<ended, mirrored, stage, volume, washed, sybil, pairLog, edges, marked, cache, queued, told, excused>>

\* ... and put in the cache, whatever happened in between.
StoreView ==
  /\ reading # Nobody
  /\ cache' = [cache EXCEPT ![reading.agent] = reading.view]
  /\ reading' = Nobody
  /\ excused' = IF reading.view = ViewOf(reading.agent) THEN excused \ {reading.agent}
                ELSE excused \cup {reading.agent}
  /\ UNCHANGED <<ended, mirrored, stage, volume, washed, sybil, pairLog, edges, marked, queued, told>>
---------------------------------------------------------------------------
(* The sink.                                                               *)

\* The engine ends an exchange, appends to the log and calls its observers.
End(t, outcome) ==
  /\ ended[t] = "open"
  /\ ended' = [ended EXCEPT ![t] = outcome]
  /\ stage' = [stage EXCEPT ![t] = "ended"]
  /\ UNCHANGED <<mirrored, volume, washed, sybil, pairLog, edges, marked, cache, reading, queued, told, excused>>

\* import_reputation_bundle, append_imported: entries of another node's log that are not
\* there yet go into the log, and no cached view is dropped.
ImportEntry(e) ==
  /\ e \notin mirrored /\ mirrored' = mirrored \cup {e}
  /\ excused' = excused \cup {e.agent}
  /\ UNCHANGED <<ended, stage, volume, washed, sybil, pairLog, edges, marked, cache, reading, queued, told>>

\* observe_terminal: many settled trades of one pair, four in five of them dust.
PairOf(t) == {u \in pairLog \cup {t} : Parties(u) = Parties(t)}
Wash(t) ==
  LET n == Cardinality(PairOf(t)) IN
  IF /\ ended[t] = "settled" /\ n >= WashThreshold
     /\ 5 * Cardinality({u \in PairOf(t) : u.dust}) >= 4 * n
  THEN IF n - WashThreshold >= 6 THEN 100 ELSE 40 + 10 * (n - WashThreshold)
  ELSE 0

\* detect_clusters: the components of the graph of recent dust trades.
Edged(w) == {t \in Trade : w[t] > 0}
Neighbours(S, w) == S \cup UNION {Parties(t) : t \in {u \in Edged(w) : Parties(u) \cap S # {}}}
Component(a, w) == {b \in Trader : \A S \in SUBSET Trader : a \in S /\ Neighbours(S, w) \subseteq S => b \in S}
EdgeWeight(C, w) == MapThenSumSet(LAMBDA t : w[t], {t \in Edged(w) : Parties(t) \subseteq C})
Clusters(w) ==
  {C \in {Component(a, w) : a \in UNION {Parties(t) : t \in Edged(w)}} :
     Cardinality(C) >= MinCluster /\ EdgeWeight(C, w) >= MinEdges}

\* The name of a cluster is made of its first three members.
FirstThree(C) == LET s == SelectSeq(AgentOrder, LAMBDA a : a \in C)
                 IN  {s[i] : i \in DOMAIN s \cap 1 .. 3}
NewClusters(w) == {C \in Clusters(w) : FirstThree(C) \notin marked}

\* on_terminal up to the marking: volume, risk store, sybil graph.
Observe(t) ==
  LET sev   == Wash(t)
      w     == IF ended[t] = "settled" /\ t.dust /\ t.client # t.provider THEN [edges EXCEPT ![t] = 2]
               ELSE edges
      named == UNION NewClusters(w)
  IN
  /\ stage[t] = "ended" /\ t \notin told
  /\ stage' = [stage EXCEPT ![t] = "seen"]
  /\ volume' = volume \cup {t}
  /\ pairLog' = IF ended[t] = "settled" THEN pairLog \cup {t} ELSE pairLog
  /\ washed' = [a \in Trader |-> IF a \in Parties(t) /\ sev > washed[a] THEN sev ELSE washed[a]]
  /\ edges' = w
  /\ sybil' = [a \in Trader |-> IF a \in named THEN 55 ELSE sybil[a]]
  /\ marked' = marked \cup {FirstThree(C) : C \in NewClusters(w)}
  /\ excused' = excused \cup (named \ Parties(t))
  /\ UNCHANGED <<ended, mirrored, cache, reading, queued, told>>

Forgotten(A) == [a \in Trader |-> IF a \in A THEN NoView ELSE cache[a]]

\* Mutant: the score of the provider alone is computed again.
Invalidate_Provider(t) ==
  /\ stage[t] = "seen"
  /\ stage' = [stage EXCEPT ![t] = "done"]
  /\ cache' = Forgotten({t.provider})
  /\ excused' = excused \ {t.provider}
  /\ UNCHANGED <<ended, mirrored, volume, washed, sybil, pairLog, edges, marked, reading, queued, told>>

\* The cached views of the two parties are dropped, those of a cluster are not.
Invalidate(t) ==
  /\ stage[t] = "seen"
  /\ stage' = [stage EXCEPT ![t] = "done"]
  /\ cache' = Forgotten(Parties(t))
  /\ excused' = excused \ Parties(t)
  /\ UNCHANGED <<ended, mirrored, volume, washed, sybil, pairLog, edges, marked, reading, queued, told>>

\* An exchange the sink has seen before is not looked at, and its views stay.
Overlook(t) ==
  /\ stage[t] = "ended" /\ t \in told
  /\ stage' = [stage EXCEPT ![t] = "done"]
  /\ excused' = excused \cup Parties(t)
  /\ UNCHANGED <<ended, mirrored, volume, washed, sybil, pairLog, edges, marked, cache, reading, queued, told>>
---------------------------------------------------------------------------
(* The device.                                                             *)

\* attach_runner_hook: a leg that was started, and now waits in escrow, while the
\* network is down.
StartedOffline(t) == ended[t] = "open" /\ t \notin queued \cup told

\* issue_offline
QueueLeg(t) ==
  /\ StartedOffline(t)
  /\ queued' = queued \cup {t}
  /\ UNCHANGED <<ended, mirrored, stage, volume, washed, sybil, pairLog, edges, marked, cache, reading, told, excused>>

\* flush_to_sink: the sink is told that the leg was settled, for no price, between a
\* client and a device that nobody else knows; what it has seen it skips.
FlushLeg(t) ==
  /\ t \in queued
  /\ queued' = queued \ {t}
  /\ IF stage[t] \in {"seen", "done"} THEN UNCHANGED <<told, volume>>
     ELSE told' = told \cup {t} /\ volume' = volume \cup {t}
  /\ UNCHANGED <<ended, mirrored, stage, washed, sybil, pairLog, edges, marked, cache, reading, excused>>
---------------------------------------------------------------------------
\* Half a day passes: edges lose half their weight, then the window drops them.
Decay ==
  /\ \E t \in Trade : edges[t] > 0
  /\ edges' = [t \in Trade |-> IF edges[t] > 0 THEN edges[t] - 1 ELSE 0]
  /\ UNCHANGED <<ended, mirrored, stage, volume, washed, sybil, pairLog, marked, cache, reading, queued, told, excused>>

\* The node starts again with the log and nothing else; no exchange ends twice, and
\* those that had ended are not observed any more.
RestartMarket ==
  /\ stage' = [t \in Trade |-> IF ended[t] = "open" THEN "open" ELSE "done"]
  /\ volume' = {} /\ pairLog' = {} /\ marked' = {} /\ edges' = NoEdges
  /\ washed' = Zeros /\ sybil' = Zeros
  /\ cache' = NoViews /\ reading' = Nobody /\ queued' = {} /\ told' = {} /\ excused' = {}
  /\ UNCHANGED <<ended, mirrored>>

ScoresNext ==
  \/ \E a \in Watched : ReadView(a)
  \/ StoreView \/ Decay \/ RestartMarket
  \/ \E t \in Trade, o \in Outcome : End(t, o)
  \/ \E e \in Foreign : ImportEntry(e)
  \/ \E t \in Trade : Observe(t) \/ Invalidate(t) \/ Overlook(t)
  \/ \E t \in Remote : QueueLeg(t) \/ FlushLeg(t)

ScoresSpec == ScoresInit /\ [][ScoresNext]_scoreVars
---------------------------------------------------------------------------
(* Properties.                                                             *)

\* A cached view is the one that would be computed now, once the sink is through with
\* the trades of the agent; a slow reader, an imported entry, a cluster that the agent was
\* put in by the trade of others, and a trade that a device had told of before its end, are
\* the ways out of that.
CacheIsFresh ==
  \A a \in Trader :
    \/ cache[a] = NoView \/ a \in excused
    \/ \E t \in Trade : a \in Parties(t) /\ stage[t] \in {"ended", "seen"}
    \/ cache[a] = ViewOf(a)

\* Nobody is penalised for the trades of others: a wash signal needs enough settled
\* trades with one partner, a sybil signal a settled dust trade with another agent.
PenaltyIsEarned ==
  \A a \in Trader :
    /\ washed[a] > 0 =>
         \E u \in Good(a) : Cardinality({t \in Good(a) : Parties(t) = Parties(u)}) >= WashThreshold
    /\ sybil[a] > 0 => \E t \in Good(a) : t.dust /\ Parties(t) # {a}

\* marketplace/*.py: penalties come from one's own trades, and a score in use is the
\* score of the log and the signals.
ScoresAreHonest == CacheIsFresh /\ PenaltyIsEarned
---------------------------------------------------------------------------
(* The inductive invariant of ScoresAreHonest (ServiceProofs).             *)

View == [cached : BOOLEAN, trades : Nat, score : Nat, penalty : 0 .. 95]

ScoresTypeOK ==
  /\ ended \in [Trade -> Outcome \cup {"open"}] /\ stage \in [Trade -> {"open", "ended", "seen", "done"}]
  /\ mirrored \subseteq Foreign
  /\ washed \in [Trader -> 0 .. 100] /\ sybil \in [Trader -> {0, 55}]
  /\ pairLog \subseteq Trade /\ edges \in [Trade -> 0 .. 2]
  /\ cache \in [Trader -> View] /\ reading \in {Nobody} \cup [agent : Trader, view : View]
  /\ queued \subseteq Trade

\* What has ended is in the sink's hands, or was before a restart.
EndsAreSeen == \A t \in Trade : stage[t] = "open" <=> ended[t] = "open"

\* The risk store and the sybil graph know settled trades only.
SignalsFollow ==
  /\ \A t \in pairLog : ended[t] = "settled"
  /\ \A t \in Trade : edges[t] > 0 => ended[t] = "settled" /\ t.dust /\ t.client # t.provider

\* Inductive together with ScoresTypeOK.
ScoresInv == EndsAreSeen /\ SignalsFollow /\ CacheIsFresh /\ PenaltyIsEarned
=============================================================================
