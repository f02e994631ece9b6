------------------------------ MODULE Propose ------------------------------
(***************************************************************************)
(* POST /exchanges: the daily quota of the caller's bucket, then the       *)
(* idempotency key, then the new exchange.  The quota is a counter in      *)
(* memory, read and written without a lock; the look-up of the key, the    *)
(* insert of the exchange and the insert of the key are three transactions *)
(* of the database.                                                        *)
(***************************************************************************)
EXTENDS ServerThreads, Naturals, Functions

CONSTANTS
  Key,          \* idempotency keys, each with its client
  NoExchange,   \* an answer that is not an exchange
  Limit,        \* quota_propose_per_day
  MaxDay,       \* bound on the days that pass
  MaxExchange,  \* bound on the exchanges that are made
  MaxPropose    \* bound on the requests that are admitted

ASSUME ProposeAssumption ==
  /\ Limit \in Nat /\ MaxDay \in Nat /\ MaxExchange \in Nat /\ MaxPropose \in Nat
  /\ NoExchange \notin 1 .. MaxExchange

Day == 0 .. MaxDay
Id  == 1 .. MaxExchange

VARIABLES
  exchanges,      \* the table of exchanges: the key of each id
  idem,           \* the table of idempotency keys
  used,           \* _propose_counts of the bucket, by day
  today,          \* the current day
  requesting,     \* the threads: step, key, the day and count read, the exchange made
  admitted,       \* history: requests that passed the quota, by the day they were counted on
  answers,        \* history: the exchanges that were answered for a key
  requestsRaced,  \* history: whether two threads were ever at work at the same time
  crashed         \* history: whether the process ever died in the middle of a request

proposeVars == <<exchanges, idem, used, today, requesting, admitted, answers, requestsRaced, crashed>>

NoRequest == [pc |-> "idle", key |-> NoExchange, day |-> 0, used |-> 0, id |-> NoExchange]

ProposeInit ==
  /\ exchanges = [i \in {} |-> NoExchange]
  /\ idem = [k \in Key |-> NoExchange]
  /\ used = [d \in Day |-> 0]
  /\ today = 0
  /\ requesting = [t \in Thread |-> NoRequest]
  /\ admitted = [d \in Day |-> 0]
  /\ answers = [k \in Key |-> {}]
  /\ requestsRaced = FALSE /\ crashed = FALSE

---------------------------------------------------------------------------
\* quota_remaining(...)["remaining"] > 0
Remaining == used[today] < Limit

\* The requests so far.
Requests == FoldFunction(+, 0, admitted)

\* consume_propose: the snapshot.  A request without quota is answered with 429.
ReadQuota(t, k) ==
  /\ requesting[t].pc = "idle" /\ Remaining /\ Requests < MaxPropose
  /\ requesting' = [requesting EXCEPT ![t] = [NoRequest EXCEPT !.pc = "count", !.key = k, !.day = today,
                                          !.used = used[today]]]
  /\ UNCHANGED <<exchanges, idem, used, today, admitted, answers>>

\* consume_propose: the snapshot plus one, on the day of the snapshot.
CountQuota(t) ==
  /\ requesting[t].pc = "count"
  /\ used' = [used EXCEPT ![requesting[t].day] = requesting[t].used + 1]
  /\ admitted' = [admitted EXCEPT ![requesting[t].day] = @ + 1]
  /\ requesting' = [requesting EXCEPT ![t].pc = "lookup"]
  /\ UNCHANGED <<exchanges, idem, today, answers>>

\* idem_get
Known(k) == idem[k] # NoExchange

LookUp(t) ==
  LET k == requesting[t].key IN
  /\ requesting[t].pc = "lookup"
  /\ IF Known(k)
     THEN /\ answers' = [answers EXCEPT ![k] = @ \cup {idem[k]}]
          /\ requesting' = [requesting EXCEPT ![t] = NoRequest]
     ELSE /\ requesting' = [requesting EXCEPT ![t].pc = "add"]
          /\ UNCHANGED answers
  /\ UNCHANGED <<exchanges, idem, used, today, admitted>>

\* Mutant: the key is stored before the exchange.
Add_KeyFirst(t) ==
  \E i \in Id \ (DOMAIN exchanges \cup {idem[k] : k \in Key}) :
    /\ requesting[t].pc = "add"
    /\ idem' = [idem EXCEPT ![requesting[t].key] = i]
    /\ requesting' = [requesting EXCEPT ![t].pc = "set", ![t].id = i]
    /\ UNCHANGED <<exchanges, used, today, admitted, answers>>

\* add: a row with a fresh id.
Add(t) ==
  \E i \in Id \ DOMAIN exchanges :
    /\ \A j \in Id \ DOMAIN exchanges : i <= j
    /\ requesting[t].pc = "add"
    /\ exchanges' = [j \in DOMAIN exchanges \cup {i} |->
                       IF j = i THEN requesting[t].key ELSE exchanges[j]]
    /\ requesting' = [requesting EXCEPT ![t].pc = "set", ![t].id = i]
    /\ UNCHANGED <<idem, used, today, admitted, answers>>

\* idem_set, and the answer with the new exchange.
SetKey(t) ==
  LET k == requesting[t].key IN
  /\ requesting[t].pc = "set"
  /\ idem' = [idem EXCEPT ![k] = requesting[t].id]
  /\ answers' = [answers EXCEPT ![k] = @ \cup {requesting[t].id}]
  /\ requesting' = [requesting EXCEPT ![t] = NoRequest]
  /\ UNCHANGED <<exchanges, used, today, admitted>>

---------------------------------------------------------------------------
Midnight ==
  /\ today < MaxDay
  /\ today' = today + 1
  /\ UNCHANGED <<exchanges, idem, used, requesting, admitted, answers>>

\* The process dies.  The counters come back when NOVAPANDA_OPERATOR_DB names a
\* file for them, which is written with each request, and else begin at zero.
ProposeCrash ==
  /\ \E t \in Thread : requesting[t].pc # "idle"
  /\ requesting' = [t \in Thread |-> NoRequest]
  /\ used' \in {used, [d \in Day |-> 0]}
  /\ UNCHANGED <<exchanges, idem, today, admitted, answers>>

ProposeStep(t) ==
  \/ \E k \in Key : ReadQuota(t, k)
  \/ CountQuota(t) \/ LookUp(t) \/ Add(t) \/ SetKey(t)

ProposeNext ==
  \/ /\ \E t \in Thread : ProposeStep(t)
     /\ requestsRaced' = (requestsRaced \/ ~Alone(requesting')) /\ UNCHANGED crashed
  \/ Midnight /\ UNCHANGED <<requestsRaced, crashed>>
  \/ ProposeCrash /\ crashed' = TRUE /\ UNCHANGED requestsRaced

ProposeSpec == ProposeInit /\ [][ProposeNext]_proposeVars

---------------------------------------------------------------------------
(* Properties.                                                             *)

ProposeTypeOK ==
  /\ DOMAIN exchanges \subseteq Id /\ exchanges \in [DOMAIN exchanges -> Key]
  /\ idem \in [Key -> Id \cup {NoExchange}]
  /\ used \in [Day -> 0 .. Limit] /\ today \in Day
  /\ requesting \in [Thread -> [pc : {"idle", "count", "lookup", "add", "set"},
                                key : Key \cup {NoExchange}, day : Day, used : 0 .. Limit,
                                id : Id \cup {NoExchange}]]
  /\ \A t \in Thread : requesting[t].pc # "idle" => requesting[t].key \in Key
  /\ admitted \in [Day -> Nat]
  /\ answers \in [Key -> SUBSET Id]
  /\ requestsRaced \in BOOLEAN /\ crashed \in BOOLEAN

\* Whatever a key refers to, and whatever a client was answered, is a stored
\* exchange of that key: a crash between the two inserts leaves an exchange
\* without a key and never a key without an exchange.
AnswersAreStored ==
  \A k \in Key : \A i \in answers[k] \cup ({idem[k]} \ {NoExchange}) :
    i \in DOMAIN exchanges /\ exchanges[i] = k

\* A request that is repeated with its key is answered with the exchange that
\* the first one made: one key, one exchange, as long as requests do not overlap
\* and the process does not die between the two inserts.
OneExchangePerKey ==
  ~requestsRaced /\ ~crashed =>
    \A i, j \in DOMAIN exchanges : exchanges[i] = exchanges[j] => i = j

\* No more requests pass on a day than the quota of that day, also around
\* midnight, as long as requests do not overlap and the counters are not lost;
\* and the counter never charges for more than was admitted, whatever happens.
QuotaIsKept ==
  /\ ~requestsRaced /\ ~crashed => \A d \in Day : admitted[d] <= Limit
  /\ \A d \in Day : used[d] <= admitted[d]

\* exchange.propose, operators.consume_propose: answers, keys and quota together.
ProposalsAreSound == AnswersAreStored /\ OneExchangePerKey /\ QuotaIsKept

\* The inductive invariant of the three.  Always: an exchange is stored before it is
\* the answer for a key, and a count that was read is one that was admitted.
ProposeInv ==
  /\ AnswersAreStored
  /\ \A d \in Day : used[d] <= admitted[d]
  /\ \A t \in Thread :
       /\ requesting[t].pc = "count" =>
            requesting[t].used < Limit /\ requesting[t].used <= admitted[requesting[t].day]
       /\ requesting[t].pc = "set" =>
            /\ requesting[t].id \in DOMAIN exchanges
            /\ exchanges[requesting[t].id] = requesting[t].key

\* Alone, in a process that lives: the counter is right, and the exchange of a key is
\* the one that the key refers to or will, as soon as its thread has stored it.
ProposeAlone ==
  /\ Alone(requesting)
  /\ \A d \in Day : used[d] = admitted[d]
  /\ \A t \in Thread :
       /\ requesting[t].pc = "count" => requesting[t].used = used[requesting[t].day]
       /\ requesting[t].pc = "add" => \A i \in DOMAIN exchanges : exchanges[i] # requesting[t].key
  /\ \A i \in DOMAIN exchanges :
       \/ idem[exchanges[i]] = i
       \/ \E t \in Thread : requesting[t].pc = "set" /\ requesting[t].id = i
  /\ \A i, j \in DOMAIN exchanges : exchanges[i] = exchanges[j] => i = j

ProposeAloneInv == ~requestsRaced /\ ~crashed => ProposeAlone
=============================================================================
