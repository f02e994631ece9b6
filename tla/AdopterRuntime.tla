--------------------------- MODULE AdopterRuntime ---------------------------
(***************************************************************************)
(* An agent's own process beside the node, for one exchange: the outbox    *)
(* that queues requests while the network is away, the vault that keeps    *)
(* the signed document, and the ledgers that anchor it.  src/novapanda/    *)
(* adopter: runtime.py, outbox.py, vault.py, peer.py, anchor.py,           *)
(* anchor_rails.py, export_pkg.py.                                         *)
(*                                                                         *)
(* The process runs one call at a time; its steps are the writes of single *)
(* files and the requests to the node, and it can end between any two.     *)
(***************************************************************************)
EXTENDS StateMachine, Naturals, Sequences, FiniteSets

CONSTANTS
  Item,        \* ids of outbox items
  OutboxOps,   \* the requests that are queued
  NoItem,
  MaxFlush,    \* max_items of a flush
  MaxBackups   \* bound on the packages that are imported

\* The request in the file of an item.
Queued == [op : OutboxOps, status : {"pending", "done", "failed"}]

ASSUME AdopterAssumption ==
  /\ NoItem \notin Item \cup Queued /\ MaxFlush \in Nat \ {0} /\ MaxBackups \in Nat
  /\ OutboxOps \subseteq {"contract", "escrow", "deliver", "verify", "confirm", "dispute"}

VARIABLES
  files,      \* outbox/<item>.json: request and status, or NoItem
  index,      \* outbox/index.json
  networkUp,
  task,       \* what the process is doing, and for which item
  todo,       \* the places in the index that the running flush still has to handle
  nodeState,  \* the exchange at the node
  nodeDoc,    \* the state that the document of the exchange carries at the node
  vault,      \* the state of the document in vault/<vdc>.json, or "none"
  listed,     \* whether vault/index.json names it
  anchored,   \* documents in the local anchor ledger
  published,  \* documents on the shared bulletin board
  effects,    \* history: how often the request of an item changed the exchange
  docs,       \* history: the states that the document ever carried
  backups,    \* history: number of packages imported
  crashed     \* history: whether the process ever ended in the middle of a call

adopterVars == <<files, index, networkUp, task, todo, nodeState, nodeDoc, vault, listed,
                 anchored, published, effects, docs, backups, crashed>>
outboxVars == <<files, index, todo>>
nodeVars   == <<nodeState, nodeDoc, effects, docs>>
vaultVars  == <<vault, listed, anchored, published, backups>>

Ready == [at |-> "ready", item |-> NoItem]
At(step, i) == [at |-> step, item |-> i]

AdopterInit ==
  /\ files = [i \in Item |-> NoItem] /\ index = <<>> /\ todo = {}
  /\ networkUp = TRUE /\ task = Ready
  /\ nodeState = "PROPOSED" /\ nodeDoc = "none"
  /\ vault = "none" /\ listed = FALSE
  /\ anchored = {} /\ published = {}
  /\ effects = [i \in Item |-> 0] /\ docs = {} /\ backups = 0 /\ crashed = FALSE

Saved(i) == files[i] # NoItem
Status(i) == IF Saved(i) THEN files[i].status ELSE "none"
---------------------------------------------------------------------------
(* The node, as a request of this process meets it.                        *)

Reaches(op) ==
  CASE op = "contract" -> {"CONTRACTED"}
    [] op = "escrow"   -> {"ESCROWED"}
    [] op = "deliver"  -> {"DELIVERED"}
    [] op = "verify"   -> {"VERIFIED", "REJECTED"}
    [] op = "confirm"  -> {"SETTLED"}
    [] op = "dispute"  -> {"DISPUTED"}

Written(d) == nodeDoc' = d /\ docs' = docs \cup {d}

\* The engine carries the request out.
Accept(op, i) ==
  \E s \in Reaches(op) :
    /\ CanTransition(nodeState, s)
    /\ op = "verify" => nodeState = "DELIVERED"
    /\ nodeState' = s
    /\ IF op \in {"deliver", "confirm"} THEN Written(s) ELSE UNCHANGED <<nodeDoc, docs>>
    /\ effects' = IF i \in Item THEN [effects EXCEPT ![i] = @ + 1] ELSE effects

\* The engine answers without doing anything: the contract is signed already.
Repeat(op) == op = "contract" /\ nodeState = "CONTRACTED" /\ UNCHANGED nodeVars

\* confirm wrote the client's signature and SETTLED into the document, and the rail failed.
ConfirmFails(op) ==
  /\ op = "confirm" /\ CanTransition(nodeState, "SETTLED")
  /\ Written("SETTLED") /\ UNCHANGED <<nodeState, effects>>

\* A request raises when it is refused or lost, when confirm fails half way, and
\* when its answer is lost.
Raises(op, i) ==
  \/ UNCHANGED nodeVars
  \/ ConfirmFails(op)
  \/ Accept(op, i)

\* The other party and the timers of the node.
NodeMoves ==
  /\ \E s \in {"CONTRACTED", "ESCROWED", "DELIVERED", "VERIFIED",
               "EXPIRED_REFUNDED", "CANCELLED"} :
       /\ CanTransition(nodeState, s)
       /\ nodeState' = s
       /\ IF s = "DELIVERED" THEN Written(s) ELSE UNCHANGED <<nodeDoc, docs>>
  /\ UNCHANGED <<effects, outboxVars, vaultVars, networkUp, task, crashed>>
---------------------------------------------------------------------------
(* The outbox.                                                             *)

\* enqueue writes the item, with the network away or force_queue ...
Enqueue(i, op) ==
  /\ task = Ready /\ ~Saved(i)
  /\ files' = [files EXCEPT ![i] = [op |-> op, status |-> "pending"]]
  /\ task' = At("index", i)
  /\ UNCHANGED <<index, todo, networkUp, nodeVars, vaultVars, crashed>>

\* ... and then names it in the index.
SetIds ==
  /\ task.at = "index"
  /\ index' = Append(index, task.item)
  /\ task' = Ready
  /\ UNCHANGED <<files, todo, networkUp, nodeVars, vaultVars, crashed>>

\* list_pending
PendingAt == {p \in DOMAIN index : Status(index[p]) = "pending"}
First(places) == CHOOSE p \in places : \A q \in places : p <= q

\* flush: the first pending items, read at once
Flush ==
  /\ task = Ready /\ networkUp /\ PendingAt # {}
  /\ todo' = {p \in PendingAt : Cardinality({q \in PendingAt : q < p}) < MaxFlush}
  /\ task' = At("handle", index[First(todo')])
  /\ UNCHANGED <<files, index, networkUp, nodeVars, vaultVars, crashed>>

\* The handler of flush_outbox: the request, and the vault after a confirm.
Handle ==
  LET i == task.item  op == files[i].op IN
  /\ task.at = "handle"
  /\ \/ /\ Raises(op, i)
        /\ task' = At("failed", i)
     \/ /\ Accept(op, i) \/ Repeat(op)
        /\ task' = At(IF op = "confirm" THEN "ingest" ELSE "done", i)
  /\ UNCHANGED <<outboxVars, vaultVars, networkUp, crashed>>

\* The item is marked, and the flush goes on with the next one: a failure stays
\* with its item.
Mark ==
  /\ task.at \in {"done", "failed"}
  /\ files' = [files EXCEPT ![task.item].status = task.at]
  /\ todo' = todo \ {First(todo)}
  /\ task' = IF todo' = {} THEN Ready ELSE At("handle", index[First(todo')])
  /\ UNCHANGED <<index, networkUp, nodeVars, vaultVars, crashed>>

Partition == /\ networkUp' = ~networkUp
             /\ task = Ready
             /\ UNCHANGED <<outboxVars, task, nodeVars, vaultVars, crashed>>

\* The process ends and starts; a new Outbox believes that the network is there.
Crash ==
  /\ task # Ready
  /\ task' = Ready /\ todo' = {} /\ networkUp' = TRUE /\ crashed' = TRUE
  /\ UNCHANGED <<files, index, nodeVars, vaultVars>>
---------------------------------------------------------------------------
(* Requests with the network up, the vault and the anchors.                *)

\* confirm, dispute and verify, and the phrases of apply_intent that stand for them
Online(op) ==
  /\ task = Ready /\ networkUp /\ op \in {"confirm", "dispute", "verify"}
  /\ \/ Raises(op, NoItem) /\ UNCHANGED task
     \/ Accept(op, NoItem) /\ task' = IF op = "confirm" THEN At("ingest", NoItem) ELSE Ready
  /\ UNCHANGED <<outboxVars, vaultVars, networkUp, crashed>>

\* remember_settled, by an orchestrator or before a backup is exported
RememberSettled ==
  /\ task = Ready
  /\ task' = At("ingest", NoItem)
  /\ UNCHANGED <<outboxVars, networkUp, nodeVars, vaultVars, crashed>>

AfterVault(i) == IF i = NoItem THEN Ready ELSE At("done", i)

\* Mutant: the vault is written with what the request was to achieve.
Ingest_Presumed ==
  /\ task.at = "ingest"
  /\ nodeDoc # "none"
  /\ vault' = "SETTLED"
  /\ task' = IF listed THEN AfterVault(task.item) ELSE At("list", task.item)
  /\ UNCHANGED <<outboxVars, networkUp, nodeVars, listed, anchored, published, backups, crashed>>

\* _ingest_exchange: the document is read from the node and written to the vault.
Ingest ==
  /\ task.at = "ingest"
  /\ nodeDoc # "none"
  /\ vault' = nodeDoc
  /\ task' = IF listed THEN AfterVault(task.item) ELSE At("list", task.item)
  /\ UNCHANGED <<outboxVars, networkUp, nodeVars, listed, anchored, published, backups, crashed>>

\* The exchange cannot be read, or has no document yet.
IngestRaises ==
  /\ task.at = "ingest"
  /\ task' = IF task.item = NoItem THEN Ready ELSE At("failed", task.item)
  /\ UNCHANGED <<outboxVars, networkUp, nodeVars, vaultVars, crashed>>

VaultList ==
  /\ task.at = "list"
  /\ listed' = TRUE
  /\ task' = AfterVault(task.item)
  /\ UNCHANGED <<outboxVars, networkUp, nodeVars, vault, anchored, published, backups, crashed>>

\* import_from_peer: whatever document the peer exported replaces the one in the vault.
ImportFromPeer ==
  /\ task = Ready /\ backups < MaxBackups
  /\ \E d \in docs : vault' = d
  /\ backups' = backups + 1
  /\ task' = IF listed THEN Ready ELSE At("list", NoItem)
  /\ UNCHANGED <<outboxVars, networkUp, nodeVars, listed, anchored, published, crashed>>

\* anchor_exchange: the local ledger, and with multi=True the board after it
AnchorExchange ==
  /\ task = Ready /\ listed
  /\ anchored' = anchored \cup {vault}
  /\ task' \in {Ready, At("publish", NoItem)}
  /\ UNCHANGED <<outboxVars, networkUp, nodeVars, vault, listed, published, backups, crashed>>

Publish ==
  /\ task.at = "publish"
  /\ published' = published \cup {vault}
  /\ task' = Ready
  /\ UNCHANGED <<outboxVars, networkUp, nodeVars, vault, listed, anchored, backups, crashed>>

AdopterNext ==
  \/ \E i \in Item, op \in OutboxOps : Enqueue(i, op)
  \/ SetIds \/ Flush \/ Handle \/ Mark
  \/ Partition \/ Crash \/ NodeMoves
  \/ \E op \in OutboxOps : Online(op)
  \/ RememberSettled \/ Ingest \/ IngestRaises \/ VaultList
  \/ ImportFromPeer \/ AnchorExchange \/ Publish

AdopterSpec == AdopterInit /\ [][AdopterNext]_adopterVars
---------------------------------------------------------------------------
(* Properties.                                                             *)

\* An item marked as done did what it was queued for, once; nothing queued is ever
\* done twice, whatever is replayed after a crash.
DoneTookEffect ==
  \A i \in Item :
    /\ effects[i] <= 1
    /\ Status(i) = "done" /\ files[i].op # "contract" => effects[i] = 1

\* An item that waits has had no effect, unless it is in work or the process ended.
PendingHadNone ==
  \A i \in Item : Status(i) = "pending" /\ effects[i] > 0 => task.item = i \/ crashed

\* A confirm that is done left the settled document in the vault, unless a backup
\* of the peer has replaced it.
DoneIsVaulted ==
  \A i \in Item :
    Status(i) = "done" /\ files[i].op = "confirm" /\ backups = 0 =>
      vault = "SETTLED" /\ listed /\ nodeState = "SETTLED"

\* outbox.py, vault.py: a request that was queued is carried out at most once and is
\* done only when it took effect, and the vault holds no document that the node
\* never had: nothing is settled offline.
OutboxIsHonest == /\ DoneTookEffect /\ PendingHadNone /\ DoneIsVaulted
                  /\ vault \in docs \cup {"none"}
                  /\ published \subseteq anchored
---------------------------------------------------------------------------
(* What the honesty of the outbox rests on.                                *)

AdopterSteps == {"ready", "index", "handle", "done", "failed", "ingest", "list", "publish"}

AdopterTypeOK ==
  /\ files \in [Item -> Queued \cup {NoItem}] /\ index \in Seq(Item) /\ todo \subseteq DOMAIN index
  /\ networkUp \in BOOLEAN /\ crashed \in BOOLEAN /\ listed \in BOOLEAN /\ backups \in Nat
  /\ task \in [at : AdopterSteps, item : Item \cup {NoItem}]
  /\ nodeState \in State /\ nodeDoc \in State \cup {"none"} /\ vault \in State \cup {"none"}
  /\ docs \subseteq State /\ effects \in [Item -> Nat]

\* The states that the exchange can be in once a request took effect.
Past(op) ==
  CASE op = "contract" -> State \ {"PROPOSED"}
    [] op = "escrow"   -> State \ {"PROPOSED", "CONTRACTED"}
    [] op = "deliver"  -> State \ {"PROPOSED", "CONTRACTED", "ESCROWED"}
    [] op = "verify"   -> State \ {"PROPOSED", "CONTRACTED", "ESCROWED", "DELIVERED"}
    [] op = "dispute"  -> State \ {"PROPOSED", "CONTRACTED", "ESCROWED", "DELIVERED", "VERIFIED"}
    [] op = "confirm"  -> {"SETTLED"}

\* What took effect lies behind the exchange, which cannot meet it again.
EffectsArePast ==
  \A i \in Item :
    effects[i] > 0 => effects[i] = 1 /\ Saved(i) /\ nodeState \in Past(files[i].op)

\* The document of a settled exchange is the settled one, and documents are remembered.
DocsFollow ==
  /\ nodeState = "SETTLED" => nodeDoc = "SETTLED"
  /\ nodeDoc # "none" => nodeDoc \in docs
  /\ vault # "none" => vault \in docs

\* The step that the process is at: what is indexed had no effect; what is to be marked
\* as done had its effect, and after a confirm the document is in the vault.
TaskKept ==
  LET i == task.item IN
  /\ task.at \in {"ready", "publish"} => i = NoItem
  /\ task.at = "index" => i \in Item /\ effects[i] = 0
  /\ task.at \in {"handle", "done", "failed"} => i \in Item /\ Saved(i)
  /\ task.at \in {"done", "ingest", "list"} /\ i \in Item =>
       Saved(i) /\ (files[i].op # "contract" => effects[i] = 1)
  /\ task.at \in {"ingest", "list"} /\ i \in Item => files[i].op = "confirm"
  /\ task.at \in {"list", "done"} /\ i \in Item /\ files[i].op = "confirm" /\ backups = 0 =>
       vault = "SETTLED" /\ (task.at = "done" => listed)
  /\ task.at = "publish" => vault \in anchored
  /\ \A p \in todo : Saved(index[p])

AdopterInv == EffectsArePast /\ DocsFollow /\ TaskKept /\ OutboxIsHonest
=============================================================================
