--------------------------- MODULE ReputationLog ---------------------------
(***************************************************************************)
(* The hash chain of reputation entries in its SQLite table, written by    *)
(* the threads that close exchanges or import the entries of another node. *)
(* An append reads the last entry, counts the rows, and inserts; the store *)
(* locks only the insert.  The hash of an entry stands for the entry, so   *)
(* prev names the seq of the entry it was chained to.                      *)
(***************************************************************************)
EXTENDS Integers, Sequences, FiniteSets, FiniteSetsExt, ServerThreads

CONSTANTS
  Closing,     \* exchanges that close, each recorded by one thread
  Foreign,     \* the chain of another node, a sequence of entry hashes
  MaxImports   \* bound on the requests that import that chain

ASSUME ReputationAssumption ==
  /\ MaxImports \in Nat
  /\ Foreign \in Seq(Nat)

Genesis == -1

\* What an entry is about: a party of an exchange and its outcome, or a mirror.
Local  == [of : Closing, role : {"provider", "client"},
           outcome : {"settled", "rejected"}]
Hash   == {Foreign[i] : i \in DOMAIN Foreign}
Mirror == [of : Hash, role : {"mirror"},
           outcome : {"mirror"}]
Item   == Local \cup Mirror

VARIABLES
  table,     \* rows by primary key: the item and the entry it is chained to
  jobs,        \* the threads: step, items still to append, what was read
  unrecorded,      \* exchanges that are not recorded or being recorded
  imports,   \* number of import requests so far
  appendsRaced      \* history: whether two threads were ever at work at the same time

logVars == <<table, jobs, unrecorded, imports, appendsRaced>>

NoJob == [pc |-> "idle", todo |-> <<>>, seen |-> {}, last |-> Genesis, n |-> 0]

LogInit ==
  /\ table = <<>>          \* the function without rows
  /\ jobs = [t \in Thread |-> NoJob]
  /\ unrecorded = Closing
  /\ imports = 0
  /\ appendsRaced = FALSE

---------------------------------------------------------------------------
\* Mutant: the oldest row in place of the newest.
LastSeq_Oldest == IF DOMAIN table = {} THEN Genesis ELSE Min(DOMAIN table)

\* SELECT ... ORDER BY seq DESC LIMIT 1
LastSeq == IF DOMAIN table = {} THEN Genesis ELSE Max(DOMAIN table)

Settled(e) == <<[of |-> e, role |-> "provider", outcome |-> "settled"],
                [of |-> e, role |-> "client",   outcome |-> "settled"]>>
Rejected(e) == <<[of |-> e, role |-> "provider", outcome |-> "rejected"]>>

\* The hashes that an import skips: mirrored before.
Seen == {table[i].item.of : i \in {j \in DOMAIN table : table[j].item \in Mirror}}

\* The entries of the bundle, as an import mirrors them.
Mirrors == [i \in DOMAIN Foreign |->
              [of |-> Foreign[i], role |-> "mirror", outcome |-> "mirror"]]

\* The thread has these items to append, except those in seen.
GoOn(t, items, seen) ==
  jobs' = [jobs EXCEPT ![t] = IF items = <<>> THEN NoJob
                          ELSE [NoJob EXCEPT !.pc = "last", !.todo = items, !.seen = seen]]

\* record_settlement and record_outcome, after the final save of an exchange.
RecordSettlement(t, e) ==
  /\ jobs[t].pc = "idle" /\ e \in unrecorded
  /\ GoOn(t, Settled(e), {})
  /\ unrecorded' = unrecorded \ {e}
  /\ UNCHANGED <<table, imports>>

RecordOutcome(t, e) ==
  /\ jobs[t].pc = "idle" /\ e \in unrecorded
  /\ GoOn(t, Rejected(e), {})
  /\ unrecorded' = unrecorded \ {e}
  /\ UNCHANGED <<table, imports>>

\* import_reputation_bundle of a valid bundle.
Import(t) ==
  /\ jobs[t].pc = "idle" /\ imports < MaxImports
  /\ GoOn(t, Mirrors, Seen)
  /\ imports' = imports + 1
  /\ UNCHANGED <<table, unrecorded>>

---------------------------------------------------------------------------
\* Mutant: the import does not look at what was mirrored before.
Skipped_Never(t) == FALSE

\* An entry that was mirrored before is passed over.
Skipped(t) == Head(jobs[t].todo).role = "mirror" /\ Head(jobs[t].todo).of \in jobs[t].seen

Skip(t) ==
  /\ jobs[t].pc = "last" /\ Skipped(t)
  /\ GoOn(t, Tail(jobs[t].todo), jobs[t].seen)
  /\ UNCHANGED <<table, unrecorded, imports>>

\* append: the previous entry ...
ReadLast(t) ==
  /\ jobs[t].pc = "last" /\ ~Skipped(t)
  /\ jobs' = [jobs EXCEPT ![t].pc = "count", ![t].last = LastSeq]
  /\ UNCHANGED <<table, unrecorded, imports>>

\* Mutant: numbers begin at one.
ReadCount_FromOne(t) ==
  /\ jobs[t].pc = "count"
  /\ jobs' = [jobs EXCEPT ![t].pc = "insert", ![t].n = Cardinality(DOMAIN table) + 1]
  /\ UNCHANGED <<table, unrecorded, imports>>

\* ... its own number ...
ReadCount(t) ==
  /\ jobs[t].pc = "count"
  /\ jobs' = [jobs EXCEPT ![t].pc = "insert", ![t].n = Cardinality(DOMAIN table)]
  /\ UNCHANGED <<table, unrecorded, imports>>

\* The table with one more row.
With(k, row) == [i \in DOMAIN table \cup {k} |-> IF i = k THEN row ELSE table[i]]

\* Mutant: INSERT OR REPLACE.
Refused_Replace(t) == FALSE

\* The primary key: a number that is taken is refused.
Refused(t) == jobs[t].n \in DOMAIN table

\* What was mirrored now is passed over from here on.
Noted(t) == jobs[t].seen \cup {x.of : x \in {Head(jobs[t].todo)} \cap Mirror}

\* ... and the insert.  The job goes on with its next item.
Insert(t) ==
  /\ jobs[t].pc = "insert" /\ ~Refused(t)
  /\ table' = With(jobs[t].n, [item |-> Head(jobs[t].todo), prev |-> jobs[t].last])
  /\ GoOn(t, Tail(jobs[t].todo), Noted(t))
  /\ UNCHANGED <<unrecorded, imports>>

\* sqlite3.IntegrityError ends the request; its items are never appended.
InsertFails(t) ==
  /\ jobs[t].pc = "insert" /\ Refused(t)
  /\ jobs' = [jobs EXCEPT ![t] = NoJob]
  /\ UNCHANGED <<table, unrecorded, imports>>

\* The process dies and is started again.
LogCrash ==
  /\ \E t \in Thread : jobs[t].pc # "idle"
  /\ jobs' = [t \in Thread |-> NoJob]
  /\ UNCHANGED <<table, unrecorded, imports>>

\* Everything is recorded or lost.
LogDone ==
  /\ unrecorded = {} /\ imports = MaxImports
  /\ \A t \in Thread : jobs[t].pc = "idle"
  /\ UNCHANGED logVars

LogStep ==
  \/ \E t \in Thread :
       \/ \E e \in Closing : RecordSettlement(t, e) \/ RecordOutcome(t, e)
       \/ Import(t)
       \/ Skip(t) \/ ReadLast(t) \/ ReadCount(t) \/ Insert(t) \/ InsertFails(t)
  \/ LogCrash

LogNext == \/ LogStep /\ appendsRaced' = (appendsRaced \/ ~Alone(jobs)')
           \/ LogDone

LogSpec == LogInit /\ [][LogNext]_logVars

---------------------------------------------------------------------------
(* Properties.                                                             *)

LogTypeOK ==
  /\ \A i \in DOMAIN table : i \in Nat /\ table[i].item \in Item
                             /\ table[i].prev \in Nat \cup {Genesis}
  /\ \A t \in Thread :
       /\ jobs[t].pc \in {"idle", "last", "count", "insert"}
       /\ jobs[t].todo \in Seq(Item) /\ jobs[t].seen \subseteq Hash
       /\ jobs[t].pc # "idle" => jobs[t].todo # <<>>
       /\ jobs[t].last \in Nat \cup {Genesis} /\ jobs[t].n \in Nat
  /\ unrecorded \subseteq Closing /\ imports \in 0..MaxImports /\ appendsRaced \in BOOLEAN

\* verify_chain: the rows are numbered without a gap and each is chained to the
\* row before it.
ChainVerifies ==
  /\ DOMAIN table = 0 .. Cardinality(DOMAIN table) - 1
  /\ \A i \in DOMAIN table : table[i].prev = i - 1

\* As long as appends never overlap, the chain verifies, whatever crashes cut short.
VerifiesWhenSerial == ~appendsRaced => ChainVerifies

\* What is left of the chain when threads race: the numbers have no gap, and
\* every row is chained to an earlier one, so each entry still leads back to
\* the first and nobody can be chained to an entry that is not there.
EntriesLeadBack ==
  /\ DOMAIN table = 0 .. Cardinality(DOMAIN table) - 1
  /\ \A i \in DOMAIN table : table[i].prev \in Genesis .. i - 1

\* Each party's entry of an exchange stands once, and the client's only after
\* the provider's: record_settlement appends them in this order and stops at
\* the first failure, so a gap is always at the end.
PartiesInOrder ==
  /\ \A i, j \in DOMAIN table :
       table[i].item = table[j].item /\ table[i].item \in Local => i = j
  /\ \A i \in DOMAIN table : table[i].item.role = "client" =>
       \E j \in 0 .. i - 1 : table[j].item = [table[i].item EXCEPT !.role = "provider"]

\* A second import of a chain adds nothing, as long as imports do not overlap and
\* also when the first was cut short: each foreign entry has one mirror.
MirroredOnce ==
  ~appendsRaced => \A i, j \in DOMAIN table :
              table[i].item \in Mirror /\ table[i].item = table[j].item => i = j

\* reputation.py, v2/federation.py: an exchange is recorded once, its provider first,
\* and an entry of a foreign chain is mirrored once, whatever was cut short.
EntriesStandOnce == PartiesInOrder /\ MirroredOnce

\* Append only: no row is changed or removed, neither by a racing insert of the
\* same number nor after a crash.
AppendOnly ==
  [][\A i \in DOMAIN table : i \in DOMAIN table' /\ table'[i] = table[i]]_table

\* The inductive invariant.  A thread may hold what it read for long, but the
\* last row it saw is older than the number it counted, because it counted later.
Size == Cardinality(DOMAIN table)

Row  == [item : Item, prev : Nat \cup {Genesis}]
Task == [pc : {"idle", "last", "count", "insert"}, todo : Seq(Item),
         seen : SUBSET Hash, last : Nat \cup {Genesis}, n : Nat]

TaskOK(t) ==
  /\ jobs[t].pc # "idle" => jobs[t].todo # <<>>
  /\ jobs[t].pc \in {"count", "insert"} => jobs[t].last < Size
  /\ jobs[t].pc = "insert" => jobs[t].last < jobs[t].n /\ jobs[t].n <= Size

ChainInv ==
  /\ Size \in Nat /\ table \in [0 .. Size - 1 -> Row]
  /\ \A i \in 0 .. Size - 1 : table[i].prev < i
  /\ jobs \in [Thread -> Task]
  /\ \A t \in Thread : TaskOK(t)

\* What holds besides as long as threads work one after the other: nothing that
\* one of them read has become old.
UpToDate(t) ==
  /\ jobs[t].pc \in {"count", "insert"} => jobs[t].last = Size - 1
  /\ jobs[t].pc = "insert" => jobs[t].n = Size

LoneInv ==
  /\ Alone(jobs)
  /\ \A i \in 0 .. Size - 1 : table[i].prev = i - 1
  /\ \A t \in Thread : UpToDate(t)

\* The rows of a party of an exchange.
About(e) == {i \in DOMAIN table : table[i].item \in Local /\ table[i].item.of = e}

\* The thread that records an exchange, and what is left of its job.
Recording(t, e) ==
  jobs[t].pc # "idle" /\ Head(jobs[t].todo) \in Local /\ Head(jobs[t].todo).of = e

JobOK(t) ==
  \/ jobs[t].pc = "idle"
  \/ \A i \in DOMAIN jobs[t].todo : jobs[t].todo[i] \in Mirror
  \/ \E e \in Closing : /\ jobs[t].todo \in {Settled(e), Rejected(e)}
                       /\ About(e) = {}
  \/ \E e \in Closing : /\ jobs[t].todo = Tail(Settled(e))
                       /\ \E i \in DOMAIN table : About(e) = {i} /\ table[i].item = Settled(e)[1]

\* The inductive invariant of the items: one thread records an exchange, once, and has
\* appended what is no longer in its job.
RecordInv ==
  /\ PartiesInOrder
  /\ \A e \in unrecorded : About(e) = {} /\ \A t \in Thread : ~Recording(t, e)
  /\ \A t, u \in Thread, e \in Closing : Recording(t, e) /\ Recording(u, e) => t = u
  /\ \A t \in Thread : JobOK(t)

\* Of a thread that is alone: an import knows every mirror of the table, and has not
\* seen the entry that it is about to mirror.
Knows(t) ==
  jobs[t].pc # "idle" /\ Head(jobs[t].todo) \in Mirror =>
    /\ Seen \subseteq jobs[t].seen
    /\ jobs[t].pc \in {"count", "insert"} => Head(jobs[t].todo).of \notin jobs[t].seen

MirrorInv ==
  /\ Alone(jobs)
  /\ \A i, j \in DOMAIN table : table[i].item \in Mirror /\ table[i].item = table[j].item => i = j
  /\ \A t \in Thread : Knows(t)

MirrorAloneInv == ~appendsRaced => MirrorInv
=============================================================================
