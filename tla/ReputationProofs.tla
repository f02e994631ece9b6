-------------------------- MODULE ReputationProofs --------------------------
(***************************************************************************)
(* Theorems about ReputationLog for every set of threads and exchanges and *)
(* every foreign chain: what a race cannot break, that an exchange is      *)
(* recorded once, and that without a race the chain verifies.              *)
(***************************************************************************)
EXTENDS ReputationLog, FiniteSetTheorems, TLAPS

\* A table numbered from 0 to k-1 has k rows, and its last number is k-1.
LEMMA DenseTable ==
  ASSUME NEW k \in Nat, DOMAIN table = 0 .. k - 1
  PROVE  Size = k /\ LastSeq = k - 1
<1>1. Size = k
  BY FS_Interval, k - 1 \in Int DEF Size
<1>2. LastSeq = k - 1
  <2>1. CASE k = 0
    BY <2>1 DEF LastSeq, Genesis
  <2>2. CASE k # 0
    <3>1. k - 1 \in 0 .. k - 1 /\ \A y \in 0 .. k - 1 : k - 1 >= y
      BY <2>2
    <3>2. \A x \in 0 .. k - 1 : (\A y \in 0 .. k - 1 : x >= y) => x = k - 1
      BY <3>1
    <3>3. Max(0 .. k - 1) = k - 1
      BY <3>1, <3>2 DEF Max
    <3> QED BY <2>2, <3>1, <3>3 DEF LastSeq
  <2> QED BY <2>1, <2>2
<1> QED BY <1>1, <1>2

\* A row with the next number makes the table one row longer.
LEMMA TableGrows ==
  ASSUME NEW k \in Nat, NEW row \in Row, table \in [0 .. k - 1 -> Row],
         table' = With(k, row)
  PROVE  /\ table' \in [0 .. k -> Row]
         /\ table'[k] = row
         /\ \A i \in 0 .. k - 1 : table'[i] = table[i]
         /\ Size' = k + 1
<1>1. DOMAIN table \cup {k} = 0 .. k
  OBVIOUS
<1>2. table' = [i \in 0 .. k |-> IF i = k THEN row ELSE table[i]]
  BY <1>1 DEF With
<1>3. table' \in [0 .. k -> Row]
  BY <1>2
<1>4. table'[k] = row /\ \A i \in 0 .. k - 1 : table'[i] = table[i]
  BY <1>2
<1>5. Size' = k + 1
  BY <1>3, FS_Interval, k \in Int DEF Size
<1> QED BY <1>3, <1>4, <1>5

\* What a job begins or goes on with is a task that reads nothing yet.
LEMMA GoOnIsTask ==
  ASSUME NEW t \in Thread, jobs \in [Thread -> Task], NEW items \in Seq(Item),
         NEW seen \in SUBSET Hash, GoOn(t, items, seen)
  PROVE  /\ jobs' \in [Thread -> Task]
         /\ jobs'[t].pc \in {"idle", "last"}
         /\ jobs'[t].pc # "idle" => jobs'[t].todo # <<>>
         /\ \A u \in Thread \ {t} : jobs'[u] = jobs[u]
<1>1. NoJob \in Task
  <2>1. <<>> \in Seq(Item)
    OBVIOUS
  <2> QED BY <2>1 DEF NoJob, Task, Genesis
<1>2. [NoJob EXCEPT !.pc = "last", !.todo = items, !.seen = seen] \in Task
  BY <1>1 DEF Task
<1> QED BY <1>1, <1>2 DEF GoOn, NoJob
---------------------------------------------------------------------------
\* The invariants hold at the beginning.
LEMMA ChainInit ==
  ASSUME LogInit
  PROVE  ChainInv /\ LoneInv
<1>1. DOMAIN table = 0 .. 0 - 1 /\ Size = 0
  BY DenseTable DEF LogInit
<1>2. table \in [0 .. Size - 1 -> Row]
  BY <1>1 DEF LogInit
<1>3. NoJob \in Task
  <2>1. <<>> \in Seq(Item)
    OBVIOUS
  <2> QED BY <2>1 DEF NoJob, Task, Genesis
<1>4. \A t \in Thread : TaskOK(t) /\ UpToDate(t)
  BY DEF LogInit, TaskOK, UpToDate, NoJob
<1> QED BY <1>1, <1>2, <1>3, <1>4 DEF LogInit, ChainInv, LoneInv, Alone, NoJob

\* A step that leaves the table keeps the invariant when its thread is in order.
LEMMA LocalStep ==
  ASSUME NEW t \in Thread, ChainInv, UNCHANGED table,
         jobs' \in [Thread -> Task], TaskOK(t)',
         \A u \in Thread \ {t} : jobs'[u] = jobs[u]
  PROVE  ChainInv'
<1>1. Size' = Size
  BY DEF Size
<1>2. ASSUME NEW u \in Thread PROVE TaskOK(u)'
  <2>1. CASE u = t
    BY <2>1
  <2>2. CASE u # t
    BY <2>2, <1>1 DEF ChainInv, TaskOK
  <2> QED BY <2>1, <2>2
<1> QED BY <1>1, <1>2 DEF ChainInv

\* A thread that begins a job, or goes on with it.
LEMMA ContinueStep ==
  ASSUME NEW t \in Thread, ChainInv, UNCHANGED table,
         NEW items \in Seq(Item), NEW seen \in SUBSET Hash, GoOn(t, items, seen)
  PROVE  ChainInv'
<1>1. /\ jobs' \in [Thread -> Task]
      /\ jobs'[t].pc \in {"idle", "last"}
      /\ jobs'[t].pc # "idle" => jobs'[t].todo # <<>>
      /\ \A u \in Thread \ {t} : jobs'[u] = jobs[u]
  BY GoOnIsTask DEF ChainInv
<1>2. TaskOK(t)'
  BY <1>1 DEF TaskOK
<1> QED BY <1>1, <1>2, LocalStep

\* The jobs are made of items.
LEMMA Jobs ==
  ASSUME NEW e \in Closing, ReputationAssumption
  PROVE  /\ Settled(e) \in Seq(Item)
         /\ Rejected(e) \in Seq(Item)
         /\ {} \in SUBSET Hash
BY DEF Settled, Rejected, Item, Local

LEMMA MirrorJob ==
  ASSUME ReputationAssumption
  PROVE  Mirrors \in Seq(Item) /\ Seen \in SUBSET Hash
<1>1. \A i \in DOMAIN Foreign :
         [of |-> Foreign[i], role |-> "mirror", outcome |-> "mirror"] \in Item
  BY DEF Item, Mirror, Hash
<1>2. Mirrors \in Seq(Item)
  <2>1. PICK m \in Nat : DOMAIN Foreign = 1 .. m
    BY DEF ReputationAssumption
  <2>2. Mirrors \in [1 .. m -> Item]
    BY <1>1, <2>1 DEF Mirrors
  <2> QED BY <2>1, <2>2
<1>3. Seen \in SUBSET Hash
  BY DEF Seen, Mirror
<1> QED BY <1>2, <1>3

\* What is left of a job.
LEMMA RestOfJob ==
  ASSUME NEW t \in Thread, ChainInv, jobs[t].pc # "idle"
  PROVE  /\ jobs[t] \in Task
         /\ Tail(jobs[t].todo) \in Seq(Item)
         /\ Head(jobs[t].todo) \in Item
         /\ jobs[t].seen \in SUBSET Hash
<1>1. jobs[t] \in Task /\ jobs[t].todo # <<>>
  BY DEF ChainInv, TaskOK
<1> QED BY <1>1 DEF Task

\* The insert adds the next row, chained to an earlier one.
LEMMA InsertStep ==
  ASSUME NEW t \in Thread, ChainInv, Insert(t)
  PROVE  /\ Size' = Size + 1 /\ table' \in [0 .. Size -> Row]
         /\ table'[Size].prev = jobs[t].last /\ table'[Size].item = Head(jobs[t].todo)
         /\ \A i \in 0 .. Size - 1 : table'[i] = table[i]
         /\ ChainInv'
<1> DEFINE row == [item |-> Head(jobs[t].todo), prev |-> jobs[t].last]
<1>1. /\ jobs[t] \in Task
      /\ Tail(jobs[t].todo) \in Seq(Item)
      /\ Head(jobs[t].todo) \in Item
      /\ Noted(t) \in SUBSET Hash
  BY RestOfJob DEF Insert, Noted, Mirror
<1>2. row \in Row
  BY <1>1 DEF Row, Task
<1>3. jobs[t].n = Size /\ jobs[t].last < Size /\ Size \in Nat
  <2>1. TaskOK(t) /\ jobs[t].n \in Nat /\ jobs[t].last \in Nat \cup {Genesis}
    BY <1>1 DEF ChainInv, Task
  <2>2. DOMAIN table = 0 .. Size - 1 /\ Size \in Nat
    BY DEF ChainInv
  <2>3. jobs[t].n \notin 0 .. Size - 1 /\ jobs[t].pc = "insert"
    BY <2>2 DEF Insert, Refused
  <2> QED BY <2>1, <2>2, <2>3 DEF TaskOK, Genesis
<1>4. table' = With(Size, row) /\ table \in [0 .. Size - 1 -> Row]
  BY <1>3 DEF Insert, ChainInv
<1>5. /\ table' \in [0 .. Size -> Row]
      /\ table'[Size] = row
      /\ \A i \in 0 .. Size - 1 : table'[i] = table[i]
      /\ Size' = Size + 1
  BY ONLY <1>2, <1>3, <1>4, TableGrows
<1>6. \A i \in 0 .. Size' - 1 : table'[i].prev < i
  <2>1. \A i \in 0 .. Size' - 1 : i = Size \/ i \in 0 .. Size - 1
    BY <1>3, <1>5
  <2>2. table'[Size].prev < Size
    BY <1>3, <1>5
  <2>3. \A i \in 0 .. Size - 1 : table[i].prev < i
    BY DEF ChainInv
  <2> QED BY <2>1, <2>2, <2>3, <1>5
<1>7. GoOn(t, Tail(jobs[t].todo), Noted(t))
  BY DEF Insert
<1>8. /\ jobs' \in [Thread -> Task]
      /\ jobs'[t].pc \in {"idle", "last"}
      /\ jobs'[t].pc # "idle" => jobs'[t].todo # <<>>
      /\ \A u \in Thread \ {t} : jobs'[u] = jobs[u]
  BY <1>1, <1>7, GoOnIsTask DEF ChainInv
<1>9. ASSUME NEW u \in Thread PROVE TaskOK(u)'
  <2>1. CASE u = t
    BY <2>1, <1>8 DEF TaskOK
  <2>2. CASE u # t
    <3>1. TaskOK(u) /\ jobs'[u] = jobs[u] /\ jobs[u] \in Task
      BY <2>2, <1>8 DEF ChainInv
    <3> QED BY <3>1, <1>3, <1>5 DEF TaskOK, Task, Genesis
  <2> QED BY <2>1, <2>2
<1>10. ChainInv'
  <2>1. Size' \in Nat /\ 0 .. Size' - 1 = 0 .. Size
    BY <1>3, <1>5
  <2> QED BY <2>1, <1>5, <1>6, <1>8, <1>9 DEF ChainInv
<1> QED BY <1>5, <1>10
\* The steps that append nothing: the table stays.
LEMMA QuietStep ==
  ASSUME ReputationAssumption, ChainInv, NEW t \in Thread,
         \/ \E e \in Closing : RecordSettlement(t, e) \/ RecordOutcome(t, e)
         \/ Import(t) \/ Skip(t) \/ ReadLast(t) \/ ReadCount(t) \/ InsertFails(t)
  PROVE  ChainInv' /\ UNCHANGED table
<1>0. jobs \in [Thread -> Task] /\ jobs[t] \in Task /\ Size \in Nat /\ DOMAIN table = 0 .. Size - 1
  BY DEF ChainInv
<1>1. ASSUME NEW e \in Closing, RecordSettlement(t, e) PROVE ChainInv' /\ UNCHANGED table
  BY <1>1, Jobs, ContinueStep DEF RecordSettlement
<1>2. ASSUME NEW e \in Closing, RecordOutcome(t, e) PROVE ChainInv' /\ UNCHANGED table
  BY <1>2, Jobs, ContinueStep DEF RecordOutcome
<1>3. CASE Import(t)
  BY <1>3, MirrorJob, ContinueStep DEF Import
<1>4. CASE Skip(t)
  BY <1>4, RestOfJob, ContinueStep DEF Skip
<1>5. CASE ReadLast(t)
  <2>1. LastSeq = Size - 1
    BY <1>0, DenseTable
  <2>2. jobs' = [jobs EXCEPT ![t].pc = "count", ![t].last = LastSeq] /\ jobs[t].pc = "last"
    BY <1>5 DEF ReadLast
  <2>3. jobs' \in [Thread -> Task]
    <3>1. LastSeq \in Nat \cup {Genesis}
      BY <2>1, <1>0 DEF Genesis
    <3>2. [jobs[t] EXCEPT !.pc = "count", !.last = LastSeq] \in Task
      BY <3>1, <1>0 DEF Task
    <3>3. jobs' = [jobs EXCEPT ![t] = [jobs[t] EXCEPT !.pc = "count", !.last = LastSeq]]
      BY <2>2, <1>0
    <3> QED BY <3>2, <3>3, <1>0
  <2>4. TaskOK(t)'
    BY <2>1, <2>2, <1>0, <1>5 DEF TaskOK, Size, ReadLast, ChainInv
  <2> QED BY <2>2, <2>3, <2>4, <1>5, LocalStep DEF ReadLast
<1>6. CASE ReadCount(t)
  <2>1. jobs' = [jobs EXCEPT ![t].pc = "insert", ![t].n = Size] /\ jobs[t].pc = "count"
    BY <1>6 DEF ReadCount, Size
  <2>2. jobs' \in [Thread -> Task]
    BY <2>1, <1>0 DEF Task
  <2>3. TaskOK(t)'
    <3>1. jobs[t].last < Size /\ jobs[t].todo # <<>>
      BY <2>1 DEF ChainInv, TaskOK
    <3>2. Size' = Size
      BY <1>6 DEF ReadCount, Size
    <3> QED BY <3>1, <3>2, <2>1, <1>0 DEF TaskOK
  <2> QED BY <2>1, <2>2, <2>3, <1>6, LocalStep DEF ReadCount
<1>7. CASE InsertFails(t)
  <2>1. GoOn(t, <<>>, {})
    BY <1>7 DEF InsertFails, GoOn
  <2>2. <<>> \in Seq(Item)
    OBVIOUS
  <2> QED BY <2>1, <2>2, <1>7, ContinueStep DEF InsertFails
<1>8. Import(t) \/ Skip(t) \/ ReadLast(t) \/ ReadCount(t) \/ InsertFails(t) => UNCHANGED table
  BY DEF Import, Skip, ReadLast, ReadCount, InsertFails
<1> QED BY <1>1, <1>2, <1>3, <1>4, <1>5, <1>6, <1>7, <1>8

\* The end of the process leaves no thread in the middle of anything.
LEMMA CrashStep ==
  ASSUME ChainInv, LogCrash
  PROVE  ChainInv' /\ UNCHANGED table /\ \A t \in Thread : jobs'[t].pc = "idle"
<1>1. jobs' \in [Thread -> Task]
  <2>1. <<>> \in Seq(Item)
    OBVIOUS
  <2> QED BY <2>1 DEF LogCrash, NoJob, Task, Genesis
<1>2. \A t \in Thread : jobs'[t].pc = "idle"
  BY DEF LogCrash, NoJob
<1>3. Size' = Size /\ UNCHANGED table
  BY DEF LogCrash, Size
<1> QED BY <1>1, <1>2, <1>3 DEF ChainInv, TaskOK

LEMMA ChainStep ==
  ASSUME ReputationAssumption, ChainInv, [LogNext]_logVars
  PROVE  ChainInv'
<1>1. ASSUME NEW t \in Thread, Insert(t) PROVE ChainInv'
  BY <1>1, InsertStep
<1>2. CASE LogCrash
  BY <1>2, CrashStep
<1>3. CASE UNCHANGED logVars
  BY <1>3 DEF ChainInv, TaskOK, Size, logVars
<1> QED BY <1>1, <1>2, <1>3, QuietStep DEF LogNext, LogStep, LogDone

\* While threads work one after the other, nothing that was read becomes old.
LEMMA LoneStep ==
  ASSUME ReputationAssumption, ChainInv, LoneInv, [LogNext]_logVars, Alone(jobs)'
  PROVE  LoneInv'
<1> DEFINE Good == \A t \in Thread : UpToDate(t)'
<1>0. Size \in Nat /\ DOMAIN table = 0 .. Size - 1 /\ jobs \in [Thread -> Task]
  BY DEF ChainInv
<1>1. ASSUME NEW t \in Thread, Insert(t) PROVE LoneInv'
  <2>1. /\ Size' = Size + 1 /\ table'[Size].prev = jobs[t].last
        /\ \A i \in 0 .. Size - 1 : table'[i] = table[i]
    BY <1>1, InsertStep
  <2>2. jobs[t].last = Size - 1
    BY <1>1 DEF LoneInv, UpToDate, Insert
  <2>3. \A i \in 0 .. Size' - 1 : table'[i].prev = i - 1
    BY <2>1, <2>2, <1>0 DEF LoneInv
  <2>4. jobs'[t].pc \in {"idle", "last"} /\ \A u \in Thread \ {t} : jobs'[u] = jobs[u]
    BY <1>1, <1>0 DEF Insert, GoOn, NoJob
  <2>5. \A u \in Thread \ {t} : jobs[u].pc = "idle"
    BY <1>1 DEF LoneInv, Alone, Insert
  <2>6. Good
    BY <2>4, <2>5 DEF UpToDate
  <2> QED BY <2>3, <2>6 DEF LoneInv
<1>2. ASSUME UNCHANGED table, Good PROVE LoneInv'
  BY <1>2 DEF LoneInv, Size
<1>3. ASSUME NEW t \in Thread, UNCHANGED table, UpToDate(t)',
             \A u \in Thread \ {t} : jobs'[u] = jobs[u]
      PROVE  LoneInv'
  <2>1. Good
    BY <1>3 DEF LoneInv, UpToDate, Size
  <2> QED BY <1>2, <1>3, <2>1
<1>4. ASSUME NEW t \in Thread, NEW items, NEW seen, GoOn(t, items, seen), UNCHANGED table
      PROVE  LoneInv'
  BY <1>0, <1>3, <1>4 DEF GoOn, NoJob, UpToDate
<1>5. ASSUME NEW t \in Thread, ReadLast(t) PROVE LoneInv'
  <2>1. LastSeq = Size - 1
    BY <1>0, DenseTable
  <2>2. UpToDate(t)' /\ UNCHANGED table
    BY <1>0, <1>5, <2>1 DEF ReadLast, UpToDate, Size
  <2> QED BY <1>0, <1>3, <1>5, <2>2 DEF ReadLast
<1>6. ASSUME NEW t \in Thread, ReadCount(t) PROVE LoneInv'
  <2>1. UpToDate(t)' /\ UNCHANGED table
    BY <1>0, <1>6 DEF ReadCount, UpToDate, Size, LoneInv
  <2> QED BY <1>0, <1>3, <1>6, <2>1 DEF ReadCount
<1>7. ASSUME NEW t \in Thread, InsertFails(t) PROVE LoneInv'
  BY <1>0, <1>3, <1>7 DEF InsertFails, NoJob, UpToDate
<1>8. CASE LogCrash
  BY <1>8, <1>2, CrashStep DEF UpToDate
<1>9. CASE UNCHANGED logVars
  BY <1>9 DEF LoneInv, UpToDate, Size, logVars, Alone
<1>10. ASSUME NEW t \in Thread, NEW e \in Closing, RecordSettlement(t, e) \/ RecordOutcome(t, e)
       PROVE  LoneInv'
  BY <1>4, <1>10 DEF RecordSettlement, RecordOutcome
<1>11. ASSUME NEW t \in Thread, Import(t) \/ Skip(t) PROVE LoneInv'
  BY <1>4, <1>11 DEF Import, Skip
<1> QED BY <1>1, <1>5, <1>6, <1>7, <1>8, <1>9, <1>10, <1>11 DEF LogNext, LogStep, LogDone

---------------------------------------------------------------------------
\* The inductive invariant holds in every reachable state.
THEOREM ChainIsSound == LogSpec => []ChainInv
<1>1. LogInit => ChainInv
  BY ChainInit
<1>2. ChainInv /\ [LogNext]_logVars => ChainInv'
  BY ChainStep, ReputationAssumption
<1> QED BY <1>1, <1>2, PTL DEF LogSpec

\* However many threads race in append, the numbers have no gap and every entry
\* is chained to an earlier one.
THEOREM EntriesAlwaysLeadBack == LogSpec => []EntriesLeadBack
<1>1. ChainInv => EntriesLeadBack
  <2> SUFFICES ASSUME ChainInv PROVE EntriesLeadBack
    OBVIOUS
  <2>1. DOMAIN table = 0 .. Size - 1 /\ Size \in Nat
    BY DEF ChainInv
  <2>2. ASSUME NEW i \in 0 .. Size - 1 PROVE table[i].prev \in Genesis .. i - 1
    <3>1. table[i] \in Row /\ table[i].prev < i
      BY DEF ChainInv
    <3> QED BY <3>1 DEF Row, Genesis
  <2> QED BY <2>1, <2>2 DEF EntriesLeadBack, Size
<1> QED BY <1>1, ChainIsSound, PTL

\* No row is ever changed or removed, by any number of threads and crashes.
THEOREM LogIsAppendOnly == LogSpec => AppendOnly
<1> DEFINE Kept == \A i \in DOMAIN table : i \in DOMAIN table' /\ table'[i] = table[i]
<1>1. ChainInv /\ [LogNext]_logVars => [Kept]_table
  <2> SUFFICES ASSUME ChainInv, [LogNext]_logVars PROVE Kept \/ UNCHANGED table
    OBVIOUS
  <2>1. ASSUME NEW t \in Thread, Insert(t) PROVE Kept
    <3>1. Size \in Nat /\ DOMAIN table = 0 .. Size - 1
      BY DEF ChainInv
    <3>2. /\ table' \in [0 .. Size -> Row]
          /\ \A i \in 0 .. Size - 1 : table'[i] = table[i]
      BY <2>1, InsertStep
    <3>3. \A i \in 0 .. Size - 1 : i \in 0 .. Size
      BY <3>1
    <3> QED BY <3>1, <3>2, <3>3
  <2>2. CASE LogCrash
    BY <2>2 DEF LogCrash
  <2>3. CASE UNCHANGED logVars
    BY <2>3 DEF logVars
  <2> HIDE DEF Kept
  <2> QED BY <2>1, <2>2, <2>3, QuietStep, ReputationAssumption DEF LogNext, LogStep, LogDone
<1> QED BY <1>1, ChainIsSound, PTL DEF LogSpec, AppendOnly

\* As long as no two threads are at work at the same time, verify_chain holds:
\* the locks that append lacks are all that it lacks.
THEOREM SerialChainVerifies == LogSpec => []VerifiesWhenSerial
<1> DEFINE Inv == ChainInv /\ (~appendsRaced => LoneInv)
<1>1. LogInit => Inv
  BY ChainInit
<1>2. Inv /\ [LogNext]_logVars => Inv'
  <2> SUFFICES ASSUME Inv, [LogNext]_logVars PROVE Inv'
    OBVIOUS
  <2>1. ChainInv'
    BY ChainStep, ReputationAssumption
  <2>2. ASSUME ~appendsRaced' PROVE LoneInv'
    <3>1. ~appendsRaced
      BY <2>2 DEF LogNext, LogDone, logVars
    <3>2. Alone(jobs)'
      BY <2>2, <3>1 DEF LogNext, LogStep, LogDone, logVars, LoneInv, Alone
    <3> QED BY <3>1, <3>2, LoneStep, ReputationAssumption
  <2> QED BY <2>1, <2>2
<1>3. Inv => VerifiesWhenSerial
  BY DEF ChainInv, LoneInv, ChainVerifies, VerifiesWhenSerial, Size
<1> QED BY <1>1, <1>2, <1>3, PTL DEF LogSpec
---------------------------------------------------------------------------
(* The items.                                                              *)

Provider(e) == [of |-> e, role |-> "provider", outcome |-> "settled"]
Customer(e) == [of |-> e, role |-> "client",   outcome |-> "settled"]
Refusal(e)  == [of |-> e, role |-> "provider", outcome |-> "rejected"]

LEMMA Items ==
  /\ \A x \in Mirror : x.role = "mirror" /\ x.of \in Hash /\ x \notin Local
  /\ \A x \in Local : x.role \in {"provider", "client"} /\ x.of \in Closing
  /\ \A e \in Closing :
       /\ {Provider(e), Customer(e), Refusal(e)} \subseteq Local
       /\ Provider(e).of = e /\ Customer(e).of = e /\ Refusal(e).of = e
       /\ Provider(e).role = "provider" /\ Refusal(e).role = "provider" /\ Customer(e).role = "client"
       /\ [Customer(e) EXCEPT !.role = "provider"] = Provider(e)
BY DEF Mirror, Local, Provider, Customer, Refusal

LEMMA Orders ==
  ASSUME NEW e
  PROVE  /\ Settled(e) = <<Provider(e), Customer(e)>> /\ Rejected(e) = <<Refusal(e)>>
         /\ Head(Settled(e)) = Provider(e) /\ Settled(e)[1] = Provider(e)
         /\ Tail(Settled(e)) = <<Customer(e)>>
         /\ Head(Rejected(e)) = Refusal(e) /\ Tail(Rejected(e)) = <<>>
         /\ Head(<<Customer(e)>>) = Customer(e) /\ Tail(<<Customer(e)>>) = <<>>
BY DEF Settled, Rejected, Provider, Customer, Refusal

\* What a job begins or goes on with.
LEMMA GoOnShape ==
  ASSUME ChainInv, NEW t \in Thread, NEW items, NEW seen, GoOn(t, items, seen)
  PROVE  /\ \A u \in Thread \ {t} : jobs'[u] = jobs[u]
         /\ \/ items = <<>> /\ jobs'[t].pc = "idle"
            \/ /\ items # <<>> /\ jobs'[t].pc = "last"
               /\ jobs'[t].todo = items /\ jobs'[t].seen = seen
BY DEF GoOn, NoJob, ChainInv

\* A thread at work, by the item it is about to append.
LEMMA AtWork ==
  ASSUME ChainInv, NEW t \in Thread, jobs[t].pc # "idle", JobOK(t)
  PROVE  LET q == jobs[t].todo IN
         \/ /\ Head(q) \in Mirror
            /\ \A i \in DOMAIN Tail(q) : Tail(q)[i] \in Mirror
         \/ \E e \in Closing : /\ About(e) = {} /\ Head(q) = Provider(e)
                              /\ q = Settled(e) /\ Tail(q) = Tail(Settled(e))
         \/ \E e \in Closing : /\ About(e) = {} /\ Head(q) = Refusal(e)
                              /\ q = Rejected(e) /\ Tail(q) = <<>>
         \/ \E e \in Closing : /\ Head(q) = Customer(e) /\ Tail(q) = <<>>
                              /\ \E i \in DOMAIN table : About(e) = {i} /\ table[i].item = Provider(e)
<1> DEFINE q == jobs[t].todo
<1>1. q \in Seq(Item) /\ q # <<>>
  BY DEF ChainInv, TaskOK, Task
<1>2. CASE \A i \in DOMAIN q : q[i] \in Mirror
  <2>1. Head(q) = q[1] /\ 1 \in DOMAIN q
    BY <1>1
  <2>2. \A i \in DOMAIN Tail(q) : i + 1 \in DOMAIN q /\ Tail(q)[i] = q[i + 1]
    BY <1>1
  <2>3. Head(q) \in Mirror /\ \A i \in DOMAIN Tail(q) : Tail(q)[i] \in Mirror
    BY <1>2, <2>1, <2>2
  <2> QED BY <2>3
<1>3. ASSUME NEW e \in Closing, q \in {Settled(e), Rejected(e)}, About(e) = {}
      PROVE  \/ Head(q) = Provider(e) /\ q = Settled(e) /\ Tail(q) = Tail(Settled(e))
             \/ Head(q) = Refusal(e) /\ q = Rejected(e) /\ Tail(q) = <<>>
  BY <1>3, Orders
<1>4. ASSUME NEW e \in Closing, q = Tail(Settled(e)),
             \E i \in DOMAIN table : About(e) = {i} /\ table[i].item = Settled(e)[1]
      PROVE  /\ Head(q) = Customer(e) /\ Tail(q) = <<>>
             /\ \E i \in DOMAIN table : About(e) = {i} /\ table[i].item = Provider(e)
  BY <1>4, Orders
<1> QED BY <1>2, <1>3, <1>4 DEF JobOK

LEMMA RecordInit == LogInit => RecordInv /\ MirrorAloneInv
<1> SUFFICES ASSUME LogInit PROVE RecordInv /\ MirrorAloneInv
  OBVIOUS
<1>1. DOMAIN table = {} /\ \A t \in Thread : jobs[t].pc = "idle"
  BY DEF LogInit, NoJob
<1>2. \A e \in Closing : About(e) = {}
  BY <1>1 DEF About
<1>3. PartiesInOrder
  BY <1>1 DEF PartiesInOrder
<1>4. RecordInv
  BY <1>1, <1>2, <1>3 DEF RecordInv, Recording, JobOK, LogInit
<1> QED BY <1>1, <1>4 DEF MirrorAloneInv, MirrorInv, Knows, Alone

\* A step that appends nothing keeps the items in order: the thread stays at its job,
\* ends it, imports, or begins to record an exchange.
LEMMA QuietItems ==
  ASSUME ChainInv, RecordInv, NEW t \in Thread, UNCHANGED table,
         \A u \in Thread \ {t} : jobs'[u] = jobs[u],
         \/ /\ UNCHANGED unrecorded
            /\ \/ jobs'[t].pc = "idle"
               \/ jobs[t].pc # "idle" /\ jobs'[t].pc # "idle" /\ jobs'[t].todo = jobs[t].todo
               \/ /\ jobs'[t].pc # "idle" /\ Head(jobs'[t].todo) \in Mirror
                  /\ \A i \in DOMAIN jobs'[t].todo : jobs'[t].todo[i] \in Mirror
         \/ \E e \in unrecorded : /\ jobs'[t].pc # "idle" /\ jobs'[t].todo \in {Settled(e), Rejected(e)}
                                  /\ unrecorded' = unrecorded \ {e} /\ e \in Closing
  PROVE  RecordInv'
<1>1. \A e : About(e)' = About(e)
  BY DEF About
<1>2. PartiesInOrder'
  BY DEF RecordInv, PartiesInOrder
<1>3. \A u \in Thread \ {t}, e \in Closing : Recording(u, e)' <=> Recording(u, e)
  BY DEF Recording
<1>4. ASSUME NEW u \in Thread \ {t} PROVE JobOK(u)'
  <2>1. JobOK(u) /\ jobs'[u] = jobs[u]
    BY DEF RecordInv
  <2> QED BY <1>1, <2>1 DEF JobOK
<1>5. CASE /\ UNCHANGED unrecorded
           /\ \/ jobs'[t].pc = "idle"
              \/ jobs[t].pc # "idle" /\ jobs'[t].pc # "idle" /\ jobs'[t].todo = jobs[t].todo
              \/ /\ jobs'[t].pc # "idle" /\ Head(jobs'[t].todo) \in Mirror
                 /\ \A i \in DOMAIN jobs'[t].todo : jobs'[t].todo[i] \in Mirror
  <2>1. \A e \in Closing : Recording(t, e)' => Recording(t, e)
    BY <1>5, Items DEF Recording
  <2>2. JobOK(t)'
    <3>1. CASE jobs'[t].pc = "idle"
      BY <3>1 DEF JobOK
    <3>2. CASE jobs[t].pc # "idle" /\ jobs'[t].pc # "idle" /\ jobs'[t].todo = jobs[t].todo
      BY <1>1, <3>2 DEF JobOK, RecordInv
    <3>3. CASE \A i \in DOMAIN jobs'[t].todo : jobs'[t].todo[i] \in Mirror
      BY <3>3 DEF JobOK
    <3> QED BY <1>5, <3>1, <3>2, <3>3
  <2>3. \A e \in unrecorded' : \A u \in Thread : e \in Closing => ~Recording(u, e)'
    BY <1>3, <1>5, <2>1 DEF RecordInv
  <2>4. \A e \in unrecorded' : e \notin Closing => \A u \in Thread : ~Recording(u, e)'
    BY Items DEF Recording
  <2> QED BY <1>1, <1>2, <1>3, <1>4, <1>5, <2>1, <2>2, <2>3, <2>4 DEF RecordInv
<1>6. ASSUME NEW e \in unrecorded, jobs'[t].pc # "idle", jobs'[t].todo \in {Settled(e), Rejected(e)},
             unrecorded' = unrecorded \ {e}, e \in Closing
      PROVE  RecordInv'
  <2>1. About(e) = {} /\ \A u \in Thread : ~Recording(u, e)
    BY DEF RecordInv
  <2>2. JobOK(t)'
    BY <1>1, <1>6, <2>1 DEF JobOK
  <2>3. Head(jobs'[t].todo) \in Local /\ Head(jobs'[t].todo).of = e
    <3>1. Head(jobs'[t].todo) \in {Provider(e), Refusal(e)}
      BY <1>6, Orders
    <3> QED BY <1>6, <3>1, Items
  <2>4. \A d : Recording(t, d)' => d = e
    BY <2>3 DEF Recording
  <2>5. \A d \in unrecorded' : \A u \in Thread : ~Recording(u, d)'
    <3>1. \A d \in unrecorded' : \A u \in Thread \ {t} : ~Recording(u, d)'
      BY <1>6 DEF Recording, RecordInv
    <3> QED BY <1>6, <2>4, <3>1
  <2> QED BY <1>1, <1>2, <1>3, <1>4, <1>6, <2>1, <2>2, <2>4, <2>5 DEF RecordInv
<1> QED BY <1>5, <1>6

\* The insert appends the next item of the job, which stands in no row yet.
LEMMA InsertItems ==
  ASSUME ChainInv, RecordInv, NEW t \in Thread, Insert(t)
  PROVE  RecordInv'
<1> DEFINE q == jobs[t].todo
           x == Head(q)
<1>1. /\ Size \in Nat /\ DOMAIN table = 0 .. Size - 1 /\ DOMAIN table' = 0 .. Size
      /\ table'[Size].item = x
      /\ \A i \in 0 .. Size - 1 : table'[i] = table[i]
  BY InsertStep DEF ChainInv
<1>2. /\ \A u \in Thread \ {t} : jobs'[u] = jobs[u]
      /\ jobs'[t].pc # "idle" => jobs'[t].todo = Tail(q) /\ jobs'[t].todo # <<>>
      /\ Tail(q) = <<>> => jobs'[t].pc = "idle"
      /\ jobs[t].pc # "idle" /\ UNCHANGED unrecorded
  BY GoOnShape DEF Insert
<1>3. \A e : About(e)' = IF x \in Local /\ x.of = e THEN About(e) \cup {Size} ELSE About(e)
  BY <1>1 DEF About
<1>4. \A u \in Thread \ {t}, e \in Closing : Recording(u, e)' <=> Recording(u, e)
  BY <1>2 DEF Recording
<1>5. x \in Local => Recording(t, x.of)
  BY <1>2 DEF Recording
<1>6. ASSUME NEW u \in Thread \ {t} PROVE JobOK(u)'
  <2>1. JobOK(u) /\ jobs'[u] = jobs[u]
    BY <1>2 DEF RecordInv
  <2>2. ASSUME NEW e \in Closing, Recording(u, e)
        PROVE  About(e)' = About(e) /\ \A i \in DOMAIN table : i \in DOMAIN table' /\ table'[i] = table[i]
    <3>1. ~(x \in Local /\ x.of = e)
      BY <1>5, <2>2, Items DEF RecordInv
    <3> QED BY <1>1, <1>3, <3>1
  <2>3. CASE jobs[u].pc = "idle"
    BY <2>1, <2>3 DEF JobOK
  <2>4. CASE \A i \in DOMAIN jobs[u].todo : jobs[u].todo[i] \in Mirror
    BY <2>1, <2>4 DEF JobOK
  <2>5. ASSUME NEW e \in Closing, jobs[u].todo \in {Settled(e), Rejected(e)}, About(e) = {},
               jobs[u].pc # "idle"
        PROVE  JobOK(u)'
    <3>1. Head(jobs[u].todo) \in {Provider(e), Refusal(e)}
      BY <2>5, Orders
    <3>2. Recording(u, e)
      BY <2>5, <3>1, Items DEF Recording
    <3> QED BY <2>1, <2>2, <2>5, <3>2 DEF JobOK
  <2>6. ASSUME NEW e \in Closing, jobs[u].todo = Tail(Settled(e)), jobs[u].pc # "idle",
               \E i \in DOMAIN table : About(e) = {i} /\ table[i].item = Settled(e)[1]
        PROVE  JobOK(u)'
    <3>1. Head(jobs[u].todo) = Customer(e) /\ Customer(e) \in Local /\ Customer(e).of = e
      BY <2>6, Orders, Items
    <3>2. Recording(u, e)
      BY <2>6, <3>1 DEF Recording
    <3>3. \E i \in DOMAIN table' : About(e)' = {i} /\ table'[i].item = Settled(e)[1]
      BY <2>2, <2>6, <3>2
    <3> QED BY <2>1, <2>6, <3>3 DEF JobOK
  <2> QED BY <2>1, <2>3, <2>4, <2>5, <2>6 DEF JobOK
<1>7. SUFFICES /\ \A i \in 0 .. Size - 1 : table[i].item = x => x \notin Local
               /\ x.role = "client" => \E j \in 0 .. Size - 1 : table[j].item = [x EXCEPT !.role = "provider"]
               /\ JobOK(t)'
               /\ \A e \in Closing : Recording(t, e)' => Recording(t, e)
  <2>1. PartiesInOrder'
    <3>1. \A i, j \in 0 .. Size : table'[i].item = table'[j].item /\ table'[i].item \in Local => i = j
      BY <1>1, <1>7 DEF RecordInv, PartiesInOrder
    <3>2. ASSUME NEW i \in 0 .. Size, table'[i].item.role = "client"
          PROVE  \E j \in 0 .. i - 1 : table'[j].item = [table'[i].item EXCEPT !.role = "provider"]
      <4>1. CASE i = Size
        BY <1>1, <1>7, <3>2, <4>1
      <4>2. CASE i \in 0 .. Size - 1
        <5>1. PICK j \in 0 .. i - 1 : table[j].item = [table[i].item EXCEPT !.role = "provider"]
          BY <1>1, <3>2, <4>2 DEF RecordInv, PartiesInOrder
        <5>2. j \in 0 .. Size - 1
          BY <1>1, <4>2
        <5> QED BY <1>1, <4>2, <5>1, <5>2
      <4> QED BY <1>1, <4>1, <4>2
    <3> QED BY <1>1, <3>1, <3>2 DEF PartiesInOrder
  <2>2. ASSUME NEW e \in unrecorded
        PROVE  About(e)' = {} /\ \A u \in Thread : ~Recording(u, e)'
    <3>1. About(e) = {} /\ \A u \in Thread : ~Recording(u, e)
      BY DEF RecordInv
    <3>2. ~(x \in Local /\ x.of = e)
      BY <1>5, <3>1
    <3>3. About(e)' = {}
      BY <1>3, <3>1, <3>2
    <3>4. \A u \in Thread \ {t} : ~Recording(u, e)'
      BY <1>2, <3>1 DEF Recording
    <3>5. ~Recording(t, e)'
      <4>1. CASE e \in Closing
        BY <1>7, <3>1, <4>1
      <4>2. CASE e \notin Closing
        BY <4>2, Items DEF Recording
      <4> QED BY <4>1, <4>2
    <3> QED BY <3>3, <3>4, <3>5
  <2>3. \A u, v \in Thread, e \in Closing : Recording(u, e)' /\ Recording(v, e)' => u = v
    BY <1>4, <1>7 DEF RecordInv
  <2>4. \A u \in Thread : JobOK(u)'
    BY <1>6, <1>7
  <2> QED BY <1>2, <2>1, <2>2, <2>3, <2>4 DEF RecordInv
<1>8. CASE /\ x \in Mirror
           /\ \A i \in DOMAIN Tail(q) : Tail(q)[i] \in Mirror
  <2>1. JobOK(t)'
    BY <1>2, <1>8 DEF JobOK
  <2>2. x \notin Local /\ x.role # "client"
    BY <1>8, Items
  <2>3. \A e \in Closing : ~Recording(t, e)'
    <3>1. CASE jobs'[t].pc = "idle"
      BY <3>1 DEF Recording
    <3>2. CASE jobs'[t].pc # "idle"
      <4>1. Tail(q) \in Seq(Item) /\ Tail(q) # <<>>
        BY <1>2, <3>2, RestOfJob
      <4> DEFINE r == Tail(q)
      <4>2. Head(r) = r[1] /\ 1 \in DOMAIN r
        BY <4>1
      <4>3. Head(Tail(q)) \in Mirror
        BY <1>8, <4>2
      <4> QED BY <1>2, <3>2, <4>3, Items DEF Recording
    <3> QED BY <3>1, <3>2
  <2> QED BY <2>1, <2>2, <2>3
<1>9. CASE \E e \in Closing : /\ About(e) = {} /\ x = Provider(e)
                            /\ q = Settled(e) /\ Tail(q) = Tail(Settled(e))
  <2>1. PICK e \in Closing : About(e) = {} /\ x = Provider(e) /\ Tail(q) = <<Customer(e)>>
    BY <1>9, Orders
  <2>2. x \in Local /\ x.of = e /\ x.role # "client"
    BY <2>1, Items
  <2>3. \A i \in 0 .. Size - 1 : table[i].item # x
    BY <1>1, <2>1, <2>2 DEF About
  <2>4. About(e)' = {Size} /\ table'[Size].item = Provider(e) /\ Size \in DOMAIN table'
    BY <1>1, <1>3, <2>1, <2>2
  <2>5. JobOK(t)'
    BY <1>2, <2>1, <2>4, Orders DEF JobOK
  <2>6. \A d \in Closing : Recording(t, d)' => d = e
    <3>1. jobs'[t].pc # "idle" => Head(jobs'[t].todo) = Customer(e)
      BY <1>2, <2>1, Orders
    <3>2. Customer(e).of = e
      BY Items
    <3> QED BY <3>1, <3>2 DEF Recording
  <2>7. Recording(t, e)
    BY <1>5, <2>2
  <2> QED BY <2>2, <2>3, <2>5, <2>6, <2>7
<1>10. CASE \E e \in Closing : /\ About(e) = {} /\ x = Refusal(e)
                             /\ q = Rejected(e) /\ Tail(q) = <<>>
  <2>1. PICK e \in Closing : About(e) = {} /\ x = Refusal(e) /\ Tail(q) = <<>>
    BY <1>10
  <2>2. x \in Local /\ x.of = e /\ x.role # "client"
    BY <2>1, Items
  <2>3. \A i \in 0 .. Size - 1 : table[i].item # x
    BY <1>1, <2>1, <2>2 DEF About
  <2> QED BY <1>2, <2>1, <2>2, <2>3 DEF JobOK, Recording
<1>11. CASE \E e \in Closing : /\ x = Customer(e) /\ Tail(q) = <<>>
                             /\ \E i \in DOMAIN table : About(e) = {i} /\ table[i].item = Provider(e)
  <2>1. PICK e \in Closing, i \in DOMAIN table :
          x = Customer(e) /\ Tail(q) = <<>> /\ About(e) = {i} /\ table[i].item = Provider(e)
    BY <1>11
  <2>2. /\ x \in Local /\ x.of = e /\ x # Provider(e)
        /\ [x EXCEPT !.role = "provider"] = Provider(e)
    <3>1. Customer(e).role # Provider(e).role
      BY Items
    <3> QED BY <2>1, <3>1, Items
  <2>3. \A j \in 0 .. Size - 1 : table[j].item # x
    BY <1>1, <2>1, <2>2 DEF About
  <2> QED BY <1>1, <1>2, <2>1, <2>2, <2>3 DEF JobOK, Recording
<1>12. JobOK(t)
  BY DEF RecordInv
<1> QED BY <1>2, <1>8, <1>9, <1>10, <1>11, <1>12, AtWork

\* The entries of a foreign chain are mirrors, and so is the first.
LEMMA MirrorItems ==
  ASSUME ReputationAssumption
  PROVE  /\ \A i \in DOMAIN Mirrors : Mirrors[i] \in Mirror
         /\ Mirrors # <<>> => Head(Mirrors) \in Mirror
<1>1. \A i \in DOMAIN Mirrors : Mirrors[i] \in Mirror
  BY DEF Mirrors, Mirror, Hash
<1>2. ASSUME Mirrors # <<>> PROVE Head(Mirrors) = Mirrors[1] /\ 1 \in DOMAIN Mirrors
  BY <1>2, MirrorJob
<1> QED BY <1>1, <1>2

\* What a skip passes over is a mirror, and only mirrors come after it.
LEMMA SkipItems ==
  ASSUME ChainInv, RecordInv, NEW t \in Thread, jobs[t].pc # "idle", Head(jobs[t].todo) \notin Local
  PROVE  LET q == jobs[t].todo IN
         /\ Head(q) \in Mirror
         /\ \A i \in DOMAIN Tail(q) : Tail(q)[i] \in Mirror
         /\ Tail(q) # <<>> => Head(Tail(q)) \in Mirror
<1> DEFINE q == jobs[t].todo
           r == Tail(q)
<1>1. Head(q) \in Mirror /\ \A i \in DOMAIN r : r[i] \in Mirror
  <2>1. \A e \in Closing : Provider(e) \in Local /\ Customer(e) \in Local /\ Refusal(e) \in Local
    BY Items
  <2>2. JobOK(t)
    BY DEF RecordInv
  <2> QED BY <2>1, <2>2, AtWork
<1>2. ASSUME r # <<>> PROVE Head(r) \in Mirror
  <2>1. r \in Seq(Item)
    BY RestOfJob
  <2>2. Head(r) = r[1] /\ 1 \in DOMAIN r
    BY <1>2, <2>1
  <2> QED BY <1>1, <2>2
<1> QED BY <1>1, <1>2

LEMMA RecordStep ==
  ASSUME ReputationAssumption, ChainInv, RecordInv, [LogNext]_logVars
  PROVE  RecordInv'
<1>1. ASSUME NEW t \in Thread, NEW e \in Closing, RecordSettlement(t, e) \/ RecordOutcome(t, e)
      PROVE  RecordInv'
  <2>1. Settled(e) # <<>> /\ Rejected(e) # <<>>
    BY DEF Settled, Rejected
  <2>2. PICK items \in {Settled(e), Rejected(e)} :
          GoOn(t, items, {}) /\ e \in unrecorded /\ unrecorded' = unrecorded \ {e} /\ UNCHANGED table
    BY <1>1 DEF RecordSettlement, RecordOutcome
  <2>3. /\ \A u \in Thread \ {t} : jobs'[u] = jobs[u]
        /\ jobs'[t].pc # "idle" /\ jobs'[t].todo = items
    BY <2>1, <2>2, GoOnShape
  <2> QED BY <2>2, <2>3, QuietItems
<1>2. ASSUME NEW t \in Thread, Import(t) PROVE RecordInv'
  <2>1. GoOn(t, Mirrors, Seen) /\ UNCHANGED <<table, unrecorded>>
    BY <1>2 DEF Import
  <2>2. /\ \A u \in Thread \ {t} : jobs'[u] = jobs[u]
        /\ jobs'[t].pc # "idle" => jobs'[t].todo = Mirrors /\ Mirrors # <<>>
    BY <2>1, GoOnShape
  <2> QED BY <2>1, <2>2, MirrorItems, QuietItems
<1>3. ASSUME NEW t \in Thread, Skip(t) PROVE RecordInv'
  <2>1. /\ GoOn(t, Tail(jobs[t].todo), jobs[t].seen) /\ UNCHANGED <<table, unrecorded>>
        /\ jobs[t].pc # "idle" /\ Head(jobs[t].todo).role = "mirror"
    BY <1>3 DEF Skip, Skipped
  <2>2. /\ \A u \in Thread \ {t} : jobs'[u] = jobs[u]
        /\ jobs'[t].pc # "idle" => jobs'[t].todo = Tail(jobs[t].todo) /\ Tail(jobs[t].todo) # <<>>
    BY <2>1, GoOnShape
  <2>3. Head(jobs[t].todo) \notin Local
    BY <2>1, Items
  <2> QED BY <2>1, <2>2, <2>3, SkipItems, QuietItems
<1>4. ASSUME NEW t \in Thread, ReadLast(t) \/ ReadCount(t) PROVE RecordInv'
  <2>1. jobs[t] \in Task /\ jobs \in [Thread -> Task]
    BY DEF ChainInv
  <2>2. /\ \A u \in Thread \ {t} : jobs'[u] = jobs[u]
        /\ jobs[t].pc # "idle" /\ jobs'[t].pc # "idle" /\ jobs'[t].todo = jobs[t].todo
        /\ UNCHANGED <<table, unrecorded>>
    BY <1>4, <2>1 DEF ReadLast, ReadCount, Task
  <2> QED BY <2>2, QuietItems
<1>5. ASSUME NEW t \in Thread, InsertFails(t) PROVE RecordInv'
  <2>1. jobs' = [jobs EXCEPT ![t] = NoJob] /\ UNCHANGED <<table, unrecorded>>
        /\ jobs \in [Thread -> Task]
    BY <1>5 DEF InsertFails, ChainInv
  <2>2. (\A u \in Thread \ {t} : jobs'[u] = jobs[u]) /\ jobs'[t].pc = "idle"
    BY <2>1 DEF NoJob
  <2> QED BY <2>1, <2>2, QuietItems
<1>6. ASSUME UNCHANGED <<table, unrecorded>>, \A t \in Thread : jobs'[t].pc = "idle"
      PROVE  RecordInv'
  <2>1. \A e : About(e)' = About(e)
    BY <1>6 DEF About
  <2>2. PartiesInOrder'
    BY <1>6 DEF RecordInv, PartiesInOrder
  <2> QED BY <1>6, <2>1, <2>2 DEF RecordInv, Recording, JobOK
<1>7. CASE LogCrash
  BY <1>6, <1>7, CrashStep DEF LogCrash
<1>8. ASSUME UNCHANGED logVars PROVE RecordInv'
  <2>1. UNCHANGED <<table, jobs, unrecorded>>
    BY <1>8 DEF logVars
  <2>2. \A e : About(e)' = About(e)
    BY <2>1 DEF About
  <2>3. PartiesInOrder'
    BY <2>1 DEF RecordInv, PartiesInOrder
  <2>4. \A t \in Thread : JobOK(t)'
    BY <2>1, <2>2 DEF RecordInv, JobOK
  <2> QED BY <2>1, <2>2, <2>3, <2>4 DEF RecordInv, Recording
<1> QED BY <1>1, <1>2, <1>3, <1>4, <1>5, <1>7, <1>8, InsertItems DEF LogNext, LogStep, LogDone

\* Of threads that work one after the other: a job knows the mirrors of the table.
LEMMA MirrorStep ==
  ASSUME ReputationAssumption, ChainInv, RecordInv, MirrorInv, [LogNext]_logVars, Alone(jobs)'
  PROVE  MirrorInv'
<1> DEFINE Once == \A i, j \in DOMAIN table :
                     table[i].item \in Mirror /\ table[i].item = table[j].item => i = j
<1>1. ASSUME UNCHANGED table PROVE Once' /\ Seen' = Seen
  BY <1>1 DEF MirrorInv, Seen
<1>2. ASSUME NEW t \in Thread, UNCHANGED table, \A u \in Thread \ {t} : jobs'[u] = jobs[u], Knows(t)'
      PROVE  MirrorInv'
  <2>1. \A u \in Thread \ {t} : Knows(u)'
    BY <1>1, <1>2 DEF MirrorInv, Knows
  <2> QED BY <1>1, <1>2, <2>1 DEF MirrorInv
<1>3. ASSUME NEW t \in Thread, NEW items, NEW seen, GoOn(t, items, seen), UNCHANGED table,
             items # <<>> => Head(items) \notin Mirror \/ Seen \subseteq seen
      PROVE  MirrorInv'
  <2>1. /\ \A u \in Thread \ {t} : jobs'[u] = jobs[u]
        /\ \/ jobs'[t].pc = "idle"
           \/ items # <<>> /\ jobs'[t].pc = "last" /\ jobs'[t].todo = items /\ jobs'[t].seen = seen
    BY <1>3, GoOnShape
  <2>2. Knows(t)'
    BY <1>1, <1>3, <2>1 DEF Knows
  <2> QED BY <1>2, <1>3, <2>1, <2>2
<1>4. ASSUME NEW t \in Thread, NEW e \in Closing, RecordSettlement(t, e) \/ RecordOutcome(t, e)
      PROVE  MirrorInv'
  <2>1. Head(Settled(e)) \notin Mirror /\ Head(Rejected(e)) \notin Mirror
    BY Items, Orders
  <2> QED BY <1>3, <1>4, <2>1 DEF RecordSettlement, RecordOutcome
<1>5. ASSUME NEW t \in Thread, Import(t) PROVE MirrorInv'
  BY <1>3, <1>5 DEF Import
<1>6. ASSUME NEW t \in Thread, Skip(t) PROVE MirrorInv'
  <2>1. /\ GoOn(t, Tail(jobs[t].todo), jobs[t].seen) /\ UNCHANGED table
        /\ jobs[t].pc # "idle" /\ Head(jobs[t].todo).role = "mirror"
    BY <1>6 DEF Skip, Skipped
  <2>2. Head(jobs[t].todo) \in Mirror
    BY <2>1, Items, SkipItems
  <2>3. Seen \subseteq jobs[t].seen
    BY <2>1, <2>2 DEF MirrorInv, Knows
  <2> QED BY <1>3, <2>1, <2>3
<1>7. ASSUME NEW t \in Thread, ReadLast(t) \/ ReadCount(t) PROVE MirrorInv'
  <2>1. jobs[t] \in Task /\ jobs \in [Thread -> Task]
    BY DEF ChainInv
  <2>2. /\ \A u \in Thread \ {t} : jobs'[u] = jobs[u]
        /\ jobs[t].pc # "idle" /\ jobs'[t].todo = jobs[t].todo /\ jobs'[t].seen = jobs[t].seen
        /\ UNCHANGED table
    BY <1>7, <2>1 DEF ReadLast, ReadCount, Task
  <2>3. jobs[t].pc = "count" \/ ~Skipped(t)
    BY <1>7 DEF ReadLast, ReadCount
  <2>4. Head(jobs[t].todo) \in Mirror => Head(jobs[t].todo).of \notin jobs[t].seen
    BY <2>2, <2>3, Items DEF Skipped, MirrorInv, Knows
  <2>5. Knows(t)'
    BY <1>1, <2>2, <2>4 DEF MirrorInv, Knows
  <2> QED BY <1>2, <2>2, <2>5
<1>8. ASSUME NEW t \in Thread, InsertFails(t) PROVE MirrorInv'
  <2>1. jobs' = [jobs EXCEPT ![t] = NoJob] /\ UNCHANGED table /\ jobs \in [Thread -> Task]
    BY <1>8 DEF InsertFails, ChainInv
  <2>2. (\A u \in Thread \ {t} : jobs'[u] = jobs[u]) /\ jobs'[t].pc = "idle"
    BY <2>1 DEF NoJob
  <2> QED BY <1>2, <2>1, <2>2 DEF Knows
<1>9. CASE LogCrash
  <2>1. UNCHANGED table /\ \A t \in Thread : jobs'[t].pc = "idle"
    BY <1>9, CrashStep
  <2> QED BY <1>1, <2>1 DEF MirrorInv, Knows
<1>10. ASSUME UNCHANGED logVars PROVE MirrorInv'
  BY <1>1, <1>10 DEF logVars, MirrorInv, Knows
<1>11. ASSUME NEW t \in Thread, Insert(t) PROVE MirrorInv'
  <2> DEFINE x == Head(jobs[t].todo)
  <2>1. /\ Size \in Nat /\ DOMAIN table = 0 .. Size - 1 /\ DOMAIN table' = 0 .. Size
        /\ table'[Size].item = x
        /\ \A i \in 0 .. Size - 1 : table'[i] = table[i]
    BY <1>11, InsertStep DEF ChainInv
  <2>2. /\ \A u \in Thread \ {t} : jobs'[u] = jobs[u]
        /\ \/ jobs'[t].pc = "idle"
           \/ /\ jobs'[t].pc = "last" /\ Tail(jobs[t].todo) # <<>>
              /\ jobs'[t].todo = Tail(jobs[t].todo) /\ jobs'[t].seen = Noted(t)
        /\ jobs[t].pc = "insert"
    BY <1>11, GoOnShape DEF Insert
  <2>3. \A u \in Thread \ {t} : jobs[u].pc = "idle"
    BY <2>2 DEF MirrorInv, Alone
  <2>4. x \in Mirror => \A i \in 0 .. Size - 1 : table[i].item # x
    <3>1. x \in Mirror => x.of \notin Seen
      BY <2>2 DEF MirrorInv, Knows
    <3> QED BY <2>1, <3>1 DEF Seen
  <2>5. Once'
    <3>0. \A i, j \in 0 .. Size - 1 : table[i].item \in Mirror /\ table[i].item = table[j].item => i = j
      BY <2>1 DEF MirrorInv
    <3> HIDE DEF x
    <3>1. \A i, j \in 0 .. Size : table'[i].item \in Mirror /\ table'[i].item = table'[j].item => i = j
      BY <2>1, <2>4, <3>0
    <3> QED BY <2>1, <3>1
  <2>6. \A y \in Seen' : y \in Seen \/ (x \in Mirror /\ y = x.of)
    BY <2>1 DEF Seen
  <2>7. Knows(t)'
    <3>1. CASE x \in Local
      <4>1. Tail(jobs[t].todo) # <<>> => Head(Tail(jobs[t].todo)) \notin Mirror
        <5>1. \A e \in Closing : Customer(e) \notin Mirror /\ Provider(e) \notin Mirror /\ Refusal(e) \notin Mirror
          BY Items
        <5>2. JobOK(t) /\ x \notin Mirror
          BY <3>1, Items DEF RecordInv
        <5>3. \/ \E e \in Closing : Tail(jobs[t].todo) = Tail(Settled(e))
              \/ Tail(jobs[t].todo) = <<>>
          BY <2>2, <5>2, AtWork
        <5>4. \A e : Head(Tail(Settled(e))) = Customer(e)
          BY Orders
        <5> QED BY <5>1, <5>3, <5>4
      <4> QED BY <2>2, <4>1 DEF Knows
    <3>2. CASE x \notin Local
      <4>1. x \in Mirror
        BY <2>2, <3>2, SkipItems
      <4>2. Seen \subseteq jobs[t].seen
        BY <2>2, <4>1 DEF MirrorInv, Knows
      <4>3. Seen' \subseteq Noted(t)
        BY <2>6, <4>1, <4>2 DEF Noted
      <4> QED BY <2>2, <4>3 DEF Knows
    <3> QED BY <3>1, <3>2
  <2>8. \A u \in Thread \ {t} : Knows(u)'
    BY <2>2, <2>3 DEF Knows
  <2> QED BY <2>5, <2>7, <2>8 DEF MirrorInv
<1> QED BY <1>4, <1>5, <1>6, <1>7, <1>8, <1>9, <1>10, <1>11 DEF LogNext, LogStep, LogDone

\* An exchange is recorded once, its provider before its client, whatever races or is
\* cut short; without races a foreign entry has one mirror (record_settlement,
\* record_outcome, import_reputation_bundle).
THEOREM EntriesAlwaysStandOnce == LogSpec => []EntriesStandOnce
<1> DEFINE Inv == ChainInv /\ RecordInv /\ MirrorAloneInv
<1>1. LogInit => Inv
  BY ChainInit, RecordInit
<1>2. Inv /\ [LogNext]_logVars => Inv'
  <2> SUFFICES ASSUME Inv, [LogNext]_logVars PROVE Inv'
    OBVIOUS
  <2>1. ChainInv' /\ RecordInv'
    BY ChainStep, RecordStep, ReputationAssumption
  <2>2. ASSUME ~appendsRaced' PROVE MirrorInv'
    <3>1. ~appendsRaced
      BY <2>2 DEF LogNext, LogDone, logVars
    <3>2. MirrorInv
      BY <3>1 DEF MirrorAloneInv
    <3>3. Alone(jobs)'
      BY <2>2, <3>1, <3>2 DEF LogNext, LogStep, LogDone, logVars, MirrorInv, Alone
    <3> QED BY <3>2, <3>3, MirrorStep, ReputationAssumption
  <2> QED BY <2>1, <2>2 DEF MirrorAloneInv
<1>3. Inv => EntriesStandOnce
  BY DEF RecordInv, MirrorAloneInv, MirrorInv, EntriesStandOnce, MirroredOnce
<1> QED BY <1>1, <1>2, <1>3, PTL DEF LogSpec
=============================================================================
