------------------------------ MODULE NodeStart ------------------------------
(***************************************************************************)
(* How a node comes up from its environment (create_app_from_config): the  *)
(* validation of the environment, which opens the paths it is given, the   *)
(* stores, the claims, the accounts, and the recovery of interrupted       *)
(* settlements before the first request.  The process may end at any step, *)
(* a write may fail or leave its file torn, and the environment may change *)
(* between two starts.  A running node answers one request at a time here; *)
(* requests that overlap are in NodeAccounts and ClaimRegistry.            *)
(***************************************************************************)
EXTENDS Naturals

CONSTANTS
  MaxFact,     \* bound on what a running node stores
  MaxStarts    \* bound on the starts

ASSUME StartAssumption == MaxFact \in Nat /\ MaxStarts \in Nat

VARIABLES
  setup,   \* the environment variables, by what they mean
  disk,    \* the files and the pending intents of the database; rows are numbered
  node,    \* the process: step, reason of a failed start, memory, intents to replay, request
  facts,   \* number of things that were to be stored
  starts,  \* number of starts
  vouched, \* history: what was answered for, by the file that it was for
  missed   \* history: the accounts that a failed write kept from the file

startVars == <<setup, disk, node, facts, starts, vouched, missed>>

\* What the node reads of the environment: whether it is in production and strict, which
\* paths it has, how claims are kept; whether a key slot of a production node is at fault;
\* its rails, one whose holds are in memory and one of a partner.
Switches == {"production", "strict", "opDb", "db", "claimDb", "claimsKept"}
Slots    == {"good", "faulty"}
OwnRail  == "mock"
RailIds  == {OwnRail, "partner"}

\* What is stored, and the files: the claims have one of their own or one beside the
\* database.
Kinds == {"accounts", "exchanges", "claims"}
Files == {"op", "db", "claims", "claimDb"}

Absent == [is |-> "absent", rows |-> {}]
Empty  == [is |-> "empty", rows |-> {}]
Torn   == [is |-> "torn", rows |-> {}]
Rows(r) == [is |-> "rows", rows |-> r]

NoRequest == [of |-> "none", step |-> "none"]
Down(why) == [pc |-> "down", failed |-> why, has |-> [k \in Kinds |-> {}], todo |-> {}, request |-> NoRequest]

\* A file of accounts may be there from a node that was not started by this factory.
StartInit ==
  /\ setup = [on |-> {}, slot |-> "good", rails |-> {OwnRail}]
  /\ \E op \in {Absent, Rows({})} :
       disk = [file |-> [f \in Files |-> IF f = "op" THEN op ELSE Absent], pending |-> {}]
  /\ node = Down("no") /\ facts = 0 /\ starts = 0
  /\ vouched = [f \in Files \cup {"none"} |-> {}] /\ missed = {}

---------------------------------------------------------------------------
(* The validation.                                                         *)

Given(switch) == switch \in setup.on

\* The file of a kind; without one it is kept in memory.
PathOf(kind) ==
  CASE kind = "accounts"  -> IF Given("opDb") THEN "op" ELSE "none"
    [] kind = "exchanges" -> IF Given("db") THEN "db" ELSE "none"
    [] kind = "claims"    -> IF ~Given("claimsKept") THEN "none" ELSE IF Given("claimDb") THEN "claimDb"
                             ELSE IF Given("db") THEN "claims" ELSE "none"

\* EnvironmentValidator.validate: the errors, of which those of the key slots are one
\* here: a live secret of Stripe that is missing or malformed, an RPC without a signer,
\* NOVAPANDA_AUTH off.  A missing NOVAPANDA_DB is a warning.
Errors ==
  (IF Given("production") /\ ~Given("opDb") THEN {"E_OPERATOR_DB_MISSING"} ELSE {})
  \cup (IF Given("production") /\ setup.slot # "good" THEN {"E_KEY_SLOT"} ELSE {})

\* sqlite3.connect makes an empty file where there is none.
Touched(file) == IF file = Absent THEN Empty ELSE file

\* The variables change between two starts, one at a time.
ChangeSetup ==
  /\ node.pc = "down"
  /\ \/ \E x \in Switches : setup' = [setup EXCEPT !.on = IF x \in @ THEN @ \ {x} ELSE @ \cup {x}]
     \/ \E x \in Slots \ {setup.slot} : setup' = [setup EXCEPT !.slot = x]
     \/ \E x \in SUBSET RailIds \ {{}, setup.rails} : setup' = [setup EXCEPT !.rails = x]
  /\ node' = Down("no")
  /\ UNCHANGED <<disk, facts, starts, vouched, missed>>

\* validate_startup_environ; with NOVAPANDA_STRICT_ENV an error stops the start.
Validate ==
  /\ node.pc = "down" /\ node.failed = "no" /\ starts < MaxStarts
  /\ starts' = starts + 1
  /\ disk' = [disk EXCEPT !.file = [f \in Files |->
                IF f \in {PathOf("accounts"), PathOf("exchanges")} THEN Touched(@[f]) ELSE @[f]]]
  /\ node' = IF Given("strict") /\ Errors # {} THEN Down("environment")
             ELSE [node EXCEPT !.pc = "stores"]
  /\ UNCHANGED <<setup, facts, vouched, missed>>

---------------------------------------------------------------------------
(* The rest of the start.                                                  *)

Loaded(kind) == IF PathOf(kind) = "none" THEN {} ELSE disk.file[PathOf(kind)].rows

\* make_store, make_reputation_store and the registries: a database gets its tables
\* and seeds, or is read.
OpenStores ==
  /\ node.pc = "stores"
  /\ disk' = IF Given("db") THEN [disk EXCEPT !.file["db"] = Rows(@.rows)] ELSE disk
  /\ node' = [node EXCEPT !.pc = "claims", !.has["exchanges"] = Loaded("exchanges")]
  /\ UNCHANGED <<setup, facts, starts, vouched, missed>>

\* Mutant: the registry of claims starts empty, whatever its file holds.
OpenClaims_Fresh ==
  /\ node.pc = "claims" /\ node' = [node EXCEPT !.pc = "accounts"]
  /\ UNCHANGED <<setup, disk, facts, starts, vouched, missed>>

\* make_claim_store: a file that is not JSON ends the start.
OpenClaims ==
  /\ node.pc = "claims"
  /\ node' = IF PathOf("claims") # "none" /\ disk.file[PathOf("claims")] = Torn THEN Down("claims")
             ELSE [node EXCEPT !.pc = "accounts", !.has["claims"] = Loaded("claims")]
  /\ UNCHANGED <<setup, disk, facts, starts, vouched, missed>>

\* load_operator_registry: so does one of accounts, that of the validator included.
LoadAccounts ==
  LET file == disk.file["op"] IN
  /\ node.pc = "accounts"
  /\ node' = IF Given("opDb") /\ file = Empty THEN Down("accounts")
             ELSE IF Given("opDb") /\ file = Torn THEN Down("torn")
             ELSE [node EXCEPT !.pc = "recover", !.has["accounts"] = Loaded("accounts"),
                               !.todo = IF Given("db") THEN disk.pending ELSE {}]
  /\ UNCHANGED <<setup, disk, facts, starts, vouched, missed>>

\* The lifespan of the app: recover tries each pending intent at its own rail, and one
\* whose rail is not registered ends the start.  A partner may answer; a rail that was
\* in memory has forgotten the hold.  Without a receipt the intent stays pending.
RecoverIntent(i) ==
  /\ node.pc = "recover" /\ i \in node.todo
  /\ \/ /\ i.rail \notin setup.rails
        /\ node' = Down("rail") /\ UNCHANGED disk
     \/ /\ i.rail \in setup.rails
        /\ node' = [node EXCEPT !.todo = @ \ {i}]
        /\ \/ UNCHANGED disk
           \/ i.rail # OwnRail /\ disk' = [disk EXCEPT !.pending = @ \ {i}]
  /\ UNCHANGED <<setup, facts, starts, vouched, missed>>

Serve ==
  /\ node.pc = "recover" /\ node.todo = {}
  /\ node' = [node EXCEPT !.pc = "up"]
  /\ UNCHANGED <<setup, disk, facts, starts, vouched, missed>>

---------------------------------------------------------------------------
(* The running node: a request changes the memory, then the file, and is answered.   *)

\* An exchange is in memory only where there is no database.
Ask(kind) ==
  /\ node.pc = "up" /\ node.request = NoRequest
  /\ facts < MaxFact /\ facts' = facts + 1
  /\ node' = [node EXCEPT !.request = [of |-> kind, step |-> "write"],
                          !.has[kind] = IF PathOf(kind) = "db" THEN @ ELSE @ \cup {facts'}]
  /\ UNCHANGED <<setup, disk, starts, vouched, missed>>

\* The file is written with all of the memory, the database with one row, which may have
\* an intent that the process will not finish.
WriteRows ==
  LET kind == node.request.of  path == PathOf(kind) IN
  /\ node.request.step = "write"
  /\ CASE path = "none" -> UNCHANGED disk
       [] path = "db" ->
            \E left \in {{}} \cup {{[of |-> facts, rail |-> r]} : r \in setup.rails} :
              disk' = [disk EXCEPT !.file["db"] = Rows(@.rows \cup {facts}), !.pending = @ \cup left]
       [] OTHER -> disk' = [disk EXCEPT !.file[path] = Rows(node.has[kind])]
  /\ node' = [node EXCEPT !.request.step = "answer",
                          !.has[kind] = IF path = "db" THEN @ \cup {facts} ELSE @]
  /\ missed' = IF path = "op" THEN missed \ node.has[kind] ELSE missed
  /\ UNCHANGED <<setup, facts, starts, vouched>>

\* The write fails, for a file that is written in place perhaps after it was emptied.
\* _maybe_persist keeps that to itself; other requests fail with it.
RowsFail ==
  LET kind == node.request.of  path == PathOf(kind) IN
  /\ node.request.step = "write" /\ path # "none"
  /\ \/ UNCHANGED disk /\ missed' = IF path = "op" THEN missed \cup {facts} ELSE missed
     \/ /\ path # "db" /\ disk' = [disk EXCEPT !.file[path] = Torn]
        /\ missed' = IF path = "op" THEN missed \cup node.has[kind] ELSE missed
  /\ node' = IF path = "op" THEN [node EXCEPT !.request.step = "answer"]
             ELSE [node EXCEPT !.request = NoRequest]
  /\ UNCHANGED <<setup, facts, starts, vouched>>

AnswerRequest ==
  /\ node.request.step = "answer"
  /\ node' = [node EXCEPT !.request = NoRequest]
  /\ vouched' = [vouched EXCEPT ![PathOf(node.request.of)] = @ \cup {facts}]
  /\ UNCHANGED <<setup, disk, facts, starts, missed>>

\* The process ends, at any step, a write in place included.
Ends ==
  /\ node.pc # "down" /\ node' = Down("no")
  /\ \/ UNCHANGED disk
     \/ /\ node.request.step = "write" /\ PathOf(node.request.of) \notin {"none", "db"}
        /\ disk' = [disk EXCEPT !.file[PathOf(node.request.of)] = Torn]
  /\ UNCHANGED <<setup, facts, starts, vouched, missed>>

StartNext ==
  \/ ChangeSetup \/ Validate \/ OpenStores \/ OpenClaims \/ LoadAccounts
  \/ \E i \in node.todo : RecoverIntent(i)
  \/ Serve
  \/ \E kind \in Kinds : Ask(kind)
  \/ WriteRows \/ RowsFail \/ AnswerRequest \/ Ends

StartSpec == StartInit /\ [][StartNext]_startVars

---------------------------------------------------------------------------
(* Properties.                                                             *)

\* What was answered for a file, and was not kept from it by a failed write.
Durable(path) == vouched[path] \ (IF path = "op" THEN missed ELSE {})

\* What was answered under a path is there in every later run under it, whatever ran in
\* between, other paths and modes included.
ToldSurvives ==
  node.pc = "up" =>
    \A k \in Kinds : PathOf(k) # "none" => Durable(PathOf(k)) \subseteq node.has[k]

\* A node that serves has the rail of every intent that is pending in its database, so
\* that its operators can finish it: none is stranded by a change of the rails.
NoneIsStranded ==
  node.pc = "up" /\ Given("db") => \A i \in disk.pending : i.rail \in setup.rails

\* A strict production node keeps its accounts in a file: one that it answered for is
\* there, unless the write failed.
StrictIsDurable ==
  node.pc = "up" /\ Given("strict") /\ Given("production") =>
    node.has["accounts"] \cap (vouched["op"] \cup vouched["none"]) \subseteq disk.file["op"].rows \cup missed

\* config.py, env_validator.py, create_app: a node that is up has all that was told
\* under its paths and no intent that it cannot settle.
StartIsSound == ToldSurvives /\ NoneIsStranded /\ StrictIsDurable

\* env_validator.py:21: the validation shows that the paths are usable; a start that
\* passed it does not fail on one of them.
ValidMeansUsable == node.failed # "accounts"
---------------------------------------------------------------------------
(* What the soundness of a start rests on.                                 *)

Steps    == {"down", "stores", "claims", "accounts", "recover", "up"}
Failures == {"no", "environment", "claims", "accounts", "torn", "rail"}

File   == [is : {"absent", "empty", "torn", "rows"}, rows : SUBSET Nat]
Intent == [of : Nat, rail : RailIds]

Request == {NoRequest} \cup [of : Kinds, step : {"write", "answer"}]
Disk    == [file : [Files -> File], pending : SUBSET Intent]
Process == [pc : Steps, failed : Failures, has : [Kinds -> SUBSET Nat], todo : SUBSET Intent,
            request : Request]

StartTypeOK ==
  /\ setup \in [on : SUBSET Switches, slot : Slots, rails : SUBSET RailIds]
  /\ disk \in Disk /\ node \in Process /\ facts \in Nat /\ starts \in Nat
  /\ vouched \in [Files \cup {"none"} -> SUBSET Nat] /\ missed \subseteq Nat

\* The kinds that the process has loaded.
Known ==
  CASE node.pc \in {"down", "stores"} -> {}
    [] node.pc = "claims"   -> {"exchanges"}
    [] node.pc = "accounts" -> {"exchanges", "claims"}
    [] OTHER -> Kinds

\* What was answered for is in its file, unless that is torn.
FilesHold ==
  \A f \in Files :
    /\ disk.file[f].is # "rows" => disk.file[f].rows = {}
    /\ disk.file[f] = Torn \/ Durable(f) \subseteq disk.file[f].rows
    /\ f = "db" => disk.file[f] # Torn

\* What the process has is all that its file holds, and all that was answered for it.
LoadedIsKept ==
  \A k \in Known : PathOf(k) # "none" =>
    /\ disk.file[PathOf(k)].rows \subseteq node.has[k] /\ Durable(PathOf(k)) \subseteq node.has[k]
    /\ k = "exchanges" => node.has[k] = disk.file["db"].rows

\* A request that is to be answered has its row in the memory and, unless the write
\* failed, in the file.
AnswersAreKept ==
  /\ node.request # NoRequest => node.pc = "up"
  /\ node.request # NoRequest /\ (node.request.step = "answer" \/ PathOf(node.request.of) # "db") =>
       facts \in node.has[node.request.of]
  /\ node.request.step = "answer" /\ PathOf(node.request.of) # "none" =>
       \/ facts \in disk.file[PathOf(node.request.of)].rows
       \/ PathOf(node.request.of) = "op" /\ facts \in missed

\* What is numbered last is not answered for while its request goes on, and an account is
\* in the file, kept from it by a failed write, or still to be written.
NoneIsEarly ==
  \A f \in Files \cup {"none"} : \A n \in vouched[f] : n <= facts /\ (node.request # NoRequest => n # facts)

AccountsAreNoted ==
  node.pc \in {"recover", "up"} /\ Given("opDb") =>
    \A n \in node.has["accounts"] :
      \/ n \in disk.file["op"].rows \cup missed
      \/ n = facts /\ node.request = [of |-> "accounts", step |-> "write"]

\* A strict node that goes on was given nothing to complain of.
StrictIsClean == node.pc # "down" /\ Given("strict") => Errors = {}

\* The intents that are tried, or left by this process, have their rails.
IntentsAreTried ==
  /\ node.pc = "up" => node.todo = {}
  /\ node.pc \in {"recover", "up"} /\ Given("db") => \A i \in disk.pending \ node.todo : i.rail \in setup.rails

StartInv == /\ FilesHold /\ LoadedIsKept /\ AnswersAreKept /\ NoneIsEarly /\ AccountsAreNoted
            /\ StrictIsClean /\ IntentsAreTried
=============================================================================
