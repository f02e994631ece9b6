---------------------------- MODULE RequestGate ----------------------------
(***************************************************************************)
(* The gate of the node: signed requests, which a network may delay,       *)
(* repeat and reorder, are admitted by their nonce on the event loop and   *)
(* served later by a thread of the pool.  The nonces share one database    *)
(* connection, and so its transaction, with the exchanges; deliverables    *)
(* and the reputation log are written to the same file, each over a        *)
(* connection of its own.                                                  *)
(***************************************************************************)
EXTENDS StateMachine, Naturals, FiniteSets

CONSTANTS
  Msg,       \* the signed requests: signer, operation, nonce
  Party,     \* who may sign the requests of each operation on the exchange
  Ways,      \* the kinds of store: "sqlite", "memory"
  Window,    \* how long a nonce is remembered
  MaxClock,  \* bound on the clock
  MaxAdmit,  \* bound on the requests admitted
  MaxFall    \* bound on the ends of the process

ASSUME GateAssumption ==
  /\ Window \in Nat /\ MaxClock \in Nat /\ MaxAdmit \in Nat /\ MaxFall \in Nat
  /\ \A m \in Msg : m.op \in {"deliver", "verify", "cancel"}

VARIABLES
  way,    \* the store of the node
  now,    \* the clock
  seen,   \* the nonces with their time, as the store's connection sees them
  kept,   \* the nonces that are committed
  locker, \* the connection whose open transaction locks the file: "store", "log" or "none"
  pool,   \* the requests admitted, with the copy of the exchange they read
  contract,    \* the exchange: state and version
  let,    \* history: every admission, in order, with its time
  acted,  \* history: the requests that changed the exchange
  stuck,  \* history: the requests that failed because the file was locked
  falls   \* number of ends of the process

gateVars == <<way, now, seen, kept, locker, pool, contract, let, acted, stuck, falls>>

Nonce(m) == <<m.from, m.nonce>>
Aim == [deliver |-> "DELIVERED", verify |-> "VERIFIED", cancel |-> "CANCELLED"]

GateInit ==
  /\ way \in Ways /\ now = 0
  /\ seen = {} /\ kept = {} /\ locker = "none"
  /\ pool = {} /\ let = {} /\ acted = {} /\ stuck = {} /\ falls = 0
  /\ contract = [state |-> "ESCROWED", version |-> 0]

---------------------------------------------------------------------------
(* Authentication: atomic, since the event loop does not wait in it once   *)
(* the body is read.                                                       *)

InWindow(n) == n.at + Window >= now
Remembers(ns, m) == \E n \in ns : n.key = Nonce(m)

\* Memory: the nonce is looked up first, and the old ones go when one is added.
\* SQLite: the old ones go first.
Compared == IF way = "memory" THEN seen ELSE {n \in seen : InWindow(n)}

\* A connection writes when no other has left its transaction open; else it waits a
\* while and fails.
StoreWrites == locker # "log"

\* An INSERT that is refused leaves the transaction of the DELETE open.
Refuse(m) ==
  /\ Remembers(Compared, m) /\ StoreWrites
  /\ seen' = Compared
  /\ locker' = IF way = "sqlite" THEN "store" ELSE "none"
  /\ pool' = {[j EXCEPT !.calm = FALSE] : j \in pool}
  /\ UNCHANGED <<way, now, kept, contract, let, acted, stuck, falls>>

Service(m) == [msg |-> m, no |-> Cardinality(let), pc |-> "admitted", copy |-> contract, calm |-> TRUE]
Entry(m) == [key |-> Nonce(m), at |-> now, no |-> Cardinality(let)]

\* Mutant: the nonce is not committed before the request is admitted.
Admit_Uncommitted(m) ==
  /\ ~Remembers(Compared, m) /\ StoreWrites
  /\ Cardinality(let) < MaxAdmit
  /\ seen' = {n \in seen : InWindow(n)} \cup {Entry(m)}
  /\ locker' = IF way = "sqlite" THEN "store" ELSE "none"
  /\ pool' = pool \cup {Service(m)} /\ let' = let \cup {Entry(m)}
  /\ UNCHANGED <<way, now, kept, contract, acted, stuck, falls>>

Admit(m) ==
  /\ ~Remembers(Compared, m) /\ StoreWrites
  /\ Cardinality(let) < MaxAdmit
  /\ seen' = {n \in seen : InWindow(n)} \cup {Entry(m)}
  /\ kept' = IF way = "sqlite" THEN seen' ELSE kept
  /\ locker' = "none"
  /\ pool' = pool \cup {Service(m)} /\ let' = let \cup {Entry(m)}
  /\ UNCHANGED <<way, now, contract, acted, stuck, falls>>

---------------------------------------------------------------------------
(* The endpoints: authorization, the operation on a copy, the save.        *)

Onward(j, pc) == pool' = (pool \ {j}) \cup {[j EXCEPT !.pc = pc, !.copy = contract]}
Over(j) == pool' = pool \ {j}

\* Refused to others than the parties, or in a state that does not allow it.
TurnAway(j) ==
  /\ j.pc = "admitted"
  /\ j.msg.from \notin Party[j.msg.op] \/ ~CanTransition(contract.state, Aim[j.msg.op])
  /\ Over(j)
  /\ UNCHANGED <<way, now, seen, kept, locker, contract, let, acted, stuck, falls>>

Serve(j) ==
  /\ j.pc = "admitted"
  /\ j.msg.from \in Party[j.msg.op] /\ CanTransition(contract.state, Aim[j.msg.op])
  /\ Onward(j, IF j.msg.op = "deliver" THEN "storing" ELSE "saving")
  /\ UNCHANGED <<way, now, seen, kept, locker, contract, let, acted, stuck, falls>>

\* The deliverable is written over another connection to the same file.
StoreBlob(j) ==
  /\ j.pc = "storing" /\ locker = "none"
  /\ pool' = (pool \ {j}) \cup {[j EXCEPT !.pc = "saving"]}
  /\ UNCHANGED <<way, now, seen, kept, locker, contract, let, acted, stuck, falls>>

\* A request that finds the file locked by another connection fails.
Locked(j) ==
  /\ \/ j.pc = "storing" /\ locker # "none"
     \/ j.pc = "saving" /\ locker = "log"
  /\ stuck' = stuck \cup {j} /\ Over(j)
  /\ UNCHANGED <<way, now, seen, kept, locker, contract, let, acted, falls>>

\* The save commits whatever the transaction holds ...
SaveRow(j) ==
  /\ way = "sqlite" /\ j.pc = "saving" /\ StoreWrites /\ j.copy.version = contract.version
  /\ contract' = [state |-> Aim[j.msg.op], version |-> contract.version + 1]
  /\ kept' = seen /\ locker' = "none"
  /\ acted' = acted \cup {j} /\ Over(j)
  /\ UNCHANGED <<way, now, seen, let, stuck, falls>>

\* ... or it finds another version and leaves the transaction open; the VDC that a
\* delivered exchange has was committed before.
SaveLost(j) ==
  /\ way = "sqlite" /\ j.pc = "saving" /\ StoreWrites /\ j.copy.version # contract.version
  /\ kept' = IF j.msg.op = "cancel" THEN kept ELSE seen
  /\ locker' = "store"
  /\ pool' = {[k EXCEPT !.calm = FALSE] : k \in pool \ {j}}
  /\ UNCHANGED <<way, now, seen, contract, let, acted, stuck, falls>>

\* In memory the exchange is one object.  Its state is compared again, and then changed
\* whatever it has become; increments of the version may be lost.
Compare(j) ==
  /\ way = "memory" /\ j.pc = "saving"
  /\ IF CanTransition(contract.state, Aim[j.msg.op]) THEN Onward(j, "changing") ELSE Over(j)
  /\ UNCHANGED <<way, now, seen, kept, locker, contract, let, acted, stuck, falls>>

ChangeShared(j) ==
  /\ way = "memory" /\ j.pc = "changing"
  /\ \E version \in {j.copy.version, contract.version} :
       contract' = [state |-> Aim[j.msg.op], version |-> version + 1]
  /\ acted' = acted \cup {j} /\ Over(j)
  /\ UNCHANGED <<way, now, seen, kept, locker, let, stuck, falls>>

\* The reputation log: of two settled exchanges that take the same number for their
\* entries one is refused, which leaves the transaction of the log open ...
LogRefused ==
  /\ way = "sqlite" /\ locker # "store"
  /\ locker' = "log"
  /\ pool' = {[j EXCEPT !.calm = FALSE] : j \in pool}
  /\ UNCHANGED <<way, now, seen, kept, contract, let, acted, stuck, falls>>

\* ... until the next entry.
LogWritten ==
  /\ locker = "log" /\ locker' = "none"
  /\ UNCHANGED <<way, now, seen, kept, pool, contract, let, acted, stuck, falls>>

---------------------------------------------------------------------------

Tick ==
  /\ now < MaxClock /\ now' = now + 1
  /\ UNCHANGED <<way, seen, kept, locker, pool, contract, let, acted, stuck, falls>>

\* The process ends and starts: what was not committed is gone.  With a store
\* in memory the exchange is gone too, and a new behaviour begins.
Fall ==
  /\ way = "sqlite" /\ falls < MaxFall /\ falls' = falls + 1
  /\ seen' = kept /\ locker' = "none" /\ pool' = {}
  /\ UNCHANGED <<way, now, kept, contract, let, acted, stuck>>

GateNext ==
  \/ \E m \in Msg : Refuse(m) \/ Admit(m)
  \/ \E j \in pool : \/ TurnAway(j) \/ Serve(j) \/ StoreBlob(j) \/ Locked(j)
                     \/ SaveRow(j) \/ SaveLost(j) \/ Compare(j) \/ ChangeShared(j)
  \/ LogRefused \/ LogWritten \/ Tick \/ Fall

GateSpec == GateInit /\ [][GateNext]_gateVars

---------------------------------------------------------------------------

\* A signed request that is delivered again is not admitted again while its
\* nonce is in the window, across the ends of the process.
OncePerWindow ==
  \A a, b \in let : a.key = b.key /\ a.no < b.no => b.at > a.at + Window

\* What was admitted is already committed, so that a crash cannot forget it.
AdmittedIsKept ==
  way = "sqlite" => \A a \in let : InWindow(a) => a \in kept

\* The requests that changed the exchange were signed by a party; and in a database
\* each changed it once, and none was written over by another.
ActsAreCounted ==
  /\ way = "sqlite" => contract.version = Cardinality({j.no : j \in acted})
  /\ \A j \in acted : j.msg.from \in Party[j.msg.op]

\* A request fails on a locked file only when, since it was admitted, some request was
\* refused for its nonce, some save for its version, or some entry of the reputation log
\* for its number.
LockedForACause ==
  /\ \A j \in stuck : ~j.calm
  /\ \A j \in pool : j.calm /\ j.pc \in {"storing", "saving"} => locker = "none"

\* GateIsSound: of the copies of a signed request one is admitted in a window
\* (app.py authn, store.py nonce_check_and_add), admitted requests act as their
\* signer may, and what they write is theirs (app.py endpoints).
GateIsSound == OncePerWindow /\ AdmittedIsKept /\ ActsAreCounted /\ LockedForACause
---------------------------------------------------------------------------
(* What the soundness of the gate rests on.                                *)

Entries == [key : {Nonce(m) : m \in Msg}, at : Nat, no : Nat]
Row == [state : State, version : Nat]
Served == [msg : Msg, no : Nat, pc : {"admitted", "storing", "saving", "changing"}, copy : Row, calm : BOOLEAN]

GateTypeOK ==
  /\ way \in Ways /\ now \in Nat /\ locker \in {"none", "store", "log"} /\ falls \in Nat
  /\ seen \subseteq Entries /\ kept \subseteq Entries /\ let \subseteq Entries
  /\ IsFiniteSet(let)
  /\ pool \subseteq Served /\ acted \subseteq Served /\ stuck \subseteq Served
  /\ contract \in Row

\* Admissions are numbered in their order, and none lies ahead of the clock.
Numbered == \A a \in let : a.no < Cardinality(let) /\ a.at <= now

\* A nonce of the window is among those that the next request is compared with, and
\* the store has it after a crash.
Memory == \A a \in let : InWindow(a) => a \in seen /\ (way = "sqlite" => a \in kept)

\* One job serves an admission, and it serves it once.
OneJob ==
  /\ \A j \in pool \cup acted : j.no < Cardinality(let)
  /\ \A j, k \in pool : j.no = k.no => j = k
  /\ \A j \in pool, k \in acted : j.no # k.no

\* Past its authorization a job is one of a party; and while one is undisturbed the
\* transaction is closed.
Authorized == \A j \in pool : /\ j.pc # "admitted" => j.msg.from \in Party[j.msg.op]
                              /\ j.calm => locker = "none"

GateInv == Numbered /\ Memory /\ OneJob /\ Authorized /\ GateIsSound
=============================================================================
