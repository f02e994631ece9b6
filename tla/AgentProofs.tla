---------------------------- MODULE AgentProofs ----------------------------
(***************************************************************************)
(* Theorems about what agents meet at a node, and about their own side:    *)
(* the request gate, the chain of a goal, the outbox of an agent, the      *)
(* composer of a bundle, the judges of a delivery, the tools of an agent   *)
(* and the site patrol.                                                    *)
(***************************************************************************)
EXTENDS RequestGate, SupplyChain, AdopterRuntime, Composer, Verdicts, AgentTools, SitePatrol,
        FiniteSetTheorems, SequenceTheorems, WellFoundedInduction, TLAPS

---------------------------------------------------------------------------
(* The request gate.                                                       *)

\* A job has a successor of the types.
LEMMA ServedFacts ==
  ASSUME GateTypeOK, NEW j \in pool
  PROVE  /\ j \in Served /\ j.msg \in Msg /\ j.no \in Nat /\ j.copy \in Row /\ j.calm \in BOOLEAN
         /\ \A pc \in {"admitted", "storing", "saving", "changing"} :
              /\ [j EXCEPT !.pc = pc] \in Served
              /\ [j EXCEPT !.pc = pc, !.copy = contract] \in Served
         /\ [j EXCEPT !.calm = FALSE] \in Served
  BY DEF GateTypeOK, Served

\* The goals of the requests are states.
LEMMA AimIsState ==
  ASSUME NEW m \in Msg PROVE Aim[m.op] \in State
  BY GateAssumption DEF Aim, State

\* An admission is a new number.
LEMMA NextNumber ==
  ASSUME GateTypeOK, Numbered, NEW m \in Msg
  PROVE  /\ Cardinality(let) \in Nat
         /\ Entry(m) \in Entries
         /\ Entry(m) \notin let
         /\ IsFiniteSet(let \cup {Entry(m)})
         /\ Cardinality(let \cup {Entry(m)}) = Cardinality(let) + 1
<1>1. Cardinality(let) \in Nat
  BY FS_CardinalityType DEF GateTypeOK
<1>2. Entry(m) \in Entries
  BY <1>1 DEF Entry, Entries, GateTypeOK
<1>3. Entry(m) \notin let
  BY <1>1 DEF Entry, Numbered
<1> QED
  BY <1>1, <1>2, <1>3, FS_AddElement DEF GateTypeOK

\* The types are kept.
LEMMA GateTypes ==
  ASSUME GateTypeOK, Numbered, [GateNext]_gateVars
  PROVE  GateTypeOK'
<1>1. CASE UNCHANGED gateVars
  BY <1>1 DEF GateTypeOK, gateVars
<1>2. Compared \subseteq Entries
  BY DEF Compared, GateTypeOK
<1>3. ASSUME NEW m \in Msg, Refuse(m) PROVE GateTypeOK'
  <2>1. pool' \subseteq Served
    BY <1>3, ServedFacts DEF Refuse
  <2> QED
    BY <1>2, <1>3, <2>1 DEF Refuse, GateTypeOK
<1>4. ASSUME NEW m \in Msg, Admit(m) PROVE GateTypeOK'
  <2>1. {n \in seen : InWindow(n)} \cup {Entry(m)} \subseteq Entries
    BY NextNumber DEF GateTypeOK
  <2>2. Service(m) \in Served
    BY NextNumber DEF Service, Served, GateTypeOK
  <2>3. let' \subseteq Entries /\ IsFiniteSet(let')
    BY <1>4, NextNumber DEF Admit, GateTypeOK
  <2> QED
    BY <1>4, <2>1, <2>2, <2>3 DEF Admit, GateTypeOK
<1>5. ASSUME NEW j \in pool, TurnAway(j) \/ Serve(j) \/ StoreBlob(j) \/ Locked(j) \/ Compare(j)
      PROVE  GateTypeOK'
  <2>1. pool' \subseteq Served /\ stuck' \subseteq Served
    BY <1>5, ServedFacts DEF TurnAway, Serve, StoreBlob, Locked, Compare, Over, Onward, GateTypeOK
  <2> QED
    BY <1>5, <2>1 DEF TurnAway, Serve, StoreBlob, Locked, Compare, GateTypeOK
<1>6. ASSUME NEW j \in pool, SaveRow(j) PROVE GateTypeOK'
  <2>1. Aim[j.msg.op] \in State
    BY ServedFacts, AimIsState
  <2>2. contract' \in Row
    BY <1>6, <2>1 DEF SaveRow, GateTypeOK, Row
  <2>3. pool' \subseteq Served /\ acted' \subseteq Served
    BY <1>6, ServedFacts DEF SaveRow, Over, GateTypeOK
  <2> QED
    BY <1>6, <2>2, <2>3 DEF SaveRow, GateTypeOK
<1>7. ASSUME NEW j \in pool, SaveLost(j) PROVE GateTypeOK'
  <2>1. pool' \subseteq Served
    BY <1>7, ServedFacts DEF SaveLost
  <2> QED
    BY <1>7, <2>1 DEF SaveLost, GateTypeOK
<1>10. ASSUME NEW j \in pool, ChangeShared(j) PROVE GateTypeOK'
  <2>1. Aim[j.msg.op] \in State /\ j.copy.version \in Nat /\ contract.version \in Nat
    BY ServedFacts, AimIsState DEF GateTypeOK, Row
  <2>2. contract' \in Row
    BY <1>10, <2>1 DEF ChangeShared, Row
  <2>3. pool' \subseteq Served /\ acted' \subseteq Served
    BY <1>10, ServedFacts DEF ChangeShared, Over, GateTypeOK
  <2> QED
    BY <1>10, <2>2, <2>3 DEF ChangeShared, GateTypeOK
<1>11. CASE LogRefused
  <2>1. pool' \subseteq Served
    BY <1>11, ServedFacts DEF LogRefused
  <2> QED
    BY <1>11, <2>1 DEF LogRefused, GateTypeOK
<1>12. CASE LogWritten
  BY <1>12 DEF LogWritten, GateTypeOK
<1>8. CASE Tick
  <2>1. now + 1 \in Nat
    BY DEF GateTypeOK
  <2> QED
    BY <1>8, <2>1 DEF Tick, GateTypeOK
<1>9. CASE Fall
  <2>1. falls + 1 \in Nat
    BY DEF GateTypeOK
  <2> QED
    BY <1>9, <2>1 DEF Fall, GateTypeOK
<1> QED
  BY <1>1, <1>3, <1>4, <1>5, <1>6, <1>7, <1>8, <1>9, <1>10, <1>11, <1>12 DEF GateNext

\* What a step does to the admissions and the clock.
LEMMA LetMoves ==
  ASSUME GateTypeOK, [GateNext]_gateVars
  PROVE  \/ \E m \in Msg : Admit(m)
         \/ let' = let /\ now' \in Nat /\ now' >= now
<1> QED
  BY DEF GateTypeOK, GateNext, gateVars, Refuse, TurnAway, Serve, StoreBlob, Locked, SaveRow,
         SaveLost, Compare, ChangeShared, LogRefused, LogWritten, Tick, Fall

\* Numbers and times are in order, and a nonce comes back only after the window.
LEMMA GateOrder ==
  ASSUME GateTypeOK, Numbered, Memory, OncePerWindow, [GateNext]_gateVars
  PROVE  Numbered' /\ OncePerWindow'
<1>1. ASSUME NEW m \in Msg, Admit(m) PROVE Numbered' /\ OncePerWindow'
  <2>1. let' = let \cup {Entry(m)} /\ now' = now /\ ~Remembers(Compared, m)
    BY <1>1 DEF Admit
  <2>2. Cardinality(let') = Cardinality(let) + 1 /\ Cardinality(let) \in Nat
    BY <2>1, NextNumber
  <2>3. Entry(m).no = Cardinality(let) /\ Entry(m).at = now /\ Entry(m).key = Nonce(m)
    BY DEF Entry
  <2>4. \A a \in let : a.no \in Nat /\ a.at \in Nat
    BY DEF GateTypeOK, Entries
  <2>5. Numbered'
    BY <2>1, <2>2, <2>3, <2>4 DEF Numbered, GateTypeOK
  <2>6. ASSUME NEW a \in let, a.key = Nonce(m) PROVE now > a.at + Window
    <3>1. a \notin Compared
      BY <2>1, <2>6 DEF Remembers
    <3>2. ~InWindow(a)
      BY <3>1 DEF Memory, Compared
    <3> QED
      BY <3>2, <2>4, GateAssumption DEF InWindow, GateTypeOK
  <2>7. ASSUME NEW a \in let', NEW b \in let', a.key = b.key, a.no < b.no
        PROVE  b.at > a.at + Window
    <3>1. CASE a \in let /\ b \in let
      BY <3>1, <2>7 DEF OncePerWindow
    <3>2. CASE a = Entry(m)
      BY <3>2, <2>1, <2>2, <2>3, <2>4, <2>7 DEF Numbered
    <3>3. CASE a \in let /\ b = Entry(m)
      BY <3>3, <2>3, <2>6, <2>7
    <3> QED
      BY <2>1, <3>1, <3>2, <3>3
  <2> QED
    BY <2>5, <2>7 DEF OncePerWindow
<1>2. CASE let' = let /\ now' \in Nat /\ now' >= now
  <2>1. \A a \in let : a.at \in Nat
    BY DEF GateTypeOK, Entries
  <2> QED
    BY <1>2, <2>1 DEF Numbered, OncePerWindow, GateTypeOK
<1> QED
  BY <1>1, <1>2, LetMoves

\* The nonces of the window are remembered, and committed.
LEMMA GateMemory ==
  ASSUME GateTypeOK, Memory, [GateNext]_gateVars
  PROVE  Memory'
<1>0. \A a \in let : a.at \in Nat
  BY DEF GateTypeOK, Entries
<1>1. CASE UNCHANGED gateVars
  BY <1>1 DEF Memory, InWindow, gateVars
<1>2. ASSUME NEW m \in Msg, Refuse(m) PROVE Memory'
  BY <1>2 DEF Refuse, Memory, InWindow, Compared
<1>3. ASSUME NEW m \in Msg, Admit(m) PROVE Memory'
  BY <1>3 DEF Admit, Memory, InWindow
<1>4. ASSUME NEW j \in pool, TurnAway(j) \/ Serve(j) \/ StoreBlob(j) \/ Locked(j) \/ Compare(j) \/ ChangeShared(j)
      PROVE  Memory'
  BY <1>4 DEF TurnAway, Serve, StoreBlob, Locked, Compare, ChangeShared, Memory, InWindow
<1>8. ASSUME NEW j \in pool, SaveLost(j) PROVE Memory'
  BY <1>8 DEF SaveLost, Memory, InWindow
<1>9. CASE LogRefused \/ LogWritten
  BY <1>9 DEF LogRefused, LogWritten, Memory, InWindow
<1>5. ASSUME NEW j \in pool, SaveRow(j) PROVE Memory'
  BY <1>5 DEF SaveRow, Memory, InWindow
<1>6. CASE Tick
  <2>1. \A a \in let : InWindow(a)' => InWindow(a)
    BY <1>0, <1>6, GateAssumption DEF Tick, InWindow, GateTypeOK
  <2> QED
    BY <1>6, <2>1 DEF Tick, Memory
<1>7. CASE Fall
  BY <1>7 DEF Fall, Memory, InWindow
<1> QED
  BY <1>1, <1>2, <1>3, <1>4, <1>5, <1>6, <1>7, <1>8, <1>9 DEF GateNext

---------------------------------------------------------------------------
\* One job serves an admission.
LEMMA GateJobs ==
  ASSUME GateTypeOK, Numbered, OneJob, [GateNext]_gateVars
  PROVE  OneJob'
<1>0. /\ Cardinality(let) \in Nat
      /\ \A j \in pool \cup acted : j.no \in Nat /\ j.no < Cardinality(let)
      /\ \A j, k \in pool : j.no = k.no => j = k
      /\ \A j \in pool, k \in acted : j.no # k.no
  BY FS_CardinalityType DEF GateTypeOK, Served, OneJob
<1>1. CASE UNCHANGED gateVars \/ Tick \/ LogWritten
  BY <1>1 DEF OneJob, gateVars, Tick, LogWritten
<1>2. ASSUME (\E m \in Msg : Refuse(m)) \/ LogRefused PROVE OneJob'
  <2>1. \A k \in pool' : \E j \in pool : k = [j EXCEPT !.calm = FALSE] /\ k.no = j.no
    BY <1>2 DEF Refuse, LogRefused, GateTypeOK, Served
  <2>2. acted' = acted /\ let' = let
    BY <1>2 DEF Refuse, LogRefused
  <2>3. ASSUME NEW k \in pool', NEW l \in pool', k.no = l.no PROVE k = l
    <3>1. PICK x \in pool : k = [x EXCEPT !.calm = FALSE] /\ k.no = x.no
      BY <2>1
    <3>2. PICK y \in pool : l = [y EXCEPT !.calm = FALSE] /\ l.no = y.no
      BY <2>1
    <3> QED
      BY <1>0, <2>3, <3>1, <3>2
  <2>4. /\ \A k \in pool' \cup acted' : k.no < Cardinality(let')
        /\ \A k \in pool', l \in acted' : k.no # l.no
    BY <1>0, <2>1, <2>2
  <2> QED
    BY <2>3, <2>4 DEF OneJob
<1>3. ASSUME NEW m \in Msg, Admit(m) PROVE OneJob'
  <2>1. /\ pool' = pool \cup {Service(m)} /\ acted' = acted
        /\ Cardinality(let') = Cardinality(let) + 1
    BY <1>3, NextNumber DEF Admit
  <2>2. Service(m).no = Cardinality(let)
    BY DEF Service
  <2>3. \A j \in pool' \cup acted' : j.no < Cardinality(let')
    BY <1>0, <2>1, <2>2
  <2>4. \A j, k \in pool' : j.no = k.no => j = k
    BY <1>0, <2>1, <2>2
  <2>5. \A j \in pool', k \in acted' : j.no # k.no
    BY <1>0, <2>1, <2>2
  <2> QED
    BY <2>3, <2>4, <2>5 DEF OneJob
<1>9. ASSUME NEW j \in pool, Compare(j), ~CanTransition(contract.state, Aim[j.msg.op]) PROVE OneJob'
  BY <1>9, <1>0 DEF Compare, Over, OneJob
<1>4. ASSUME NEW j \in pool, TurnAway(j) \/ Locked(j) PROVE OneJob'
  BY <1>4, <1>0 DEF TurnAway, Locked, Over, OneJob
<1>5. ASSUME NEW j \in pool,
             Serve(j) \/ StoreBlob(j) \/ (Compare(j) /\ CanTransition(contract.state, Aim[j.msg.op]))
      PROVE  OneJob'
  <2>1. PICK k : pool' = (pool \ {j}) \cup {k} /\ k.no = j.no
    <3>1. CASE Serve(j)
      <4> DEFINE next == [j EXCEPT !.pc = IF j.msg.op = "deliver" THEN "storing" ELSE "saving",
                                   !.copy = contract]
      <4>1. pool' = (pool \ {j}) \cup {next}
        BY <3>1 DEF Serve, Onward
      <4>2. next.no = j.no
        BY DEF GateTypeOK, Served
      <4> QED
        BY <4>1, <4>2
    <3>2. CASE StoreBlob(j)
      <4> DEFINE next == [j EXCEPT !.pc = "saving"]
      <4>1. pool' = (pool \ {j}) \cup {next}
        BY <3>2 DEF StoreBlob
      <4>2. next.no = j.no
        BY DEF GateTypeOK, Served
      <4> QED
        BY <4>1, <4>2
    <3>3. CASE Compare(j) /\ CanTransition(contract.state, Aim[j.msg.op])
      <4> DEFINE next == [j EXCEPT !.pc = "changing", !.copy = contract]
      <4>1. pool' = (pool \ {j}) \cup {next}
        BY <3>3 DEF Compare, Onward
      <4>2. next.no = j.no
        BY DEF GateTypeOK, Served
      <4> QED
        BY <4>1, <4>2
    <3> QED
      BY <1>5, <3>1, <3>2, <3>3
  <2>2. acted' = acted /\ let' = let
    BY <1>5 DEF Serve, StoreBlob, Compare
  <2> QED
    BY <1>0, <2>1, <2>2 DEF OneJob
<1>6. ASSUME NEW j \in pool, SaveRow(j) \/ ChangeShared(j) PROVE OneJob'
  <2>1. pool' = pool \ {j} /\ acted' = acted \cup {j} /\ let' = let
    BY <1>6 DEF SaveRow, ChangeShared, Over
  <2> QED
    BY <1>0, <2>1 DEF OneJob
<1>7. ASSUME NEW j \in pool, SaveLost(j) PROVE OneJob'
  <2>1. \A k \in pool' : \E i \in pool : k = [i EXCEPT !.calm = FALSE] /\ k.no = i.no
    BY <1>7 DEF SaveLost, GateTypeOK, Served
  <2>2. acted' = acted /\ let' = let
    BY <1>7 DEF SaveLost
  <2>3. ASSUME NEW k \in pool', NEW l \in pool', k.no = l.no PROVE k = l
    <3>1. PICK x \in pool : k = [x EXCEPT !.calm = FALSE] /\ k.no = x.no
      BY <2>1
    <3>2. PICK y \in pool : l = [y EXCEPT !.calm = FALSE] /\ l.no = y.no
      BY <2>1
    <3> QED
      BY <1>0, <2>3, <3>1, <3>2
  <2>4. /\ \A k \in pool' \cup acted' : k.no < Cardinality(let')
        /\ \A k \in pool', l \in acted' : k.no # l.no
    BY <1>0, <2>1, <2>2
  <2> QED
    BY <2>3, <2>4 DEF OneJob
<1>8. CASE Fall
  BY <1>8, <1>0 DEF Fall, OneJob
<1> QED
  BY <1>1, <1>2, <1>3, <1>4, <1>5, <1>6, <1>7, <1>8, <1>9 DEF GateNext

\* Jobs past their authorization are a party's, and the undisturbed find the
\* transaction closed.
LEMMA GateAuthorized ==
  ASSUME GateTypeOK, Authorized, [GateNext]_gateVars
  PROVE  Authorized'
<1>1. CASE UNCHANGED gateVars \/ Tick \/ Fall \/ LogWritten
  BY <1>1 DEF Authorized, gateVars, Tick, Fall, LogWritten
<1>2. ASSUME (\E m \in Msg : Refuse(m)) \/ LogRefused PROVE Authorized'
  <2>1. \A k \in pool' : \E j \in pool : k.msg = j.msg /\ k.pc = j.pc /\ ~k.calm
    BY <1>2 DEF Refuse, LogRefused, GateTypeOK, Served
  <2> QED
    BY <2>1 DEF Authorized
<1>3. ASSUME NEW m \in Msg, Admit(m) PROVE Authorized'
  BY <1>3 DEF Admit, Authorized, Service
<1>7. ASSUME NEW j \in pool, Compare(j), ~CanTransition(contract.state, Aim[j.msg.op]) PROVE Authorized'
  BY <1>7 DEF Compare, Over, Authorized
<1>4. ASSUME NEW j \in pool, TurnAway(j) \/ Locked(j) \/ SaveRow(j) \/ ChangeShared(j) PROVE Authorized'
  BY <1>4 DEF TurnAway, Locked, SaveRow, ChangeShared, Over, Authorized
<1>5. ASSUME NEW j \in pool,
             Serve(j) \/ StoreBlob(j) \/ (Compare(j) /\ CanTransition(contract.state, Aim[j.msg.op]))
      PROVE  Authorized'
  <2>1. PICK k : /\ pool' = (pool \ {j}) \cup {k} /\ k.msg = j.msg /\ k.calm = j.calm
                 /\ j.msg.from \in Party[j.msg.op]
    <3>1. CASE Serve(j)
      <4> DEFINE next == [j EXCEPT !.pc = IF j.msg.op = "deliver" THEN "storing" ELSE "saving",
                                   !.copy = contract]
      <4>1. pool' = (pool \ {j}) \cup {next} /\ j.msg.from \in Party[j.msg.op]
        BY <3>1 DEF Serve, Onward
      <4>2. next.msg = j.msg /\ next.calm = j.calm
        BY DEF GateTypeOK, Served
      <4> QED
        BY <4>1, <4>2
    <3>2. CASE StoreBlob(j)
      <4> DEFINE next == [j EXCEPT !.pc = "saving"]
      <4>1. pool' = (pool \ {j}) \cup {next} /\ j.msg.from \in Party[j.msg.op]
        BY <3>2 DEF StoreBlob, Authorized
      <4>2. next.msg = j.msg /\ next.calm = j.calm
        BY DEF GateTypeOK, Served
      <4> QED
        BY <4>1, <4>2
    <3>3. CASE Compare(j) /\ CanTransition(contract.state, Aim[j.msg.op])
      <4> DEFINE next == [j EXCEPT !.pc = "changing", !.copy = contract]
      <4>1. pool' = (pool \ {j}) \cup {next} /\ j.msg.from \in Party[j.msg.op]
        BY <3>3 DEF Compare, Onward, Authorized
      <4>2. next.msg = j.msg /\ next.calm = j.calm
        BY DEF GateTypeOK, Served
      <4> QED
        BY <4>1, <4>2
    <3> QED
      BY <1>5, <3>1, <3>2, <3>3
  <2>2. locker' = locker
    BY <1>5 DEF Serve, StoreBlob, Compare
  <2> QED
    BY <2>1, <2>2 DEF Authorized
<1>6. ASSUME NEW j \in pool, SaveLost(j) PROVE Authorized'
  <2>1. \A k \in pool' : \E i \in pool : k.msg = i.msg /\ k.pc = i.pc /\ ~k.calm
    BY <1>6 DEF SaveLost, GateTypeOK, Served
  <2> QED
    BY <2>1 DEF Authorized
<1> QED
  BY <1>1, <1>2, <1>3, <1>4, <1>5, <1>6, <1>7 DEF GateNext

\* The version counts the requests that acted.
LEMMA GateCounts ==
  ASSUME GateTypeOK, OneJob, Authorized, ActsAreCounted, [GateNext]_gateVars
  PROVE  ActsAreCounted'
<1>1. CASE acted' = acted /\ contract' = contract /\ way' = way
  BY <1>1 DEF ActsAreCounted
<1>3. ASSUME NEW j \in pool, ChangeShared(j) PROVE ActsAreCounted'
  BY <1>3 DEF ChangeShared, Authorized, ActsAreCounted
<1>2. ASSUME NEW j \in pool, SaveRow(j) PROVE ActsAreCounted'
  <2> DEFINE Nos == {k.no : k \in acted}
  <2>1. /\ acted' = acted \cup {j} /\ contract'.version = contract.version + 1 /\ way' = way
        /\ way = "sqlite" /\ j.msg.from \in Party[j.msg.op]
    BY <1>2 DEF SaveRow, Authorized
  <2>2. {k.no : k \in acted'} = Nos \cup {j.no}
    BY <2>1
  <2>3. j.no \notin Nos
    BY DEF OneJob
  <2>4. IsFiniteSet(Nos)
    <3>1. Cardinality(let) \in Nat
      BY FS_CardinalityType DEF GateTypeOK
    <3>2. Nos \subseteq 0 .. Cardinality(let) - 1
      BY <3>1 DEF OneJob, GateTypeOK, Served
    <3>3. IsFiniteSet(0 .. Cardinality(let) - 1)
      BY <3>1, FS_Interval
    <3> QED
      BY <3>2, <3>3, FS_Subset
  <2>5. Cardinality(Nos \cup {j.no}) = Cardinality(Nos) + 1
    BY <2>3, <2>4, FS_AddElement
  <2> QED
    BY <2>1, <2>2, <2>5 DEF ActsAreCounted
<1> QED
  BY <1>1, <1>2, <1>3 DEF GateNext, gateVars, Refuse, Admit, TurnAway, Serve, StoreBlob, Locked,
                          SaveLost, Compare, LogRefused, LogWritten, Tick, Fall

\* What failed on the lock had been disturbed.
LEMMA GateLocked ==
  ASSUME Authorized, Authorized', LockedForACause, [GateNext]_gateVars
  PROVE  LockedForACause'
<1>1. \A j \in stuck' : ~j.calm
  BY DEF Authorized, LockedForACause, GateNext, gateVars, Refuse, Admit, TurnAway, Serve, StoreBlob,
         Locked, SaveRow, SaveLost, Compare, ChangeShared, LogRefused, LogWritten, Tick, Fall
<1> QED
  BY <1>1 DEF Authorized, LockedForACause

\* The gate admits a signed request once in a window, what it admitted is committed,
\* and the requests that act are a party's and act once: for all clients, windows and
\* orders of the steps (app.py authn, store.py nonce_check_and_add).
THEOREM GateAlwaysSound == GateSpec => []GateIsSound
<1>1. GateInit => GateTypeOK /\ GateInv
  <2> SUFFICES ASSUME GateInit PROVE GateTypeOK /\ GateInv
    OBVIOUS
  <2>1. Cardinality({}) = 0 /\ IsFiniteSet({})
    BY FS_EmptySet
  <2>2. {j.no : j \in acted} = {}
    BY DEF GateInit
  <2>3. GateTypeOK
    BY <2>1 DEF GateInit, GateTypeOK, Row, State
  <2> QED
    BY <2>1, <2>2, <2>3 DEF GateInit, GateInv, Numbered, Memory, OneJob, Authorized, GateIsSound,
      OncePerWindow, AdmittedIsKept, ActsAreCounted, LockedForACause
<1>2. GateTypeOK /\ GateInv /\ [GateNext]_gateVars => (GateTypeOK /\ GateInv)'
  <2> SUFFICES ASSUME GateTypeOK, GateInv, [GateNext]_gateVars PROVE GateTypeOK' /\ GateInv'
    OBVIOUS
  <2>1. Numbered /\ Memory /\ OneJob /\ Authorized /\ OncePerWindow /\ ActsAreCounted /\ LockedForACause
    BY DEF GateInv, GateIsSound
  <2>2. Memory' /\ Authorized'
    BY <2>1, GateMemory, GateAuthorized
  <2>3. AdmittedIsKept'
    BY <2>2 DEF Memory, AdmittedIsKept
  <2> QED
    BY <2>1, <2>2, <2>3, GateTypes, GateOrder, GateJobs, GateCounts, GateLocked DEF GateInv, GateIsSound
<1>3. GateInv => GateIsSound
  BY DEF GateInv
<1> QED
  BY <1>1, <1>2, <1>3, PTL DEF GateSpec

---------------------------------------------------------------------------
(* The chain of a goal.                                                    *)

\* What a quote is, and that a subtask depends on subtasks.
LEMMA SupplyFacts ==
  /\ \A p \in Provider : Quoted(p) \in Nat /\ Quoted(p) <= Budget
  /\ ~("none" \in State) /\ ~("pending" \in State) /\ ~("running" \in State)
  /\ \A s \in State : Transitions[s] \subseteq State
  /\ Transitions["SETTLED"] = {} /\ Transitions["REJECTED"] = {}
  /\ \A s \in SubTask : DependsOn(s) \subseteq SubTask
<1>1. ASSUME NEW p \in Provider PROVE Quoted(p) \in Nat /\ Quoted(p) <= Budget
  BY SupplyChainAssumption DEF Quoted
<1>2. \A s \in State : Transitions[s] \subseteq State
  BY DEF Transitions, State
<1>3. Transitions["SETTLED"] = {} /\ Transitions["REJECTED"] = {}
  BY DEF Transitions, State
<1>4. ASSUME NEW s \in SubTask PROVE DependsOn(s) \subseteq SubTask
  <2> DEFINE i == CHOOSE i \in DOMAIN Sub : Sub[i] = s
  <2>1. i \in DOMAIN Sub
    BY DEF SubTask, Range
  <2>2. ASSUME i > 1 PROVE i - 1 \in DOMAIN Sub
    BY <2>1, <2>2, SupplyChainAssumption
  <2>3. i > 1 => Sub[i - 1] \in SubTask
    BY <2>2 DEF SubTask, Range
  <2> QED
    BY <2>3 DEF DependsOn, Depends
<1> QED
  BY <1>1, <1>2, <1>3, <1>4 DEF State

\* The exchange of a leg goes on, and what is paid for it with it.
LEMMA LegAdvances ==
  ASSUME SupplyTypeOK, PaidAsSettled, NEW s \in SubTask, NEW e \in Exchanges, NEW to \in State,
         e.price <= Budget,
         paidLeg[s] = IF e.state = "SETTLED" THEN <<e.price>> ELSE <<>>,
         e.state = "SETTLED" => to = "SETTLED",
         exch[s].state = "SETTLED" => e.state = "SETTLED",
         exch' = [exch EXCEPT ![s] = [e EXCEPT !.state = to]],
         paidLeg' = Paid(s, e, to)
  PROVE  /\ exch' \in [SubTask -> Exchanges] /\ paidLeg' \in [SubTask -> Seq(Nat)]
         /\ PaidAsSettled'
         /\ exch'[s].state = to /\ \A r \in SubTask \ {s} : exch'[r] = exch[r]
         /\ \A r \in SubTask : exch[r].state = "SETTLED" => exch'[r].state = "SETTLED"
<1> DEFINE next == [e EXCEPT !.state = to]
<1>1. next \in Exchanges /\ next.state = to /\ next.price = e.price /\ e.price \in Nat
  BY DEF Exchanges
<1>2. exch' = [exch EXCEPT ![s] = next] /\ exch \in [SubTask -> Exchanges]
      /\ paidLeg \in [SubTask -> Seq(Nat)]
  BY DEF SupplyTypeOK
<1> HIDE DEF next
<1>3. exch' \in [SubTask -> Exchanges] /\ exch'[s] = next /\ \A r \in SubTask \ {s} : exch'[r] = exch[r]
  BY <1>1, <1>2
<1>4. paidLeg'[s] = IF to = "SETTLED" THEN <<e.price>> ELSE <<>>
  <2>1. CASE to = "SETTLED" /\ e.state # "SETTLED"
    <3>1. paidLeg' = [paidLeg EXCEPT ![s] = Append(<<>>, e.price)]
      BY <2>1 DEF Paid
    <3>2. Append(<<>>, e.price) = <<e.price>>
      OBVIOUS
    <3> QED
      BY <1>2, <2>1, <3>1, <3>2
  <2>2. CASE ~(to = "SETTLED" /\ e.state # "SETTLED")
    <3>1. paidLeg' = paidLeg
      BY <2>2 DEF Paid
    <3> QED
      BY <2>2, <3>1
  <2> QED
    BY <2>1, <2>2
<1>5. paidLeg' = [paidLeg EXCEPT ![s] = paidLeg'[s]]
  BY <1>2 DEF Paid
<1>6. paidLeg' \in [SubTask -> Seq(Nat)]
  <2>1. <<e.price>> \in Seq(Nat) /\ <<>> \in Seq(Nat)
    BY <1>1
  <2> QED
    BY <1>2, <1>4, <1>5, <2>1
<1>7. \A r \in SubTask \ {s} : paidLeg'[r] = paidLeg[r]
  BY <1>2, <1>5
<1>8. PaidAsSettled'
  BY <1>1, <1>3, <1>4, <1>7 DEF PaidAsSettled
<1> QED
  BY <1>1, <1>3, <1>6, <1>8
---------------------------------------------------------------------------
\* The exchange that a start is answered, and where the start can take it.
LEMMA StartFacts ==
  ASSUME SupplyTypeOK, Awarded, Underway, PaidAsSettled, NEW s \in SubTask, phase = "executing"
  PROVE  /\ ProposedTo(s) \in Exchanges /\ ProposedTo(s).state \in State
         /\ ProposedTo(s).price <= Budget
         /\ paidLeg[s] = IF ProposedTo(s).state = "SETTLED" THEN <<ProposedTo(s).price>> ELSE <<>>
         /\ exch[s].state = "SETTLED" => ProposedTo(s).state = "SETTLED"
         /\ Path(ProposedTo(s), s) \subseteq State
         /\ ProposedTo(s).state = "SETTLED" => Path(ProposedTo(s), s) = {"SETTLED"}
<1> DEFINE e == ProposedTo(s)
<1>1. /\ e \in Exchanges /\ e.state \in State /\ e.price <= Budget
      /\ paidLeg[s] = IF e.state = "SETTLED" THEN <<e.price>> ELSE <<>>
      /\ exch[s].state = "SETTLED" => e.state = "SETTLED"
  <2>0. award[s] \in Provider /\ exch[s] \in Exchanges
    BY DEF Awarded, SupplyTypeOK
  <2>1. CASE exch[s] = NoExch
    <3>1. e = [state |-> "PROPOSED", provider |-> award[s], price |-> Quoted(award[s])]
      BY <2>1 DEF ProposedTo
    <3>2. "PROPOSED" \in State /\ exch[s].state = "none"
      BY <2>1 DEF State, NoExch
    <3>3. paidLeg[s] = <<>>
      BY <3>2 DEF PaidAsSettled
    <3>4. Quoted(award[s]) \in Nat /\ Quoted(award[s]) <= Budget
      BY <2>0, SupplyFacts
    <3>5. e \in Exchanges /\ e.state = "PROPOSED" /\ e.price <= Budget
      BY <2>0, <3>1, <3>2, <3>4 DEF Exchanges
    <3> QED
      BY <3>2, <3>3, <3>5
  <2>2. CASE exch[s] # NoExch
    <3>1. e = exch[s]
      BY <2>2 DEF ProposedTo
    <3>2. e.state \in State
      BY <2>0, <2>2, <3>1 DEF Underway, Exchanges
    <3>3. e.price <= Budget /\ paidLeg[s] = IF e.state = "SETTLED" THEN <<e.price>> ELSE <<>>
      BY <3>1 DEF PaidAsSettled
    <3> QED
      BY <2>0, <3>1, <3>2, <3>3
  <2> QED
    BY <2>1, <2>2
<1> HIDE DEF e
<1>2. Path(e, s) \subseteq State
  BY <1>1 DEF Path, State
<1>3. e.state = "SETTLED" => Path(e, s) = {"SETTLED"}
  BY DEF Path
<1> QED
  BY <1>1, <1>2, <1>3 DEF e

\* A leg is started: its exchange goes where the start takes it.
LEMMA StartAdvances ==
  ASSUME SupplyTypeOK, Awarded, Underway, PaidAsSettled, NEW s \in SubTask, StartLeg(s)
  PROVE  /\ \E to \in State, answered \in BOOLEAN :
              /\ exch'[s].state = to /\ exch'[s].state # "none"
              /\ leg' = [leg EXCEPT ![s] = IF answered /\ to \in {"SETTLED", "REJECTED"}
                                           THEN to ELSE "running"]
         /\ exch' \in [SubTask -> Exchanges] /\ paidLeg' \in [SubTask -> Seq(Nat)]
         /\ PaidAsSettled'
         /\ \A r \in SubTask \ {s} : exch'[r] = exch[r]
         /\ \A r \in SubTask : exch[r].state = "SETTLED" => exch'[r].state = "SETTLED"
         /\ phase = "executing" /\ phase' \in {"failed", "executing", "polling"}
<1> DEFINE e == ProposedTo(s)
<1>1. phase = "executing"
  BY DEF StartLeg, Startable
<1>2. PICK to \in Path(e, s), answered \in BOOLEAN :
        /\ exch' = [exch EXCEPT ![s] = [e EXCEPT !.state = to]]
        /\ paidLeg' = Paid(s, e, to)
        /\ leg' = [leg EXCEPT ![s] = IF answered /\ to \in {"SETTLED", "REJECTED"}
                                     THEN to ELSE "running"]
        /\ phase' \in {"failed", "executing", "polling"}
  BY DEF StartLeg
<1>3. /\ e \in Exchanges /\ e.price <= Budget
      /\ paidLeg[s] = IF e.state = "SETTLED" THEN <<e.price>> ELSE <<>>
      /\ exch[s].state = "SETTLED" => e.state = "SETTLED"
      /\ to \in State /\ (e.state = "SETTLED" => to = "SETTLED")
  BY <1>1, <1>2, StartFacts
<1> HIDE DEF e
<1>4. /\ exch' \in [SubTask -> Exchanges] /\ paidLeg' \in [SubTask -> Seq(Nat)]
      /\ PaidAsSettled'
      /\ exch'[s].state = to /\ \A r \in SubTask \ {s} : exch'[r] = exch[r]
      /\ \A r \in SubTask : exch[r].state = "SETTLED" => exch'[r].state = "SETTLED"
  BY <1>2, <1>3, LegAdvances
<1> QED
  BY <1>1, <1>2, <1>3, <1>4, SupplyFacts

\* The parties go on with an exchange.
LEMMA MoveAdvances ==
  ASSUME SupplyTypeOK, Underway, PaidAsSettled, NEW s \in SubTask, LegMoves(s)
  PROVE  /\ exch'[s].state \in State /\ exch[s].state \notin {"SETTLED", "REJECTED"}
         /\ exch' \in [SubTask -> Exchanges] /\ paidLeg' \in [SubTask -> Seq(Nat)]
         /\ PaidAsSettled'
         /\ \A r \in SubTask \ {s} : exch'[r] = exch[r]
         /\ \A r \in SubTask : exch[r].state = "SETTLED" => exch'[r].state = "SETTLED"
<1> DEFINE e == exch[s]
<1>1. PICK to \in Transitions[e.state] : /\ exch' = [exch EXCEPT ![s].state = to]
                                         /\ paidLeg' = Paid(s, e, to)
  BY DEF LegMoves
<1>2. e \in Exchanges /\ e.state \in State
  BY DEF LegMoves, Underway, SupplyTypeOK, Exchanges
<1>3. to \in State /\ e.state \notin {"SETTLED", "REJECTED"}
  BY <1>1, <1>2, SupplyFacts
<1>4. e.price <= Budget /\ paidLeg[s] = IF e.state = "SETTLED" THEN <<e.price>> ELSE <<>>
  BY DEF PaidAsSettled
<1>5. exch' = [exch EXCEPT ![s] = [e EXCEPT !.state = to]]
  BY <1>1, <1>2 DEF SupplyTypeOK
<1>6. exch[s].state = "SETTLED" => e.state = "SETTLED"
  OBVIOUS
<1>7. e.state = "SETTLED" => to = "SETTLED"
  BY <1>3
<1>8. e.state \notin {"SETTLED", "REJECTED"}
  BY <1>3
<1> HIDE DEF e
<1>9. /\ exch' \in [SubTask -> Exchanges] /\ paidLeg' \in [SubTask -> Seq(Nat)]
      /\ PaidAsSettled'
      /\ exch'[s].state = to /\ \A r \in SubTask \ {s} : exch'[r] = exch[r]
      /\ \A r \in SubTask : exch[r].state = "SETTLED" => exch'[r].state = "SETTLED"
  BY <1>1, <1>2, <1>3, <1>4, <1>5, <1>6, <1>7, LegAdvances
<1> QED
  BY <1>3, <1>8, <1>9 DEF e
---------------------------------------------------------------------------
\* What a step does to the exchanges: they are typed, paid as they settle, and none
\* leaves SETTLED.
LEMMA ExchangesMove ==
  ASSUME SupplyTypeOK, SupplyInv, [SupplyNext]_supplyVars
  PROVE  /\ exch' \in [SubTask -> Exchanges] /\ paidLeg' \in [SubTask -> Seq(Nat)]
         /\ PaidAsSettled'
         /\ \A r \in SubTask : exch[r].state = "SETTLED" => exch'[r].state = "SETTLED"
         /\ \A r \in SubTask : exch'[r] = exch[r] \/ exch'[r].state # "none"
<1>0. Awarded /\ Underway /\ PaidAsSettled
  BY DEF SupplyInv
<1>1. ASSUME NEW s \in SubTask, StartLeg(s)
      PROVE  /\ exch' \in [SubTask -> Exchanges] /\ paidLeg' \in [SubTask -> Seq(Nat)]
             /\ PaidAsSettled'
             /\ \A r \in SubTask : exch[r].state = "SETTLED" => exch'[r].state = "SETTLED"
             /\ \A r \in SubTask : exch'[r] = exch[r] \/ exch'[r].state # "none"
  BY <1>0, <1>1, StartAdvances
<1>2. ASSUME NEW s \in SubTask, LegMoves(s)
      PROVE  /\ exch' \in [SubTask -> Exchanges] /\ paidLeg' \in [SubTask -> Seq(Nat)]
             /\ PaidAsSettled'
             /\ \A r \in SubTask : exch[r].state = "SETTLED" => exch'[r].state = "SETTLED"
             /\ \A r \in SubTask : exch'[r] = exch[r] \/ exch'[r].state # "none"
  BY <1>0, <1>2, MoveAdvances, SupplyFacts
<1>3. CASE exch' = exch /\ paidLeg' = paidLeg
  BY <1>0, <1>3 DEF PaidAsSettled, SupplyTypeOK
<1> QED
  BY <1>1, <1>2, <1>3 DEF SupplyNext, supplyVars, RunGoal, HoldAuction, PollLeg, Aggregate, Observe

\* What a step does to the report of a leg.
LEMMA ReportMoves ==
  ASSUME SupplyTypeOK, SupplyInv, [SupplyNext]_supplyVars
  PROVE  /\ leg' \in [SubTask -> {"pending", "running", "none"} \cup State]
         /\ ReportIsTrue'
         /\ \/ RunGoal
            \/ \A r \in SubTask : leg[r] # "pending" => leg'[r] # "pending"
<1>0. Awarded /\ Underway /\ PaidAsSettled /\ ReportIsTrue
  BY DEF SupplyInv
<1> DEFINE Good == /\ leg' \in [SubTask -> {"pending", "running", "none"} \cup State]
                   /\ ReportIsTrue'
                   /\ \A r \in SubTask : leg[r] # "pending" => leg'[r] # "pending"
<1>1. ASSUME NEW s \in SubTask, StartLeg(s) PROVE Good
  <2>1. PICK to \in State, answered \in BOOLEAN :
          /\ exch'[s].state = to
          /\ leg' = [leg EXCEPT ![s] = IF answered /\ to \in {"SETTLED", "REJECTED"}
                                       THEN to ELSE "running"]
    BY <1>0, <1>1, StartAdvances
  <2>2. \A r \in SubTask \ {s} : exch'[r] = exch[r]
    BY <1>0, <1>1, StartAdvances
  <2>3. to # "pending"
    BY SupplyFacts
  <2> QED
    BY <1>0, <2>1, <2>2, <2>3 DEF ReportIsTrue, SupplyTypeOK
<1>2. ASSUME NEW s \in SubTask, LegMoves(s) PROVE Good
  <2>1. exch[s].state \notin {"SETTLED", "REJECTED"} /\ \A r \in SubTask \ {s} : exch'[r] = exch[r]
    BY <1>0, <1>2, MoveAdvances
  <2>2. leg' = leg
    BY <1>2 DEF LegMoves
  <2> QED
    BY <1>0, <2>1, <2>2 DEF ReportIsTrue, SupplyTypeOK
<1>3. ASSUME NEW s \in SubTask, leg' = [leg EXCEPT ![s] = exch[s].state], exch' = exch PROVE Good
  <2>1. exch[s].state \in State \cup {"none"} /\ exch[s].state # "pending"
    BY SupplyFacts DEF SupplyTypeOK, Exchanges
  <2> QED
    BY <1>0, <1>3, <2>1 DEF ReportIsTrue, SupplyTypeOK
<1>4. CASE leg' = leg /\ exch' = exch
  BY <1>0, <1>4 DEF ReportIsTrue, SupplyTypeOK
<1>5. CASE RunGoal
  BY <1>5 DEF RunGoal, ReportIsTrue, SupplyTypeOK
<1>6. Good \/ RunGoal
  <2>1. CASE PollLeg
    BY <1>3, <2>1 DEF PollLeg
  <2>2. ASSUME NEW s \in SubTask, Observe(s) PROVE Good
    BY <1>3, <2>2 DEF Observe
  <2>3. CASE HoldAuction \/ Aggregate \/ UNCHANGED supplyVars
    BY <1>4, <2>3 DEF HoldAuction, Aggregate, supplyVars
  <2> HIDE DEF Good
  <2> QED
    BY <1>1, <1>2, <2>1, <2>2, <2>3 DEF SupplyNext
<1> QED
  BY <1>5, <1>6
---------------------------------------------------------------------------
\* The types are kept, and legs are started after an auction.
LEMMA SupplyTypes ==
  ASSUME SupplyTypeOK, SupplyInv, [SupplyNext]_supplyVars
  PROVE  SupplyTypeOK' /\ Awarded'
<1>0. Awarded /\ Underway /\ PaidAsSettled
  BY DEF SupplyInv
<1>1. /\ exch' \in [SubTask -> Exchanges] /\ paidLeg' \in [SubTask -> Seq(Nat)]
      /\ leg' \in [SubTask -> {"pending", "running", "none"} \cup State]
  BY ExchangesMove, ReportMoves
<1> DEFINE Rest == /\ chained' = chained /\ mode' = mode
                   /\ phase' \in {"idle", "split", "executing", "polling", "failed", "done"}
                   /\ award' \in [SubTask -> Provider \cup {NoProvider}]
                   /\ linked' \in [SubTask -> BOOLEAN]
                   /\ started' \in Seq(SubTask) /\ goalRuns' \in Nat
                   /\ Awarded'
<1>2. ASSUME RunGoal PROVE Rest
  BY <1>2 DEF RunGoal, SupplyTypeOK, Awarded
<1>3. ASSUME HoldAuction PROVE Rest
  BY <1>3 DEF HoldAuction, SupplyTypeOK, Awarded
<1>4. ASSUME PollLeg \/ Aggregate PROVE Rest
  <2>1. phase \in {"executing", "polling"} /\ phase' \in {"executing", "failed", "done"}
    BY <1>4 DEF PollLeg, Aggregate
  <2>2. UNCHANGED <<chained, mode, award, linked, started, goalRuns>>
    BY <1>4 DEF PollLeg, Aggregate
  <2> QED
    BY <1>0, <2>1, <2>2 DEF SupplyTypeOK, Awarded
<1>5. ASSUME NEW s \in SubTask, StartLeg(s) PROVE Rest
  <2>1. phase = "executing" /\ phase' \in {"failed", "executing", "polling"}
    BY <1>0, <1>5, StartAdvances
  <2>2. linked' \in [SubTask -> BOOLEAN]
    BY <1>5 DEF StartLeg, SupplyTypeOK
  <2>3. started' \in Seq(SubTask)
    BY <1>5 DEF StartLeg, SupplyTypeOK
  <2> QED
    BY <1>0, <1>5, <2>1, <2>2, <2>3 DEF StartLeg, SupplyTypeOK, Awarded
<1>6. ASSUME NEW s \in SubTask, LegMoves(s) \/ Observe(s) PROVE Rest
  BY <1>0, <1>6 DEF LegMoves, Observe, SupplyTypeOK, Awarded
<1>7. ASSUME UNCHANGED supplyVars PROVE Rest
  BY <1>0, <1>7 DEF supplyVars, SupplyTypeOK, Awarded
<1> HIDE DEF Rest
<1>8. Rest
  BY <1>2, <1>3, <1>4, <1>5, <1>6, <1>7 DEF SupplyNext
<1> QED
  BY <1>1, <1>8 DEF Rest, SupplyTypeOK

\* A leg that was started is not pending again, and the chain is kept: what follows a
\* leg is started when the leg is settled.
LEMMA StartedMoves ==
  ASSUME SupplyTypeOK, SupplyInv, [SupplyNext]_supplyVars
  PROVE  Underway' /\ ChainIsKept'
<1>0. /\ Awarded /\ Underway /\ PaidAsSettled /\ ReportIsTrue /\ ChainIsKept
      /\ exch \in [SubTask -> Exchanges] /\ started \in Seq(SubTask)
      /\ \A s \in SubTask : DependsOn(s) \subseteq SubTask
  BY SupplyFacts DEF SupplyInv, SupplyTypeOK
<1>1. \A s \in SubTask : DependsOn(s)' = DependsOn(s)
  BY DEF SupplyNext, supplyVars, RunGoal, HoldAuction, PollLeg, Aggregate, StartLeg, LegMoves,
         Observe, DependsOn, Depends
<1>2. \A s \in SubTask : exch'[s].state = "none" => exch'[s] = NoExch
  BY <1>0, ExchangesMove DEF Underway
<1>3. \A r \in SubTask : exch[r].state = "SETTLED" => exch'[r].state = "SETTLED"
  BY ExchangesMove
<1>4. CASE RunGoal
  BY <1>2, <1>4 DEF RunGoal, Underway, ChainIsKept
<1>5. CASE started' = started /\ \A r \in SubTask : leg[r] # "pending" => leg'[r] # "pending"
  <2>1. \A k \in DOMAIN started : started[k] \in SubTask
    BY <1>0
  <2>2. Underway'
    BY <1>0, <1>2, <1>5, <2>1 DEF Underway
  <2>3. ChainIsKept'
    BY <1>0, <1>1, <1>3, <1>5, <2>1 DEF ChainIsKept
  <2> QED
    BY <2>2, <2>3
<1>6. ASSUME NEW s \in SubTask, StartLeg(s) PROVE Underway' /\ ChainIsKept'
  <2> DEFINE n == Len(started)
  <2>1. /\ started' = Append(started, s) /\ Startable(s)
        /\ \A r \in SubTask : leg[r] # "pending" => leg'[r] # "pending"
    BY <1>6, ReportMoves DEF StartLeg, Startable, RunGoal
  <2>2. leg'[s] # "pending"
    <3>1. PICK to \in State, answered \in BOOLEAN :
            leg' = [leg EXCEPT ![s] = IF answered /\ to \in {"SETTLED", "REJECTED"}
                                      THEN to ELSE "running"]
      BY <1>0, <1>6, StartAdvances
    <3> QED
      BY <3>1 DEF SupplyTypeOK
  <2>3. /\ n \in Nat /\ DOMAIN started' = 1 .. n + 1 /\ Len(started') = n + 1
        /\ started'[n + 1] = s
        /\ \A k \in 1 .. n : started'[k] = started[k] /\ started[k] \in SubTask
    BY <1>0, <2>1
  <2>4. \A k \in 1 .. n : leg[started[k]] = "SETTLED" /\ exch[started[k]].state = "SETTLED"
    <3> SUFFICES ASSUME NEW k \in 1 .. n
                 PROVE  leg[started[k]] = "SETTLED" /\ exch[started[k]].state = "SETTLED"
      OBVIOUS
    <3>1. started[k] \in SubTask /\ k \in DOMAIN started
      BY <1>0, <2>3
    <3>2. leg[started[k]] \in {"pending", "SETTLED"} /\ leg[started[k]] # "pending"
      BY <1>0, <2>1, <3>1 DEF Startable, Underway
    <3> QED
      BY <1>0, <3>1, <3>2 DEF ReportIsTrue
  <2>5. \A p \in DependsOn(s) : exch[p].state = "SETTLED"
    BY <1>0, <2>1 DEF Startable, ReportIsTrue
  <2>6. \A k \in 1 .. n : \A p \in DependsOn(started[k]) : exch[p].state = "SETTLED"
    BY <1>0, <2>3 DEF ChainIsKept
  <2>7. Underway'
    <3>1. \A k \in 1 .. n : leg'[started[k]] # "pending"
      BY <2>1, <2>3, <2>4
    <3> QED
      BY <1>2, <2>2, <2>3, <3>1 DEF Underway
  <2>8. ChainIsKept'
    <3>1. ASSUME NEW k \in 1 .. n + 1, NEW r \in SubTask, r = started'[k]
          PROVE  /\ \A p \in DependsOn(r)' : exch'[p].state = "SETTLED"
                 /\ k < n + 1 => exch'[r].state = "SETTLED"
      <4>1. CASE k \in 1 .. n
        <5>1. r = started[k] /\ exch[r].state = "SETTLED"
          BY <2>3, <2>4, <3>1, <4>1
        <5>2. \A p \in DependsOn(r) : exch[p].state = "SETTLED" /\ p \in SubTask
          BY <1>0, <2>6, <4>1, <5>1
        <5> QED
          BY <1>1, <1>3, <5>1, <5>2
      <4>2. CASE k = n + 1
        <5>1. r = s
          BY <2>3, <3>1, <4>2
        <5>2. \A p \in DependsOn(r) : exch[p].state = "SETTLED" /\ p \in SubTask
          BY <1>0, <2>5, <5>1
        <5> QED
          BY <1>1, <1>3, <2>3, <4>2, <5>2
      <4> QED
        BY <2>3, <4>1, <4>2
    <3>2. \A k \in 1 .. n + 1 : started'[k] \in SubTask
      BY <2>3
    <3> HIDE DEF n
    <3> QED
      BY <2>3, <3>1, <3>2 DEF ChainIsKept
  <2> QED
    BY <2>7, <2>8
<1>7. RunGoal \/ started' = started \/ \E s \in SubTask : StartLeg(s)
  BY DEF SupplyNext, supplyVars, HoldAuction, PollLeg, Aggregate, LegMoves, Observe
<1> QED
  BY <1>4, <1>5, <1>6, <1>7, ReportMoves

\* A goal that is done stays settled.
LEMMA DoneMoves ==
  ASSUME SupplyTypeOK, SupplyInv, [SupplyNext]_supplyVars
  PROVE  DoneIsSettled'
<1>1. \A r \in SubTask : exch[r].state = "SETTLED" => exch'[r].state = "SETTLED"
  BY ExchangesMove
<1>2. ReportIsTrue /\ DoneIsSettled
  BY DEF SupplyInv
<1>3. CASE Aggregate
  BY <1>1, <1>2, <1>3 DEF Aggregate, Done, ReportIsTrue, DoneIsSettled
<1>4. CASE phase = "done" /\ leg' = leg
  BY <1>1, <1>2, <1>4 DEF DoneIsSettled
<1>5. phase' = "done" => Aggregate \/ (phase = "done" /\ leg' = leg)
  <2>1. ASSUME NEW s \in SubTask, StartLeg(s) PROVE phase' # "done"
    BY <2>1, StartAdvances DEF SupplyInv
  <2> QED
    BY <2>1 DEF SupplyNext, supplyVars, RunGoal, HoldAuction, PollLeg, LegMoves, Observe
<1> QED
  BY <1>3, <1>4, <1>5 DEF DoneIsSettled

\* A goal is done when all its legs are settled, no leg is paid twice or above the
\* budget however often the goal is run, a leg follows only settled ones, and the report
\* says what became of the exchanges: for all graphs, providers and budgets.
THEOREM SupplyChainAlwaysSound == SupplySpec => []SupplyChainIsSound
<1>1. SupplyInit => SupplyTypeOK /\ SupplyInv
  <2> SUFFICES ASSUME SupplyInit PROVE SupplyTypeOK /\ SupplyInv
    OBVIOUS
  <2>1. NoExch \in Exchanges /\ NoExch.state = "none" /\ NoExch.price = 0
    BY DEF NoExch, Exchanges
  <2>2. SupplyTypeOK
    BY <2>1 DEF SupplyInit, SupplyTypeOK
  <2>3. PaidAsSettled
    BY <2>1, SupplyChainAssumption DEF SupplyInit, PaidAsSettled
  <2> QED
    BY <2>1, <2>2, <2>3 DEF SupplyInit, SupplyInv, Awarded, Underway, DoneIsSettled, ChainIsKept, ReportIsTrue
<1>2. SupplyTypeOK /\ SupplyInv /\ [SupplyNext]_supplyVars => (SupplyTypeOK /\ SupplyInv)'
  BY SupplyTypes, StartedMoves, ExchangesMove, ReportMoves, DoneMoves DEF SupplyInv
<1>3. SupplyTypeOK /\ SupplyInv => SupplyChainIsSound
  <2> SUFFICES ASSUME SupplyTypeOK, SupplyInv PROVE LegPaidOnce
    BY DEF SupplyInv, SupplyChainIsSound
  <2>1. \A s \in SubTask :
          /\ Len(paidLeg[s]) <= 1
          /\ paidLeg[s] # <<>> => paidLeg[s][1] = exch[s].price
    <3>1. \A s \in SubTask : paidLeg[s] = <<exch[s].price>> \/ paidLeg[s] = <<>>
      BY DEF SupplyInv, PaidAsSettled
    <3>2. ASSUME NEW s \in SubTask, paidLeg[s] = <<exch[s].price>>
          PROVE  Len(paidLeg[s]) <= 1 /\ paidLeg[s][1] = exch[s].price
      BY <3>2
    <3>3. ASSUME NEW s \in SubTask, paidLeg[s] = <<>> PROVE Len(paidLeg[s]) <= 1
      BY <3>3
    <3> QED
      BY <3>1, <3>2, <3>3
  <2>2. \A s \in SubTask : exch[s].price <= Budget
    BY DEF SupplyInv, PaidAsSettled
  <2> QED
    BY <2>1, <2>2 DEF LegPaidOnce
<1> QED
  BY <1>1, <1>2, <1>3, PTL DEF SupplySpec
---------------------------------------------------------------------------
(* The outbox of an agent.                                                 *)

\* A request takes effect once: what it reaches lies past it, the exchange does not come
\* back, and from there the request is refused.
LEMMA PastFacts ==
  ASSUME NEW op \in {"contract", "escrow", "deliver", "verify", "confirm", "dispute"}
  PROVE  /\ Reaches(op) \subseteq State /\ Past(op) \subseteq State
         /\ \A x \in State, s \in Reaches(op) :
              CanTransition(x, s) /\ (op = "verify" => x = "DELIVERED") =>
                s \in Past(op) /\ x \notin Past(op)
         /\ \A x \in Past(op), s \in State : CanTransition(x, s) => s \in Past(op)
<1>1. CASE op = "contract"
  BY <1>1 DEF Reaches, Past, CanTransition, Transitions, State
<1>2. CASE op = "escrow"
  BY <1>2 DEF Reaches, Past, CanTransition, Transitions, State
<1>3. CASE op = "deliver"
  BY <1>3 DEF Reaches, Past, CanTransition, Transitions, State
<1>4. CASE op = "verify"
  BY <1>4 DEF Reaches, Past, CanTransition, Transitions, State
<1>5. CASE op = "confirm"
  BY <1>5 DEF Reaches, Past, CanTransition, Transitions, State
<1>6. CASE op = "dispute"
  BY <1>6 DEF Reaches, Past, CanTransition, Transitions, State
<1> QED
  BY <1>1, <1>2, <1>3, <1>4, <1>5, <1>6

\* The requests of this process, as the node meets them.
AsksNode(op, i) == Raises(op, i) \/ Accept(op, i) \/ Repeat(op)

\* The node stays, takes a state of its own, or lets a request take effect.
NodeOK ==
  /\ nodeState \in State /\ nodeDoc \in State \cup {"none"} /\ docs \subseteq State
  /\ nodeState = "SETTLED" => nodeDoc = "SETTLED"
  /\ nodeDoc # "none" => nodeDoc \in docs

LEMMA RequestNode ==
  ASSUME AdopterTypeOK, NodeOK, NEW op \in OutboxOps, NEW i \in Item \cup {NoItem}, AsksNode(op, i)
  PROVE  /\ NodeOK' /\ docs \subseteq docs'
         /\ nodeState' = nodeState \/ CanTransition(nodeState, nodeState')
         /\ \/ effects' = effects
            \/ /\ Accept(op, i) /\ nodeState' \in Reaches(op) /\ CanTransition(nodeState, nodeState')
               /\ op = "verify" => nodeState = "DELIVERED"
               /\ effects' = IF i \in Item THEN [effects EXCEPT ![i] = @ + 1] ELSE effects
<1>0. op \in {"contract", "escrow", "deliver", "verify", "confirm", "dispute"}
  BY AdopterAssumption
<1>1. CASE UNCHANGED nodeVars
  BY <1>1 DEF nodeVars, NodeOK
<1>2. CASE ConfirmFails(op)
  BY <1>2 DEF ConfirmFails, Written, NodeOK, State, CanTransition
<1>3. CASE Accept(op, i)
  <2>1. PICK s \in Reaches(op) :
          /\ CanTransition(nodeState, s)
          /\ op = "verify" => nodeState = "DELIVERED"
          /\ nodeState' = s
          /\ IF op \in {"deliver", "confirm"} THEN Written(s) ELSE UNCHANGED <<nodeDoc, docs>>
          /\ effects' = IF i \in Item THEN [effects EXCEPT ![i] = @ + 1] ELSE effects
    BY <1>3 DEF Accept
  <2>2. s \in State
    BY <1>0, <2>1, PastFacts
  <2>3. NodeOK' /\ docs \subseteq docs'
    <3>1. CASE op \in {"deliver", "confirm"}
      BY <2>1, <2>2, <3>1 DEF Written, NodeOK
    <3>2. CASE op \notin {"deliver", "confirm"}
      <4>1. s # "SETTLED"
        BY <1>0, <2>1, <3>2 DEF Reaches
      <4> QED
        BY <2>1, <2>2, <3>2, <4>1 DEF NodeOK
    <3> QED
      BY <3>1, <3>2
  <2> QED
    BY <1>3, <2>1, <2>3
<1> QED
  BY <1>1, <1>2, <1>3 DEF AsksNode, Raises, Repeat

\* What took effect stays past, and takes effect no second time.
LEMMA RequestEffects ==
  ASSUME AdopterTypeOK, EffectsArePast, NodeOK, files' = files,
         NEW op \in OutboxOps, NEW i \in Item \cup {NoItem}, AsksNode(op, i),
         i \in Item => Saved(i) /\ files[i].op = op
  PROVE  /\ EffectsArePast' /\ effects' \in [Item -> Nat]
         /\ \A k \in Item \ {i} : effects'[k] = effects[k]
         /\ \A k \in Item : effects[k] = 1 => effects'[k] = 1
         /\ Accept(op, i) /\ i \in Item => effects'[i] = 1
<1>0. /\ \A k \in Item : Saved(k) => files[k].op \in OutboxOps
      /\ effects \in [Item -> Nat] /\ files \in [Item -> Queued \cup {NoItem}]
  BY DEF AdopterTypeOK, Saved, Queued
<1>1. /\ NodeOK' /\ nodeState \in State /\ nodeState' \in State
      /\ nodeState' = nodeState \/ CanTransition(nodeState, nodeState')
  BY RequestNode DEF NodeOK
<1>2. \A k \in Item : Saved(k)' = Saved(k)
  BY DEF Saved
<1>3. ASSUME NEW k \in Item, effects[k] > 0 PROVE nodeState' \in Past(files[k].op)
  <2>1. nodeState \in Past(files[k].op) /\ files[k].op \in OutboxOps
    BY <1>0, <1>3 DEF EffectsArePast
  <2>2. files[k].op \in {"contract", "escrow", "deliver", "verify", "confirm", "dispute"}
    BY <2>1, AdopterAssumption
  <2> QED
    BY <1>1, <2>1, <2>2, PastFacts
<1>4. CASE effects' = effects
  <2>1. ~(Accept(op, i) /\ i \in Item)
    BY <1>0, <1>4 DEF Accept
  <2> QED
    BY <1>0, <1>2, <1>3, <1>4, <2>1 DEF EffectsArePast
<1>5. CASE /\ nodeState' \in Reaches(op) /\ CanTransition(nodeState, nodeState')
           /\ op = "verify" => nodeState = "DELIVERED"
           /\ effects' = [effects EXCEPT ![i] = @ + 1] /\ i \in Item
  <2>1. nodeState' \in Past(op) /\ nodeState \notin Past(op)
    BY <1>1, <1>5, PastFacts, AdopterAssumption
  <2>2. effects[i] = 0
    BY <1>0, <1>5, <2>1 DEF EffectsArePast
  <2> QED
    BY <1>0, <1>2, <1>3, <1>5, <2>1, <2>2 DEF EffectsArePast
<1> QED
  BY <1>4, <1>5, RequestNode
---------------------------------------------------------------------------
\* A nonempty set of bounded numbers has a least one.
LEMMA Least ==
  ASSUME NEW n \in Nat, NEW T \in SUBSET (0 .. n), T # {}
  PROVE  \E x \in T : \A y \in T : x <= y
<1> DEFINE R == StrictSubsetOrdering(0 .. n)
           F == {0 .. m : m \in T}
<1>1. F \subseteq FiniteSubsetsOf(0 .. n) /\ F # {}
  <2>1. \A m \in T : 0 .. m \in SUBSET (0 .. n)
    OBVIOUS
  <2>2. \A m \in T : IsFiniteSet(0 .. m)
    BY FS_Interval
  <2> QED
    BY <2>1, <2>2 DEF FiniteSubsetsOf
<1>2. IsWellFoundedOn(R, FiniteSubsetsOf(0 .. n))
  BY FS_StrictSubsetOrderingWellFounded
<1> HIDE DEF R, F
<1>3. PICK x \in F : \A y \in F : ~(<<y, x>> \in R)
  BY <1>1, <1>2, WFMin
<1>4. PICK k \in T : x = 0 .. k
  BY DEF F
<1>5. ASSUME NEW m \in T PROVE k <= m
  <2>1. SUFFICES ASSUME m < k PROVE FALSE
    OBVIOUS
  <2>2. 0 .. m \in F /\ 0 .. m \subseteq 0 .. k /\ k \in 0 .. k /\ k \notin 0 .. m
    BY <2>1 DEF F
  <2>3. <<0 .. m, 0 .. k>> \in R
    BY <2>2 DEF R, StrictSubsetOrdering
  <2> QED
    BY <1>3, <1>4, <2>2, <2>3
<1> QED
  BY <1>5

\* A set of places in the index has a first one.
LEMMA FirstFacts ==
  ASSUME index \in Seq(Item), NEW S \in SUBSET DOMAIN index, S # {}
  PROVE  First(S) \in S /\ \A q \in S : First(S) <= q
<1>1. S \in SUBSET (0 .. Len(index)) /\ Len(index) \in Nat
  OBVIOUS
<1>2. \E p \in S : \A q \in S : p <= q
  BY <1>1, Least
<1> QED
  BY <1>2 DEF First

\* What the invariant says, in one place.
LEMMA AdopterFacts ==
  ASSUME AdopterTypeOK, AdopterInv
  PROVE  /\ NodeOK /\ EffectsArePast /\ DocsFollow /\ TaskKept
         /\ DoneTookEffect /\ PendingHadNone /\ DoneIsVaulted
         /\ vault \in docs \cup {"none"} /\ published \subseteq anchored
         /\ task \in [at : AdopterSteps, item : Item \cup {NoItem}]
         /\ files \in [Item -> Queued \cup {NoItem}]
         /\ \A i \in Item : Saved(i) => files[i] \in Queued /\ files[i].op \in OutboxOps
                                         /\ Status(i) = files[i].status
<1>1. \A i \in Item : Saved(i) => files[i] \in Queued /\ files[i].op \in OutboxOps
                                 /\ Status(i) = files[i].status
  BY DEF AdopterTypeOK, Saved, Queued, Status
<1> QED
  BY <1>1 DEF AdopterTypeOK, AdopterInv, OutboxIsHonest, NodeOK, DocsFollow

\* The outbox stays as it was, with its effects.
LEMMA FilesStay ==
  ASSUME files' = files, effects' = effects
  PROVE  \A i \in Item : Saved(i)' = Saved(i) /\ Status(i)' = Status(i)
BY DEF Saved, Status

\* A new item had no effect.
LEMMA EnqueueKeeps ==
  ASSUME AdopterTypeOK, AdopterInv, NEW i \in Item, NEW op \in OutboxOps, Enqueue(i, op)
  PROVE  AdopterTypeOK' /\ AdopterInv'
<1>0. /\ task = Ready /\ ~Saved(i) /\ task' = At("index", i)
      /\ files' = [files EXCEPT ![i] = [op |-> op, status |-> "pending"]]
      /\ UNCHANGED <<index, todo, networkUp, nodeVars, vaultVars, crashed>>
  BY DEF Enqueue
<1>1. [op |-> op, status |-> "pending"] \in Queued /\ [op |-> op, status |-> "pending"] # NoItem
  BY AdopterAssumption DEF Queued
<1>2. effects[i] = 0 /\ effects' = effects /\ nodeState' = nodeState /\ nodeDoc' = nodeDoc /\ docs' = docs
  BY <1>0, AdopterFacts DEF EffectsArePast, AdopterTypeOK, nodeVars
<1>3. /\ Saved(i)' /\ Status(i)' = "pending" /\ files'[i].op = op
      /\ \A k \in Item \ {i} : Saved(k)' = Saved(k) /\ Status(k)' = Status(k) /\ files'[k] = files[k]
  BY <1>0, <1>1 DEF Saved, Status, AdopterTypeOK
<1>4. task'.at = "index" /\ task'.item = i /\ task' \in [at : AdopterSteps, item : Item \cup {NoItem}]
      /\ task.at = "ready"
  BY <1>0 DEF At, AdopterSteps, Ready
<1>5. AdopterTypeOK'
  BY <1>0, <1>1, <1>4 DEF AdopterTypeOK, nodeVars, vaultVars
<1>6. EffectsArePast' /\ DocsFollow'
  BY <1>0, <1>2, <1>3, AdopterFacts DEF EffectsArePast, DocsFollow, vaultVars
<1>7. TaskKept'
  <2>1. \A p \in todo : index[p] \in Item /\ Saved(index[p])
    BY AdopterFacts DEF AdopterTypeOK, TaskKept
  <2>2. \A p \in todo' : files'[index'[p]] # NoItem
    BY <1>0, <1>1, <2>1 DEF Saved, AdopterTypeOK
  <2> QED
    BY <1>2, <1>4, <2>2 DEF TaskKept, Saved
<1>8. DoneTookEffect'
  BY <1>2, <1>3, AdopterFacts DEF DoneTookEffect
<1>9. PendingHadNone'
  <2>1. task.item = NoItem
    BY <1>0 DEF Ready
  <2> QED
    BY <1>0, <1>2, <1>3, <2>1, AdopterFacts, AdopterAssumption DEF PendingHadNone
<1>10. DoneIsVaulted'
  BY <1>0, <1>2, <1>3, AdopterFacts DEF DoneIsVaulted, vaultVars
<1>11. vault' \in docs' \cup {"none"} /\ published' \subseteq anchored'
  BY <1>0, <1>2, AdopterFacts DEF vaultVars
<1> QED
  BY <1>5, <1>6, <1>7, <1>8, <1>9, <1>10, <1>11 DEF AdopterInv, OutboxIsHonest
---------------------------------------------------------------------------
\* A step that leaves the files and the node alone keeps what was said about them.
LEMMA QuietKeeps ==
  ASSUME AdopterTypeOK, AdopterInv, files' = files, UNCHANGED nodeVars,
         task'.item = task.item \/ task.item = NoItem \/ crashed',
         crashed => crashed', listed => listed', published' \subseteq anchored',
         vault' \in docs \cup {"none"},
         backups' = 0 => backups = 0 /\ vault' \in {vault, nodeDoc}
  PROVE  EffectsArePast' /\ DocsFollow' /\ OutboxIsHonest'
<1>0. effects' = effects /\ nodeState' = nodeState /\ nodeDoc' = nodeDoc /\ docs' = docs
  BY DEF nodeVars
<1>1. \A i \in Item : Saved(i)' = Saved(i) /\ Status(i)' = Status(i)
  BY <1>0, FilesStay
<1>2. EffectsArePast' /\ DocsFollow'
  BY <1>0, <1>1, AdopterFacts DEF EffectsArePast, DocsFollow
<1>3. DoneTookEffect'
  BY <1>0, <1>1, AdopterFacts DEF DoneTookEffect
<1>4. PendingHadNone'
  BY <1>0, <1>1, AdopterFacts, AdopterAssumption DEF PendingHadNone
<1>5. DoneIsVaulted'
  BY <1>0, <1>1, AdopterFacts DEF DoneIsVaulted, DocsFollow
<1> QED
  BY <1>0, <1>2, <1>3, <1>4, <1>5 DEF OutboxIsHonest

\* The index names the item.
LEMMA SetIdsKeeps ==
  ASSUME AdopterTypeOK, AdopterInv, SetIds
  PROVE  AdopterTypeOK' /\ AdopterInv'
<1>0. /\ task.at = "index" /\ task' = Ready /\ index' = Append(index, task.item)
      /\ UNCHANGED <<files, todo, networkUp, nodeVars, vaultVars, crashed>>
  BY DEF SetIds
<1>1. /\ task.item \in Item /\ effects[task.item] = 0 /\ index \in Seq(Item)
      /\ todo \subseteq DOMAIN index
  BY <1>0, AdopterFacts DEF TaskKept, AdopterTypeOK
<1>2. /\ index' \in Seq(Item) /\ DOMAIN index \subseteq DOMAIN index'
      /\ \A p \in DOMAIN index : index'[p] = index[p]
  BY <1>0, <1>1
<1>3. task' \in [at : AdopterSteps, item : Item \cup {NoItem}] /\ task'.at = "ready" /\ task'.item = NoItem
  BY <1>0 DEF Ready, AdopterSteps
<1>4. AdopterTypeOK'
  BY <1>0, <1>1, <1>2, <1>3 DEF AdopterTypeOK, nodeVars, vaultVars
<1>5. TaskKept'
  <2>1. \A p \in todo' : files'[index'[p]] # NoItem
    BY <1>0, <1>1, <1>2, AdopterFacts DEF TaskKept, Saved
  <2> QED
    BY <1>3, <2>1, AdopterAssumption DEF TaskKept, Saved
<1>6. EffectsArePast' /\ DocsFollow' /\ OutboxIsHonest'
  <2>1. PendingHadNone'
    BY <1>0, <1>1, AdopterFacts, FilesStay DEF PendingHadNone, nodeVars
  <2>2. /\ effects' = effects /\ nodeState' = nodeState /\ nodeDoc' = nodeDoc /\ docs' = docs
        /\ vault' = vault /\ listed' = listed /\ anchored' = anchored
        /\ published' = published /\ backups' = backups
    BY <1>0 DEF nodeVars, vaultVars
  <2>3. \A i \in Item : Saved(i)' = Saved(i) /\ Status(i)' = Status(i)
    BY <1>0, <2>2, FilesStay
  <2>4. EffectsArePast' /\ DocsFollow'
    BY <1>0, <2>2, <2>3, AdopterFacts DEF EffectsArePast, DocsFollow
  <2>5. DoneTookEffect' /\ DoneIsVaulted'
    BY <1>0, <2>2, <2>3, AdopterFacts DEF DoneTookEffect, DoneIsVaulted
  <2> QED
    BY <2>1, <2>2, <2>4, <2>5, AdopterFacts DEF OutboxIsHonest
<1> QED
  BY <1>4, <1>5, <1>6 DEF AdopterInv

\* A flush takes the first pending places of the index, and there is at least one.
LEMMA FlushKeeps ==
  ASSUME AdopterTypeOK, AdopterInv, Flush
  PROVE  AdopterTypeOK' /\ AdopterInv'
<1>0. /\ task = Ready /\ PendingAt # {}
      /\ todo' = {p \in PendingAt : Cardinality({q \in PendingAt : q < p}) < MaxFlush}
      /\ task' = At("handle", index[First(todo')])
      /\ UNCHANGED <<files, index, networkUp, nodeVars, vaultVars, crashed>>
  BY DEF Flush
<1>1. index \in Seq(Item) /\ PendingAt \subseteq DOMAIN index
  BY DEF AdopterTypeOK, PendingAt
<1>2. todo' \subseteq DOMAIN index /\ \A p \in todo' : index[p] \in Item /\ Saved(index[p])
  BY <1>0, <1>1 DEF PendingAt, Status
<1>3. todo' # {}
  <2>1. First(PendingAt) \in PendingAt /\ \A q \in PendingAt : First(PendingAt) <= q
    BY <1>0, <1>1, FirstFacts
  <2>2. {q \in PendingAt : q < First(PendingAt)} = {}
    BY <1>1, <2>1
  <2>3. Cardinality({q \in PendingAt : q < First(PendingAt)}) < MaxFlush
    BY <2>2, FS_EmptySet, AdopterAssumption
  <2> QED
    BY <1>0, <2>1, <2>3
<1>4. index[First(todo')] \in Item /\ Saved(index[First(todo')])
  BY <1>1, <1>2, <1>3, FirstFacts
<1>5. /\ task' \in [at : AdopterSteps, item : Item \cup {NoItem}]
      /\ task'.at = "handle" /\ task'.item = index[First(todo')] /\ task.item = NoItem
  BY <1>0, <1>4 DEF At, Ready, AdopterSteps
<1>6. AdopterTypeOK'
  BY <1>0, <1>2, <1>5 DEF AdopterTypeOK, nodeVars, vaultVars
<1>7. TaskKept'
  <2>1. \A p \in todo' : files'[index'[p]] # NoItem
    BY <1>0, <1>2 DEF Saved
  <2>2. task'.item \in Item /\ files'[task'.item] # NoItem
    BY <1>0, <1>4, <1>5 DEF Saved
  <2> QED
    BY <1>5, <2>1, <2>2 DEF TaskKept, Saved
<1>8. EffectsArePast' /\ DocsFollow' /\ OutboxIsHonest'
  BY <1>0, <1>5, AdopterFacts, QuietKeeps DEF vaultVars
<1> QED
  BY <1>6, <1>7, <1>8 DEF AdopterInv

\* The item is marked with what became of it, and the flush goes on.
LEMMA MarkKeeps ==
  ASSUME AdopterTypeOK, AdopterInv, Mark
  PROVE  AdopterTypeOK' /\ AdopterInv'
<1> DEFINE Next == index[First(todo')]
<1>. PICK i \in Item : i = task.item
  BY AdopterFacts DEF Mark, TaskKept
<1>0. /\ task.at \in {"done", "failed"}
      /\ files' = [files EXCEPT ![i].status = task.at]
      /\ todo' = todo \ {First(todo)}
      /\ task' = IF todo' = {} THEN Ready ELSE At("handle", Next)
      /\ UNCHANGED <<index, networkUp, nodeVars, vaultVars, crashed>>
  BY DEF Mark
<1>1. i \in Item /\ Saved(i) /\ files[i] \in Queued
  BY <1>0, AdopterFacts DEF TaskKept
<1>2. /\ files' \in [Item -> Queued \cup {NoItem}]
      /\ files'[i] \in Queued /\ files'[i].op = files[i].op /\ files'[i].status = task.at
      /\ \A k \in Item \ {i} : files'[k] = files[k]
  BY <1>0, <1>1, AdopterFacts DEF Queued
<1>3. /\ Saved(i)' /\ Status(i)' = task.at
      /\ \A k \in Item : Saved(k)' = Saved(k)
      /\ \A k \in Item \ {i} : Status(k)' = Status(k)
  <2>1. files'[i] # NoItem /\ files[i] # NoItem
    BY <1>1, <1>2, AdopterAssumption DEF Saved
  <2>2. ASSUME NEW k \in Item \ {i} PROVE Saved(k)' = Saved(k) /\ Status(k)' = Status(k)
    BY <1>2 DEF Saved, Status
  <2> QED
    BY <1>2, <2>1, <2>2 DEF Saved, Status
<1>4. \A k \in Item : Saved(k) => files'[k].op = files[k].op
  BY <1>2
<1>5. /\ effects' = effects /\ nodeState' = nodeState /\ nodeDoc' = nodeDoc /\ docs' = docs
      /\ vault' = vault /\ listed' = listed /\ anchored' = anchored
      /\ published' = published /\ backups' = backups
  BY <1>0 DEF nodeVars, vaultVars
<1>6. /\ index \in Seq(Item) /\ todo' \subseteq DOMAIN index
      /\ \A p \in todo' : index[p] \in Item /\ Saved(index[p])
  BY <1>0, AdopterFacts DEF AdopterTypeOK, TaskKept
<1>7. todo' # {} => Next \in Item /\ Saved(Next)
  BY <1>6, FirstFacts
<1> HIDE DEF Next
<1>8. /\ task' \in [at : AdopterSteps, item : Item \cup {NoItem}]
      /\ task'.at \in {"ready", "handle"}
      /\ task'.at = "ready" => task'.item = NoItem
      /\ task'.at = "handle" => task'.item \in Item /\ Saved(task'.item)
  BY <1>0, <1>7 DEF At, Ready, AdopterSteps
<1>9. AdopterTypeOK'
  BY <1>0, <1>2, <1>5, <1>6, <1>8 DEF AdopterTypeOK
<1>10. TaskKept'
  <2>1. \A p \in todo' : files'[index'[p]] # NoItem
    BY <1>0, <1>3, <1>6 DEF Saved
  <2>2. task'.at = "handle" => task'.item \in Item /\ files'[task'.item] # NoItem
    BY <1>3, <1>8 DEF Saved
  <2> QED
    BY <1>8, <2>1, <2>2 DEF TaskKept, Saved
<1>11. EffectsArePast' /\ DocsFollow'
  BY <1>3, <1>4, <1>5, AdopterFacts DEF EffectsArePast, DocsFollow
<1>12. task.at = "done" /\ files[i].op # "contract" => effects[i] = 1
  BY <1>1, AdopterFacts DEF TaskKept
<1>13. DoneTookEffect'
  <2>1. \A k \in Item : effects'[k] <= 1
    BY <1>5, AdopterFacts DEF DoneTookEffect
  <2>2. ASSUME NEW k \in Item \ {i}, Status(k)' = "done", files'[k].op # "contract"
        PROVE  effects'[k] = 1
    BY <1>2, <1>3, <1>5, <2>2, AdopterFacts DEF DoneTookEffect
  <2>3. Status(i)' = "done" /\ files'[i].op # "contract" => effects'[i] = 1
    BY <1>2, <1>3, <1>5, <1>12
  <2> QED
    BY <2>1, <2>2, <2>3 DEF DoneTookEffect
<1>14. PendingHadNone'
  <2>1. ASSUME NEW k \in Item, Status(k)' = "pending", effects'[k] > 0
        PROVE  crashed'
    <3>1. k # i
      BY <1>0, <1>3, <2>1
    <3>2. Status(k) = "pending" /\ effects[k] > 0
      BY <1>3, <1>5, <2>1, <3>1
    <3> QED
      BY <1>0, <3>1, <3>2, AdopterFacts DEF PendingHadNone
  <2> QED
    BY <2>1 DEF PendingHadNone
<1>15. DoneIsVaulted'
  <2>1. ASSUME task.at = "done", files[i].op = "confirm", backups = 0
        PROVE  vault = "SETTLED" /\ listed /\ nodeState = "SETTLED"
    <3>1. vault = "SETTLED" /\ listed
      BY <1>1, <2>1, AdopterFacts DEF TaskKept
    <3>2. nodeState \in Past("confirm")
      BY <1>1, <1>12, <2>1, AdopterFacts DEF EffectsArePast
    <3> QED
      BY <3>1, <3>2 DEF Past
  <2>2. ASSUME NEW k \in Item \ {i}, Status(k)' = "done", files'[k].op = "confirm", backups' = 0
        PROVE  vault' = "SETTLED" /\ listed' /\ nodeState' = "SETTLED"
    BY <1>2, <1>3, <1>5, <2>2, AdopterFacts DEF DoneIsVaulted
  <2>3. Status(i)' = "done" /\ files'[i].op = "confirm" /\ backups' = 0
          => vault' = "SETTLED" /\ listed' /\ nodeState' = "SETTLED"
    BY <1>2, <1>3, <1>5, <2>1
  <2> QED
    BY <2>2, <2>3 DEF DoneIsVaulted
<1> QED
  BY <1>5, <1>9, <1>10, <1>11, <1>13, <1>14, <1>15, AdopterFacts DEF AdopterInv, OutboxIsHonest

\* A step that leaves the outbox and the node alone keeps the invariant when it leads to
\* a step of the process that fits.
LEMMA AsideKeeps ==
  ASSUME AdopterTypeOK, AdopterInv, UNCHANGED <<files, index, nodeVars>>,
         task' \in [at : AdopterSteps, item : Item \cup {NoItem}],
         todo' \in {todo, {}}, networkUp' \in BOOLEAN, crashed' \in {crashed, TRUE},
         listed' \in {listed, TRUE}, backups' \in Nat,
         task'.item = task.item \/ task.item = NoItem \/ crashed',
         published' \subseteq anchored', vault' \in docs \cup {"none"},
         backups' = 0 => backups = 0 /\ vault' \in {vault, nodeDoc},
         (\A p \in todo : Saved(index[p])) => TaskKept'
  PROVE  AdopterTypeOK' /\ AdopterInv'
<1>1. AdopterTypeOK'
  BY DEF AdopterTypeOK, nodeVars
<1>2. TaskKept'
  BY AdopterFacts DEF TaskKept
<1>3. crashed => crashed'
  OBVIOUS
<1>4. listed => listed'
  OBVIOUS
<1>5. EffectsArePast' /\ DocsFollow' /\ OutboxIsHonest'
  BY <1>3, <1>4, QuietKeeps
<1> QED
  BY <1>1, <1>2, <1>5 DEF AdopterInv

\* The network comes and goes; the process ends; the vault is to be brought up to date.
LEMMA SidesKeep ==
  ASSUME AdopterTypeOK, AdopterInv, Partition \/ Crash \/ RememberSettled \/ UNCHANGED adopterVars
  PROVE  AdopterTypeOK' /\ AdopterInv'
<1>0. /\ published \subseteq anchored /\ vault \in docs \cup {"none"} /\ TaskKept
      /\ task \in [at : AdopterSteps, item : Item \cup {NoItem}]
  BY AdopterFacts
<1>1. CASE Partition \/ UNCHANGED adopterVars
  <2>1. UNCHANGED <<files, index, todo, task, nodeVars, vaultVars, crashed>> /\ networkUp' \in BOOLEAN
    BY <1>1 DEF Partition, outboxVars, adopterVars, nodeVars, vaultVars, AdopterTypeOK
  <2>2. TaskKept'
    <3>1. \A p \in todo' : files'[index'[p]] # NoItem
      BY <1>0, <2>1 DEF TaskKept, Saved
    <3> QED
      BY <1>0, <2>1, <3>1 DEF TaskKept, Saved, nodeVars, vaultVars
  <2>3. backups' \in Nat
    BY <2>1 DEF AdopterTypeOK, vaultVars
  <2> QED
    BY <1>0, <2>1, <2>2, <2>3, AsideKeeps DEF vaultVars
<1>2. CASE Crash
  <2>1. /\ task' = Ready /\ todo' = {} /\ networkUp' = TRUE /\ crashed' = TRUE
        /\ UNCHANGED <<files, index, nodeVars, vaultVars>>
    BY <1>2 DEF Crash
  <2>2. task' \in [at : AdopterSteps, item : Item \cup {NoItem}] /\ task'.at = "ready" /\ task'.item = NoItem
    BY <2>1 DEF Ready, AdopterSteps
  <2>3. TaskKept'
    BY <2>1, <2>2, AdopterAssumption DEF TaskKept
  <2>4. backups' \in Nat
    BY <2>1 DEF AdopterTypeOK, vaultVars
  <2> QED
    BY <1>0, <2>1, <2>2, <2>3, <2>4, AsideKeeps DEF vaultVars
<1>3. CASE RememberSettled
  <2>1. /\ task = Ready /\ task' = At("ingest", NoItem)
        /\ UNCHANGED <<files, index, todo, networkUp, nodeVars, vaultVars, crashed>>
    BY <1>3 DEF RememberSettled, outboxVars
  <2>2. /\ task' \in [at : AdopterSteps, item : Item \cup {NoItem}]
        /\ task'.at = "ingest" /\ task'.item = NoItem /\ task.item = NoItem
    BY <2>1 DEF Ready, At, AdopterSteps
  <2>3. TaskKept'
    <3>1. \A p \in todo' : files'[index'[p]] # NoItem
      BY <1>0, <2>1 DEF TaskKept, Saved
    <3> QED
      BY <2>2, <3>1, AdopterAssumption DEF TaskKept, Saved
  <2>4. backups' \in Nat /\ networkUp' \in BOOLEAN
    BY <2>1 DEF AdopterTypeOK, vaultVars
  <2> QED
    BY <1>0, <2>1, <2>2, <2>3, <2>4, AsideKeeps DEF vaultVars
<1> QED
  BY <1>1, <1>2, <1>3

\* The document of a confirmed item is the settled one.
LEMMA ConfirmedIsSettled ==
  ASSUME AdopterTypeOK, AdopterInv, task.at \in {"ingest", "list"}, task.item \in Item
  PROVE  /\ Saved(task.item) /\ files[task.item].op = "confirm" /\ effects[task.item] = 1
         /\ nodeState = "SETTLED" /\ nodeDoc = "SETTLED"
<1>1. Saved(task.item) /\ files[task.item].op = "confirm" /\ effects[task.item] = 1
  BY AdopterFacts DEF TaskKept
<1>2. nodeState \in Past("confirm")
  BY <1>1, AdopterFacts DEF EffectsArePast
<1> QED
  BY <1>1, <1>2, AdopterFacts DEF Past, DocsFollow

\* The document is brought into the vault and named in its index, or it is not.
LEMMA VaultKeeps ==
  ASSUME AdopterTypeOK, AdopterInv, Ingest \/ IngestRaises \/ VaultList
  PROVE  AdopterTypeOK' /\ AdopterInv'
<1>0. /\ published \subseteq anchored /\ vault \in docs \cup {"none"} /\ TaskKept
      /\ task \in [at : AdopterSteps, item : Item \cup {NoItem}]
      /\ nodeDoc # "none" => nodeDoc \in docs
      /\ backups \in Nat /\ networkUp \in BOOLEAN /\ listed \in BOOLEAN
  BY AdopterFacts DEF DocsFollow, AdopterTypeOK
<1>. PICK i \in Item \cup {NoItem} : i = task.item
  BY <1>0
<1>1. /\ task.at \in {"ingest", "list"}
      /\ UNCHANGED <<files, index, todo, networkUp, nodeVars, anchored, published, backups, crashed>>
  BY DEF Ingest, IngestRaises, VaultList, outboxVars, vaultVars
<1>2. i \in Item => /\ files[i] # NoItem /\ files[i].op = "confirm" /\ effects[i] = 1
                    /\ nodeDoc = "SETTLED"
  BY <1>1, ConfirmedIsSettled DEF Saved
<1>3. /\ vault' \in {vault, nodeDoc} /\ vault' \in docs \cup {"none"}
      /\ listed' \in {listed, TRUE}
      /\ \/ task' = Ready /\ i = NoItem
         \/ task' = At("done", i) /\ i \in Item /\ listed'
         \/ task' = At("failed", i) /\ i \in Item
         \/ task' = At("list", i)
      /\ task'.at \in {"done", "list"} /\ i \in Item /\ backups = 0 => vault' = "SETTLED"
  <2>1. CASE Ingest
    <3>1. /\ vault' = nodeDoc /\ nodeDoc # "none" /\ listed' = listed
          /\ task' = IF listed THEN AfterVault(i) ELSE At("list", i)
      BY <2>1 DEF Ingest
    <3>2. CASE listed
      BY <1>0, <1>2, <3>1, <3>2 DEF AfterVault
    <3>3. CASE ~listed
      BY <1>0, <1>2, <3>1, <3>3
    <3> QED
      BY <3>2, <3>3
  <2>2. CASE IngestRaises
    <3>1. vault' = vault /\ listed' = listed /\ task' = IF i = NoItem THEN Ready ELSE At("failed", i)
      BY <2>2 DEF IngestRaises, vaultVars
    <3>2. task'.at \notin {"done", "list"}
      BY <3>1 DEF Ready, At
    <3> QED
      BY <1>0, <3>1, <3>2
  <2>3. CASE VaultList
    <3>1. vault' = vault /\ listed' = TRUE /\ task' = AfterVault(i) /\ task.at = "list"
      BY <2>3 DEF VaultList
    <3>2. i \in Item /\ backups = 0 => vault' = "SETTLED"
      BY <1>0, <1>2, <3>1 DEF TaskKept
    <3> QED
      BY <1>0, <3>1, <3>2 DEF AfterVault
  <2> QED
    BY <2>1, <2>2, <2>3
<1>4. task' \in [at : AdopterSteps, item : Item \cup {NoItem}] /\ task'.item = i
  BY <1>3 DEF Ready, At, AdopterSteps
<1>5. TaskKept'
  <2>1. \A p \in todo' : files'[index'[p]] # NoItem
    BY <1>0, <1>1 DEF TaskKept, Saved
  <2>2. /\ task'.at \in {"ready", "done", "failed", "list"}
        /\ task'.at = "ready" => i = NoItem
        /\ task'.at \in {"done", "failed"} => i \in Item
        /\ task'.at = "done" => listed'
    BY <1>3 DEF Ready, At
  <2> QED
    BY <1>1, <1>2, <1>3, <1>4, <2>1, <2>2 DEF TaskKept, Saved, nodeVars
<1> QED
  BY <1>0, <1>1, <1>3, <1>4, <1>5, AsideKeeps DEF nodeVars

\* A package of the peer is imported, and the document in the vault is anchored.
LEMMA AnchorKeeps ==
  ASSUME AdopterTypeOK, AdopterInv, ImportFromPeer \/ AnchorExchange \/ Publish
  PROVE  AdopterTypeOK' /\ AdopterInv'
<1>0. /\ published \subseteq anchored /\ vault \in docs \cup {"none"} /\ TaskKept
      /\ backups \in Nat /\ networkUp \in BOOLEAN
  BY AdopterFacts DEF AdopterTypeOK
<1>1. UNCHANGED <<files, index, todo, networkUp, nodeVars, listed, crashed>>
  BY DEF ImportFromPeer, AnchorExchange, Publish, outboxVars
<1>2. \A p \in todo' : files'[index'[p]] # NoItem
  BY <1>0, <1>1 DEF TaskKept, Saved
<1>3. CASE ImportFromPeer
  <2>1. /\ vault' \in docs /\ backups' = backups + 1 /\ anchored' = anchored /\ published' = published
        /\ task = Ready /\ task' \in {Ready, At("list", NoItem)}
    BY <1>3 DEF ImportFromPeer
  <2>2. /\ task' \in [at : AdopterSteps, item : Item \cup {NoItem}] /\ task.item = NoItem
        /\ task'.at \in {"ready", "list"} /\ task'.item = NoItem
    BY <2>1 DEF Ready, At, AdopterSteps
  <2>3. TaskKept'
    BY <1>2, <2>2, AdopterAssumption DEF TaskKept, Saved
  <2>4. backups' \in Nat /\ backups' # 0
    BY <1>0, <2>1
  <2> QED
    BY <1>0, <1>1, <2>1, <2>2, <2>3, <2>4, AsideKeeps
<1>4. CASE AnchorExchange
  <2>1. /\ anchored' = anchored \cup {vault} /\ UNCHANGED <<vault, published, backups>>
        /\ task = Ready /\ task' \in {Ready, At("publish", NoItem)}
    BY <1>4 DEF AnchorExchange
  <2>2. /\ task' \in [at : AdopterSteps, item : Item \cup {NoItem}] /\ task.item = NoItem
        /\ task'.at \in {"ready", "publish"} /\ task'.item = NoItem
    BY <2>1 DEF Ready, At, AdopterSteps
  <2>3. TaskKept'
    BY <1>2, <2>1, <2>2, AdopterAssumption DEF TaskKept, Saved
  <2> QED
    BY <1>0, <1>1, <2>1, <2>2, <2>3, AsideKeeps
<1>5. CASE Publish
  <2>1. /\ published' = published \cup {vault} /\ UNCHANGED <<vault, anchored, backups>>
        /\ task.at = "publish" /\ task.item = NoItem /\ task' = Ready /\ vault \in anchored
    BY <1>0, <1>5 DEF Publish, TaskKept
  <2>2. task' \in [at : AdopterSteps, item : Item \cup {NoItem}] /\ task'.at = "ready" /\ task'.item = NoItem
    BY <2>1 DEF Ready, AdopterSteps
  <2>3. TaskKept'
    BY <1>2, <2>2, AdopterAssumption DEF TaskKept, Saved
  <2> QED
    BY <1>0, <1>1, <2>1, <2>2, <2>3, AsideKeeps
<1> QED
  BY <1>3, <1>4, <1>5

\* A settled exchange goes nowhere.
LEMMA SettledStays == Transitions["SETTLED"] = {}
<1>1. "SETTLED" \in State
  BY DEF State
<1> QED
  BY <1>1 DEF Transitions

\* A step at the node keeps the outbox honest when what took effect stays past and only
\* the item in work has an effect.
LEMMA NodeStepKeeps ==
  ASSUME AdopterTypeOK, AdopterInv, UNCHANGED <<outboxVars, vaultVars, crashed>>,
         EffectsArePast', NodeOK', docs \subseteq docs', effects' \in [Item -> Nat],
         nodeState = "SETTLED" => nodeState' = "SETTLED",
         \A k \in Item : effects[k] = 1 => effects'[k] = 1,
         \A k \in Item \ {task.item} : effects'[k] = effects[k],
         task'.item = task.item \/ task.item = NoItem
  PROVE  DocsFollow' /\ OutboxIsHonest'
<1>0. /\ files' = files /\ vault' = vault /\ listed' = listed /\ anchored' = anchored
      /\ published' = published /\ backups' = backups /\ crashed' = crashed
  BY DEF outboxVars, vaultVars
<1>1. \A i \in Item : Saved(i)' = Saved(i) /\ Status(i)' = Status(i)
  BY <1>0 DEF Saved, Status
<1>2. vault' \in docs' \cup {"none"} /\ published' \subseteq anchored'
  BY <1>0, AdopterFacts
<1>3. DocsFollow'
  BY <1>2 DEF DocsFollow, NodeOK
<1>4. DoneTookEffect'
  <2>1. \A i \in Item : effects'[i] <= 1
    BY DEF EffectsArePast
  <2>2. \A i \in Item : Status(i)' = "done" /\ files'[i].op # "contract" => effects'[i] = 1
    BY <1>0, <1>1, AdopterFacts DEF DoneTookEffect
  <2> QED
    BY <2>1, <2>2 DEF DoneTookEffect
<1>5. PendingHadNone'
  <2>1. ASSUME NEW i \in Item, Status(i)' = "pending", effects'[i] > 0
        PROVE  task'.item = i \/ crashed'
    <3>1. CASE i = task.item
      BY <3>1, AdopterAssumption
    <3>2. CASE i # task.item
      <4>1. effects[i] > 0 /\ Status(i) = "pending"
        BY <1>1, <2>1, <3>2
      <4> QED
        BY <1>0, <3>2, <4>1, AdopterFacts DEF PendingHadNone
    <3> QED
      BY <3>1, <3>2
  <2> QED
    BY <2>1 DEF PendingHadNone
<1>6. DoneIsVaulted'
  BY <1>0, <1>1, AdopterFacts DEF DoneIsVaulted
<1> QED
  BY <1>2, <1>3, <1>4, <1>5, <1>6 DEF OutboxIsHonest

\* The other party and the timers settle nothing, and lead back nowhere.
LEMMA NodeMovesKeeps ==
  ASSUME AdopterTypeOK, AdopterInv, NodeMoves
  PROVE  AdopterTypeOK' /\ AdopterInv'
<1>0. PICK s \in {"CONTRACTED", "ESCROWED", "DELIVERED", "VERIFIED", "EXPIRED_REFUNDED", "CANCELLED"} :
        /\ CanTransition(nodeState, s) /\ nodeState' = s
        /\ IF s = "DELIVERED" THEN Written(s) ELSE UNCHANGED <<nodeDoc, docs>>
  BY DEF NodeMoves
<1>1. UNCHANGED <<effects, outboxVars, vaultVars, networkUp, task, crashed>>
  BY DEF NodeMoves
<1>2. s \in State /\ nodeState \in State
  BY DEF State, AdopterTypeOK
<1>3. NodeOK' /\ docs \subseteq docs'
  <2>1. CASE s = "DELIVERED"
    BY <1>0, <1>2, <2>1, AdopterFacts DEF NodeOK, Written
  <2>2. CASE s # "DELIVERED"
    BY <1>0, <1>2, <2>2, AdopterFacts DEF NodeOK
  <2> QED
    BY <2>1, <2>2
<1>4. nodeState # "SETTLED"
  BY <1>0, SettledStays DEF CanTransition
<1>5. EffectsArePast'
  <2>1. \A i \in Item : Saved(i)' = Saved(i) /\ files'[i] = files[i] /\ effects'[i] = effects[i]
    BY <1>1 DEF outboxVars, Saved
  <2>2. ASSUME NEW i \in Item, effects[i] > 0
        PROVE  effects[i] = 1 /\ Saved(i) /\ s \in Past(files[i].op)
    <3>1. effects[i] = 1 /\ Saved(i) /\ nodeState \in Past(files[i].op)
      BY <2>2, AdopterFacts DEF EffectsArePast
    <3>2. files[i].op \in {"contract", "escrow", "deliver", "verify", "confirm", "dispute"}
      BY <3>1, AdopterFacts, AdopterAssumption
    <3> QED
      BY <1>0, <1>2, <3>1, <3>2, PastFacts
  <2> QED
    BY <1>0, <2>1, <2>2 DEF EffectsArePast
<1>6. effects' \in [Item -> Nat]
  BY <1>1 DEF AdopterTypeOK
<1>7. DocsFollow' /\ OutboxIsHonest'
  BY <1>1, <1>3, <1>4, <1>5, <1>6, NodeStepKeeps
<1>8. AdopterTypeOK'
  BY <1>1, <1>3, <1>6 DEF AdopterTypeOK, NodeOK, outboxVars, vaultVars
<1>9. TaskKept'
  <2>1. \A p \in todo' : files'[index'[p]] # NoItem
    BY <1>1, AdopterFacts DEF TaskKept, Saved, outboxVars
  <2> QED
    BY <1>1, <2>1, AdopterFacts DEF TaskKept, Saved, outboxVars, vaultVars
<1> QED
  BY <1>5, <1>7, <1>8, <1>9 DEF AdopterInv

\* A request of this process keeps the node and the outbox in step.
LEMMA AskKeeps ==
  ASSUME AdopterTypeOK, AdopterInv, UNCHANGED <<outboxVars, vaultVars, networkUp, crashed>>,
         NEW op \in OutboxOps, AsksNode(op, task.item),
         task.item \in Item => Saved(task.item) /\ files[task.item].op = op,
         task'.item = task.item \/ task.item = NoItem,
         task' \in [at : AdopterSteps, item : Item \cup {NoItem}]
  PROVE  /\ AdopterTypeOK' /\ EffectsArePast' /\ DocsFollow' /\ OutboxIsHonest'
         /\ Accept(op, task.item) /\ task.item \in Item => effects'[task.item] = 1
<1>0. /\ task.item \in Item \cup {NoItem} /\ EffectsArePast /\ NodeOK
      /\ files' = files /\ nodeState \in State
  BY AdopterFacts DEF outboxVars, NodeOK
<1>1. /\ NodeOK' /\ docs \subseteq docs'
      /\ nodeState' = nodeState \/ CanTransition(nodeState, nodeState')
  BY <1>0, RequestNode
<1>2. /\ EffectsArePast' /\ effects' \in [Item -> Nat]
      /\ \A k \in Item \ {task.item} : effects'[k] = effects[k]
      /\ \A k \in Item : effects[k] = 1 => effects'[k] = 1
      /\ Accept(op, task.item) /\ task.item \in Item => effects'[task.item] = 1
  BY <1>0, RequestEffects
<1>3. nodeState = "SETTLED" => nodeState' = "SETTLED"
  BY <1>1, SettledStays DEF CanTransition
<1>4. DocsFollow' /\ OutboxIsHonest'
  BY <1>1, <1>2, <1>3, NodeStepKeeps
<1>5. AdopterTypeOK'
  BY <1>0, <1>1, <1>2 DEF AdopterTypeOK, NodeOK, outboxVars, vaultVars
<1> QED
  BY <1>2, <1>4, <1>5

\* The handler of a flush sends the request of its item.
LEMMA HandleKeeps ==
  ASSUME AdopterTypeOK, AdopterInv, Handle
  PROVE  AdopterTypeOK' /\ AdopterInv'
<1>. PICK i \in Item : i = task.item /\ files[i] # NoItem /\ files[i].op \in OutboxOps
  BY AdopterFacts DEF Handle, TaskKept, Saved
<1>. PICK op \in OutboxOps : op = files[i].op
  OBVIOUS
<1>0. /\ task.at = "handle" /\ UNCHANGED <<outboxVars, vaultVars, networkUp, crashed>>
      /\ \/ Raises(op, i) /\ task' = At("failed", i)
         \/ (Accept(op, i) \/ Repeat(op)) /\ task' = At(IF op = "confirm" THEN "ingest" ELSE "done", i)
  BY DEF Handle
<1>1. AsksNode(op, task.item)
  BY <1>0 DEF AsksNode
<1>2. /\ task' \in [at : AdopterSteps, item : Item \cup {NoItem}] /\ task'.item = i
      /\ task'.at \in {"failed", "ingest", "done"}
      /\ task'.at = "ingest" => op = "confirm"
      /\ task'.at = "done" => op # "confirm"
      /\ task'.at \in {"ingest", "done"} => Accept(op, i) \/ op = "contract"
  BY <1>0 DEF At, AdopterSteps, Repeat
<1>3. /\ AdopterTypeOK' /\ EffectsArePast' /\ DocsFollow' /\ OutboxIsHonest'
      /\ Accept(op, i) => effects'[i] = 1
  BY <1>0, <1>1, <1>2, AskKeeps DEF Saved
<1>4. TaskKept'
  <2>1. \A p \in todo' : files'[index'[p]] # NoItem
    BY <1>0, AdopterFacts DEF TaskKept, Saved, outboxVars
  <2>2. files'[i] # NoItem /\ files'[i].op = op
    BY <1>0 DEF outboxVars
  <2> QED
    BY <1>2, <1>3, <2>1, <2>2 DEF TaskKept, Saved
<1> QED
  BY <1>3, <1>4 DEF AdopterInv

\* A request with the network up concerns no item.
LEMMA OnlineKeeps ==
  ASSUME AdopterTypeOK, AdopterInv, NEW op \in OutboxOps, Online(op)
  PROVE  AdopterTypeOK' /\ AdopterInv'
<1>0. /\ task = Ready /\ UNCHANGED <<outboxVars, vaultVars, networkUp, crashed>>
      /\ \/ Raises(op, NoItem) /\ task' = task
         \/ Accept(op, NoItem) /\ task' = IF op = "confirm" THEN At("ingest", NoItem) ELSE Ready
  BY DEF Online
<1>1. task.item = NoItem /\ AsksNode(op, task.item)
  BY <1>0 DEF Ready, AsksNode
<1>2. /\ task' \in [at : AdopterSteps, item : Item \cup {NoItem}] /\ task'.item = NoItem
      /\ task'.at \in {"ready", "ingest"}
  BY <1>0 DEF Ready, At, AdopterSteps
<1>3. AdopterTypeOK' /\ EffectsArePast' /\ DocsFollow' /\ OutboxIsHonest'
  BY <1>0, <1>1, <1>2, AskKeeps, AdopterAssumption
<1>4. TaskKept'
  <2>1. \A p \in todo' : files'[index'[p]] # NoItem
    BY <1>0, AdopterFacts DEF TaskKept, Saved, outboxVars
  <2> QED
    BY <1>2, <2>1, AdopterAssumption DEF TaskKept, Saved
<1> QED
  BY <1>3, <1>4 DEF AdopterInv

\* adopter/outbox.py, vault.py: for any items, requests and lengths of a flush, a queued
\* request is carried out at most once and marked as done only when it took effect, the
\* vault holds no document that the node never had, and what is published was anchored.
THEOREM OutboxAlwaysHonest == AdopterSpec => []OutboxIsHonest
<1>1. AdopterInit => AdopterTypeOK /\ AdopterInv
  <2>1. SUFFICES ASSUME AdopterInit PROVE AdopterTypeOK /\ AdopterInv
    OBVIOUS
  <2>2. \A i \in Item : Status(i) = "none" /\ effects[i] = 0
    BY <2>1 DEF AdopterInit, Status, Saved
  <2>3. task.at = "ready" /\ task.item = NoItem /\ task \in [at : AdopterSteps, item : Item \cup {NoItem}]
    BY <2>1 DEF AdopterInit, Ready, AdopterSteps
  <2>4. AdopterTypeOK
    <3>1. files \in [Item -> Queued \cup {NoItem}] /\ effects \in [Item -> Nat]
      BY <2>1 DEF AdopterInit
    <3>2. index \in Seq(Item) /\ todo \subseteq DOMAIN index
      BY <2>1 DEF AdopterInit
    <3> QED
      BY <2>1, <2>3, <3>1, <3>2 DEF AdopterInit, AdopterTypeOK, State
  <2>5. TaskKept
    BY <2>1, <2>3, AdopterAssumption DEF AdopterInit, TaskKept
  <2>6. DoneTookEffect /\ PendingHadNone /\ DoneIsVaulted /\ EffectsArePast
    BY <2>2 DEF DoneTookEffect, PendingHadNone, DoneIsVaulted, EffectsArePast
  <2> QED
    BY <2>1, <2>4, <2>5, <2>6 DEF AdopterInit, AdopterInv, OutboxIsHonest, DocsFollow
<1>2. AdopterTypeOK /\ AdopterInv /\ [AdopterNext]_adopterVars => AdopterTypeOK' /\ AdopterInv'
  BY EnqueueKeeps, SetIdsKeeps, FlushKeeps, HandleKeeps, MarkKeeps, SidesKeep, NodeMovesKeeps,
     OnlineKeeps, VaultKeeps, AnchorKeeps DEF AdopterNext
<1>3. AdopterInv => OutboxIsHonest
  BY DEF AdopterInv
<1> QED
  BY <1>1, <1>2, <1>3, PTL DEF AdopterSpec
---------------------------------------------------------------------------
(* The composer of a client.                                               *)

\* What a leg ends with follows its exchange and its claim.
ResultOf(l, r) ==
  /\ r.state \in Marks /\ r.claim \in {"open", "reserved", "spent", "released"}
  /\ r.settled \in BOOLEAN /\ r.named \in BOOLEAN /\ r.began \in BOOLEAN
  /\ r.state = "SETTLED" => r.settled /\ r.claim = "spent"
  /\ r.settled => claim[l] = "open" /\ r.began
  /\ r.settled /\ r.named => r.state = "SETTLED"
  /\ r.claim = "spent" => r.settled \/ claim[l] = "spent"
  /\ ~r.settled /\ claim[l] = "spent" => r.claim = "spent"
  /\ r.began => claim[l] = "open" /\ r.claim # "open"
  /\ r.claim = "open" => claim[l] = "open"

LEMMA ResultFacts ==
  ASSUME ComposerTypeOK, NEW l \in Leg, NEW r \in Results(l)
  PROVE  ResultOf(l, r)
<1>1. claim[l] \in {"open", "reserved", "spent", "released"}
  BY DEF ComposerTypeOK
<1>2. ASSUME NEW c \in {"open", "reserved", "spent", "released"}, c = claim[l] \/ claim[l] = "open",
             c # "spent" \/ claim[l] = "spent", c = "open" => claim[l] = "open",
             r = [state |-> "failed", named |-> FALSE, claim |-> c, settled |-> FALSE, began |-> FALSE]
      PROVE  ResultOf(l, r)
  BY <1>2 DEF ResultOf, Marks
<1>3. ASSUME NEW s \in Ends, NEW n \in BOOLEAN, claim[l] = "open",
             r = [state |-> s, named |-> n, claim |-> ClaimAfter(s), settled |-> s = "SETTLED",
                  began |-> TRUE]
      PROVE  ResultOf(l, r)
  <2>1. /\ s = "SETTLED" => ClaimAfter(s) = "spent"
        /\ s # "SETTLED" => ClaimAfter(s) \in {"released", "reserved"}
    BY DEF ClaimAfter, Ends
  <2>2. CASE s = "SETTLED"
    BY <1>3, <2>1, <2>2 DEF ResultOf, Marks
  <2>3. CASE s # "SETTLED"
    BY <1>3, <2>1, <2>3 DEF ResultOf, Marks, Ends
  <2> QED BY <2>2, <2>3
<1>4. ASSUME NEW s \in Ends, NEW c \in {"released", "reserved", "spent"}, claim[l] = "open",
             c = "spent" => s = "SETTLED",
             r = [state |-> "failed", named |-> FALSE, claim |-> c, settled |-> s = "SETTLED",
                  began |-> TRUE]
      PROVE  ResultOf(l, r)
  <2>1. CASE s = "SETTLED"
    BY <1>4, <2>1 DEF ResultOf, Marks
  <2>2. CASE s # "SETTLED"
    BY <1>4, <2>2 DEF ResultOf, Marks
  <2> QED BY <2>1, <2>2
<1>5. CASE claim[l] # "open"
  BY <1>1, <1>2, <1>5 DEF Results
<1>6. CASE claim[l] = "open"
  <2>1. \/ \E c \in {"open", "reserved"} :
             r = [state |-> "failed", named |-> FALSE, claim |-> c, settled |-> FALSE, began |-> FALSE]
        \/ \E s \in Ends, n \in BOOLEAN :
             r = [state |-> s, named |-> n, claim |-> ClaimAfter(s), settled |-> s = "SETTLED",
                  began |-> TRUE]
        \/ \E s \in Ends, c \in {"released", "reserved"} :
             r = [state |-> "failed", named |-> FALSE, claim |-> c, settled |-> s = "SETTLED",
                  began |-> TRUE]
        \/ r = [state |-> "failed", named |-> FALSE, claim |-> "spent",
                settled |-> "SETTLED" = "SETTLED", began |-> TRUE]
    BY <1>6 DEF Results
  <2>2. "SETTLED" \in Ends
    BY DEF Ends
  <2> QED BY <1>2, <1>3, <1>4, <1>6, <2>1, <2>2
<1> QED BY <1>5, <1>6

\* A new run of a bundle finds nothing of an earlier one.
LEMMA RunAllKeeps ==
  ASSUME ComposerTypeOK, ComposerInv, RunAll
  PROVE  ComposerTypeOK' /\ ComposerInv'
<1>1. PICK d \in [Leg -> SUBSET Leg] : bundle' = [bundle EXCEPT !.depends = d]
  BY DEF RunAll
<1>2. /\ abortRest' \in BOOLEAN /\ running' = TRUE /\ ~running /\ \A l \in Leg : runs[l] = 0
      /\ UNCHANGED <<noted, batch, failed, claim, truth, runs, begun, lapse>>
  BY DEF RunAll
<1>3. batch = {}
  BY <1>2 DEF ComposerInv, NoRunNoTrace
<1>4. DOMAIN failed = {}
  <2>1. \A k \in DOMAIN failed : failed[k] \in Leg /\ runs[failed[k]] > 0
    BY DEF ComposerInv, NoRunNoTrace, ComposerTypeOK
  <2>2. ASSUME NEW k \in DOMAIN failed PROVE FALSE
    <3>1. runs[failed[k]] = 0 /\ runs[failed[k]] > 0
      BY <1>2, <2>1
    <3> QED
      BY <3>1
  <2> QED
    BY <2>2
<1>5. bundle'.ids = LegOrder /\ bundle'.rule = "all_settled" /\ bundle'.depends = d
      /\ bundle' \in [ids : {LegOrder}, depends : [Leg -> SUBSET Leg], rule : {"all_settled"}]
  <2>1. bundle \in [ids : {LegOrder}, depends : [Leg -> SUBSET Leg], rule : {"all_settled"}]
    BY DEF ComposerTypeOK
  <2>2. bundle' = [ids |-> LegOrder, depends |-> d, rule |-> "all_settled"]
    BY <1>1, <2>1
  <2> QED
    BY <2>2
<1>6. ComposerTypeOK'
  BY <1>2, <1>5 DEF ComposerTypeOK
<1>7. NotedIsTrue' /\ BatchMayRun' /\ NoRunNoTrace' /\ OpenIsFresh' /\ ClaimsFollowLegs' /\ SettledRunsOnce' /\ WorkBeginsOnce'
  BY <1>2, <1>3 DEF ComposerInv, ComposerIsSound, NotedIsTrue, BatchMayRun, NoRunNoTrace,
     ClaimsFollowLegs, SettledRunsOnce, OpenIsFresh, WorkBeginsOnce
<1>8. ParentsFirst'
  BY <1>2 DEF ParentsFirst
<1>9. AbortStops'
  <2>1. Len(failed) = 0
    BY <1>4 DEF ComposerTypeOK
  <2> QED
    BY <1>2, <2>1 DEF AbortStops
<1>10. BundleReady(bundle', noted') => \A l \in Leg : truth'[l]
  BY <1>2, <1>5, ComposerAssumption DEF BundleReady, ComposerInv, NotedIsTrue
<1> QED
  BY <1>6, <1>7, <1>8, <1>9, <1>10 DEF ComposerInv, ComposerIsSound

\* The legs of a round have not settled, and their parents have.
LEMMA NextRoundKeeps ==
  ASSUME ComposerTypeOK, ComposerInv, NextRound
  PROVE  ComposerTypeOK' /\ ComposerInv'
<1>1. /\ running /\ batch' \subseteq NextReady /\ running' = (batch' # {})
      /\ UNCHANGED <<bundle, abortRest, noted, failed, claim, truth, runs, begun, lapse>>
  BY DEF NextRound
<1>2. NextReady \subseteq Leg
  BY ComposerAssumption DEF NextReady, ComposerTypeOK
<1>3. \A l \in batch' : noted[l] # "SETTLED" /\ \A p \in bundle.depends[l] : p \in Leg /\ truth[p]
  BY <1>1, <1>2 DEF NextReady, ComposerInv, NotedIsTrue, ComposerTypeOK
<1>4. running' \in BOOLEAN
  BY <1>1
<1>5. ComposerTypeOK'
  BY <1>1, <1>2, <1>4 DEF ComposerTypeOK
<1>6. AbortStops'
  BY <1>1 DEF AbortStops, ComposerInv, ComposerIsSound
<1>7. NotedIsTrue' /\ BatchMayRun' /\ NoRunNoTrace' /\ OpenIsFresh' /\ ClaimsFollowLegs' /\ SettledRunsOnce' /\ WorkBeginsOnce' /\ ParentsFirst'
  BY <1>1, <1>3 DEF ComposerInv, ComposerIsSound, NotedIsTrue, BatchMayRun, NoRunNoTrace,
     ClaimsFollowLegs, SettledRunsOnce, OpenIsFresh, WorkBeginsOnce, ParentsFirst
<1>8. BundleReady(bundle', noted') => \A l \in Leg : truth'[l]
  BY <1>1 DEF ComposerInv, ComposerIsSound
<1> QED
  BY <1>5, <1>6, <1>7, <1>8 DEF ComposerInv, ComposerIsSound

\* A leg is run, and what is noted of it is what became of it.
LEMMA RunLegKeeps ==
  ASSUME ComposerTypeOK, ComposerInv, RunLeg
  PROVE  ComposerTypeOK' /\ ComposerInv'
<1>0. /\ running /\ NotedIsTrue /\ BatchMayRun /\ NoRunNoTrace /\ ParentsFirst /\ ClaimsFollowLegs
      /\ SettledRunsOnce /\ AbortStops /\ OpenIsFresh /\ WorkBeginsOnce
      /\ UNCHANGED <<bundle, abortRest>>
  BY DEF RunLeg, ComposerInv, ComposerIsSound
<1>. PICK l \in batch :
        /\ runs' = [runs EXCEPT ![l] = @ + 1]
        /\ \E r \in Results(l) :
           /\ claim' = [claim EXCEPT ![l] = r.claim]
           /\ truth' = [truth EXCEPT ![l] = @ \/ r.settled]
           /\ begun' = [begun EXCEPT ![l] = @ + IF r.began THEN 1 ELSE 0]
           /\ lapse' = [lapse EXCEPT ![l] = IF r.settled /\ r.state # "SETTLED" THEN "raised"
                                            ELSE IF r.settled /\ ~r.named THEN "unnamed" ELSE @]
           /\ noted' = IF r.named THEN [noted EXCEPT ![l] = r.state] ELSE noted
           /\ failed' = IF r.state = "SETTLED" THEN failed ELSE Append(failed, l)
           /\ LET ends == r.state # "SETTLED" /\ l \notin Optional /\ abortRest IN
                /\ running' = ~ends
                /\ batch' = IF ends THEN {} ELSE batch \ {l}
  BY DEF RunLeg
<1>. PICK r \in Results(l) :
        /\ claim' = [claim EXCEPT ![l] = r.claim]
        /\ truth' = [truth EXCEPT ![l] = @ \/ r.settled]
        /\ begun' = [begun EXCEPT ![l] = @ + IF r.began THEN 1 ELSE 0]
        /\ lapse' = [lapse EXCEPT ![l] = IF r.settled /\ r.state # "SETTLED" THEN "raised"
                                         ELSE IF r.settled /\ ~r.named THEN "unnamed" ELSE @]
        /\ noted' = IF r.named THEN [noted EXCEPT ![l] = r.state] ELSE noted
        /\ failed' = IF r.state = "SETTLED" THEN failed ELSE Append(failed, l)
        /\ LET ends == r.state # "SETTLED" /\ l \notin Optional /\ abortRest IN
             /\ running' = ~ends
             /\ batch' = IF ends THEN {} ELSE batch \ {l}
  OBVIOUS
<1> DEFINE ends == r.state # "SETTLED" /\ l \notin Optional /\ abortRest
<1>1. /\ l \in Leg /\ noted[l] # "SETTLED" /\ \A p \in bundle.depends[l] : p \in Leg /\ truth[p]
      /\ running' = ~ends /\ batch' = IF ends THEN {} ELSE batch \ {l}
      /\ batch' \subseteq batch \ {l}
  BY <1>0 DEF BatchMayRun, ComposerTypeOK
<1>2. /\ r.state \in Marks /\ r.claim \in {"open", "reserved", "spent", "released"}
      /\ r.settled \in BOOLEAN /\ r.named \in BOOLEAN /\ r.began \in BOOLEAN
      /\ r.state = "SETTLED" => r.settled /\ r.claim = "spent"
      /\ r.settled => claim[l] = "open" /\ r.began
      /\ r.settled /\ r.named => r.state = "SETTLED"
      /\ r.claim = "spent" => r.settled \/ claim[l] = "spent"
      /\ ~r.settled /\ claim[l] = "spent" => r.claim = "spent"
      /\ r.began => claim[l] = "open" /\ r.claim # "open"
      /\ r.claim = "open" => claim[l] = "open"
  BY <1>1, ResultFacts DEF ResultOf
<1>3. /\ noted \in [Leg -> Marks] /\ truth \in [Leg -> BOOLEAN] /\ runs \in [Leg -> Nat]
      /\ claim \in [Leg -> {"open", "reserved", "spent", "released"}]
      /\ failed \in Seq(Leg) /\ batch \subseteq Leg
      /\ begun \in [Leg -> Nat] /\ lapse \in [Leg -> {"none", "raised", "unnamed"}]
      /\ bundle.depends \in [Leg -> SUBSET Leg]
  BY DEF ComposerTypeOK
<1>4. /\ runs' \in [Leg -> Nat] /\ runs'[l] > 0 /\ \A k \in Leg \ {l} : runs'[k] = runs[k]
  BY <1>1, <1>3
<1>5. /\ claim' \in [Leg -> {"open", "reserved", "spent", "released"}] /\ claim'[l] = r.claim
      /\ \A k \in Leg \ {l} : claim'[k] = claim[k]
  BY <1>1, <1>2, <1>3
<1>6. /\ truth' \in [Leg -> BOOLEAN] /\ (truth'[l] <=> truth[l] \/ r.settled)
      /\ \A k \in Leg \ {l} : truth'[k] = truth[k]
  BY <1>1, <1>2, <1>3
<1>7. /\ noted' \in [Leg -> Marks] /\ \A k \in Leg \ {l} : noted'[k] = noted[k]
      /\ r.named => noted'[l] = r.state
      /\ ~r.named => noted'[l] = noted[l]
  BY <1>1, <1>2, <1>3
<1>8. /\ lapse' \in [Leg -> {"none", "raised", "unnamed"}] /\ begun' \in [Leg -> Nat]
      /\ \A k \in Leg \ {l} : lapse'[k] = lapse[k] /\ begun'[k] = begun[k]
      /\ r.settled /\ r.state # "SETTLED" => lapse'[l] = "raised"
      /\ r.settled /\ r.state = "SETTLED" /\ ~r.named => lapse'[l] = "unnamed"
      /\ ~r.settled => lapse'[l] = lapse[l]
      /\ r.began => begun'[l] = begun[l] + 1
      /\ ~r.began => begun'[l] = begun[l]
  <2>1. PICK v : v = IF r.settled /\ r.state # "SETTLED" THEN "raised"
                     ELSE IF r.settled /\ ~r.named THEN "unnamed" ELSE lapse[l]
    OBVIOUS
  <2>2. PICK n : n = IF r.began THEN 1 ELSE 0
    OBVIOUS
  <2>3. lapse' = [lapse EXCEPT ![l] = v] /\ begun' = [begun EXCEPT ![l] = @ + n]
    BY <2>1, <2>2
  <2>4. v \in {"none", "raised", "unnamed"} /\ n \in {0, 1}
    BY <1>1, <1>3, <2>1, <2>2
  <2> QED BY <1>1, <1>2, <1>3, <2>1, <2>2, <2>3, <2>4
<1>20. OpenIsFresh' /\ WorkBeginsOnce'
  BY <1>0, <1>1, <1>2, <1>3, <1>5, <1>6, <1>8 DEF OpenIsFresh, WorkBeginsOnce
<1>9. /\ failed' \in Seq(Leg)
      /\ r.state = "SETTLED" => failed' = failed
      /\ r.state # "SETTLED" => /\ Len(failed') = Len(failed) + 1 /\ failed'[Len(failed')] = l
                                /\ \A k \in 1 .. Len(failed) : failed'[k] = failed[k]
  BY <1>1, <1>3
<1>10. \A k \in Leg : truth[k] => truth'[k]
  BY <1>3, <1>6
<1>11. ComposerTypeOK'
  <2>1. running' \in BOOLEAN
    BY <1>1
  <2> QED
    BY <1>0, <1>1, <1>3, <1>4, <1>5, <1>6, <1>7, <1>8, <1>9, <2>1 DEF ComposerTypeOK
<1>12. NotedIsTrue'
  BY <1>0, <1>1, <1>2, <1>6, <1>7, <1>10 DEF NotedIsTrue
<1>13. BatchMayRun'
  BY <1>0, <1>1, <1>3, <1>7, <1>10 DEF BatchMayRun
<1>14. NoRunNoTrace'
  <2>1. \A k \in batch' : running'
    BY <1>1
  <2>2. \A k \in Leg : runs[k] > 0 => runs'[k] > 0
    BY <1>4
  <2>3. \A k \in DOMAIN failed : failed[k] \in Leg /\ runs[failed[k]] > 0
    BY <1>0, <1>3 DEF NoRunNoTrace
  <2>4. DOMAIN failed = 1 .. Len(failed) /\ DOMAIN failed' = 1 .. Len(failed') /\ Len(failed) \in Nat
    BY <1>3, <1>9
  <2>5. CASE r.state = "SETTLED"
    BY <1>9, <2>1, <2>2, <2>3, <2>5 DEF NoRunNoTrace
  <2>6. CASE r.state # "SETTLED"
    <3>1. ASSUME NEW k \in DOMAIN failed' PROVE runs'[failed'[k]] > 0
      <4>1. CASE k = Len(failed')
        BY <1>4, <1>9, <2>6, <4>1
      <4>2. CASE k # Len(failed')
        <5>1. k \in 1 .. Len(failed)
          <6> DEFINE n == Len(failed)
                     m == Len(failed')
          <6>1. n \in Nat /\ m = n + 1 /\ k \in 1 .. m /\ k # m
            BY <1>9, <2>4, <2>6, <3>1, <4>2
          <6> HIDE DEF n, m
          <6>2. k \in 1 .. n
            BY <6>1
          <6> QED
            BY <6>2 DEF n
        <5> QED
          BY <1>9, <2>2, <2>3, <2>4, <2>6, <5>1
      <4> QED
        BY <4>1, <4>2
    <3> QED
      BY <2>1, <3>1 DEF NoRunNoTrace
  <2> QED
    BY <2>5, <2>6
<1>15. ParentsFirst'
  BY <1>0, <1>1, <1>3, <1>4, <1>10 DEF ParentsFirst
<1>16. ClaimsFollowLegs'
  <2>1. ASSUME NEW k \in Leg \ {l}
        PROVE  /\ claim'[k] = "spent" => truth'[k]
               /\ truth'[k] => claim'[k] = "spent" \/ lapse'[k] = "raised"
    BY <1>0, <1>5, <1>6, <1>8 DEF ClaimsFollowLegs
  <2>2. /\ claim[l] = "spent" => truth[l]
        /\ truth[l] => claim[l] = "spent" \/ lapse[l] = "raised"
    BY <1>0, <1>1 DEF ClaimsFollowLegs
  <2>3. claim'[l] = "spent" => truth'[l]
    BY <1>2, <1>5, <1>6, <2>2
  <2>4. truth'[l] => claim'[l] = "spent" \/ lapse'[l] = "raised"
    <3>1. CASE r.settled
      BY <1>2, <1>5, <1>8, <3>1
    <3>2. CASE ~r.settled
      BY <1>2, <1>5, <1>6, <1>8, <2>2, <3>2
    <3> QED
      BY <3>1, <3>2
  <2> QED
    BY <2>1, <2>3, <2>4 DEF ClaimsFollowLegs
<1>17. SettledRunsOnce'
  <2>1. ASSUME NEW k \in Leg \ {l}, truth'[k], lapse'[k] = "none" PROVE noted'[k] = "SETTLED"
    BY <1>0, <1>6, <1>7, <1>8, <2>1 DEF SettledRunsOnce
  <2>2. ASSUME truth'[l], lapse'[l] = "none" PROVE noted'[l] = "SETTLED"
    <3>1. CASE r.settled
      BY <1>2, <1>7, <1>8, <2>2, <3>1
    <3>2. CASE ~r.settled
      <4>1. truth[l] /\ lapse[l] = "none"
        BY <1>6, <1>8, <2>2, <3>2
      <4>2. noted[l] = "SETTLED"
        BY <1>0, <1>1, <4>1 DEF SettledRunsOnce
      <4> QED BY <1>1, <4>2
    <3> QED BY <3>1, <3>2
  <2> QED
    BY <2>1, <2>2 DEF SettledRunsOnce
<1>18. AbortStops'
  <2>1. abortRest => \A k \in 1 .. Len(failed) : failed[k] \in Optional
    BY <1>0 DEF AbortStops
  <2>2. CASE r.state = "SETTLED"
    BY <1>0, <1>9, <2>1, <2>2 DEF AbortStops
  <2>3. CASE r.state # "SETTLED"
    <3>1. ASSUME abortRest, NEW k \in 1 .. Len(failed'), failed'[k] \notin Optional
          PROVE  k = Len(failed') /\ ~running'
      <4>1. Len(failed) \in Nat
        BY <1>3
      <4>2. k = Len(failed')
        BY <1>9, <2>1, <2>3, <3>1, <4>1
      <4> QED
        BY <1>1, <1>9, <2>3, <3>1, <4>2
    <3> QED
      BY <1>0, <3>1 DEF AbortStops
  <2> QED
    BY <2>2, <2>3
<1>19. BundleReady(bundle', noted') => \A k \in Leg : truth'[k]
  BY <1>11, <1>12, ComposerAssumption DEF BundleReady, NotedIsTrue, ComposerTypeOK
<1> QED
  BY <1>11, <1>12, <1>13, <1>14, <1>15, <1>16, <1>17, <1>18, <1>19, <1>20
     DEF ComposerInv, ComposerIsSound

\* composer.py: for any legs, graphs and failures, a leg runs after its parents settled,
\* claims follow what became of the legs, a settled leg is not run again, work begins once, a
\* failure that counts ends the run, and a bundle is ready only when all its legs have settled.
THEOREM ComposerAlwaysSound == ComposerSpec => []ComposerIsSound
<1>1. ComposerInit => ComposerTypeOK /\ ComposerInv
  <2>1. SUFFICES ASSUME ComposerInit PROVE ComposerTypeOK /\ ComposerInv
    OBVIOUS
  <2>2. /\ bundle = [ids |-> LegOrder, depends |-> [l \in Leg |-> {}], rule |-> "all_settled"]
        /\ noted = [l \in Leg |-> "none"]
        /\ batch = {} /\ running = FALSE /\ failed = <<>> /\ claim = [l \in Leg |-> "open"]
        /\ truth = [l \in Leg |-> FALSE] /\ runs = [l \in Leg |-> 0]
        /\ begun = [l \in Leg |-> 0] /\ lapse = [l \in Leg |-> "none"]
    BY <2>1 DEF ComposerInit, NotNoted
  <2>3. failed \in Seq(Leg) /\ Len(failed) = 0 /\ DOMAIN failed = {}
    BY <2>2
  <2>4. ComposerTypeOK
    BY <2>2, <2>3 DEF ComposerTypeOK, Marks, NotNoted
  <2>5. BundleReady(bundle, noted) => \A l \in Leg : truth[l]
    BY <2>2, ComposerAssumption DEF BundleReady
  <2> QED
    BY <2>2, <2>3, <2>4, <2>5 DEF ComposerInv, ComposerIsSound, NotedIsTrue, BatchMayRun, NoRunNoTrace,
       ParentsFirst, ClaimsFollowLegs, SettledRunsOnce, AbortStops, OpenIsFresh, WorkBeginsOnce
<1>2. ComposerTypeOK /\ ComposerInv /\ [ComposerNext]_composerVars => ComposerTypeOK' /\ ComposerInv'
  <2>1. SUFFICES ASSUME ComposerTypeOK, ComposerInv, [ComposerNext]_composerVars
                 PROVE  ComposerTypeOK' /\ ComposerInv'
    OBVIOUS
  <2>2. CASE UNCHANGED composerVars
    <3>1. /\ UNCHANGED <<bundle, abortRest, noted, batch, running>>
          /\ UNCHANGED <<failed, claim, truth, runs, begun, lapse>>
      BY <2>2 DEF composerVars
    <3>2. ComposerTypeOK'
      BY <2>1, <3>1 DEF ComposerTypeOK
    <3>3. NotedIsTrue' /\ BatchMayRun' /\ NoRunNoTrace' /\ OpenIsFresh'
      BY <2>1, <3>1 DEF ComposerInv, NotedIsTrue, BatchMayRun, NoRunNoTrace, OpenIsFresh
    <3>4. ComposerIsSound'
      BY <2>1, <3>1 DEF ComposerInv, ComposerIsSound, ParentsFirst, ClaimsFollowLegs, SettledRunsOnce,
         WorkBeginsOnce, AbortStops
    <3> QED
      BY <3>2, <3>3, <3>4 DEF ComposerInv
  <2> QED
    BY <2>1, <2>2, RunAllKeeps, NextRoundKeeps, RunLegKeeps DEF ComposerNext
<1>3. ComposerInv => ComposerIsSound
  BY DEF ComposerInv
<1> QED
  BY <1>1, <1>2, <1>3, PTL DEF ComposerSpec

---------------------------------------------------------------------------
(* The judges of deliveries.                                               *)

\* Sessions go on: a finished one is not opened again, one that is forgotten stays so.
MetersGo ==
  \A s \in Meter :
    \/ metered'[s] = metered[s]
    \/ metered[s].status = "none"
    \/ metered[s].status = "charging" /\ metered'[s].status \in {"completed", "gone"}
    \/ metered'[s].status = "gone"

\* What the meters do not refute, they do not come to refute.
LEMMA MetersLetPass ==
  ASSUME MetersGo, NEW b, b.session \in Meter => metered[b.session].status # "none", ~MeterRefutes(b)
  PROVE  ~MeterRefutes(b)'
<1>1. CASE b.session \notin Meter
  BY <1>1 DEF MeterRefutes, Known
<1>2. CASE b.session \in Meter
  <2>1. metered[b.session].status # "charging" /\ metered[b.session].status # "none"
    BY <1>2 DEF MeterRefutes, Known
  <2>2. metered'[b.session] = metered[b.session] \/ metered'[b.session].status = "gone"
    BY <1>2, <2>1 DEF MetersGo
  <2> QED
    BY <2>1, <2>2 DEF MeterRefutes, Known
<1> QED
  BY <1>1, <1>2

LEMMA PreflightStays ==
  ASSUME MetersGo, NEW r, NEW b, b.session \in Meter => metered[b.session].status # "none",
         ~PreflightFails(r, b)
  PROVE  ~PreflightFails(r, b)'
<1>1. ~MeterRefutes(b) => ~MeterRefutes(b)'
  BY MetersLetPass
<1>2. ~PhysicalErrors(r.type, b) => ~PhysicalErrors(r.type, b)'
  BY <1>1 DEF PhysicalErrors
<1> QED
  BY <1>2 DEF PreflightFails, NeedsPreflight, SchemaPasses

\* A verdict that stands does so whatever the meters do.
LEMMA VerdictStands ==
  ASSUME MetersGo, DeliveryInv, parcel.state # "ESCROWED",
         parcel'.rule = parcel.rule, parcel'.body = parcel.body, NEW v, Stands(v)
  PROVE  Stands(v)'
<1>0. PICK r, b : r = parcel.rule /\ b = parcel.body
  OBVIOUS
<1>1. r = parcel'.rule /\ b = parcel'.body
  BY <1>0
<1>2. b.session \in Meter => metered[b.session].status # "none"
  BY <1>0 DEF DeliveryInv
<1>3. ~PreflightFails(r, b) => ~PreflightFails(r, b)'
  BY <1>2, PreflightStays
<1>4. r.type \notin Reserved => (SchemaPasses(r, b)' <=> SchemaPasses(r, b))
  BY DEF SchemaPasses, PhysicalErrors
<1>5. PanelPasses(v.by, r, b)' <=> PanelPasses(v.by, r, b)
  BY DEF PanelPasses
<1> QED
  BY <1>0, <1>1, <1>3, <1>4, <1>5 DEF Stands

\* Sessions and restarts, requests that end without a verdict or come too late.
LEMMA MetersKeep ==
  ASSUME VerdictsInv, MetersGo, UNCHANGED parcel,
         \A s \in Meter : metered[s].status # "none" => metered'[s].status # "none",
         \A w \in Clerk : clerk'[w] = clerk[w] \/ clerk'[w].pc = "idle"
  PROVE  VerdictsInv'
<1>0. DeliveryInv /\ ClerkInv /\ OneVerdict /\ (Judged => Stands(parcel.verdict))
  BY DEF VerdictsInv
<1>1. DeliveryInv'
  BY <1>0 DEF DeliveryInv
<1>2. ClerkInv'
  <2> SUFFICES ASSUME NEW w \in Clerk, clerk'[w].pc # "idle"
               PROVE  /\ clerk'[w].version <= parcel'.version
                      /\ clerk'[w].version = parcel'.version =>
                           /\ parcel'.state = "DELIVERED" /\ Stands(clerk[w].verdict)'
                           /\ clerk'[w].pc = "asking" => /\ clerk'[w].verdict.by.kind = "remote"
                                                         /\ ~PreflightFails(parcel.rule, parcel.body)'
                           /\ clerk'[w].pc = "refunding" => ~clerk'[w].verdict.passed /\ parcel'.intended
    BY DEF ClerkInv
  <2>1. PICK c : c = clerk[w]
    OBVIOUS
  <2>2. clerk'[w] = c /\ c.pc # "idle" /\ c.version <= parcel.version
    BY <1>0, <2>1 DEF ClerkInv
  <2>3. ASSUME c.version = parcel.version
        PROVE  /\ parcel.state = "DELIVERED" /\ Stands(c.verdict)'
               /\ c.pc = "asking" => c.verdict.by.kind = "remote" /\ ~PreflightFails(parcel.rule, parcel.body)'
               /\ c.pc = "refunding" => ~c.verdict.passed /\ parcel.intended
    <3>1. /\ parcel.state = "DELIVERED" /\ Stands(c.verdict)
          /\ c.pc = "asking" => c.verdict.by.kind = "remote" /\ ~PreflightFails(parcel.rule, parcel.body)
          /\ c.pc = "refunding" => ~c.verdict.passed /\ parcel.intended
      BY <1>0, <2>1, <2>2, <2>3 DEF ClerkInv
    <3>2. PICK r, b, v : r = parcel.rule /\ b = parcel.body /\ v = c.verdict
      OBVIOUS
    <3>3. Stands(v)'
      BY <1>0, <3>1, <3>2, VerdictStands
    <3>4. ~PreflightFails(r, b) => ~PreflightFails(r, b)'
      BY <1>0, <3>1, <3>2, PreflightStays DEF DeliveryInv
    <3> QED
      BY <3>1, <3>2, <3>3, <3>4
  <2> QED
    BY <2>1, <2>2, <2>3
<1>3. OneVerdict'
  BY <1>0 DEF OneVerdict, Judged
<1>4. (Judged => Stands(parcel.verdict))'
  <2>1. PICK v : v = parcel.verdict
    OBVIOUS
  <2>2. Judged => parcel.state # "ESCROWED"
    BY <1>0 DEF OneVerdict, Judged, Unjudged
  <2>3. Judged => Stands(v)'
    BY <1>0, <2>1, <2>2, VerdictStands
  <2> QED
    BY <2>1, <2>3 DEF Judged
<1> QED
  BY <1>1, <1>2, <1>3, <1>4 DEF VerdictsInv

\* A save of the exchange: the copies that requests have are older.
LEMMA CopiesAge ==
  ASSUME VerdictsTypeOK, ClerkInv, parcel'.version = parcel.version + 1,
         \A w \in Clerk : clerk'[w] = clerk[w] \/ clerk'[w].pc = "idle"
  PROVE  ClerkInv'
<1>1. parcel.version \in Nat /\ \A w \in Clerk : clerk[w].version \in Nat
  BY DEF VerdictsTypeOK, Parcel, VerifyRequest
<1>2. ASSUME NEW w \in Clerk, clerk'[w].pc # "idle"
      PROVE  clerk'[w].version <= parcel'.version /\ clerk'[w].version # parcel'.version
  <2>1. clerk'[w].version <= parcel.version /\ clerk'[w].version \in Nat
    BY <1>1, <1>2 DEF ClerkInv
  <2> QED
    BY <1>1, <2>1
<1> QED
  BY <1>2 DEF ClerkInv

\* A save that leaves a verdict which stands: whatever requests have read is past.
LEMMA SavesKeep ==
  ASSUME VerdictsTypeOK, VerdictsInv, MetersGo, OneVerdict', parcel'.version = parcel.version + 1,
         parcel.state # "ESCROWED", parcel'.rule = parcel.rule, parcel'.body = parcel.body,
         \A s \in Meter : metered[s].status # "none" => metered'[s].status # "none",
         \A w \in Clerk : clerk'[w] = clerk[w] \/ clerk'[w].pc = "idle",
         parcel'.verdict = parcel.verdict \/ Stands(parcel'.verdict)
  PROVE  VerdictsInv'
<1>1. DeliveryInv /\ ClerkInv /\ (Judged => Stands(parcel.verdict))
  BY DEF VerdictsInv
<1>2. ClerkInv'
  BY <1>1, CopiesAge
<1>3. DeliveryInv'
  BY <1>1 DEF DeliveryInv
<1>4. PICK v : v = parcel'.verdict
  OBVIOUS
<1>5. v.by.kind # "none" => Stands(v)
  BY <1>1, <1>4 DEF Judged
<1>6. v.by.kind # "none" => Stands(v)'
  BY <1>1, <1>5, VerdictStands
<1> QED
  BY <1>2, <1>3, <1>4, <1>6 DEF VerdictsInv, Judged

\* The first verdict of a request stands.
LEMMA JudgedRight ==
  ASSUME VerdictsTypeOK, parcel.state = "DELIVERED", NEW passed \in BOOLEAN,
         NEW remote \in BOOLEAN,
         remote <=> shop.kind = "remote" /\ ~PreflightFails(parcel.rule, parcel.body),
         passed <=> ~remote /\ Passes(shop, parcel.rule, parcel.body)
  PROVE  /\ Stands(Enriched(passed)) /\ Enriched(passed) \in Verdict
         /\ Enriched(passed).by.kind = shop.kind
<1>0. /\ shop \in Shop /\ shop.kind \in Builtin /\ parcel.rule.schema \in BOOLEAN
  BY VerdictsAssumption DEF VerdictsTypeOK, Parcel
<1>1. Enriched(passed) = [passed |-> passed, by |-> shop, inline |-> parcel.rule.schema]
  BY DEF Enriched, Audit
<1>2. PICK v : v = Enriched(passed)
  OBVIOUS
<1>3. v.passed = passed /\ v.by = shop /\ v.inline = parcel.rule.schema /\ v \in Verdict
  BY <1>0, <1>1, <1>2 DEF Verdict
<1>4. passed /\ shop.kind # "accept-all" => ~PreflightFails(parcel.rule, parcel.body)
  BY <1>0 DEF Passes, PreflightFails, Builtin
<1>5. ~passed /\ shop.kind = "schema" => ~SchemaPasses(parcel.rule, parcel.body)
  BY DEF Passes
<1>6. passed /\ shop.kind = "panel" => PanelPasses(shop, parcel.rule, parcel.body)
  BY DEF Passes
<1> QED
  BY <1>0, <1>2, <1>3, <1>4, <1>5, <1>6 DEF Stands

LEMMA ParcelFacts ==
  ASSUME NEW p \in Parcel
  PROVE  /\ p.version \in Nat
         /\ \A b \in Goods : [p EXCEPT !.state = "DELIVERED", !.body = b, !.version = @ + 1] \in Parcel
         /\ [p EXCEPT !.state = "OTHER", !.version = @ + 1] \in Parcel
         /\ [p EXCEPT !.version = @ + 1] \in Parcel
         /\ [p EXCEPT !.intended = TRUE, !.version = @ + 1] \in Parcel
         /\ [p EXCEPT !.state = "OTHER", !.intended = TRUE, !.version = @ + 1] \in Parcel
         /\ \A v \in Verdict : [p EXCEPT !.verdict = v, !.intended = TRUE, !.version = @ + 1] \in Parcel
         /\ \A v \in Verdict : [p EXCEPT !.state = "VERIFIED", !.verdict = v, !.version = @ + 1] \in Parcel
         /\ \A v \in Verdict : [p EXCEPT !.state = "REJECTED", !.verdict = v, !.version = @ + 1] \in Parcel
<1>1. p.version \in Nat /\ p.version + 1 \in Nat
  BY DEF Parcel
<1>2. ASSUME NEW b \in Goods PROVE [p EXCEPT !.state = "DELIVERED", !.body = b, !.version = @ + 1] \in Parcel
  BY <1>1 DEF Parcel
<1>3. [p EXCEPT !.state = "OTHER", !.version = @ + 1] \in Parcel
  BY <1>1 DEF Parcel
<1>4. [p EXCEPT !.version = @ + 1] \in Parcel
  BY <1>1 DEF Parcel
<1>5. [p EXCEPT !.intended = TRUE, !.version = @ + 1] \in Parcel
  BY <1>1 DEF Parcel
<1>6. [p EXCEPT !.state = "OTHER", !.intended = TRUE, !.version = @ + 1] \in Parcel
  BY <1>1 DEF Parcel
<1>7. ASSUME NEW v \in Verdict PROVE [p EXCEPT !.verdict = v, !.intended = TRUE, !.version = @ + 1] \in Parcel
  BY <1>1 DEF Parcel
<1>8. ASSUME NEW v \in Verdict
      PROVE  [p EXCEPT !.state = "VERIFIED", !.verdict = v, !.version = @ + 1] \in Parcel
  BY <1>1 DEF Parcel
<1>9. ASSUME NEW v \in Verdict
      PROVE  [p EXCEPT !.state = "REJECTED", !.verdict = v, !.version = @ + 1] \in Parcel
  BY <1>1 DEF Parcel
<1> QED
  BY <1>1, <1>2, <1>3, <1>4, <1>5, <1>6, <1>7, <1>8, <1>9

LEMMA VerdictTypes ==
  ASSUME VerdictsTypeOK, VerdictsNext
  PROVE  VerdictsTypeOK'
<1>0. /\ shop \in Shop /\ metered \in [Meter -> Charge] /\ parcel \in Parcel
      /\ clerk \in [Clerk -> VerifyRequest] /\ shops \in Nat
  BY DEF VerdictsTypeOK
<1>1. ASSUME NEW s \in Meter, OpenSession(s) PROVE VerdictsTypeOK'
  BY <1>0, <1>1 DEF OpenSession, VerdictsTypeOK, Charge
<1>2. ASSUME NEW s \in Meter, NEW k \in Kwh, CompleteSession(s, k) PROVE VerdictsTypeOK'
  BY <1>0, <1>2 DEF CompleteSession, VerdictsTypeOK, Charge
<1>3. ASSUME NEW b \in Goods, Deliver(b) PROVE VerdictsTypeOK'
  BY <1>0, <1>3, ParcelFacts DEF Deliver, VerdictsTypeOK
<1>4. ASSUME NEW w \in Clerk, BeginVerify(w) PROVE VerdictsTypeOK'
  <2>1. parcel.version \in Nat /\ parcel.state = "DELIVERED"
    BY <1>0, <1>4 DEF BeginVerify, Parcel
  <2> DEFINE remote == shop.kind = "remote" /\ ~PreflightFails(parcel.rule, parcel.body)
             passed == ~remote /\ Passes(shop, parcel.rule, parcel.body)
             pc == IF remote THEN "asking" ELSE "judged"
             c == [pc |-> pc, version |-> parcel.version, verdict |-> Enriched(passed)]
  <2>2. clerk' = [clerk EXCEPT ![w] = c] /\ UNCHANGED <<shop, metered, parcel, shops>>
    BY <1>4 DEF BeginVerify
  <2>3. remote \in BOOLEAN /\ passed \in BOOLEAN /\ pc \in {"asking", "judged"}
    OBVIOUS
  <2>4. Enriched(passed) \in Verdict
    BY <2>1, <2>3, JudgedRight
  <2>5. c \in VerifyRequest
    BY <2>1, <2>3, <2>4 DEF VerifyRequest
  <2> QED
    BY <1>0, <2>2, <2>5 DEF VerdictsTypeOK
<1>5. ASSUME NEW w \in Clerk, NEW passed \in BOOLEAN, JudgeAnswers(w, passed) PROVE VerdictsTypeOK'
  <2>1. clerk[w] \in VerifyRequest
    BY <1>0
  <2>2. [clerk[w] EXCEPT !.pc = "judged", !.verdict.passed = passed] \in VerifyRequest
    BY <2>1 DEF VerifyRequest, Verdict
  <2>3. clerk' = [clerk EXCEPT ![w] = [clerk[w] EXCEPT !.pc = "judged", !.verdict.passed = passed]]
    BY <1>0, <1>5 DEF JudgeAnswers
  <2> QED
    BY <1>0, <1>5, <2>2, <2>3 DEF JudgeAnswers, VerdictsTypeOK
<1>6. Unoccupied \in VerifyRequest
  BY DEF Unoccupied, Unjudged, VerifyRequest, Verdict
<1>7. ASSUME NEW w \in Clerk, JudgeFails(w) PROVE VerdictsTypeOK'
  BY <1>0, <1>6, <1>7 DEF JudgeFails, VerdictsTypeOK
<1>b. \A w \in Clerk : clerk[w].verdict \in Verdict
  BY <1>0 DEF VerifyRequest
<1>8. ASSUME NEW w \in Clerk, StorePass(w) PROVE VerdictsTypeOK'
  BY <1>0, <1>6, <1>8, <1>b, ParcelFacts DEF StorePass, VerdictsTypeOK
<1>9. ASSUME NEW w \in Clerk, StoreRefusal(w) PROVE VerdictsTypeOK'
  <2>1. PICK v \in Verdict : v = clerk[w].verdict
    BY <1>b
  <2>2. [parcel EXCEPT !.verdict = v, !.intended = TRUE, !.version = @ + 1] \in Parcel
    BY <1>0, ParcelFacts
  <2>6. parcel.version + 1 \in Nat
    BY <1>0 DEF Parcel
  <2>3. [clerk[w] EXCEPT !.pc = "refunding", !.version = parcel.version + 1] \in VerifyRequest
    BY <1>0, <2>6 DEF VerifyRequest
  <2>4. CASE Fresh(w)
    <3>1. clerk' = [clerk EXCEPT ![w] = [clerk[w] EXCEPT !.pc = "refunding", !.version = parcel.version + 1]]
      BY <1>0, <1>9, <2>4 DEF StoreRefusal
    <3> QED
      BY <1>0, <1>9, <2>1, <2>2, <2>3, <2>4, <3>1 DEF StoreRefusal, VerdictsTypeOK
  <2>5. CASE ~Fresh(w)
    BY <1>0, <1>6, <1>9, <2>5 DEF StoreRefusal, VerdictsTypeOK
  <2> QED
    BY <2>4, <2>5
<1>10. ASSUME NEW w \in Clerk, RefundFails(w) PROVE VerdictsTypeOK'
  BY <1>0, <1>6, <1>10 DEF RefundFails, VerdictsTypeOK
<1>11. ASSUME NEW w \in Clerk, Reject(w) PROVE VerdictsTypeOK'
  BY <1>0, <1>6, <1>11, <1>b, ParcelFacts DEF Reject, VerdictsTypeOK
<1>12. CASE Overtaken
  BY <1>0, <1>12, ParcelFacts DEF Overtaken, VerdictsTypeOK
<1>13. ASSUME NEW s \in Shop, Reopen(s) PROVE VerdictsTypeOK'
  <2>1. metered' \in [Meter -> Charge]
    BY <1>0, <1>13 DEF Reopen, Charge
  <2>2. parcel' \in Parcel
    BY <1>0, <1>13, ParcelFacts DEF Reopen, Recovered
  <2> QED
    BY <1>0, <1>6, <1>13, <2>1, <2>2 DEF Reopen, VerdictsTypeOK
<1> QED
  BY <1>1, <1>2, <1>3, <1>4, <1>5, <1>7, <1>8, <1>9, <1>10, <1>11, <1>12, <1>13 DEF VerdictsNext

LEMMA VerdictsKeep ==
  ASSUME VerdictsTypeOK, VerdictsInv, [VerdictsNext]_verdictVars
  PROVE  VerdictsInv'
<1>0. /\ DeliveryInv /\ ClerkInv /\ OneVerdict /\ (Judged => Stands(parcel.verdict))
      /\ metered \in [Meter -> Charge] /\ parcel \in Parcel /\ clerk \in [Clerk -> VerifyRequest]
      /\ parcel.version \in Nat
  BY DEF VerdictsInv, VerdictsTypeOK, Parcel
<1>a. Unoccupied.pc = "idle"
  BY DEF Unoccupied
<1>1. ASSUME NEW s \in Meter, OpenSession(s) PROVE VerdictsInv'
  BY <1>0, <1>1, MetersKeep DEF OpenSession, MetersGo
<1>2. ASSUME NEW s \in Meter, NEW k \in Kwh, CompleteSession(s, k) PROVE VerdictsInv'
  BY <1>0, <1>2, MetersKeep DEF CompleteSession, MetersGo
<1>3. ASSUME NEW b \in Goods, Deliver(b) PROVE VerdictsInv'
  <2>1. /\ parcel.state = "ESCROWED" /\ parcel'.state = "DELIVERED" /\ parcel'.body = b
        /\ parcel'.verdict = parcel.verdict /\ parcel'.version = parcel.version + 1
        /\ b.session \in Meter => metered[b.session].status # "none"
        /\ UNCHANGED <<shop, metered, clerk, shops>>
    BY <1>0, <1>3 DEF Deliver, Parcel
  <2>2. ClerkInv'
    BY <1>0, <2>1, CopiesAge
  <2>3. DeliveryInv'
    BY <2>1 DEF DeliveryInv
  <2>4. OneVerdict' /\ ~Judged'
    BY <1>0, <2>1 DEF OneVerdict, Judged, Unjudged
  <2> QED
    BY <2>2, <2>3, <2>4 DEF VerdictsInv
<1>4. ASSUME NEW w \in Clerk, BeginVerify(w) PROVE VerdictsInv'
  <2> DEFINE remote == shop.kind = "remote" /\ ~PreflightFails(parcel.rule, parcel.body)
             passed == ~remote /\ Passes(shop, parcel.rule, parcel.body)
             c == [pc |-> IF remote THEN "asking" ELSE "judged",
                   version |-> parcel.version, verdict |-> Enriched(passed)]
  <2>1. /\ parcel.state = "DELIVERED" /\ clerk' = [clerk EXCEPT ![w] = c]
        /\ UNCHANGED <<shop, metered, parcel, shops>>
    BY <1>4 DEF BeginVerify
  <2>2. remote \in BOOLEAN /\ passed \in BOOLEAN
    OBVIOUS
  <2>3. Stands(Enriched(passed)) /\ Enriched(passed).by.kind = shop.kind
    BY <2>1, <2>2, JudgedRight
  <2>4. PICK d : d = c
    OBVIOUS
  <2>5. /\ d.version = parcel.version /\ Stands(d.verdict) /\ d.pc # "refunding"
        /\ d.pc = "asking" => d.verdict.by.kind = "remote" /\ ~PreflightFails(parcel.rule, parcel.body)
    BY <2>3, <2>4
  <2>6. clerk'[w] = d /\ \A u \in Clerk \ {w} : clerk'[u] = clerk[u]
    BY <1>0, <2>1, <2>4
  <2> HIDE DEF remote, passed, c
  <2>7. Stands(d.verdict)' /\ (PreflightFails(parcel.rule, parcel.body)' <=> PreflightFails(parcel.rule, parcel.body))
    BY <2>1, <2>5 DEF Stands, PreflightFails, SchemaPasses, PhysicalErrors, MeterRefutes, Known, PanelPasses
  <2>8. ASSUME NEW u \in Clerk, u # w, NEW e, e = clerk[u], e.pc # "idle"
        PROVE  /\ e.version <= parcel'.version
               /\ e.version = parcel'.version =>
                    /\ parcel'.state = "DELIVERED" /\ Stands(e.verdict)'
                    /\ e.pc = "asking" => e.verdict.by.kind = "remote" /\ ~PreflightFails(parcel.rule, parcel.body)'
                    /\ e.pc = "refunding" => ~e.verdict.passed /\ parcel'.intended
    <3>1. /\ e.version <= parcel.version
          /\ e.version = parcel.version =>
               /\ parcel.state = "DELIVERED" /\ Stands(e.verdict)
               /\ e.pc = "asking" => e.verdict.by.kind = "remote" /\ ~PreflightFails(parcel.rule, parcel.body)
               /\ e.pc = "refunding" => ~e.verdict.passed /\ parcel.intended
      BY <1>0, <2>8 DEF ClerkInv
    <3>2. Stands(e.verdict)' <=> Stands(e.verdict)
      BY <2>1 DEF Stands, PreflightFails, SchemaPasses, PhysicalErrors, MeterRefutes, Known, PanelPasses
    <3> QED
      BY <2>1, <2>7, <3>1, <3>2
  <2>9. ClerkInv'
    <3>1. ASSUME NEW u \in Clerk, clerk'[u].pc # "idle"
          PROVE  /\ clerk'[u].version <= parcel'.version
                 /\ clerk'[u].version = parcel'.version =>
                      /\ parcel'.state = "DELIVERED" /\ Stands(clerk[u].verdict)'
                      /\ clerk'[u].pc = "asking" => /\ clerk'[u].verdict.by.kind = "remote"
                                                    /\ ~PreflightFails(parcel.rule, parcel.body)'
                      /\ clerk'[u].pc = "refunding" => ~clerk'[u].verdict.passed /\ parcel'.intended
      <4>1. CASE u = w
        BY <1>0, <2>1, <2>5, <2>6, <2>7, <4>1
      <4>2. CASE u # w
        BY <2>6, <2>8, <3>1, <4>2
      <4> QED
        BY <4>1, <4>2
    <3> QED
      BY <3>1 DEF ClerkInv
  <2>10. DeliveryInv' /\ OneVerdict' /\ (Judged => Stands(parcel.verdict))'
    BY <1>0, <2>1 DEF DeliveryInv, OneVerdict, Judged, Stands, PreflightFails, SchemaPasses,
                      PhysicalErrors, MeterRefutes, Known, PanelPasses
  <2> QED
    BY <2>9, <2>10 DEF VerdictsInv
<1>5. ASSUME NEW w \in Clerk, NEW passed \in BOOLEAN, JudgeAnswers(w, passed) PROVE VerdictsInv'
  <2>1. clerk[w].pc = "asking" /\ UNCHANGED <<shop, metered, parcel, shops>>
    BY <1>5 DEF JudgeAnswers
  <2>2. PICK c : c = clerk[w]
    OBVIOUS
  <2>3. PICK d : d = [c EXCEPT !.pc = "judged", !.verdict.passed = passed]
    OBVIOUS
  <2>4. c \in VerifyRequest /\ clerk'[w] = d /\ \A u \in Clerk \ {w} : clerk'[u] = clerk[u]
    BY <1>0, <1>5, <2>2, <2>3 DEF JudgeAnswers
  <2>5. /\ d.version = c.version /\ d.pc = "judged" /\ d.verdict.by = c.verdict.by
        /\ d.verdict.inline = c.verdict.inline /\ d.verdict.passed = passed
    BY <2>3, <2>4 DEF VerifyRequest, Verdict
  <2>6. /\ d.version <= parcel.version
        /\ d.version = parcel.version => parcel.state = "DELIVERED" /\ Stands(d.verdict)
    BY <1>0, <2>1, <2>2, <2>5 DEF ClerkInv, Stands
  <2>7. PICK v : v = d.verdict
    OBVIOUS
  <2>8. \A u \in Clerk : clerk[u] = clerk[u] /\ MetersGo
    BY <2>1 DEF MetersGo
  <2>9. d.version = parcel.version => Stands(v)'
    BY <1>0, <2>1, <2>6, <2>7, <2>8, VerdictStands
  <2>10. ASSUME NEW u \in Clerk, u # w, NEW e, e = clerk[u], e.pc # "idle"
        PROVE  /\ e.version <= parcel'.version
               /\ e.version = parcel'.version =>
                    /\ parcel'.state = "DELIVERED" /\ Stands(e.verdict)'
                    /\ e.pc = "asking" => e.verdict.by.kind = "remote" /\ ~PreflightFails(parcel.rule, parcel.body)'
                    /\ e.pc = "refunding" => ~e.verdict.passed /\ parcel'.intended
    <3>1. /\ e.version <= parcel.version
          /\ e.version = parcel.version =>
               /\ parcel.state = "DELIVERED" /\ Stands(e.verdict)
               /\ e.pc = "asking" => e.verdict.by.kind = "remote" /\ ~PreflightFails(parcel.rule, parcel.body)
               /\ e.pc = "refunding" => ~e.verdict.passed /\ parcel.intended
      BY <1>0, <2>10 DEF ClerkInv
    <3>2. Stands(e.verdict)' <=> Stands(e.verdict)
      BY <2>1 DEF Stands, PreflightFails, SchemaPasses, PhysicalErrors, MeterRefutes, Known, PanelPasses
    <3>3. PreflightFails(parcel.rule, parcel.body)' <=> PreflightFails(parcel.rule, parcel.body)
      BY <2>1 DEF PreflightFails, SchemaPasses, PhysicalErrors, MeterRefutes, Known
    <3> QED
      BY <2>1, <3>1, <3>2, <3>3
  <2>11. ClerkInv'
    BY <1>0, <2>1, <2>4, <2>5, <2>6, <2>7, <2>9, <2>10 DEF ClerkInv
  <2>12. DeliveryInv' /\ OneVerdict' /\ (Judged => Stands(parcel.verdict))'
    BY <1>0, <2>1 DEF DeliveryInv, OneVerdict, Judged, Stands, PreflightFails, SchemaPasses,
                      PhysicalErrors, MeterRefutes, Known, PanelPasses
  <2> QED
    BY <2>11, <2>12 DEF VerdictsInv
<1>6. ASSUME NEW w \in Clerk, JudgeFails(w) PROVE VerdictsInv'
  BY <1>0, <1>6, <1>a, MetersKeep DEF JudgeFails, MetersGo
<1>b. UNCHANGED metered => MetersGo
  BY DEF MetersGo
<1>c. ASSUME NEW w \in Clerk, clerk[w].pc # "idle", Fresh(w), NEW v, v = clerk[w].verdict
      PROVE  parcel.state = "DELIVERED" /\ Stands(v) /\ v \in Verdict /\ v.by.kind # "none"
  <2>1. parcel.state = "DELIVERED" /\ Stands(v) /\ v \in Verdict
    BY <1>0, <1>c DEF ClerkInv, Fresh, VerifyRequest
  <2>2. v.by \in Shop
    BY <2>1 DEF Stands
  <2> QED
    BY <2>1, <2>2, VerdictsAssumption DEF Builtin
<1>7. ASSUME NEW w \in Clerk, StorePass(w) PROVE VerdictsInv'
  <2>1. /\ clerk[w].pc = "judged" /\ clerk[w].verdict.passed /\ UNCHANGED <<shop, metered, shops>>
        /\ \A u \in Clerk : clerk'[u] = clerk[u] \/ clerk'[u].pc = "idle"
    BY <1>0, <1>7, <1>a DEF StorePass
  <2>2. CASE ~Fresh(w)
    BY <1>7, <1>b, <2>1, <2>2, MetersKeep DEF StorePass
  <2>3. CASE Fresh(w)
    <3>1. PICK v : v = clerk[w].verdict
      OBVIOUS
    <3>2. parcel.state = "DELIVERED" /\ Stands(v) /\ v.by.kind # "none" /\ v.passed
      BY <1>c, <2>1, <2>3, <3>1
    <3>3. /\ parcel'.state = "VERIFIED" /\ parcel'.verdict = v /\ parcel'.version = parcel.version + 1
          /\ parcel'.rule = parcel.rule /\ parcel'.body = parcel.body
      BY <1>0, <1>7, <2>3, <3>1 DEF StorePass, Parcel
    <3>4. OneVerdict'
      BY <3>2, <3>3 DEF OneVerdict, Judged
    <3> QED
      BY <1>b, <2>1, <3>2, <3>3, <3>4, SavesKeep
  <2> QED
    BY <2>2, <2>3
<1>8. ASSUME NEW w \in Clerk, StoreRefusal(w) PROVE VerdictsInv'
  <2>1. clerk[w].pc = "judged" /\ ~clerk[w].verdict.passed /\ UNCHANGED <<shop, metered, shops>>
    BY <1>8 DEF StoreRefusal
  <2>2. CASE ~Fresh(w)
    <3>1. UNCHANGED parcel /\ \A u \in Clerk : clerk'[u] = clerk[u] \/ clerk'[u].pc = "idle"
      BY <1>0, <1>8, <1>a, <2>2 DEF StoreRefusal
    <3> QED
      BY <1>b, <2>1, <3>1, MetersKeep
  <2>3. CASE Fresh(w)
    <3>1. PICK v : v = clerk[w].verdict
      OBVIOUS
    <3>2. parcel.state = "DELIVERED" /\ Stands(v) /\ v.by.kind # "none" /\ ~v.passed
      BY <1>c, <2>1, <2>3, <3>1
    <3>3. /\ parcel'.state = "DELIVERED" /\ parcel'.verdict = v /\ parcel'.version = parcel.version + 1
          /\ parcel'.rule = parcel.rule /\ parcel'.body = parcel.body /\ parcel'.intended
      BY <1>0, <1>8, <2>3, <3>1, <3>2 DEF StoreRefusal, Parcel
    <3>4. PICK d : d = [clerk[w] EXCEPT !.pc = "refunding", !.version = parcel.version + 1]
      OBVIOUS
    <3>5. /\ clerk'[w] = d /\ \A u \in Clerk \ {w} : clerk'[u] = clerk[u]
          /\ d.pc = "refunding" /\ d.version = parcel'.version /\ d.verdict = v
      BY <1>0, <1>8, <2>3, <3>1, <3>3, <3>4 DEF StoreRefusal, VerifyRequest
    <3>6. Stands(v)'
      BY <1>0, <1>b, <2>1, <3>2, <3>3, VerdictStands
    <3>7. ASSUME NEW u \in Clerk, u # w, clerk[u].pc # "idle"
          PROVE  clerk[u].version <= parcel'.version /\ clerk[u].version # parcel'.version
      <4>1. clerk[u].version <= parcel.version /\ clerk[u].version \in Nat
        BY <1>0, <3>7 DEF ClerkInv, VerifyRequest
      <4> QED
        BY <1>0, <3>3, <4>1
    <3>8. ClerkInv'
      <4>1. ASSUME NEW u \in Clerk, clerk'[u].pc # "idle"
            PROVE  /\ clerk'[u].version <= parcel'.version
                   /\ clerk'[u].version = parcel'.version =>
                        /\ parcel'.state = "DELIVERED" /\ Stands(clerk[u].verdict)'
                        /\ clerk'[u].pc = "asking" => /\ clerk'[u].verdict.by.kind = "remote"
                                                      /\ ~PreflightFails(parcel.rule, parcel.body)'
                        /\ clerk'[u].pc = "refunding" => ~clerk'[u].verdict.passed /\ parcel'.intended
        <5>1. CASE u = w
          <6>1. parcel'.version \in Nat
            BY <1>0, <3>3
          <6> QED
            BY <3>2, <3>3, <3>5, <3>6, <5>1, <6>1
        <5>2. CASE u # w
          BY <3>5, <3>7, <4>1, <5>2
        <5> QED
          BY <5>1, <5>2
      <4> QED
        BY <4>1 DEF ClerkInv
    <3>9. DeliveryInv'
      BY <1>0, <2>1, <3>2, <3>3 DEF DeliveryInv
    <3>10. OneVerdict'
      BY <3>2, <3>3 DEF OneVerdict, Judged
    <3> QED
      BY <3>3, <3>6, <3>8, <3>9, <3>10 DEF VerdictsInv
  <2> QED
    BY <2>2, <2>3
<1>9. ASSUME NEW w \in Clerk, RefundFails(w) PROVE VerdictsInv'
  BY <1>0, <1>9, <1>a, MetersKeep DEF RefundFails, MetersGo
<1>10. ASSUME NEW w \in Clerk, Reject(w) PROVE VerdictsInv'
  <2>1. /\ clerk[w].pc = "refunding" /\ UNCHANGED <<shop, metered, shops>>
        /\ \A u \in Clerk : clerk'[u] = clerk[u] \/ clerk'[u].pc = "idle"
    BY <1>0, <1>10, <1>a DEF Reject
  <2>2. CASE ~Fresh(w)
    BY <1>10, <1>b, <2>1, <2>2, MetersKeep DEF Reject
  <2>3. CASE Fresh(w)
    <3>1. PICK v : v = clerk[w].verdict
      OBVIOUS
    <3>2. parcel.state = "DELIVERED" /\ Stands(v) /\ v.by.kind # "none"
      BY <1>c, <2>1, <2>3, <3>1
    <3>3. ~v.passed /\ parcel.intended
      BY <1>0, <2>1, <2>3, <3>1 DEF ClerkInv, Fresh
    <3>4. /\ parcel'.state = "REJECTED" /\ parcel'.verdict = v /\ parcel'.version = parcel.version + 1
          /\ parcel'.rule = parcel.rule /\ parcel'.body = parcel.body /\ parcel'.intended = parcel.intended
      BY <1>0, <1>10, <2>3, <3>1 DEF Reject, Parcel
    <3>5. OneVerdict'
      BY <3>2, <3>3, <3>4 DEF OneVerdict, Judged
    <3> QED
      BY <1>b, <2>1, <3>2, <3>4, <3>5, SavesKeep
  <2> QED
    BY <2>2, <2>3
<1>11. CASE Overtaken
  <2>1. /\ parcel.state = "DELIVERED" /\ parcel'.state \in {"OTHER", "DELIVERED"} /\ parcel'.body = parcel.body
        /\ parcel'.rule = parcel.rule /\ parcel'.verdict = parcel.verdict /\ parcel'.intended
        /\ parcel'.version = parcel.version + 1 /\ UNCHANGED <<shop, metered, clerk, shops>>
    BY <1>0, <1>11 DEF Overtaken, Parcel
  <2>2. OneVerdict'
    BY <1>0, <2>1 DEF OneVerdict, Judged
  <2> QED
    BY <1>b, <2>1, <2>2, SavesKeep
<1>12. ASSUME NEW s \in Shop, Reopen(s) PROVE VerdictsInv'
  <2>1. /\ parcel' \in Recovered /\ \A w \in Clerk : clerk'[w].pc = "idle"
        /\ \A t \in Meter : metered'[t] = IF metered[t].status = "none" THEN metered[t]
                                          ELSE [status |-> "gone", kwh |-> 0]
    BY <1>12, <1>a DEF Reopen
  <2>2. \A t \in Meter : metered[t].status # "none" => metered'[t].status = "gone"
    BY <2>1
  <2>3. MetersGo
    BY <2>2, <2>1 DEF MetersGo
  <2>4. CASE UNCHANGED parcel
    BY <2>1, <2>2, <2>3, <2>4, MetersKeep
  <2>5. CASE parcel' # parcel
    <3>1. /\ parcel.intended /\ parcel.state \in {"DELIVERED", "VERIFIED"}
          /\ \/ parcel' = [parcel EXCEPT !.state = "OTHER", !.version = @ + 1]
             \/ parcel' = [parcel EXCEPT !.version = @ + 1]
      BY <2>1, <2>5 DEF Recovered
    <3>2. /\ parcel'.state \in {"OTHER", parcel.state} /\ parcel'.body = parcel.body
          /\ parcel'.rule = parcel.rule /\ parcel'.verdict = parcel.verdict
          /\ parcel'.intended = parcel.intended /\ parcel'.version = parcel.version + 1
      BY <1>0, <3>1 DEF Parcel
    <3>3. OneVerdict'
      BY <1>0, <3>1, <3>2 DEF OneVerdict, Judged
    <3> QED
      BY <2>1, <2>2, <2>3, <3>1, <3>2, <3>3, SavesKeep
  <2> QED
    BY <2>4, <2>5
<1>13. CASE UNCHANGED verdictVars
  BY <1>13, MetersKeep DEF verdictVars, MetersGo
<1> QED
  BY <1>1, <1>2, <1>3, <1>4, <1>5, <1>6, <1>7, <1>8, <1>9, <1>10, <1>11, <1>12, <1>13 DEF VerdictsNext

\* What a panel lets pass has its members behind it.
LEMMA PanelAgrees ==
  ASSUME NEW s \in Shop, s.kind = "panel", NEW r, NEW b, PanelPasses(s, r, b), NEW content,
         content = {i \in DOMAIN s.panel : Opinion(s.panel[i], r, b)}
  PROVE  IF StrategyOf(s) = "unanimous" THEN DOMAIN s.panel \ content = {}
         ELSE Cardinality(content) > Cardinality(DOMAIN s.panel \ content)
<1> DEFINE n == Len(s.panel)
           votes == [i \in DOMAIN s.panel |-> Opinion(s.panel[i], r, b)]
<1>1. n \in Nat /\ DOMAIN s.panel = 1 .. n
  BY VerdictsAssumption
<1>2. DOMAIN votes = 1 .. n /\ votes \in [1 .. n -> BOOLEAN]
  BY <1>1 DEF Opinion
<1>3. {i \in DOMAIN votes : votes[i]} = content
  BY <1>1
<1>4. Consensus(StrategyOf(s), votes)
  BY DEF PanelPasses
<1> HIDE DEF votes
<1>5. CASE StrategyOf(s) = "majority"
  <2>1. 2 * Cardinality(content) > Len(votes)
    BY <1>3, <1>4, <1>5 DEF Consensus
  <2>2. votes \in Seq(BOOLEAN)
    BY <1>1, <1>2, SeqDef
  <2>3. Len(votes) \in Nat /\ DOMAIN votes = 1 .. Len(votes)
    BY <2>2, LenProperties
  <2>4. Len(votes) = n
    BY <1>1, <1>2, <2>3
  <2>5. IsFiniteSet(1 .. n) /\ Cardinality(1 .. n) = n
    BY <1>1, FS_Interval
  <2>6. content \in SUBSET (1 .. n) /\ content = (1 .. n) \cap content
    BY <1>1
  <2>7. Cardinality((1 .. n) \ content) = n - Cardinality(content)
    <3>1. Cardinality((1 .. n) \ content) = Cardinality(1 .. n) - Cardinality((1 .. n) \cap content)
      BY <2>5, FS_Difference
    <3> QED
      BY <2>5, <2>6, <3>1
  <2>8. IsFiniteSet(content) /\ Cardinality(content) \in Nat
    BY <2>5, <2>6, FS_Subset, FS_CardinalityType
  <2> QED
    BY <1>1, <1>5, <2>1, <2>4, <2>7, <2>8
<1>6. CASE StrategyOf(s) = "unanimous"
  <2>1. content = 1 .. n
    BY <1>2, <1>3, <1>4, <1>6 DEF Consensus
  <2>2. DOMAIN s.panel \ content = {}
    BY <1>1, <2>1
  <2> QED
    BY <2>2, <1>6
<1>7. StrategyOf(s) \in {"unanimous", "majority"}
  BY VerdictsAssumption DEF StrategyOf
<1> QED
  BY <1>5, <1>6, <1>7

\* exchange.py verify, verifier.py, reverify.py, iso15118_sim.py, llm_consensus.py: for any
\* number of verify requests, verifiers, panels, rules, deliveries and sessions, with
\* restarts and with judges that answer late, a delivery gets one verdict, which those who
\* judge again, the meters that the node remembers and the members of the panel confirm.
THEOREM VerdictsAlwaysSound == VerdictsSpec => []VerdictsAreSound
<1>1. VerdictsInit => VerdictsTypeOK /\ VerdictsInv
  <2>1. SUFFICES ASSUME VerdictsInit PROVE VerdictsTypeOK /\ VerdictsInv
    OBVIOUS
  <2>2. Unjudged \in Verdict /\ Unoccupied \in VerifyRequest /\ Unoccupied.pc = "idle"
    BY DEF Unjudged, Unoccupied, Verdict, VerifyRequest
  <2>3. PICK r \in RuleSet : parcel = [state |-> "ESCROWED", rule |-> r, body |-> NoBody,
                                       verdict |-> Unjudged, intended |-> FALSE, version |-> 0]
    BY <2>1 DEF VerdictsInit
  <2>4. parcel \in Parcel /\ parcel.state = "ESCROWED" /\ parcel.verdict = Unjudged
    BY <2>2, <2>3 DEF Parcel
  <2>5. metered \in [Meter -> Charge]
    BY <2>1 DEF VerdictsInit, Charge
  <2>6. VerdictsTypeOK
    BY <2>1, <2>2, <2>4, <2>5 DEF VerdictsTypeOK, VerdictsInit
  <2>7. \A w \in Clerk : clerk[w].pc = "idle"
    BY <2>1, <2>2 DEF VerdictsInit
  <2>8. Unjudged.by.kind = "none" /\ ~Unjudged.passed
    BY DEF Unjudged
  <2> QED
    BY <2>4, <2>6, <2>7, <2>8 DEF VerdictsInv, DeliveryInv, ClerkInv, OneVerdict, Judged
<1>2. VerdictsTypeOK /\ VerdictsInv /\ [VerdictsNext]_verdictVars => VerdictsTypeOK' /\ VerdictsInv'
  <2>1. ASSUME VerdictsTypeOK, UNCHANGED verdictVars PROVE VerdictsTypeOK'
    BY <2>1 DEF VerdictsTypeOK, verdictVars
  <2> QED
    BY <2>1, VerdictTypes, VerdictsKeep
<1>3. VerdictsTypeOK /\ VerdictsInv => VerdictsAreSound
  <2>1. SUFFICES ASSUME VerdictsTypeOK, VerdictsInv PROVE VerdictsAreSound
    OBVIOUS
  <2>2. PICK v : v = parcel.verdict
    OBVIOUS
  <2>8. Judged => parcel.state # "ESCROWED"
    BY <2>1 DEF VerdictsInv, OneVerdict, Judged, Unjudged
  <2>3. Judged => /\ Stands(v) /\ v.passed \in BOOLEAN /\ parcel.body \in Goods
                  /\ parcel.body.fits \in BOOLEAN /\ parcel.rule.schema \in BOOLEAN
    BY <2>1, <2>2, <2>8, VerdictsAssumption
       DEF VerdictsInv, VerdictsTypeOK, Parcel, Verdict, DeliveryInv
  <2>4. OneVerdict
    BY <2>1 DEF VerdictsInv
  <2>5. ReplayAgrees
    BY <2>2, <2>3 DEF ReplayAgrees, Checked, ReplayMatches, Stands, PreflightFails, NeedsPreflight,
                      SchemaPasses, PhysicalErrors
  <2>6. MeterAgrees
    BY <2>2, <2>3 DEF MeterAgrees, Checked, Stands, PreflightFails, NeedsPreflight, SchemaPasses,
                      PhysicalErrors, Reserved
  <2>7. PanelIsHeard
    <3> SUFFICES ASSUME Checked, v.by.kind = "panel", v.passed, NEW content,
                        content = {i \in DOMAIN v.by.panel : Opinion(v.by.panel[i], parcel.rule, parcel.body)}
                 PROVE  IF StrategyOf(v.by) = "unanimous" THEN DOMAIN v.by.panel \ content = {}
                        ELSE Cardinality(content) > Cardinality(DOMAIN v.by.panel \ content)
      BY <2>2 DEF PanelIsHeard
    <3>1. v.by \in Shop /\ PanelPasses(v.by, parcel.rule, parcel.body)
      BY <2>3 DEF Checked, Stands
    <3> QED
      BY <3>1, PanelAgrees
  <2> QED
    BY <2>4, <2>5, <2>6, <2>7 DEF VerdictsAreSound
<1> QED
  BY <1>1, <1>2, <1>3, PTL DEF VerdictsSpec

---------------------------------------------------------------------------
(* The tools of an agent.                                                  *)

\* An answer keeps the reason of the failure, and the advice that is written on it.
LEMMA ClassifyFacts ==
  ASSUME NEW f
  PROVE  /\ Classify(f).ok = FALSE /\ Classify(f).why = f.why
         /\ f.code = "none" => Classify(f).retryable \in BOOLEAN
         /\ f.code # "none" => Classify(f).retryable = f.retryable
  BY DEF Classify, Told

\* Which rules speak of a conflict: the seventh, if the escrow is named.
LEMMA ConflictRules ==
  /\ DOMAIN Heuristics = 1 .. 11 /\ Heuristics[7].recovery = "escalate_human"
  /\ \A i \in 1 .. 11 : {"escrow", "conflict"} \cap Heuristics[i].any # {} => i = 7
  /\ \A i \in 1 .. 11 : {"conflict", "unknown"} \cap Heuristics[i].any # {} => i = 7
  /\ \A i \in 1 .. 11 : Heuristics[i].any = {} => i = 11
  /\ Heuristics[7].all = {"escrow"} /\ Heuristics[7].any = {"conflict", "unknown"}
  /\ Heuristics[11].all = {"mismatch", "chain"}
<1>1. DOMAIN Heuristics = 1 .. 11
  BY DEF Heuristics
<1>2. /\ Heuristics[7].recovery = "escalate_human"
      /\ Heuristics[7].all = {"escrow"} /\ Heuristics[7].any = {"conflict", "unknown"}
      /\ Heuristics[11].all = {"mismatch", "chain"} /\ Heuristics[11].any = {}
  BY DEF Heuristics, Rule
<1>3. /\ Heuristics[1].any = {"timeout", "timed_out"}
      /\ Heuristics[2].any = {"fee", "paymaster", "4337"}
      /\ Heuristics[3].any = {"balance", "sol", "vault"}
      /\ Heuristics[4].any = {"estimate", "fallback"}
      /\ Heuristics[5].any = {"stripe", "card", "payment_intent"}
      /\ Heuristics[6].any = {"rpc", "connection"}
      /\ Heuristics[8].any = {"signer_broadcast", "live_secret"}
      /\ Heuristics[9].any = {"unfilled", "no_eligible", "auction"}
      /\ Heuristics[10].any = {"deadlock", "not_all_legs", "leg_ended"}
  BY DEF Heuristics, Rule
<1>4. \A i \in 1 .. 11 : i \in {1, 2, 3, 4, 5, 6, 7, 8, 9, 10, 11}
  OBVIOUS
<1>5. \A i \in 1 .. 11 : {"escrow", "conflict"} \cap Heuristics[i].any # {} => i = 7
  BY <1>2, <1>3, <1>4
<1>6. \A i \in 1 .. 11 : {"conflict", "unknown"} \cap Heuristics[i].any # {} => i = 7
  BY <1>2, <1>3, <1>4
<1>7. \A i \in 1 .. 11 : Heuristics[i].any = {} => i = 11
  BY <1>2, <1>3, <1>4
<1> QED
  BY <1>1, <1>2, <1>5, <1>6, <1>7

\* A conflict that is reported as text is escalated, whether or not it names the escrow.
LEMMA ConflictIsEscalated ==
  ASSUME NEW e, e.code = "none", e.words = {"escrow", "conflict"} \/ e.words = {"conflict", "unknown"}
  PROVE  Classify(e).retryable = FALSE
<1>1. ASSUME NEW f, f.code = "none", f.words = {"escrow", "conflict"}
      PROVE  Classify(f).retryable = FALSE
  <2>1. \A i \in 1 .. 11 : Says(f, Heuristics[i]) <=> i = 7
    <3>1. \A i \in 1 .. 11 : Says(f, Heuristics[i]) => i = 7
      BY <1>1, ConflictRules DEF Says
    <3>2. Says(f, Heuristics[7])
      BY <1>1, ConflictRules DEF Says
    <3> QED
      BY <3>1, <3>2
  <2>2. {i \in DOMAIN Heuristics : Says(f, Heuristics[i])} = {7}
    BY <2>1, ConflictRules
  <2>3. Min({7}) = 7
    BY DEF Min
  <2> QED
    BY <1>1, <2>2, <2>3, ConflictRules DEF Classify, Told
<1>2. ASSUME NEW f, f.code = "none", f.words = {"conflict", "unknown"}
      PROVE  Classify(f).retryable = FALSE
  <2>1. ASSUME NEW i \in 1 .. 11, Says(f, Heuristics[i]) PROVE FALSE
    <3>1. Heuristics[i].all \subseteq {"conflict", "unknown"}
      BY <1>2, <2>1 DEF Says
    <3>2. CASE Heuristics[i].any = {}
      BY <3>1, <3>2, ConflictRules
    <3>3. CASE Heuristics[i].any # {}
      <4>1. i = 7
        BY <1>2, <2>1, <3>3, ConflictRules DEF Says
      <4> QED
        BY <3>1, <4>1, ConflictRules
    <3> QED
      BY <3>2, <3>3
  <2>2. {i \in DOMAIN Heuristics : Says(f, Heuristics[i])} = {}
    BY <2>1, ConflictRules
  <2> QED
    BY <1>2, <2>2 DEF Classify, Told
<1> QED
  BY <1>1, <1>2

\* What the rails raise.
LEMMA RaisedFacts ==
  ASSUME NEW why, why \in {"unknown_handle", "conflict", "repeated"}, till.kind \in Kinds
  PROVE  /\ Classify(Raised(why)).ok = FALSE /\ Classify(Raised(why)).why = why
         /\ Classify(Raised(why)).retryable \in BOOLEAN
         /\ till.kind # "stripe" => Classify(Raised(why)).retryable = FALSE
<1>1. PICK f : f = Raised(why)
  OBVIOUS
<1>2. \/ f.why = why /\ f.code # "none" /\ f.retryable = FALSE
      \/ f.why = why /\ f.code = "none" /\ (till.kind = "stripe" \/ f.words = {"conflict", "unknown"})
  BY <1>1 DEF Raised, Marked, Plain
<1>3. /\ Classify(f).ok = FALSE /\ Classify(f).why = f.why
      /\ f.code = "none" => Classify(f).retryable \in BOOLEAN
      /\ f.code # "none" => Classify(f).retryable = f.retryable
  BY ClassifyFacts
<1>4. f.code = "none" /\ f.words = {"conflict", "unknown"} => Classify(f).retryable = FALSE
  BY ConflictIsEscalated
<1> QED
  BY <1>1, <1>2, <1>3, <1>4

\* The till.
LEMMA TillFacts ==
  ASSUME ToolsTypeOK
  PROVE  /\ till.kind \in Kinds /\ till.holds \in Seq(Frozen) /\ till = [kind |-> till.kind, holds |-> till.holds]
         /\ Len(till.holds) \in Nat /\ Handles = 1 .. Len(till.holds)
         /\ \A h \in Handles : till.holds[h] \in Frozen /\ till.holds[h].status \in {"held", "settled", "refunded"}
<1>1. till.kind \in Kinds /\ till.holds \in Seq(Frozen) /\ till = [kind |-> till.kind, holds |-> till.holds]
  BY DEF ToolsTypeOK
<1>2. Len(till.holds) \in Nat /\ till.holds \in [1 .. Len(till.holds) -> Frozen]
  BY <1>1, LenProperties
<1> QED
  BY <1>1, <1>2 DEF Handles, Frozen

\* A hold is made.
LEMMA EscrowFacts ==
  ASSUME ToolsTypeOK, asking.tool = "escrow", Performed
  PROVE  /\ till' \in [kind : Kinds, holds : Seq(Frozen)] /\ till'.kind = till.kind
         /\ Handles' = Handles \cup {Len(till.holds) + 1} /\ Len(till.holds) + 1 \notin Handles
         /\ \A h \in Handles : till'.holds[h] = till.holds[h]
         /\ till'.holds[Len(till.holds) + 1].status = "held"
<1>0. /\ till.kind \in Kinds /\ till.holds \in Seq(Frozen)
      /\ Len(till.holds) \in Nat /\ Handles = 1 .. Len(till.holds)
  BY TillFacts
<1>1. PICK new \in Frozen : new = [of |-> asking.on, status |-> "held"]
  BY DEF ToolsTypeOK, Frozen
<1>2. till' = [till EXCEPT !.holds = Append(till.holds, new)]
  BY <1>1 DEF Performed
<1>3. till'.kind = till.kind /\ till'.holds = Append(till.holds, new)
      /\ till' = [kind |-> till.kind, holds |-> Append(till.holds, new)]
  BY <1>2 DEF ToolsTypeOK
<1>4. /\ Append(till.holds, new) \in Seq(Frozen) /\ Len(Append(till.holds, new)) = Len(till.holds) + 1
      /\ \A i \in 1 .. Len(till.holds) : Append(till.holds, new)[i] = till.holds[i]
      /\ Append(till.holds, new)[Len(till.holds) + 1] = new
  BY <1>0, AppendProperties
<1>5. DOMAIN till'.holds = 1 .. (Len(till.holds) + 1)
  BY <1>3, <1>4, LenProperties
<1>6. Handles' = Handles \cup {Len(till.holds) + 1} /\ Len(till.holds) + 1 \notin Handles
  BY <1>0, <1>5 DEF Handles
<1> QED
  BY <1>0, <1>1, <1>3, <1>4, <1>6

\* A hold moves, if it is there and held.
LEMMA MovedFacts ==
  ASSUME ToolsTypeOK, asking.tool \in Movers, Performed
  PROVE  /\ till' \in [kind : Kinds, holds : Seq(Frozen)] /\ till'.kind = till.kind /\ Handles' = Handles
         /\ \A h \in Handles :
              till'.holds[h].status = IF h = asking.on /\ till.holds[h].status = "held"
                                      THEN Direct(asking.tool) ELSE till.holds[h].status
<1>0. /\ till.kind \in Kinds /\ till.holds \in Seq(Frozen)
      /\ Len(till.holds) \in Nat /\ Handles = 1 .. Len(till.holds)
      /\ \A h \in Handles : till.holds[h] \in Frozen
  BY TillFacts
<1>1. asking.tool # "escrow" /\ Target = Direct(asking.tool) /\ Target \in {"settled", "refunded"}
  BY DEF Movers, Target, Direct
<1>2. CASE asking.on \in Handles /\ till.holds[asking.on].status = "held"
  <2>1. PICK h \in Handles : h = asking.on
    BY <1>2
  <2>2. PICK new \in Frozen : new = [till.holds[h] EXCEPT !.status = Target]
    BY <1>0, <1>1 DEF Frozen
  <2>3. new.status = Target
    BY <1>0, <2>2 DEF Frozen
  <2>4. till'.kind = till.kind /\ till'.holds = [till.holds EXCEPT ![h] = new]
        /\ till' = [kind |-> till.kind, holds |-> [till.holds EXCEPT ![h] = new]]
    BY <1>1, <1>2, <2>1, <2>2 DEF Performed, ToolsTypeOK
  <2>5. /\ [till.holds EXCEPT ![h] = new] \in Seq(Frozen)
        /\ \A j \in 1 .. Len(till.holds) : [till.holds EXCEPT ![h] = new][j] = IF j = h THEN new ELSE till.holds[j]
    BY <1>0, <2>1, ExceptSeq
  <2>6. Handles' = Handles
    BY <2>4 DEF Handles
  <2> QED
    BY <1>0, <1>1, <1>2, <2>1, <2>3, <2>4, <2>5, <2>6
<1>3. CASE ~(asking.on \in Handles /\ till.holds[asking.on].status = "held")
  <2>1. till' = till
    BY <1>1, <1>3 DEF Performed
  <2> QED
    BY <1>3, <2>1 DEF ToolsTypeOK, Handles
<1> QED
  BY <1>2, <1>3

\* What Obedience has to do with an obeying agent.
Obeying == obeys /\ till.kind # "stripe"

LEMMA StatesOfTools ==
  ASSUME ToolsTypeOK
  PROVE  /\ asking.pc \in {"idle", "asked"} /\ asking.tool \in Toolbox /\ asking.on \in Job \cup Nat /\ asking.try \in Nat
         /\ asking = [pc |-> asking.pc, tool |-> asking.tool, on |-> asking.on, try |-> asking.try]
         /\ told = [moved |-> told.moved, chain |-> told.chain, fees |-> told.fees]
         /\ told.moved \subseteq [handle : Nat, to : Movers] /\ told.chain \in BOOLEAN /\ told.fees \in Nat
         /\ Movers \subseteq MoneyTools /\ MoneyTools \subseteq Toolbox /\ ReadTools \subseteq Toolbox
         /\ ReadTools \cap MoneyTools = {} /\ {"run", "sponsor", "unknown_tool"} \subseteq Toolbox
         /\ {"run", "sponsor", "unknown_tool", "none"} \cap MoneyTools = {} /\ "escrow" \notin Movers
<1>1. ReadTools = {"quote", "split", "compact", "classify", "auction", "discover", "gas", "verify"}
  BY DEF ReadTools, Needs
<1> QED
  BY <1>1 DEF ToolsTypeOK, Movers, MoneyTools, Toolbox

\* The agent makes a call.
LEMMA ToolAskKeeps ==
  ASSUME ToolsTypeOK, ToolsInv, NEW tool \in Toolbox, NEW on \in Job \cup Nat, Ask(tool, on),
         tool = "escrow" => on \in Job, tool \in Movers => on \in Nat,
         Obeying =>
           /\ tool \in MoneyTools => advice.why \notin {"conflict", "unknown_handle"}
           /\ tool \in Movers => on \in known /\ till.holds[on].status \in {"held", Direct(tool)}
           /\ Pending => tool = asking.tool /\ on = asking.on
  PROVE  ToolsTypeOK' /\ ToolsInv'
<1>1. /\ asking' = [pc |-> "asked", tool |-> tool, on |-> on, try |-> 1]
      /\ UNCHANGED <<till, wired, advice, known, chainDone, fees, obeys, told, mislaid>>
  BY DEF Ask
<1>2. asking'.pc = "asked" /\ asking'.tool = tool /\ asking'.on = on
  BY <1>1
<1>3. ToolsTypeOK'
  BY <1>1, <1>2 DEF ToolsTypeOK
<1>4. /\ OkIsTrue' /\ HoldsAreAccounted' /\ ConflictIsNotRetried'
      /\ \A m \in told'.moved : m.handle \in Handles'
  BY <1>1 DEF ToolsInv, OkIsTrue, HoldsAreAccounted, ConflictIsNotRetried, Handles
<1>5. Obedience'
  <2> SUFFICES ASSUME Obeying
               PROVE  /\ tool \in MoneyTools => advice.why \notin {"conflict", "unknown_handle"}
                      /\ tool \in Movers => on \in known
                      /\ tool \in Movers => till.holds[on].status \in {"held", Direct(tool)}
                      /\ \A h \in Handles : till.holds[h].status # "held" =>
                           \/ tool \in Movers /\ on = h
                           \/ \E m \in Given(h) : till.holds[h].status = Direct(m.to)
    BY <1>1, <1>2 DEF Obedience, Obeying, Pending, Handles, Given
  <2>1. \A h \in Handles : till.holds[h].status # "held" =>
          \/ Pending /\ asking.on = h
          \/ \E m \in Given(h) : till.holds[h].status = Direct(m.to)
    BY DEF ToolsInv, Obedience, Obeying
  <2>2. Pending => tool \in Movers
    BY DEF Pending
  <2> QED
    BY <2>1, <2>2
<1> QED
  BY <1>3, <1>4, <1>5 DEF ToolsInv

\* Which calls the agent makes.
LEMMA AgainKeeps ==
  ASSUME ToolsTypeOK, ToolsInv, asking.pc = "idle", Again
  PROVE  ToolsTypeOK' /\ ToolsInv'
<1>1. asking.tool \in Toolbox /\ asking.on \in Job \cup Nat
  BY StatesOfTools
<1>2. ~advice.ok /\ Ask(asking.tool, asking.on)
  BY DEF Again
<1>3. Obeying =>
        /\ asking.tool \in MoneyTools => advice.why \notin {"conflict", "unknown_handle"}
        /\ asking.tool \in Movers => asking.on \in known /\ till.holds[asking.on].status \in {"held", Direct(asking.tool)}
  BY <1>2 DEF ToolsInv, Obedience, Obeying, Pending
<1>4. PICK tool, on : tool = asking.tool /\ on = asking.on
  OBVIOUS
<1> QED
  BY <1>1, <1>2, <1>3, <1>4, ToolAskKeeps DEF ToolsTypeOK

LEMMA EscrowAskKeeps ==
  ASSUME ToolsTypeOK, ToolsInv, AskEscrow
  PROVE  ToolsTypeOK' /\ ToolsInv'
<1>1. PICK j \in Job : (obeys => advice.ok) /\ Ask("escrow", j)
  BY DEF AskEscrow
<1>2. "escrow" \in Toolbox /\ "escrow" \notin Movers
  BY DEF Toolbox, MoneyTools, Movers
<1>3. Obeying => ~Pending /\ advice.why \notin {"conflict", "unknown_handle"}
  BY <1>1 DEF Obeying, Pending, ToolsTypeOK, Ask
<1> QED
  BY <1>1, <1>2, <1>3, ToolAskKeeps

LEMMA MoveAskKeeps ==
  ASSUME ToolsTypeOK, ToolsInv, AskMove
  PROVE  ToolsTypeOK' /\ ToolsInv'
<1>1. PICK tool \in Movers, h \in known \cup {0} :
        /\ obeys => h \in known /\ advice.ok /\ \A m \in Given(h) : m.to = tool
        /\ Ask(tool, h)
  BY DEF AskMove, Movers
<1>2. tool \in Toolbox /\ h \in Nat /\ tool # "escrow"
  BY <1>1, TillFacts, StatesOfTools DEF ToolsInv, HoldsAreAccounted
<1>3. Obeying => ~Pending /\ advice.why \notin {"conflict", "unknown_handle"}
  BY <1>1 DEF Obeying, Pending, ToolsTypeOK, Ask
<1>4. Obeying => h \in known /\ till.holds[h].status \in {"held", Direct(tool)}
  <2>1. SUFFICES ASSUME Obeying, till.holds[h].status # "held"
                 PROVE  h \in known /\ till.holds[h].status = Direct(tool)
    BY <1>1 DEF Obeying
  <2>2. h \in known /\ h \in Handles
    BY <1>1, <2>1 DEF Obeying, ToolsInv, HoldsAreAccounted
  <2>3. PICK m \in Given(h) : till.holds[h].status = Direct(m.to)
    BY <1>3, <2>1, <2>2 DEF ToolsInv, Obedience, Obeying
  <2>4. m.to = tool
    BY <1>1, <2>1 DEF Obeying
  <2> QED
    BY <2>2, <2>3, <2>4
<1> QED
  BY <1>1, <1>2, <1>3, <1>4, ToolAskKeeps

LEMMA OtherAskKeeps ==
  ASSUME ToolsTypeOK, ToolsInv, AskOther
  PROVE  ToolsTypeOK' /\ ToolsInv'
<1>1. PICK tool \in {"run", "sponsor", "unknown_tool"} \cup ReadTools : (obeys => advice.ok) /\ Ask(tool, 0)
  BY DEF AskOther
<1>2. tool \in Toolbox /\ tool \notin MoneyTools /\ tool \notin Movers /\ tool # "escrow" /\ 0 \in Job \cup Nat
  BY <1>1, StatesOfTools DEF MoneyTools
<1>3. Obeying => ~Pending
  BY <1>1 DEF Obeying, Pending, Ask
<1> QED
  BY <1>1, <1>2, <1>3, ToolAskKeeps

\* An answer of a tool that moves no money.
LEMMA AnswerKeeps ==
  ASSUME ToolsTypeOK, ToolsInv, asking.tool \notin MoneyTools, NEW a, Answered(a),
         UNCHANGED <<known, mislaid>>, a.ok \in BOOLEAN, a.retryable \in BOOLEAN, a.ok => a.why = "none",
         a.why = "conflict" => ~a.retryable,
         chainDone' \in 0 .. GoalLegs, fees' \in Nat, told' \in [moved : {told.moved}, chain : BOOLEAN, fees : {fees'}],
         told'.chain => chainDone' = GoalLegs
  PROVE  ToolsTypeOK' /\ ToolsInv'
<1>1. /\ advice' = a /\ asking' = [asking EXCEPT !.pc = "idle"] /\ UNCHANGED <<till, wired, obeys, asks, known, mislaid>>
      /\ told'.moved = told.moved /\ told'.fees = fees' /\ told'.chain \in BOOLEAN
  BY DEF Answered
<1>2. /\ asking'.tool = asking.tool /\ asking'.pc = "idle" /\ asking'.on = asking.on
      /\ asking' \in [pc : {"idle", "asked"}, tool : Toolbox, on : Job \cup Nat, try : Nat]
      /\ asking.tool \notin Movers
  BY <1>1, StatesOfTools DEF ToolsTypeOK
<1>3. told' \in [moved : SUBSET [handle : Nat, to : Movers], chain : BOOLEAN, fees : Nat]
  BY StatesOfTools
<1>4. ToolsTypeOK'
  BY <1>1, <1>2, <1>3 DEF ToolsTypeOK
<1>5. /\ OkIsTrue' /\ HoldsAreAccounted' /\ ConflictIsNotRetried'
      /\ \A m \in told'.moved : m.handle \in Handles'
  BY <1>1 DEF ToolsInv, OkIsTrue, HoldsAreAccounted, ConflictIsNotRetried, Handles
<1>6. Obedience'
  <2>1. ~Pending
    BY <1>2 DEF Pending
  <2> QED
    BY <1>1, <1>2, <2>1 DEF ToolsInv, Obedience, Pending, Given, Handles
<1> QED
  BY <1>4, <1>5, <1>6 DEF ToolsInv

LEMMA AnswersAre ==
  /\ Fine.ok /\ Fine.why = "none" /\ Fine.retryable = FALSE
  /\ ~Misconfigured.ok /\ Misconfigured.ok = FALSE /\ Misconfigured.why = "unwired" /\ Misconfigured.retryable = FALSE
  BY DEF Fine, Misconfigured, Told

\* What the tools fail with is no conflict, or one that is escalated.
LEMMA FailureIsTold ==
  ASSUME NEW f, f.code = "none" \/ f.retryable \in BOOLEAN, f.why # "conflict" \/ (f.code = "none" /\ f.words = {"escrow", "conflict"})
  PROVE  /\ Classify(f).ok = FALSE /\ Classify(f).retryable \in BOOLEAN
         /\ Classify(f).why = "conflict" => ~Classify(f).retryable
  BY ClassifyFacts, ConflictIsEscalated

LEMMA QuietAnswerKeeps ==
  ASSUME ToolsTypeOK, ToolsInv, UnknownTool \/ Read
  PROVE  ToolsTypeOK' /\ ToolsInv'
<1>1. /\ UNCHANGED <<known, chainDone, fees, told, mislaid>>
      /\ chainDone \in 0 .. GoalLegs /\ fees \in Nat /\ told.fees = fees
      /\ told \in [moved : {told.moved}, chain : BOOLEAN, fees : {fees}]
      /\ told.chain => chainDone = GoalLegs
  BY StatesOfTools DEF UnknownTool, Read, ToolsTypeOK, ToolsInv, OkIsTrue
<1>2. asking.tool \notin MoneyTools
  BY StatesOfTools DEF UnknownTool, Read, Handling
<1>3. PICK a : /\ Answered(a) /\ a.ok \in BOOLEAN /\ a.retryable \in BOOLEAN
               /\ a.ok => a.why = "none"
               /\ a.why = "conflict" => ~a.retryable
  <2>1. CASE UnknownTool
    <3>1. PICK f : f = Plain("unknown_tool", {})
      OBVIOUS
    <3>2. Answered(Classify(f)) /\ f.why = "unknown_tool" /\ f.code = "none"
      BY <2>1, <3>1 DEF UnknownTool, Plain
    <3> QED
      BY <3>2, FailureIsTold
  <2>2. CASE Read /\ Answered(Misconfigured)
    BY <2>2, AnswersAre
  <2>3. CASE Read /\ Answered(Fine)
    BY <2>3, AnswersAre
  <2>4. CASE Read /\ \E f \in ReadFailures : Answered(Classify(f))
    <3>1. PICK f \in ReadFailures : Answered(Classify(f))
      BY <2>4
    <3>2. f.code = "none" /\ f.why \in {"argument", "chain", "network", "underfunded"}
      BY <3>1 DEF ReadFailures, Plain
    <3> QED
      BY <3>1, <3>2, FailureIsTold
  <2> QED
    BY <2>1, <2>2, <2>3, <2>4 DEF Read
<1> QED
  BY <1>1, <1>2, <1>3, AnswerKeeps

\* The run of a goal.
LEMMA RunChainKeeps ==
  ASSUME ToolsTypeOK, ToolsInv, RunChain
  PROVE  ToolsTypeOK' /\ ToolsInv'
<1>1. /\ UNCHANGED <<known, fees, mislaid>> /\ asking.tool \notin MoneyTools
      /\ chainDone \in 0 .. GoalLegs /\ fees \in Nat /\ told.fees = fees /\ GoalLegs \in Nat
      /\ told.chain => chainDone = GoalLegs
      /\ told = [moved |-> told.moved, chain |-> told.chain, fees |-> fees] /\ told.chain \in BOOLEAN
  BY StatesOfTools, ToolsAssumption DEF RunChain, Handling, ToolsTypeOK, ToolsInv, OkIsTrue
<1>2. ASSUME NEW f, f.code = "none", f.why # "conflict" \/ f.words = {"escrow", "conflict"},
             Answered(Classify(f)), UNCHANGED told, chainDone' \in 0 .. GoalLegs, told.chain => chainDone' = GoalLegs
      PROVE  ToolsTypeOK' /\ ToolsInv'
  <2>1. PICK a : a = Classify(f)
    OBVIOUS
  <2>2. a.ok = FALSE /\ a.retryable \in BOOLEAN /\ (a.why = "conflict" => ~a.retryable)
    BY <1>2, <2>1, FailureIsTold
  <2>3. told' \in [moved : {told.moved}, chain : BOOLEAN, fees : {fees'}]
    BY <1>1, <1>2
  <2> QED
    BY <1>1, <1>2, <2>1, <2>2, <2>3, AnswerKeeps
<1>3. CASE Answered(Misconfigured) /\ UNCHANGED <<chainDone, told>>
  <2>1. told' \in [moved : {told.moved}, chain : BOOLEAN, fees : {fees'}]
    BY <1>1, <1>3
  <2> QED
    BY <1>1, <1>3, <2>1, AnswersAre, AnswerKeeps
<1>4. CASE Answered(Classify(Plain("unwired", {"auction"}))) /\ UNCHANGED <<chainDone, told>>
  <2>1. PICK f : f = Plain("unwired", {"auction"})
    OBVIOUS
  <2>2. f.code = "none" /\ f.why = "unwired"
    BY <2>1 DEF Plain
  <2> QED
    BY <1>1, <1>2, <1>4, <2>1, <2>2
<1>5. CASE Answered(Classify(Plain("unfilled", {"auction", "unfilled"}))) /\ UNCHANGED <<chainDone, told>>
  <2>1. PICK f : f = Plain("unfilled", {"auction", "unfilled"})
    OBVIOUS
  <2>2. f.code = "none" /\ f.why = "unfilled"
    BY <2>1 DEF Plain
  <2> QED
    BY <1>1, <1>2, <1>5, <2>1, <2>2
<1>6. CASE \E n \in chainDone .. GoalLegs - 1, f \in LegFailures :
             chainDone' = n /\ Answered(Classify(f)) /\ UNCHANGED told
  <2>1. PICK n \in chainDone .. GoalLegs - 1, f \in LegFailures :
             chainDone' = n /\ Answered(Classify(f)) /\ UNCHANGED told
    BY <1>6
  <2>2. f.code = "none" /\ (f.why # "conflict" \/ f.words = {"escrow", "conflict"})
    BY DEF LegFailures, AsText, Marked, Plain
  <2>3. chainDone < GoalLegs /\ n \in 0 .. GoalLegs
    BY <1>1
  <2> QED
    BY <1>1, <1>2, <2>1, <2>2, <2>3
<1>7. CASE chainDone' = GoalLegs /\ Answered(Fine) /\ told' = [told EXCEPT !.chain = TRUE]
  <2>1. told' \in [moved : {told.moved}, chain : BOOLEAN, fees : {fees'}]
    BY <1>1, <1>7
  <2>2. chainDone' \in 0 .. GoalLegs
    BY <1>1, <1>7
  <2> QED
    BY <1>1, <1>7, <2>1, <2>2, AnswersAre, AnswerKeeps
<1> QED
  BY <1>3, <1>4, <1>5, <1>6, <1>7 DEF RunChain

\* The fee of a sponsored call.
LEMMA PaySponsorKeeps ==
  ASSUME ToolsTypeOK, ToolsInv, PaySponsor
  PROVE  ToolsTypeOK' /\ ToolsInv'
<1>1. /\ UNCHANGED <<known, chainDone, mislaid>> /\ asking.tool \notin MoneyTools
      /\ chainDone \in 0 .. GoalLegs /\ fees \in Nat /\ told.fees = fees
      /\ told.chain => chainDone = GoalLegs
      /\ told = [moved |-> told.moved, chain |-> told.chain, fees |-> fees] /\ told.chain \in BOOLEAN
  BY StatesOfTools DEF PaySponsor, Handling, ToolsTypeOK, ToolsInv, OkIsTrue
<1>2. CASE Answered(Misconfigured) /\ UNCHANGED <<fees, told>>
  <2>1. told' \in [moved : {told.moved}, chain : BOOLEAN, fees : {fees'}]
    BY <1>1, <1>2
  <2> QED
    BY <1>1, <1>2, <2>1, AnswersAre, AnswerKeeps
<1>3. CASE /\ Answered(Classify(Marked("underfunded", {"insufficient", "fee", "paymaster"},
                                       "PAYMASTER_UNDERFUNDED", "retry_adjust", TRUE)))
           /\ UNCHANGED <<fees, told>>
  <2>1. PICK f : f = Marked("underfunded", {"insufficient", "fee", "paymaster"},
                            "PAYMASTER_UNDERFUNDED", "retry_adjust", TRUE)
    OBVIOUS
  <2>2. f.why = "underfunded" /\ f.retryable = TRUE
    BY <2>1 DEF Marked
  <2>3. PICK a : a = Classify(f)
    OBVIOUS
  <2>4. a.ok = FALSE /\ a.retryable \in BOOLEAN /\ (a.why = "conflict" => ~a.retryable)
    BY <2>2, <2>3, FailureIsTold
  <2>5. told' \in [moved : {told.moved}, chain : BOOLEAN, fees : {fees'}]
    BY <1>1, <1>3
  <2> QED
    BY <1>1, <1>3, <2>1, <2>3, <2>4, <2>5, AnswerKeeps
<1>4. CASE fees' = fees + 1 /\ Answered(Fine) /\ told' = [told EXCEPT !.fees = @ + 1]
  <2>1. told' \in [moved : {told.moved}, chain : BOOLEAN, fees : {fees'}] /\ told'.chain = told.chain
    BY <1>1, <1>4
  <2>2. /\ fees' \in Nat /\ chainDone' \in 0 .. GoalLegs /\ UNCHANGED <<known, mislaid>>
        /\ told'.chain => chainDone' = GoalLegs
    BY <1>1, <1>4, <2>1
  <2> QED
    BY <1>1, <1>4, <2>1, <2>2, AnswersAre, AnswerKeeps
<1> QED
  BY <1>2, <1>3, <1>4 DEF PaySponsor

\* The holds that the agent does not know are as many as answers were lost.
LEMMA HoldMade ==
  ASSUME ToolsTypeOK, HoldsAreAccounted, NEW n, n \notin Handles, Handles' = Handles \cup {n}
  PROVE  /\ known \cup {n} \subseteq Handles' /\ Cardinality(Handles' \ (known \cup {n})) = mislaid
         /\ Cardinality(Handles' \ known) = mislaid + 1
<1>1. IsFiniteSet(Handles \ known)
  <2>1. Len(till.holds) \in Nat /\ Handles = 1 .. Len(till.holds)
    BY TillFacts
  <2>2. IsFiniteSet(Handles)
    BY <2>1, FS_Interval
  <2> QED
    BY <2>2, FS_Difference
<1>2. known \subseteq Handles /\ Cardinality(Handles \ known) = mislaid
  BY DEF HoldsAreAccounted
<1>3. PICK rest : rest = Handles \ known
  OBVIOUS
<1>4. Handles' \ (known \cup {n}) = rest /\ Handles' \ known = rest \cup {n} /\ n \notin rest
  BY <1>2, <1>3
<1>5. Cardinality(rest \cup {n}) = Cardinality(rest) + 1
  BY <1>1, <1>3, <1>4, FS_AddElement
<1> QED
  BY <1>2, <1>3, <1>4, <1>5

LEMMA RefusalFacts ==
  ASSUME ToolsTypeOK, asking.tool \in Movers
  PROVE  /\ Refusal(asking.on) \in {"none", "unknown_handle", "conflict", "repeated"}
         /\ Refusal(asking.on) = "none" =>
              asking.on \in Handles /\ till.holds[asking.on].status \in {"held", Direct(asking.tool)}
         /\ asking.on \in Handles /\ till.holds[asking.on].status \in {"held", Direct(asking.tool)}
            /\ till.kind # "stripe" => Refusal(asking.on) = "none"
<1>1. Target = Direct(asking.tool)
  BY DEF Target, Direct
<1>2. CASE asking.on \notin Handles
  BY <1>2 DEF Refusal
<1>3. CASE asking.on \in Handles
  BY <1>1, <1>3 DEF Refusal
<1> QED
  BY <1>2, <1>3

\* A movement is performed or not, and answered or not: what was told stays true, and an
\* obeying agent has nothing else that moved.
LEMMA MovementKeeps ==
  ASSUME ToolsTypeOK, ToolsInv, asking.tool \in Movers, asking.pc = "asked", Performed \/ UNCHANGED till,
         UNCHANGED <<known, mislaid, obeys, chainDone, fees>>, asking'.tool = asking.tool, asking'.on = asking.on,
         told'.chain = told.chain, told'.fees = told.fees,
         \/ told'.moved = told.moved /\ asking'.pc = "asked" /\ UNCHANGED advice
         \/ told'.moved = told.moved /\ ~advice'.ok /\ advice'.why = "network"
         \/ /\ told'.moved = told.moved \cup {[handle |-> asking.on, to |-> asking.tool]}
            /\ Performed /\ advice'.why = "none" /\ ~advice'.retryable
            /\ asking.on \in Handles /\ till.holds[asking.on].status \in {"held", Direct(asking.tool)}
  PROVE  ToolsInv' /\ till' \in [kind : Kinds, holds : Seq(Frozen)]
<1>1. /\ till' \in [kind : Kinds, holds : Seq(Frozen)] /\ till'.kind = till.kind /\ Handles' = Handles
      /\ \A h \in Handles :
           \/ till'.holds[h].status = till.holds[h].status
           \/ h = asking.on /\ till.holds[h].status = "held" /\ till'.holds[h].status = Direct(asking.tool)
  BY MovedFacts DEF ToolsTypeOK, Handles
<1>2. \A m \in told.moved : m.handle \in Handles /\ till.holds[m.handle].status = Direct(m.to)
  BY DEF ToolsInv, OkIsTrue, Direct
<1>3. \A m \in told.moved : till'.holds[m.handle].status = Direct(m.to)
  BY <1>1, <1>2 DEF Direct
<1>4. CASE /\ told'.moved = told.moved
           /\ \/ asking'.pc = "asked" /\ UNCHANGED advice
              \/ ~advice'.ok /\ advice'.why = "network"
  <2>1. OkIsTrue' /\ \A m \in told'.moved : m.handle \in Handles'
    BY <1>1, <1>2, <1>3, <1>4 DEF ToolsInv, OkIsTrue, Direct
  <2>2. HoldsAreAccounted'
    BY <1>1 DEF ToolsInv, HoldsAreAccounted
  <2>3. ConflictIsNotRetried'
    BY <1>1, <1>4 DEF ToolsInv, ConflictIsNotRetried
  <2>4. Obedience'
    <3>1. Pending /\ Pending'
      BY <1>4 DEF Pending
    <3>2. advice'.why \notin {"conflict", "unknown_handle"} \/ advice' = advice
      BY <1>4
    <3>3. Obeying =>
            /\ asking.on \in known /\ advice'.why \notin {"conflict", "unknown_handle"}
            /\ till.holds[asking.on].status \in {"held", Direct(asking.tool)}
            /\ asking.on \in Handles
      BY <3>1, <3>2, StatesOfTools DEF ToolsInv, Obedience, Obeying, HoldsAreAccounted
    <3>4. Obeying => \A h \in Handles : till.holds[h].status # "held" =>
            asking.on = h \/ \E m \in Given(h) : till.holds[h].status = Direct(m.to)
      BY DEF ToolsInv, Obedience, Obeying
    <3>5. Obeying => \A h \in Handles : till'.holds[h].status # "held" =>
            asking.on = h \/ \E m \in Given(h) : till'.holds[h].status = Direct(m.to)
      BY <1>1, <3>4
    <3> QED
      BY <1>1, <1>4, <3>1, <3>3, <3>5 DEF Obedience, Obeying, Handles, Given
  <2> QED
    BY <1>1, <2>1, <2>2, <2>3, <2>4 DEF ToolsInv
<1>5. CASE /\ told'.moved = told.moved \cup {[handle |-> asking.on, to |-> asking.tool]}
           /\ Performed /\ advice'.why = "none" /\ ~advice'.retryable
           /\ asking.on \in Handles /\ till.holds[asking.on].status \in {"held", Direct(asking.tool)}
  <2>0. PICK new : new = [handle |-> asking.on, to |-> asking.tool]
    OBVIOUS
  <2>a. new.handle = asking.on /\ new.to = asking.tool /\ told'.moved = told.moved \cup {new}
    BY <1>5, <2>0
  <2>1. till'.holds[asking.on].status = Direct(asking.tool)
    BY <1>5, MovedFacts
  <2>2. \A m \in told'.moved : m.handle \in Handles /\ till'.holds[m.handle].status = Direct(m.to)
    BY <1>2, <1>3, <1>5, <2>1, <2>a
  <2>3. OkIsTrue' /\ \A m \in told'.moved : m.handle \in Handles'
    BY <1>1, <2>2 DEF ToolsInv, OkIsTrue, Direct
  <2>4. HoldsAreAccounted'
    BY <1>1 DEF ToolsInv, HoldsAreAccounted
  <2>5. ConflictIsNotRetried'
    BY <1>5 DEF ConflictIsNotRetried
  <2>6. Obedience'
    <3> SUFFICES ASSUME Obeying
                 PROVE  /\ asking.on \in known
                        /\ till'.holds[asking.on].status \in {"held", Direct(asking.tool)}
                        /\ \A h \in Handles : till'.holds[h].status # "held" =>
                             \E m \in told'.moved : m.handle = h /\ till'.holds[h].status = Direct(m.to)
      BY <1>1, <1>5 DEF Obedience, Obeying, Given, Handles
    <3>1. asking.on \in known
      BY DEF ToolsInv, Obedience, Obeying
    <3>2. ASSUME NEW h \in Handles, till'.holds[h].status # "held"
          PROVE  \E m \in told'.moved : m.handle = h /\ till'.holds[h].status = Direct(m.to)
      <4>1. CASE h = asking.on
        BY <2>1, <2>a, <4>1
      <4>2. CASE h # asking.on
        <5>1. till.holds[h].status # "held"
          BY <1>1, <3>2, <4>2
        <5>2. PICK m \in Given(h) : till.holds[h].status = Direct(m.to)
          BY <4>2, <5>1 DEF ToolsInv, Obedience, Obeying
        <5> QED
          BY <1>1, <2>a, <4>2, <5>2 DEF Given
      <4> QED
        BY <4>1, <4>2
    <3> QED
      BY <2>1, <3>1, <3>2
  <2> QED
    BY <1>1, <2>3, <2>4, <2>5, <2>6 DEF ToolsInv
<1> QED
  BY <1>4, <1>5

\* A hold is made, or not, and answered or not.
LEMMA HoldingKeeps ==
  ASSUME ToolsTypeOK, ToolsInv, asking.tool = "escrow",
         UNCHANGED <<obeys, chainDone, fees, told>>, asking'.tool = asking.tool, asking'.on = asking.on,
         \/ UNCHANGED advice
         \/ advice'.why \notin {"conflict", "unknown_handle"},
         \/ UNCHANGED <<till, known, mislaid>>
         \/ Performed /\ UNCHANGED known /\ mislaid' = mislaid + 1
         \/ Performed /\ known' = known \cup {Len(till.holds) + 1} /\ UNCHANGED mislaid
  PROVE  ToolsInv' /\ till' \in [kind : Kinds, holds : Seq(Frozen)]
<1>0. ~Pending /\ ~Pending' /\ asking.tool \in MoneyTools /\ asking.tool \notin Movers
  BY DEF Pending, Movers, MoneyTools
<1>1. /\ till' \in [kind : Kinds, holds : Seq(Frozen)] /\ till'.kind = till.kind /\ Handles \subseteq Handles'
      /\ \A h \in Handles : till'.holds[h] = till.holds[h]
      /\ \A h \in Handles' \ Handles : till'.holds[h].status = "held"
  <2>1. CASE UNCHANGED till
    BY <2>1 DEF ToolsTypeOK, Handles
  <2>2. CASE Performed
    BY <2>2, EscrowFacts
  <2> QED
    BY <2>1, <2>2
<1>2. OkIsTrue' /\ \A m \in told'.moved : m.handle \in Handles'
  BY <1>1 DEF ToolsInv, OkIsTrue
<1>3. HoldsAreAccounted'
  <2>1. CASE UNCHANGED <<till, known, mislaid>>
    BY <2>1 DEF ToolsInv, HoldsAreAccounted, Handles
  <2>2. CASE Performed
    <3>1. /\ Handles' = Handles \cup {Len(till.holds) + 1} /\ Len(till.holds) + 1 \notin Handles
          /\ HoldsAreAccounted
      BY <2>2, EscrowFacts DEF ToolsInv
    <3>2. PICK n : n = Len(till.holds) + 1
      OBVIOUS
    <3>3. /\ known \cup {n} \subseteq Handles' /\ Cardinality(Handles' \ (known \cup {n})) = mislaid
          /\ Cardinality(Handles' \ known) = mislaid + 1
      BY <3>1, <3>2, HoldMade
    <3>4. CASE UNCHANGED known /\ mislaid' = mislaid + 1
      BY <3>1, <3>3, <3>4 DEF HoldsAreAccounted
    <3>5. CASE known' = known \cup {n} /\ UNCHANGED mislaid
      BY <3>3, <3>5 DEF HoldsAreAccounted
    <3>6. CASE UNCHANGED <<till, known, mislaid>>
      BY <2>1, <3>6
    <3> QED
      BY <3>2, <3>4, <3>5, <3>6
  <2> QED
    BY <2>1, <2>2
<1>4. ConflictIsNotRetried'
  BY <1>1 DEF ToolsInv, ConflictIsNotRetried
<1>5. Obedience'
  <2> SUFFICES ASSUME Obeying
               PROVE  /\ advice'.why \notin {"conflict", "unknown_handle"}
                      /\ \A h \in Handles' : till'.holds[h].status # "held" =>
                           \E m \in Given(h) : till'.holds[h].status = Direct(m.to)
    BY <1>0, <1>1 DEF Obedience, Obeying, Given, Handles
  <2>1. /\ advice.why \notin {"conflict", "unknown_handle"}
        /\ \A h \in Handles : till.holds[h].status # "held" =>
             \E m \in Given(h) : till.holds[h].status = Direct(m.to)
    BY <1>0 DEF ToolsInv, Obedience, Obeying
  <2> QED
    BY <1>1, <2>1
<1> QED
  BY <1>1, <1>2, <1>3, <1>4, <1>5 DEF ToolsInv

LEMMA MoneyAnswerKeeps ==
  ASSUME ToolsTypeOK, ToolsInv, MoneyAnswer
  PROVE  ToolsTypeOK' /\ ToolsInv'
<1> DEFINE why == IF asking.tool = "escrow" THEN "none" ELSE Refusal(asking.on)
<1>1. /\ asking.pc = "asked" /\ asking.tool \in MoneyTools /\ asking' = [asking EXCEPT !.pc = "idle"]
      /\ UNCHANGED <<wired, chainDone, fees, obeys, mislaid, asks>>
  BY DEF MoneyAnswer
<1>2. /\ asking' \in [pc : {"idle", "asked"}, tool : Toolbox, on : Job \cup Nat, try : Nat]
      /\ asking'.tool = asking.tool /\ asking'.on = asking.on
  BY <1>1, StatesOfTools
<1>3. CASE asking.tool = "escrow"
  <2>1. advice' = Fine /\ Performed /\ known' = known \cup {Len(till.holds) + 1} /\ told' = told
    BY <1>3 DEF MoneyAnswer
  <2>2. ToolsInv' /\ till' \in [kind : Kinds, holds : Seq(Frozen)]
    BY <1>1, <1>2, <1>3, <2>1, AnswersAre, HoldingKeeps
  <2> QED
    BY <1>1, <1>2, <2>1, <2>2, AnswersAre DEF ToolsTypeOK
<1>4. CASE asking.tool \in Movers /\ why # "none"
  <2>0. asking.tool # "escrow" /\ why = Refusal(asking.on)
    BY <1>4 DEF Movers
  <2>1. advice' = Classify(Raised(why)) /\ UNCHANGED <<till, known, told>>
    BY <1>4 DEF MoneyAnswer
  <2>2. why \in {"unknown_handle", "conflict", "repeated"}
    BY <1>4, <2>0, RefusalFacts
  <2>3. /\ advice'.ok = FALSE /\ advice'.why = why /\ advice'.retryable \in BOOLEAN
        /\ till.kind # "stripe" => advice'.retryable = FALSE
    BY <2>1, <2>2, RaisedFacts, TillFacts
  <2>4. ToolsTypeOK'
    BY <1>1, <1>2, <2>1, <2>3 DEF ToolsTypeOK
  <2>5. ~Obeying
    <3>1. SUFFICES ASSUME Obeying PROVE FALSE
      OBVIOUS
    <3>2. Pending /\ asking.on \in known /\ asking.on \in Handles
          /\ till.holds[asking.on].status \in {"held", Direct(asking.tool)}
      BY <1>1, <1>4, <3>1 DEF ToolsInv, Obedience, Obeying, Pending, HoldsAreAccounted
    <3> QED
      BY <1>4, <2>0, <3>1, <3>2, RefusalFacts DEF Obeying
  <2>6. Obedience'
    BY <1>1, <2>1, <2>5 DEF Obedience, Obeying
  <2> QED
    BY <1>1, <2>1, <2>3, <2>4, <2>6 DEF ToolsInv, OkIsTrue, HoldsAreAccounted, ConflictIsNotRetried, Handles
<1>5. CASE asking.tool \in Movers /\ why = "none"
  <2>0. asking.tool # "escrow" /\ why = Refusal(asking.on)
    BY <1>5 DEF Movers
  <2>1. /\ advice' = Fine /\ Performed /\ known' = known
        /\ told' = [told EXCEPT !.moved = @ \cup {[handle |-> asking.on, to |-> asking.tool]}]
    BY <1>5, <2>0 DEF MoneyAnswer
  <2>2. /\ told'.moved = told.moved \cup {[handle |-> asking.on, to |-> asking.tool]}
        /\ told'.chain = told.chain /\ told'.fees = told.fees
        /\ told' \in [moved : SUBSET [handle : Nat, to : Movers], chain : BOOLEAN, fees : Nat]
    <3>1. asking.on \in Nat /\ told \in [moved : SUBSET [handle : Nat, to : Movers], chain : BOOLEAN, fees : Nat]
      BY <1>5 DEF ToolsTypeOK
    <3>2. PICK new \in [handle : Nat, to : Movers] : new = [handle |-> asking.on, to |-> asking.tool]
      BY <1>5, <3>1
    <3> QED
      BY <2>1, <3>1, <3>2
  <2>3. asking.on \in Handles /\ till.holds[asking.on].status \in {"held", Direct(asking.tool)}
    BY <1>5, <2>0, RefusalFacts
  <2>4. ToolsInv' /\ till' \in [kind : Kinds, holds : Seq(Frozen)]
    BY <1>1, <1>2, <1>5, <2>1, <2>2, <2>3, AnswersAre, MovementKeeps
  <2> QED
    BY <1>1, <1>2, <2>1, <2>2, <2>4, AnswersAre DEF ToolsTypeOK
<1> QED
  BY <1>1, <1>3, <1>4, <1>5 DEF MoneyTools, Movers

LEMMA MoneyLostKeeps ==
  ASSUME ToolsTypeOK, ToolsInv, MoneyLost
  PROVE  ToolsTypeOK' /\ ToolsInv'
<1>1. /\ asking.pc = "asked" /\ asking.tool \in MoneyTools
      /\ UNCHANGED <<wired, known, chainDone, fees, obeys, told, asks>>
      /\ \/ UNCHANGED <<till, mislaid>>
         \/ Performed /\ mislaid' = IF asking.tool = "escrow" THEN mislaid + 1 ELSE mislaid
  BY DEF MoneyLost
<1>2. /\ asking' \in [pc : {"idle", "asked"}, tool : Toolbox, on : Job \cup Nat, try : Nat]
      /\ asking'.tool = asking.tool /\ asking'.on = asking.on
      /\ \/ asking'.pc = "asked" /\ UNCHANGED advice
         \/ advice'.ok = FALSE /\ advice'.why = "network" /\ advice'.retryable \in BOOLEAN
  <2>1. CASE asking.try < MaxTry
    <3>1. asking' = [asking EXCEPT !.try = @ + 1] /\ UNCHANGED advice
      BY <2>1 DEF MoneyLost
    <3> QED
      BY <1>1, <3>1, StatesOfTools
  <2>2. CASE ~(asking.try < MaxTry)
    <3>1. PICK text \in {"timed_out", "connection"} :
            advice' = Classify(Plain("network", {text} \cup ({"stripe"} \cap {till.kind})))
      BY <2>2 DEF MoneyLost
    <3>2. asking' = [asking EXCEPT !.pc = "idle"]
      BY <2>2 DEF MoneyLost
    <3>3. PICK f : f = Plain("network", {text} \cup ({"stripe"} \cap {till.kind}))
      OBVIOUS
    <3>4. f.why = "network" /\ f.code = "none"
      BY <3>3 DEF Plain
    <3>5. advice'.ok = FALSE /\ advice'.why = "network" /\ advice'.retryable \in BOOLEAN
      BY <3>1, <3>3, <3>4, ClassifyFacts
    <3> QED
      BY <3>2, <3>5, StatesOfTools
  <2> QED
    BY <2>1, <2>2
<1>3. mislaid \in Nat /\ mislaid' \in Nat
  BY <1>1 DEF ToolsTypeOK
<1>4. ToolsInv' /\ till' \in [kind : Kinds, holds : Seq(Frozen)]
  <2>1. CASE asking.tool = "escrow"
    BY <1>1, <1>2, <2>1, HoldingKeeps
  <2>2. CASE asking.tool \in Movers
    <3>1. asking.tool # "escrow"
      BY <2>2 DEF Movers
    <3>2. /\ Performed \/ UNCHANGED till
          /\ UNCHANGED <<known, mislaid, obeys, chainDone, fees>>
          /\ told'.chain = told.chain /\ told'.fees = told.fees /\ told'.moved = told.moved
          /\ (asking'.pc = "asked" /\ UNCHANGED advice) \/ (~advice'.ok /\ advice'.why = "network")
      BY <1>1, <1>2, <3>1
    <3> QED
      BY <1>1, <1>2, <2>2, <3>2, MovementKeeps
  <2> QED
    BY <1>1, <2>1, <2>2 DEF MoneyTools, Movers
<1> QED
  BY <1>1, <1>2, <1>3, <1>4 DEF ToolsTypeOK

\* agent_skill/tools.py, errors.py: for any number of calls, attempts, holds, legs and
\* fees, on every kind of rail and with answers lost at any attempt, an answer that says ok
\* is true, money whose handle the agent does not know is that of lost answers, a conflict
\* is not advised to be tried again, and an agent that obeys meets none.
THEOREM ToolsAlwaysSound == ToolsSpec => []ToolsAreSound
<1>1. ToolsInit => ToolsTypeOK /\ ToolsInv
  <2>1. SUFFICES ASSUME ToolsInit PROVE ToolsTypeOK /\ ToolsInv
    OBVIOUS
  <2>2. PICK k \in Kinds : till = [kind |-> k, holds |-> <<>>]
    BY <2>1 DEF ToolsInit
  <2>3. /\ till \in [kind : Kinds, holds : Seq(Frozen)] /\ Handles = {}
    BY <2>2, EmptySeq DEF Handles
  <2>4. /\ asking = Stopped /\ advice = Fine /\ known = {} /\ chainDone = 0 /\ fees = 0 /\ obeys \in BOOLEAN
        /\ told = [moved |-> {}, chain |-> FALSE, fees |-> 0] /\ mislaid = 0
    BY <2>1 DEF ToolsInit
  <2>5. /\ asking.tool = "none" /\ asking.pc = "idle"
        /\ asking \in [pc : {"idle", "asked"}, tool : Toolbox, on : Job \cup Nat, try : Nat]
        /\ "none" \notin MoneyTools /\ "none" \notin Movers
    <3>1. "none" \in Toolbox
      BY DEF Toolbox
    <3>2. "none" \notin MoneyTools /\ "none" \notin Movers
      BY DEF MoneyTools, Movers
    <3>3. asking = [pc |-> "idle", tool |-> "none", on |-> 0, try |-> 0]
      BY <2>4 DEF Stopped
    <3>4. 0 \in Job \cup Nat /\ 0 \in Nat /\ "idle" \in {"idle", "asked"}
      OBVIOUS
    <3>5. asking \in [pc : {"idle", "asked"}, tool : Toolbox, on : Job \cup Nat, try : Nat]
      BY <3>1, <3>3, <3>4
    <3> QED
      BY <3>2, <3>3, <3>5
  <2>6. ToolsTypeOK
    <3>1. /\ asking.tool = "escrow" => asking.on \in Job
          /\ asking.tool \in Movers => asking.on \in Nat
      BY <2>5
    <3>2. advice.ok \in BOOLEAN /\ advice.retryable \in BOOLEAN /\ (advice.ok => advice.why = "none")
      BY <2>4, AnswersAre
    <3>3. chainDone \in 0 .. GoalLegs /\ fees \in Nat /\ obeys \in BOOLEAN /\ mislaid \in Nat
      BY <2>4, ToolsAssumption
    <3>4. told \in [moved : SUBSET [handle : Nat, to : Movers], chain : BOOLEAN, fees : Nat]
      BY <2>4
    <3> QED
      BY <2>3, <2>5, <3>1, <3>2, <3>3, <3>4 DEF ToolsTypeOK
  <2>7. Cardinality(Handles \ known) = mislaid
    BY <2>3, <2>4, FS_EmptySet
  <2> QED
    BY <2>3, <2>4, <2>5, <2>6, <2>7, AnswersAre
       DEF ToolsInv, OkIsTrue, HoldsAreAccounted, ConflictIsNotRetried, Obedience, Pending
<1>2. ToolsTypeOK /\ ToolsInv /\ [ToolsNext]_toolVars => ToolsTypeOK' /\ ToolsInv'
  <2>1. SUFFICES ASSUME ToolsTypeOK, ToolsInv, [ToolsNext]_toolVars PROVE ToolsTypeOK' /\ ToolsInv'
    OBVIOUS
  <2>2. CASE UNCHANGED toolVars
    <3>1. UNCHANGED <<till, wired, asking, advice, known, chainDone, fees, obeys, told, mislaid, asks>>
      BY <2>2 DEF toolVars
    <3>2. ToolsTypeOK'
      BY <2>1, <3>1 DEF ToolsTypeOK
    <3> QED
      BY <2>1, <3>1, <3>2 DEF ToolsInv, OkIsTrue, HoldsAreAccounted, ConflictIsNotRetried, Obedience,
                              Pending, Given, Handles
  <2>3. CASE ToolsNext
    BY <2>1, <2>3, AgainKeeps, EscrowAskKeeps, MoveAskKeeps, OtherAskKeeps, QuietAnswerKeeps,
       MoneyAnswerKeeps, MoneyLostKeeps, RunChainKeeps, PaySponsorKeeps DEF ToolsNext
  <2> QED
    BY <2>1, <2>2, <2>3
<1>3. ToolsTypeOK /\ ToolsInv => ToolsAreSound
  BY DEF ToolsInv, ToolsAreSound, Obedience, ObedientNeverConflicts
<1> QED
  BY <1>1, <1>2, <1>3, PTL DEF ToolsSpec

---------------------------------------------------------------------------
(* The site patrol.                                                        *)

LEMMA LegsAndSteps ==
  /\ PatrolLeg = {"arrival", "drone", "robot", "charge"}
  /\ Len(Steps) = 13 /\ DOMAIN Steps = 1 .. 13
  /\ Range(Steps) = {"draft", "propose", "contract", "countersign", "escrow", "prepare", "deliver",
                     "commit", "verify", "confirm", "keep", "keepProvider", "record"}
<1>1. PatrolLeg = {"arrival", "drone", "robot", "charge"}
  <2>1. DOMAIN Tour = 1 .. 4 /\ Tour[1] = "arrival" /\ Tour[2] = "drone" /\ Tour[3] = "robot" /\ Tour[4] = "charge"
    BY DEF Tour
  <2>2. PatrolLeg = {Tour[i] : i \in 1 .. 4}
    BY <2>1 DEF PatrolLeg, Range
  <2> QED
    BY <2>1, <2>2
<1>2. Len(Steps) = 13 /\ DOMAIN Steps = 1 .. 13
  BY DEF Steps
<1>3. /\ Steps[1] = "draft" /\ Steps[2] = "propose" /\ Steps[3] = "contract" /\ Steps[4] = "countersign"
      /\ Steps[5] = "escrow" /\ Steps[6] = "prepare" /\ Steps[7] = "deliver" /\ Steps[8] = "commit"
      /\ Steps[9] = "verify" /\ Steps[10] = "confirm" /\ Steps[11] = "keep" /\ Steps[12] = "keepProvider"
      /\ Steps[13] = "record"
  BY DEF Steps
<1>4. Range(Steps) = {Steps[i] : i \in 1 .. 13}
  BY <1>2 DEF Range
<1> QED
  BY <1>1, <1>2, <1>3, <1>4

\* The step behind each step.
LEMMA StepsFollow ==
  /\ Following("draft") = [leg |-> at.leg, step |-> "propose"]
  /\ Following("propose") = [leg |-> at.leg, step |-> "contract"]
  /\ Following("contract") = [leg |-> at.leg, step |-> "countersign"]
  /\ Following("countersign") = [leg |-> at.leg, step |-> "escrow"]
  /\ Following("escrow") = [leg |-> at.leg, step |-> "prepare"]
  /\ Following("prepare") = [leg |-> at.leg, step |-> "deliver"]
  /\ Following("deliver") = [leg |-> at.leg, step |-> "commit"]
  /\ Following("commit") = [leg |-> at.leg, step |-> "verify"]
  /\ Following("verify") = [leg |-> at.leg, step |-> "confirm"]
  /\ Following("confirm") = [leg |-> at.leg, step |-> "keep"]
  /\ Following("keep") = [leg |-> at.leg, step |-> "keepProvider"]
  /\ Following("keepProvider") = [leg |-> at.leg, step |-> "record"]
  /\ Following("record") = Resting
<1>1. /\ Steps[1] = "draft" /\ Steps[2] = "propose" /\ Steps[3] = "contract" /\ Steps[4] = "countersign"
      /\ Steps[5] = "escrow" /\ Steps[6] = "prepare" /\ Steps[7] = "deliver" /\ Steps[8] = "commit"
      /\ Steps[9] = "verify" /\ Steps[10] = "confirm" /\ Steps[11] = "keep" /\ Steps[12] = "keepProvider"
      /\ Steps[13] = "record" /\ DOMAIN Steps = 1 .. 13 /\ Len(Steps) = 13
  BY DEF Steps
<1>2. ASSUME NEW i \in 1 .. 13, NEW k \in 1 .. 13, Steps[i] = Steps[k] PROVE i = k
  BY <1>1, <1>2
<1>3. ASSUME NEW k \in 1 .. 13
      PROVE  Following(Steps[k]) = IF k = 13 THEN Resting ELSE [leg |-> at.leg, step |-> Steps[k + 1]]
  <2>1. (CHOOSE i \in DOMAIN Steps : Steps[i] = Steps[k]) = k
    BY <1>1, <1>2
  <2> QED
    BY <1>1, <2>1 DEF Following
<1> QED
  BY <1>1, <1>3

\* A move follows the table, which leads out of SETTLED nowhere and never back.
LEMMA MovesForward ==
  ASSUME PatrolTypeOK, NEW l \in PatrolLeg, NEW s \in State, Moves(l, s)
  PROVE  /\ node' \in [PatrolLeg -> State \cup {"none"}] /\ node'[l] = s
         /\ \A k \in PatrolLeg \ {l} : node'[k] = node[k]
         /\ node[l] # "SETTLED" /\ s \notin {"none", "PROPOSED"}
         /\ s = "CONTRACTED" => node[l] = "PROPOSED"
         /\ s = "ESCROWED" => node[l] = "CONTRACTED"
<1>1. node[l] \in State /\ CanTransition(node[l], s) /\ node' = [node EXCEPT ![l] = s]
  BY DEF Moves, PatrolTypeOK
<1>2. /\ node' \in [PatrolLeg -> State \cup {"none"}] /\ node'[l] = s
      /\ \A k \in PatrolLeg \ {l} : node'[k] = node[k]
  BY <1>1 DEF PatrolTypeOK
<1>3. PICK r \in State : r = node[l]
  BY <1>1
<1>4. s \in Transitions[r]
  BY <1>1, <1>3 DEF CanTransition
<1>5. Transitions[r] =
        CASE r = "PROPOSED"   -> {"CONTRACTED", "CANCELLED", "EXPIRED_REFUNDED"}
          [] r = "CONTRACTED" -> {"ESCROWED", "CANCELLED", "EXPIRED_REFUNDED"}
          [] r = "ESCROWED"   -> {"DELIVERED", "EXPIRED_REFUNDED", "CANCELLED"}
          [] r = "DELIVERED"  -> {"VERIFIED", "REJECTED", "EXPIRED_REFUNDED"}
          [] r = "VERIFIED"   -> {"SETTLED", "DISPUTED", "EXPIRED_REFUNDED"}
          [] r = "DISPUTED"   -> {"SETTLED", "REJECTED"}
          [] OTHER            -> {}
  BY <1>3 DEF Transitions
<1>6. /\ r # "SETTLED" /\ s \notin {"none", "PROPOSED"}
      /\ s = "CONTRACTED" => r = "PROPOSED"
      /\ s = "ESCROWED" => r = "CONTRACTED"
  BY <1>3, <1>4, <1>5 DEF State
<1> QED
  BY <1>2, <1>3, <1>6

\* What the node does for a request.
LEMMA RequestFacts ==
  ASSUME PatrolTypeOK, NEW l \in PatrolLeg, NEW step \in AtNode, Requested(l, step)
  PROVE  /\ node' \in [PatrolLeg -> State \cup {"none"}]
         /\ acks' \in [PatrolLeg -> SUBSET {"contract", "countersign"}]
         /\ frozen' \in [PatrolLeg -> Nat]
         /\ \A k \in PatrolLeg \ {l} : node'[k] = node[k] /\ frozen'[k] = frozen[k]
         /\ node[l] = "SETTLED" => node'[l] = "SETTLED"
         /\ node[l] \notin Early \cup {"ESCROWED"} => node'[l] \notin Early \cup {"ESCROWED"}
         /\ node[l] \notin Early => node'[l] \notin Early
         /\ \/ frozen'[l] = frozen[l]
            \/ step = "escrow" /\ node[l] \in Early /\ node'[l] \notin Early /\ frozen'[l] = frozen[l] + 1
         /\ step \in {"deliver", "verify", "confirm"} => node'[l] \notin Early \cup {"ESCROWED"}
         /\ step = "confirm" => node'[l] = "SETTLED"
<1>1. CASE step = "propose"
  <2>1. node' = [node EXCEPT ![l] = IF @ = "none" THEN "PROPOSED" ELSE @] /\ UNCHANGED <<acks, frozen>>
    BY <1>1 DEF Requested
  <2>2. node[l] \in State \cup {"none"}
    BY DEF PatrolTypeOK
  <2>3. /\ node' \in [PatrolLeg -> State \cup {"none"}] /\ \A k \in PatrolLeg \ {l} : node'[k] = node[k]
        /\ node'[l] = IF node[l] = "none" THEN "PROPOSED" ELSE node[l]
    BY <2>1, <2>2 DEF PatrolTypeOK, State
  <2> QED
    BY <1>1, <2>1, <2>3 DEF PatrolTypeOK, Early
<1>2. CASE step \in {"contract", "countersign"}
  <2>1. /\ node[l] \in {"PROPOSED", "CONTRACTED"} /\ acks' = [acks EXCEPT ![l] = @ \cup {step}]
        /\ node' = [node EXCEPT ![l] = IF Cardinality(acks'[l]) = 2 THEN "CONTRACTED" ELSE @]
        /\ frozen' = frozen
    BY <1>2 DEF Requested
  <2>2. acks' \in [PatrolLeg -> SUBSET {"contract", "countersign"}]
    BY <1>2, <2>1 DEF PatrolTypeOK
  <2>3. /\ node' \in [PatrolLeg -> State \cup {"none"}] /\ \A k \in PatrolLeg \ {l} : node'[k] = node[k]
        /\ node'[l] \in {node[l], "CONTRACTED"}
    BY <2>1 DEF PatrolTypeOK, State
  <2> QED
    BY <1>2, <2>1, <2>2, <2>3 DEF PatrolTypeOK, Early
<1>3. CASE step = "escrow"
  <2>1. Moves(l, "ESCROWED") /\ frozen' = [frozen EXCEPT ![l] = @ + 1] /\ UNCHANGED acks
    BY <1>3 DEF Requested
  <2>2. /\ node' \in [PatrolLeg -> State \cup {"none"}] /\ node'[l] = "ESCROWED" /\ node[l] = "CONTRACTED"
        /\ \A k \in PatrolLeg \ {l} : node'[k] = node[k]
    BY <2>1, MovesForward DEF State
  <2>3. /\ frozen' \in [PatrolLeg -> Nat] /\ frozen'[l] = frozen[l] + 1
        /\ \A k \in PatrolLeg \ {l} : frozen'[k] = frozen[k]
    BY <2>1 DEF PatrolTypeOK
  <2> QED
    BY <1>3, <2>1, <2>2, <2>3 DEF PatrolTypeOK, Early
<1>4. ASSUME NEW s \in {"DELIVERED", "VERIFIED", "SETTLED"}, Moves(l, s), UNCHANGED <<acks, frozen>>,
             step \notin {"propose", "contract", "countersign", "escrow"}, step = "confirm" => s = "SETTLED"
      PROVE  /\ node' \in [PatrolLeg -> State \cup {"none"}]
             /\ acks' \in [PatrolLeg -> SUBSET {"contract", "countersign"}]
             /\ frozen' \in [PatrolLeg -> Nat]
             /\ \A k \in PatrolLeg \ {l} : node'[k] = node[k] /\ frozen'[k] = frozen[k]
             /\ node[l] # "SETTLED" /\ node'[l] \notin Early \cup {"ESCROWED"}
             /\ frozen'[l] = frozen[l] /\ (step = "confirm" => node'[l] = "SETTLED")
  BY <1>4, MovesForward DEF State, PatrolTypeOK, Early
<1>5. CASE step \in {"deliver", "verify", "confirm"}
  <2>1. PICK s \in {"DELIVERED", "VERIFIED", "SETTLED"} :
          Moves(l, s) /\ UNCHANGED <<acks, frozen>> /\ (step = "confirm" => s = "SETTLED")
    BY <1>5 DEF Requested
  <2> QED
    BY <1>4, <1>5, <2>1
<1> QED
  BY <1>1, <1>2, <1>3, <1>5 DEF AtNode

\* A step keeps the invariant when the exchanges only go forward, money is frozen for legs
\* that may be, outcomes and committed drafts are those that ended well, and a goal is made
\* of outcomes.
LEMMA PatrolKeeps ==
  ASSUME PatrolTypeOK, PatrolInv,
         \A l \in PatrolLeg :
           /\ node[l] = "SETTLED" => node'[l] = "SETTLED"
           /\ node[l] \notin Early \cup {"ESCROWED"} => node'[l] \notin Early \cup {"ESCROWED"}
           /\ node[l] \notin Early => node'[l] \notin Early
           /\ \/ frozen'[l] = frozen[l]
              \/ /\ node[l] \in Early /\ node'[l] \notin Early /\ frozen'[l] = frozen[l] + 1
                 /\ Prior(l) \subseteq outcomes
           /\ vaulted[l] \subseteq vaulted'[l] /\ vaulted'[l] \subseteq {"owner", "provider"}
           /\ draft'[l].status = "committed" =>
                draft[l].status = "committed" \/ node[l] \notin Early \cup {"ESCROWED"},
         outcomes \subseteq outcomes', outcomes' \subseteq PatrolLeg,
         \A l \in outcomes' \ outcomes : node[l] = "SETTLED" /\ vaulted[l] = {"owner", "provider"},
         goal' = goal \/ ({"arrival", "drone", "robot"} \subseteq goal' /\ goal' \subseteq outcomes),
         goal' \subseteq PatrolLeg,
         at' = Resting \/ WorkIsBacked'
  PROVE  PatrolInv'
<1>1. WorkIsBacked'
  BY DEF WorkIsBacked
<1>2. FrozenOnTheWay'
  BY DEF PatrolInv, FrozenOnTheWay
<1>3. OutcomesAreSettled'
  <2>1. SUFFICES ASSUME NEW l \in outcomes' PROVE node'[l] = "SETTLED" /\ vaulted'[l] = {"owner", "provider"}
    BY DEF OutcomesAreSettled
  <2>2. l \in PatrolLeg /\ node[l] = "SETTLED" /\ vaulted[l] = {"owner", "provider"}
    BY <2>1 DEF PatrolInv, PatrolIsBacked, OutcomesAreSettled
  <2> QED
    BY <2>2
<1>4. FrozenOnce'
  <2>1. SUFFICES ASSUME NEW l \in PatrolLeg
                 PROVE  frozen'[l] <= 1 /\ (frozen'[l] > 0 => \A p \in Prior(l) : node'[p] = "SETTLED")
    BY DEF FrozenOnce
  <2>2. /\ frozen[l] \in Nat /\ frozen[l] <= 1 /\ (frozen[l] > 0 => \A p \in Prior(l) : node[p] = "SETTLED")
        /\ node[l] \in Early => frozen[l] = 0
    BY <2>1 DEF PatrolInv, PatrolIsBacked, FrozenOnce, FrozenOnTheWay, PatrolTypeOK
  <2>3. Prior(l) \subseteq PatrolLeg
    BY <2>1, LegsAndSteps DEF Prior
  <2>4. CASE frozen'[l] = frozen[l]
    BY <2>2, <2>3, <2>4
  <2>5. CASE node[l] \in Early /\ frozen'[l] = frozen[l] + 1 /\ Prior(l) \subseteq outcomes
    <3>1. frozen'[l] = 1
      BY <2>2, <2>5
    <3>2. \A p \in Prior(l) : node[p] = "SETTLED"
      BY <2>5 DEF PatrolInv, PatrolIsBacked, OutcomesAreSettled
    <3> QED
      BY <2>3, <3>1, <3>2
  <2> QED
    BY <2>1, <2>4, <2>5
<1>5. CommittedWasDelivered'
  <2>1. SUFFICES ASSUME NEW l \in PatrolLeg, draft'[l].status = "committed"
                 PROVE  node'[l] \notin {"none", "PROPOSED", "CONTRACTED", "ESCROWED"}
    BY DEF CommittedWasDelivered
  <2>2. node[l] \notin Early \cup {"ESCROWED"}
    BY <2>1 DEF PatrolInv, PatrolIsBacked, CommittedWasDelivered, Early
  <2> QED
    BY <2>1, <2>2 DEF Early
<1>6. goal' # {} => /\ {"arrival", "drone", "robot"} \subseteq goal'
                    /\ \A l \in goal' : node'[l] = "SETTLED"
  BY DEF PatrolInv, PatrolIsBacked, OutcomesAreSettled
<1> QED
  BY <1>1, <1>2, <1>3, <1>4, <1>5, <1>6 DEF PatrolInv, PatrolIsBacked

\* A leg in work is one of the legs, at one of its steps.
LEMMA LegInWork ==
  ASSUME PatrolTypeOK, at.step # "none"
  PROVE  at.leg \in PatrolLeg /\ at.step \in Range(Steps) /\ at # Resting
  BY DEF PatrolTypeOK, Work, Resting

\* What the next step of a leg is known to find, from what the last one did.
LEMMA LegGoesOn ==
  ASSUME PatrolTypeOK, PatrolInv, at.step \in Range(Steps), at' = Following(at.step),
         outcomes \subseteq outcomes',
         at.step \in {"commit", "verify", "confirm", "keep", "keepProvider"} /\
           node[at.leg] \notin Early \cup {"ESCROWED"} => node'[at.leg] \notin Early \cup {"ESCROWED"},
         at.step = "deliver" => node'[at.leg] \notin Early \cup {"ESCROWED"},
         at.step = "confirm" => node'[at.leg] = "SETTLED" \/ at.leg = "charge",
         at.step \in {"keep", "keepProvider"} /\ node[at.leg] = "SETTLED" => node'[at.leg] = "SETTLED",
         vaulted[at.leg] \subseteq vaulted'[at.leg],
         at.step = "keep" => "owner" \in vaulted'[at.leg],
         at.step = "keepProvider" => "provider" \in vaulted'[at.leg]
  PROVE  /\ at' \in Work \cup {Resting}
         /\ at' = Resting \/ WorkIsBacked'
<1>1. "none" \notin Range(Steps)
  BY LegsAndSteps
<1>2. at.leg \in PatrolLeg /\ at # Resting
  BY <1>1, LegInWork
<1>3. PICK l \in PatrolLeg : l = at.leg
  BY <1>2
<1>4. CASE at.step = "record"
  BY <1>4, StepsFollow
<1>5. ASSUME at.step # "record"
      PROVE  \E s \in Range(Steps) :
               /\ at' = [leg |-> l, step |-> s]
               /\ s = "commit" <=> at.step = "deliver"
               /\ s = "verify" <=> at.step = "commit"
               /\ s = "confirm" <=> at.step = "verify"
               /\ s = "keep" <=> at.step = "confirm"
               /\ s = "keepProvider" <=> at.step = "keep"
               /\ s = "record" <=> at.step = "keepProvider"
  BY <1>3, <1>5, StepsFollow, LegsAndSteps
<1>6. CASE at.step # "record"
  <2>1. PICK s \in Range(Steps) :
          /\ at' = [leg |-> l, step |-> s]
          /\ s = "commit" <=> at.step = "deliver"
          /\ s = "verify" <=> at.step = "commit"
          /\ s = "confirm" <=> at.step = "verify"
          /\ s = "keep" <=> at.step = "confirm"
          /\ s = "keepProvider" <=> at.step = "keep"
          /\ s = "record" <=> at.step = "keepProvider"
    BY <1>5, <1>6
  <2>2. at'.leg = l /\ at'.step = s /\ at' \in Work
    BY <2>1 DEF Work
  <2>3. WorkIsBacked
    BY DEF PatrolInv
  <2>4. Prior(l) \subseteq outcomes'
    BY <1>2, <1>3, <2>3 DEF WorkIsBacked
  <2>5. s \in {"commit", "verify", "confirm", "keep", "keepProvider", "record"} =>
          node'[l] \notin Early \cup {"ESCROWED"}
    BY <1>2, <1>3, <2>1, <2>3 DEF WorkIsBacked
  <2>6. s \in {"keep", "keepProvider", "record"} /\ l # "charge" => node'[l] = "SETTLED"
    BY <1>2, <1>3, <2>1, <2>3 DEF WorkIsBacked
  <2>7. s \in {"keepProvider", "record"} => "owner" \in vaulted'[l]
    BY <1>2, <1>3, <2>1, <2>3 DEF WorkIsBacked
  <2>8. s = "record" => "provider" \in vaulted'[l]
    BY <1>3, <2>1
  <2>9. WorkIsBacked'
    BY <2>2, <2>4, <2>5, <2>6, <2>7, <2>8 DEF WorkIsBacked
  <2> QED
    BY <2>2, <2>9
<1> QED
  BY <1>4, <1>6

\* A step that only ends or begins a leg.
LEMMA PatrolRests ==
  ASSUME PatrolTypeOK, PatrolInv, at' = Resting \/ WorkIsBacked',
         UNCHANGED <<node, frozen, outcomes, vaulted, draft, goal>>
  PROVE  PatrolInv'
  BY PatrolKeeps DEF PatrolTypeOK

LEMMA CallPatrolKeeps ==
  ASSUME PatrolTypeOK, PatrolInv, Call \/ NextLeg
  PROVE  PatrolTypeOK' /\ PatrolInv'
<1>1. UNCHANGED <<goal, draft, node, acks, frozen, outcomes, vaulted, queued>>
  BY DEF Call, NextLeg, nodeOf, keptOf
<1>2. /\ \A i \in 1 .. 4 : Tour[i] \in PatrolLeg
      /\ Tour \in Seq(PatrolLeg) /\ Len(Tour) = 4
  <2>1. Tour[1] = "arrival" /\ Tour[2] = "drone" /\ Tour[3] = "robot" /\ Tour[4] = "charge" /\ Len(Tour) = 4
    BY DEF Tour
  <2>2. Tour \in Seq(PatrolLeg)
    BY LegsAndSteps DEF Tour
  <2> QED
    BY <2>1, <2>2, LegsAndSteps
<1>3. ASSUME NEW l \in PatrolLeg, BeginLeg(l)
      PROVE  at' \in Work /\ WorkIsBacked'
  <2>1. PriorRefsHold({[vdc |-> p, required |-> TRUE] : p \in Prior(l)}, outcomes)
    BY <1>3 DEF BeginLeg
  <2>2. \A r \in {[vdc |-> p, required |-> TRUE] : p \in Prior(l)} : r.required => r.vdc \in outcomes
    BY <2>1 DEF PriorRefsHold
  <2>3. Prior(l) \subseteq outcomes
    <3>1. SUFFICES ASSUME NEW p \in Prior(l) PROVE p \in outcomes
      OBVIOUS
    <3>2. [vdc |-> p, required |-> TRUE] \in {[vdc |-> q, required |-> TRUE] : q \in Prior(l)}
      BY <3>1
    <3> QED
      BY <2>2, <3>2
  <2>4. at' = [leg |-> l, step |-> "draft"]
    BY <1>3 DEF BeginLeg
  <2>5. at' \in Work /\ at'.leg = l /\ at'.step = "draft"
    BY <1>3, <2>4, LegsAndSteps DEF Work
  <2> QED
    BY <1>1, <2>3, <2>5 DEF WorkIsBacked
<1>4. CASE Call
  <2>1. PICK legs \in {Tour, SubSeq(Tour, 1, 3)} \cup {<<l>> : l \in PatrolLeg} : BeginLeg(legs[1]) /\ plan' = legs
    BY <1>4 DEF Call
  <2>2. legs \in Seq(PatrolLeg) /\ legs[1] \in PatrolLeg
    <3>1. CASE legs = Tour
      BY <1>2, <3>1
    <3>2. CASE legs = SubSeq(Tour, 1, 3)
      <4>1. legs \in Seq(PatrolLeg) /\ Len(legs) = 3 /\ legs[1] = Tour[1]
        BY <1>2, <3>2
      <4> QED
        BY <1>2, <4>1
    <3>3. CASE legs \in {<<l>> : l \in PatrolLeg}
      <4>1. PICK l \in PatrolLeg : legs = <<l>>
        BY <3>3
      <4>2. legs[1] = l
        BY <4>1
      <4>3. legs \in Seq(PatrolLeg)
        BY <4>1
      <4> QED
        BY <4>2, <4>3
    <3> QED
      BY <2>1, <3>1, <3>2, <3>3
  <2>3. PICK l \in PatrolLeg : l = legs[1]
    BY <2>2
  <2>4. at' \in Work /\ WorkIsBacked'
    BY <1>3, <2>1, <2>3
  <2>5. PatrolTypeOK'
    BY <1>1, <2>1, <2>2, <2>4 DEF PatrolTypeOK
  <2> QED
    BY <1>1, <2>4, <2>5, PatrolRests
<1>5. CASE NextLeg
  <2>1. /\ plan # <<>> /\ plan' = Tail(plan) /\ at = Resting
        /\ IF plan' = <<>> THEN UNCHANGED at ELSE BeginLeg(Head(plan'))
    BY <1>5 DEF NextLeg
  <2>2. plan' \in Seq(PatrolLeg)
    BY <2>1 DEF PatrolTypeOK
  <2>3. CASE plan' = <<>>
    <3>1. at' = Resting
      BY <2>1, <2>3
    <3>2. PatrolTypeOK'
      BY <1>1, <2>2, <3>1 DEF PatrolTypeOK
    <3> QED
      BY <1>1, <3>1, <3>2, PatrolRests
  <2>4. CASE plan' # <<>>
    <3>1. PICK l : l = Head(plan')
      OBVIOUS
    <3>2. l \in PatrolLeg /\ BeginLeg(l)
      BY <2>1, <2>2, <2>4, <3>1
    <3>3. at' \in Work /\ WorkIsBacked'
      BY <1>3, <3>2
    <3>4. PatrolTypeOK'
      BY <1>1, <2>2, <3>3 DEF PatrolTypeOK
    <3> QED
      BY <1>1, <3>3, <3>4, PatrolRests
  <2> QED
    BY <2>3, <2>4
<1> QED
  BY <1>4, <1>5

LEMMA RequestKeeps ==
  ASSUME PatrolTypeOK, PatrolInv, Request
  PROVE  PatrolTypeOK' /\ PatrolInv'
<1>1. PICK l : l = at.leg
  OBVIOUS
<1>2. PICK step : step = at.step
  OBVIOUS
<1>3. /\ step \in AtNode /\ Requested(l, step) /\ at' = Following(at.step) /\ UNCHANGED plan
      /\ draft' = IF step = "propose" THEN [draft EXCEPT ![l].bound = TRUE] ELSE draft
      /\ vaulted' = IF step = "confirm" THEN [vaulted EXCEPT ![l] = @ \cup {"owner"}] ELSE vaulted
      /\ UNCHANGED <<goal, outcomes, queued>>
  BY <1>1, <1>2 DEF Request, Goes
<1>4. l \in PatrolLeg /\ at.step \in Range(Steps) /\ at # Resting
  BY <1>1, <1>2, <1>3, LegInWork DEF AtNode
<1>5. /\ node' \in [PatrolLeg -> State \cup {"none"}]
      /\ acks' \in [PatrolLeg -> SUBSET {"contract", "countersign"}]
      /\ frozen' \in [PatrolLeg -> Nat]
      /\ \A k \in PatrolLeg \ {l} : node'[k] = node[k] /\ frozen'[k] = frozen[k]
      /\ node[l] = "SETTLED" => node'[l] = "SETTLED"
      /\ node[l] \notin Early \cup {"ESCROWED"} => node'[l] \notin Early \cup {"ESCROWED"}
      /\ node[l] \notin Early => node'[l] \notin Early
      /\ \/ frozen'[l] = frozen[l]
         \/ step = "escrow" /\ node[l] \in Early /\ node'[l] \notin Early /\ frozen'[l] = frozen[l] + 1
      /\ step \in {"deliver", "verify", "confirm"} => node'[l] \notin Early \cup {"ESCROWED"}
      /\ step = "confirm" => node'[l] = "SETTLED"
  BY <1>3, <1>4, RequestFacts
<1>6. PICK d : d = draft[l]
  OBVIOUS
<1>7. d \in [status : {"none", "drafting", "ready", "committed", "discarded"}, bound : BOOLEAN, filled : BOOLEAN]
  BY <1>4, <1>6 DEF PatrolTypeOK, Drafted
<1>8. PICK e : e = [d EXCEPT !.bound = TRUE]
  OBVIOUS
<1>9. e \in Drafted /\ e.status = d.status
  BY <1>7, <1>8 DEF Drafted
<1>10. draft' \in [PatrolLeg -> Drafted] /\ \A k \in PatrolLeg : draft'[k].status = draft[k].status
  <2>1. CASE step = "propose"
    <3>1. draft' = [draft EXCEPT ![l] = e]
      BY <1>3, <1>6, <1>8, <2>1
    <3> QED
      BY <1>4, <1>6, <1>9, <3>1 DEF PatrolTypeOK
  <2>2. CASE step # "propose"
    BY <1>3, <2>2 DEF PatrolTypeOK
  <2> QED
    BY <2>1, <2>2
<1>11. /\ vaulted' \in [PatrolLeg -> SUBSET {"owner", "provider"}]
       /\ \A k \in PatrolLeg : vaulted[k] \subseteq vaulted'[k]
  BY <1>3, <1>4 DEF PatrolTypeOK
<1>12. at' \in Work \cup {Resting} /\ (at' = Resting \/ WorkIsBacked')
  BY <1>1, <1>2, <1>3, <1>4, <1>5, <1>11, LegGoesOn DEF AtNode
<1>13. PatrolTypeOK'
  BY <1>3, <1>5, <1>10, <1>11, <1>12 DEF PatrolTypeOK
<1>14. Prior(l) \subseteq outcomes
  BY <1>1, <1>4 DEF PatrolInv, WorkIsBacked
<1>15. PatrolInv'
  BY <1>3, <1>5, <1>10, <1>11, <1>12, <1>14, PatrolKeeps DEF PatrolTypeOK
<1> QED
  BY <1>13, <1>15

LEMMA RaiseKeeps ==
  ASSUME PatrolTypeOK, PatrolInv, RequestRaises
  PROVE  PatrolTypeOK' /\ PatrolInv'
<1>1. PICK l : l = at.leg
  OBVIOUS
<1>2. PICK step : step = at.step
  OBVIOUS
<1>3. /\ step \in AtNode /\ at' = Resting /\ plan' = <<>>
      /\ UNCHANGED <<goal, draft, outcomes, vaulted, queued>>
  BY <1>2 DEF RequestRaises, Stops, keptOf
<1>4. l \in PatrolLeg /\ at # Resting
  BY <1>1, <1>2, <1>3, LegInWork DEF AtNode
<1>5. /\ node' \in [PatrolLeg -> State \cup {"none"}]
      /\ acks' \in [PatrolLeg -> SUBSET {"contract", "countersign"}]
      /\ frozen' \in [PatrolLeg -> Nat]
      /\ \A k \in PatrolLeg \ {l} : node'[k] = node[k] /\ frozen'[k] = frozen[k]
      /\ node[l] = "SETTLED" => node'[l] = "SETTLED"
      /\ node[l] \notin Early \cup {"ESCROWED"} => node'[l] \notin Early \cup {"ESCROWED"}
      /\ node[l] \notin Early => node'[l] \notin Early
      /\ \/ frozen'[l] = frozen[l]
         \/ node[l] \in Early /\ node'[l] \notin Early /\ frozen'[l] = frozen[l] + 1
  <2>1. CASE UNCHANGED nodeOf
    BY <2>1 DEF nodeOf, PatrolTypeOK
  <2>2. CASE Requested(l, step)
    BY <1>3, <1>4, <2>2, RequestFacts
  <2>3. CASE Moves(l, "REJECTED") /\ UNCHANGED <<acks, frozen>>
    <3>1. "REJECTED" \in State /\ "REJECTED" \notin Early \cup {"ESCROWED"}
      BY DEF State, Early
    <3> QED
      BY <1>4, <2>3, <3>1, MovesForward DEF PatrolTypeOK, Early
  <2> QED
    BY <1>1, <1>2, <2>1, <2>2, <2>3 DEF RequestRaises
<1>6. PatrolTypeOK'
  BY <1>3, <1>5 DEF PatrolTypeOK
<1>7. Prior(l) \subseteq outcomes
  BY <1>1, <1>4 DEF PatrolInv, WorkIsBacked
<1>8. PatrolInv'
  BY <1>3, <1>5, <1>7, PatrolKeeps DEF PatrolTypeOK
<1> QED
  BY <1>6, <1>8

\* A leg that waits for the network, the provider's draft, or the vaults.
LEMMA LegKeeps ==
  ASSUME PatrolTypeOK, PatrolInv, Queue \/ PrepareRaises \/ KeepRaises
  PROVE  PatrolTypeOK' /\ PatrolInv'
<1>1. UNCHANGED <<goal, node, acks, frozen, draft, outcomes, vaulted>>
  BY DEF Queue, PrepareRaises, KeepRaises, nodeOf, keptOf
<1>2. CASE at' = Resting /\ plan' = <<>>
  <2>1. queued' \subseteq [leg : PatrolLeg, op : {"verify", "confirm"}]
    <3>1. CASE Queue
      <4>1. at.step \in {"verify", "confirm"} /\ queued' = queued \cup {[leg |-> at.leg, op |-> at.step]}
        BY <3>1 DEF Queue
      <4>2. at.leg \in PatrolLeg
        BY <4>1, LegInWork
      <4> QED
        BY <4>1, <4>2 DEF PatrolTypeOK
    <3>2. CASE PrepareRaises \/ KeepRaises
      BY <3>2 DEF PrepareRaises, KeepRaises, keptOf, PatrolTypeOK
    <3> QED
      BY <3>1, <3>2
  <2>2. PatrolTypeOK'
    BY <1>1, <1>2, <2>1 DEF PatrolTypeOK
  <2> QED
    BY <1>1, <1>2, <2>2, PatrolRests
<1>3. CASE Queue /\ at.leg = "charge" /\ at.step = "confirm" /\ Goes
  <2>1. /\ at' = Following(at.step) /\ UNCHANGED plan /\ at.step = "confirm" /\ at.leg = "charge"
        /\ queued' = queued \cup {[leg |-> at.leg, op |-> at.step]}
    BY <1>3 DEF Queue, Goes
  <2>2. at.leg \in PatrolLeg /\ at.step \in Range(Steps)
    BY <2>1, LegInWork
  <2>3. at' \in Work \cup {Resting} /\ (at' = Resting \/ WorkIsBacked')
    BY <1>1, <2>1, <2>2, LegGoesOn
  <2>4. queued' \subseteq [leg : PatrolLeg, op : {"verify", "confirm"}]
    BY <2>1, <2>2 DEF PatrolTypeOK
  <2>5. PatrolTypeOK'
    BY <1>1, <2>1, <2>3, <2>4 DEF PatrolTypeOK
  <2> QED
    BY <1>1, <2>3, <2>5, PatrolRests
<1> QED
  BY <1>2, <1>3 DEF Queue, PrepareRaises, KeepRaises, Stops

\* The provider's draft opens, fills, and is committed by a leg that has delivered.
LEMMA DraftStepKeeps ==
  ASSUME PatrolTypeOK, PatrolInv, DraftStep
  PROVE  PatrolTypeOK' /\ PatrolInv'
<1>1. PICK l : l = at.leg
  OBVIOUS
<1>2. /\ at.step \in {"draft", "prepare", "commit"} /\ at' = Following(at.step) /\ UNCHANGED plan
      /\ UNCHANGED <<goal, node, acks, frozen, outcomes, vaulted, queued>>
  BY DEF DraftStep, Goes, nodeOf, keptOf
<1>3. l \in PatrolLeg /\ at.step \in Range(Steps) /\ at # Resting
  BY <1>1, <1>2, LegInWork
<1>4. PICK d : d = draft[l]
  OBVIOUS
<1>5. d \in [status : {"none", "drafting", "ready", "committed", "discarded"}, bound : BOOLEAN, filled : BOOLEAN]
  BY <1>3, <1>4 DEF PatrolTypeOK, Drafted
<1>6. \E e \in Drafted : /\ draft' = [draft EXCEPT ![l] = e]
                         /\ e.status = "committed" => at.step = "commit"
  <2>1. CASE draft' = [draft EXCEPT ![l] = [NoDraft EXCEPT !.status = "drafting"]]
    <3>1. NoDraft \in [status : {"none", "drafting", "ready", "committed", "discarded"},
                       bound : BOOLEAN, filled : BOOLEAN]
      BY DEF NoDraft
    <3>2. PICK e : e = [NoDraft EXCEPT !.status = "drafting"]
      OBVIOUS
    <3>3. e \in Drafted /\ e.status = "drafting"
      BY <3>1, <3>2 DEF Drafted
    <3> QED
      BY <2>1, <3>2, <3>3
  <2>2. CASE draft' = [draft EXCEPT ![l].status = "ready", ![l].filled = TRUE]
    <3>1. PICK e : e = [d EXCEPT !.status = "ready", !.filled = TRUE]
      OBVIOUS
    <3>2. e \in Drafted /\ e.status = "ready"
      BY <1>5, <3>1 DEF Drafted
    <3>3. draft' = [draft EXCEPT ![l] = e]
      BY <1>3, <1>4, <2>2, <3>1 DEF PatrolTypeOK
    <3> QED
      BY <3>2, <3>3
  <2>3. CASE at.step = "commit" /\ draft' = [draft EXCEPT ![l].status = "committed"]
    <3>1. PICK e : e = [d EXCEPT !.status = "committed"]
      OBVIOUS
    <3>2. e \in Drafted
      BY <1>5, <3>1 DEF Drafted
    <3>3. draft' = [draft EXCEPT ![l] = e]
      BY <1>4, <2>3, <3>1
    <3> QED
      BY <2>3, <3>2, <3>3
  <2> QED
    BY <1>1, <2>1, <2>2, <2>3 DEF DraftStep
<1>7. PICK e \in Drafted : draft' = [draft EXCEPT ![l] = e] /\ (e.status = "committed" => at.step = "commit")
  BY <1>6
<1>8. at.step = "commit" => node[l] \notin Early \cup {"ESCROWED"}
  BY <1>1, <1>3 DEF PatrolInv, WorkIsBacked
<1>9. draft' \in [PatrolLeg -> Drafted] /\ draft'[l] = e /\ \A k \in PatrolLeg \ {l} : draft'[k] = draft[k]
  <2>1. draft \in [PatrolLeg -> Drafted]
    BY DEF PatrolTypeOK
  <2> QED
    BY <1>3, <1>7, <2>1
<1>10. \A k \in PatrolLeg : draft'[k].status = "committed" =>
        draft[k].status = "committed" \/ node[k] \notin Early \cup {"ESCROWED"}
  <2>1. SUFFICES ASSUME NEW k \in PatrolLeg, draft'[k].status = "committed", k = l \/ k # l
                 PROVE  draft[k].status = "committed" \/ node[k] \notin Early \cup {"ESCROWED"}
    OBVIOUS
  <2>2. CASE k = l
    BY <1>7, <1>8, <1>9, <2>1, <2>2
  <2>3. CASE k # l
    <3>1. draft'[k] = draft[k]
      BY <1>9, <2>1, <2>3
    <3> QED
      BY <2>1, <3>1
  <2> QED
    BY <2>1, <2>2, <2>3
<1>11. at' \in Work \cup {Resting} /\ (at' = Resting \/ WorkIsBacked')
  BY <1>2, <1>3, LegGoesOn
<1>12. PatrolTypeOK'
  BY <1>2, <1>9, <1>11 DEF PatrolTypeOK
<1>13. PatrolInv'
  BY <1>2, <1>9, <1>10, <1>11, PatrolKeeps DEF PatrolTypeOK
<1> QED
  BY <1>12, <1>13

\* A leg in work stays what it is when it is not what moves.
LEMMA LegWaits ==
  ASSUME PatrolTypeOK, PatrolInv, UNCHANGED <<at, outcomes>>,
         \A l \in PatrolLeg :
           /\ node[l] = "SETTLED" => node'[l] = "SETTLED"
           /\ node[l] \notin Early \cup {"ESCROWED"} => node'[l] \notin Early \cup {"ESCROWED"}
           /\ vaulted[l] \subseteq vaulted'[l]
  PROVE  at' = Resting \/ WorkIsBacked'
<1>1. CASE at = Resting
  BY <1>1
<1>2. CASE at # Resting
  <2>1. PICK l : l = at.leg
    OBVIOUS
  <2>2. l \in PatrolLeg /\ at' = at
    BY <1>2, <2>1 DEF PatrolTypeOK, Work
  <2>3. /\ Prior(l) \subseteq outcomes
        /\ at.step \in {"commit", "verify", "confirm", "keep", "keepProvider", "record"} =>
             node[l] \notin Early \cup {"ESCROWED"}
        /\ at.step \in {"keep", "keepProvider", "record"} /\ l # "charge" => node[l] = "SETTLED"
        /\ at.step \in {"keepProvider", "record"} => "owner" \in vaulted[l]
        /\ at.step = "record" => "provider" \in vaulted[l]
    BY <1>2, <2>1 DEF PatrolInv, WorkIsBacked
  <2>4. /\ Prior(l) \subseteq outcomes'
        /\ at.step \in {"commit", "verify", "confirm", "keep", "keepProvider", "record"} =>
             node'[l] \notin Early \cup {"ESCROWED"}
        /\ at.step \in {"keep", "keepProvider", "record"} /\ l # "charge" => node'[l] = "SETTLED"
        /\ at.step \in {"keepProvider", "record"} => "owner" \in vaulted'[l]
        /\ at.step = "record" => "provider" \in vaulted'[l]
    BY <2>2, <2>3
  <2> QED
    BY <2>1, <2>2, <2>4 DEF WorkIsBacked
<1> QED
  BY <1>1, <1>2

LEMMA DiscardKeeps ==
  ASSUME PatrolTypeOK, PatrolInv, NEW l \in PatrolLeg, Discard(l)
  PROVE  PatrolTypeOK' /\ PatrolInv'
<1>1. /\ draft' = [draft EXCEPT ![l].status = "discarded"]
      /\ UNCHANGED <<plan, at, goal, node, acks, frozen, outcomes, vaulted, queued>>
  BY DEF Discard, ordersOf, nodeOf, keptOf
<1>2. PICK d : d = draft[l]
  OBVIOUS
<1>3. d \in [status : {"none", "drafting", "ready", "committed", "discarded"}, bound : BOOLEAN, filled : BOOLEAN]
  BY <1>2 DEF PatrolTypeOK, Drafted
<1>4. PICK e : e = [d EXCEPT !.status = "discarded"]
  OBVIOUS
<1>5. e \in Drafted /\ e.status = "discarded"
  BY <1>3, <1>4 DEF Drafted
<1>6. draft' = [draft EXCEPT ![l] = e]
  BY <1>1, <1>2, <1>4
<1>7. /\ draft' \in [PatrolLeg -> Drafted]
      /\ \A k \in PatrolLeg : draft'[k].status = "committed" => draft[k].status = "committed"
  <2>1. draft \in [PatrolLeg -> Drafted]
    BY DEF PatrolTypeOK
  <2>2. draft' \in [PatrolLeg -> Drafted] /\ draft'[l] = e /\ \A k \in PatrolLeg \ {l} : draft'[k] = draft[k]
    BY <1>5, <1>6, <2>1
  <2> QED
    BY <1>5, <2>2
<1>8. at' = Resting \/ WorkIsBacked'
  BY <1>1, LegWaits
<1>9. PatrolTypeOK'
  BY <1>1, <1>7 DEF PatrolTypeOK
<1>10. PatrolInv'
  BY <1>1, <1>7, <1>8, PatrolKeeps DEF PatrolTypeOK
<1> QED
  BY <1>9, <1>10

LEMMA KeepKeeps ==
  ASSUME PatrolTypeOK, PatrolInv, Keep
  PROVE  PatrolTypeOK' /\ PatrolInv'
<1>1. PICK l : l = at.leg
  OBVIOUS
<1>2. PICK who : who = IF at.step = "keep" THEN "owner" ELSE "provider"
  OBVIOUS
<1>3. /\ at.step \in {"keep", "keepProvider"} /\ vaulted' = [vaulted EXCEPT ![l] = @ \cup {who}]
      /\ at' = Following(at.step) /\ UNCHANGED <<plan, goal, node, acks, frozen, draft, outcomes, queued>>
  BY <1>1, <1>2 DEF Keep, Goes, nodeOf
<1>4. l \in PatrolLeg /\ at.step \in Range(Steps) /\ at # Resting
  BY <1>1, <1>3, LegInWork
<1>5. /\ vaulted' \in [PatrolLeg -> SUBSET {"owner", "provider"}] /\ who \in vaulted'[l]
      /\ \A k \in PatrolLeg : vaulted[k] \subseteq vaulted'[k]
  BY <1>2, <1>3, <1>4 DEF PatrolTypeOK
<1>6. at' \in Work \cup {Resting} /\ (at' = Resting \/ WorkIsBacked')
  BY <1>1, <1>2, <1>3, <1>4, <1>5, LegGoesOn
<1>7. PatrolTypeOK'
  BY <1>3, <1>5, <1>6 DEF PatrolTypeOK
<1>8. PatrolInv'
  BY <1>3, <1>5, <1>6, PatrolKeeps DEF PatrolTypeOK
<1> QED
  BY <1>7, <1>8

LEMMA RecordKeeps ==
  ASSUME PatrolTypeOK, PatrolInv, Record
  PROVE  PatrolTypeOK' /\ PatrolInv'
<1>1. PICK l : l = at.leg
  OBVIOUS
<1>2. /\ at.step = "record"
      /\ UNCHANGED <<goal, node, acks, frozen, draft, vaulted, queued>>
  BY DEF Record, nodeOf
<1>3. l \in PatrolLeg /\ at.step \in Range(Steps) /\ at # Resting
  BY <1>1, <1>2, LegInWork, LegsAndSteps
<1>4. /\ l # "charge" => node[l] = "SETTLED"
      /\ vaulted[l] = {"owner", "provider"}
  <2>1. "owner" \in vaulted[l] /\ "provider" \in vaulted[l] /\ (l # "charge" => node[l] = "SETTLED")
    BY <1>1, <1>2, <1>3 DEF PatrolInv, WorkIsBacked
  <2>2. vaulted[l] \subseteq {"owner", "provider"}
    BY <1>3 DEF PatrolTypeOK
  <2> QED
    BY <2>1, <2>2
<1>5. Following("record") = Resting
  BY StepsFollow
<1>6. at' = Resting /\ plan' \in Seq(PatrolLeg)
  <2>1. at' = Resting /\ (plan' = plan \/ plan' = <<>>)
    BY <1>2, <1>5 DEF Record, Stops, Goes
  <2> QED
    BY <2>1, EmptySeq DEF PatrolTypeOK
<1>7. outcomes' = outcomes \/ (node[l] = "SETTLED" /\ outcomes' = outcomes \cup {l})
  BY <1>1, <1>2, <1>4 DEF Record
<1>8. PatrolTypeOK'
  BY <1>2, <1>3, <1>6, <1>7 DEF PatrolTypeOK
<1>9. PatrolInv'
  BY <1>2, <1>3, <1>4, <1>6, <1>7, PatrolKeeps DEF PatrolTypeOK
<1> QED
  BY <1>8, <1>9

LEMMA FinalizeKeeps ==
  ASSUME PatrolTypeOK, PatrolInv, Finalize
  PROVE  PatrolTypeOK' /\ PatrolInv'
<1>1. /\ at' = Resting
      /\ UNCHANGED <<plan, at, node, acks, frozen, draft, outcomes, vaulted, queued>>
  BY DEF Finalize, nodeOf, keptOf
<1>2. PICK ls \in {outcomes, outcomes \ {"charge"}} : goal' = ls
  BY DEF Finalize
<1>3. {"arrival", "drone", "robot"} \subseteq outcomes
  BY DEF Finalize
<1>4. {"arrival", "drone", "robot"} \subseteq goal' /\ goal' \subseteq outcomes /\ goal' \subseteq PatrolLeg
  BY <1>2, <1>3 DEF PatrolTypeOK
<1>5. PatrolTypeOK'
  BY <1>1, <1>4 DEF PatrolTypeOK
<1>6. PatrolInv'
  BY <1>1, <1>4, PatrolKeeps DEF PatrolTypeOK
<1> QED
  BY <1>5, <1>6

LEMMA FlushLaterKeeps ==
  ASSUME PatrolTypeOK, PatrolInv, FlushLater
  PROVE  PatrolTypeOK' /\ PatrolInv'
<1>1. at' = Resting /\ UNCHANGED <<plan, at, goal, draft, outcomes>>
  BY DEF FlushLater, ordersOf
<1>2. PICK q \in queued :
        /\ queued' = queued \ {q}
        /\ \/ UNCHANGED <<nodeOf, vaulted>>
           \/ /\ Requested(q.leg, q.op)
              /\ vaulted' = IF q.op = "confirm" THEN [vaulted EXCEPT ![q.leg] = @ \cup {"owner"}]
                                                ELSE vaulted
  BY DEF FlushLater
<1>3. PICK l : l = q.leg
  OBVIOUS
<1>4. PICK step : step = q.op
  OBVIOUS
<1>5. l \in PatrolLeg /\ step \in AtNode /\ step # "escrow"
  BY <1>2, <1>3, <1>4 DEF PatrolTypeOK, AtNode
<1>6. CASE UNCHANGED <<nodeOf, vaulted>>
  <2>1. PatrolTypeOK'
    BY <1>1, <1>2, <1>6 DEF PatrolTypeOK, nodeOf
  <2> QED
    BY <1>1, <1>6, <2>1, PatrolRests DEF nodeOf
<1>7. CASE /\ Requested(l, step)
           /\ vaulted' = IF step = "confirm" THEN [vaulted EXCEPT ![l] = @ \cup {"owner"}] ELSE vaulted
  <2>1. /\ node' \in [PatrolLeg -> State \cup {"none"}]
        /\ acks' \in [PatrolLeg -> SUBSET {"contract", "countersign"}]
        /\ frozen' \in [PatrolLeg -> Nat]
        /\ \A k \in PatrolLeg \ {l} : node'[k] = node[k] /\ frozen'[k] = frozen[k]
        /\ node[l] = "SETTLED" => node'[l] = "SETTLED"
        /\ node[l] \notin Early \cup {"ESCROWED"} => node'[l] \notin Early \cup {"ESCROWED"}
        /\ node[l] \notin Early => node'[l] \notin Early
        /\ frozen'[l] = frozen[l]
    BY <1>5, <1>7, RequestFacts
  <2>2. /\ vaulted' \in [PatrolLeg -> SUBSET {"owner", "provider"}]
        /\ \A k \in PatrolLeg : vaulted[k] \subseteq vaulted'[k]
    BY <1>5, <1>7 DEF PatrolTypeOK
  <2>3. PatrolTypeOK'
    BY <1>1, <1>2, <2>1, <2>2 DEF PatrolTypeOK
  <2>4. PatrolInv'
    BY <1>1, <2>1, <2>2, PatrolKeeps DEF PatrolTypeOK
  <2> QED
    BY <2>3, <2>4
<1> QED
  BY <1>2, <1>3, <1>4, <1>6, <1>7

LEMMA NetworkKeeps ==
  ASSUME PatrolTypeOK, PatrolInv, OwnerNetwork
  PROVE  PatrolTypeOK' /\ PatrolInv'
<1>1. UNCHANGED <<plan, at, goal, node, acks, frozen, draft, outcomes, vaulted, queued>>
  BY DEF OwnerNetwork, ordersOf, nodeOf, keptOf
<1>2. at' = Resting \/ WorkIsBacked'
  BY <1>1, LegWaits
<1>3. PatrolTypeOK'
  BY <1>1 DEF PatrolTypeOK
<1> QED
  BY <1>1, <1>2, <1>3, PatrolRests

LEMMA ElsewhereKeeps ==
  ASSUME PatrolTypeOK, PatrolInv, NEW l \in PatrolLeg, Elsewhere(l)
  PROVE  PatrolTypeOK' /\ PatrolInv'
<1>1. UNCHANGED <<plan, at, goal, acks, frozen, draft, outcomes, vaulted, queued>>
  BY DEF Elsewhere, ordersOf, keptOf
<1>2. PICK s \in {"EXPIRED_REFUNDED", "DISPUTED"} : Moves(l, s)
  BY DEF Elsewhere
<1>3. s \in State /\ s \notin Early \cup {"ESCROWED"}
  BY <1>2 DEF State, Early
<1>4. /\ node' \in [PatrolLeg -> State \cup {"none"}] /\ node'[l] = s /\ node[l] # "SETTLED"
      /\ \A k \in PatrolLeg \ {l} : node'[k] = node[k]
  BY <1>2, <1>3, MovesForward
<1>5. \A k \in PatrolLeg :
        /\ node[k] = "SETTLED" => node'[k] = "SETTLED"
        /\ node[k] \notin Early \cup {"ESCROWED"} => node'[k] \notin Early \cup {"ESCROWED"}
        /\ node[k] \notin Early => node'[k] \notin Early
  BY <1>3, <1>4
<1>6. at' = Resting \/ WorkIsBacked'
  BY <1>1, <1>5, LegWaits
<1>7. PatrolTypeOK'
  BY <1>1, <1>4 DEF PatrolTypeOK
<1>8. PatrolInv'
  BY <1>1, <1>5, <1>6, PatrolKeeps DEF PatrolTypeOK
<1> QED
  BY <1>7, <1>8

\* patrol.py, charge.py, draft.py: whatever raises, is retried or waits offline, an outcome
\* stands for an exchange that settled, a leg pays once and only after those it builds on,
\* a committed draft was delivered, and a finished goal names only settled legs.
THEOREM PatrolAlwaysBacked == PatrolSpec => []PatrolIsBacked
<1>1. PatrolInit => PatrolTypeOK /\ PatrolInv
  <2>1. SUFFICES ASSUME PatrolInit PROVE PatrolTypeOK /\ PatrolInv
    OBVIOUS
  <2>2. NoDraft \in Drafted /\ NoDraft.status = "none"
    BY DEF NoDraft, Drafted
  <2>3. PatrolTypeOK
    BY <2>1, <2>2 DEF PatrolInit, PatrolTypeOK
  <2>4. CommittedWasDelivered
    BY <2>1, <2>2 DEF PatrolInit, CommittedWasDelivered
  <2>5. WorkIsBacked /\ FrozenOnTheWay /\ OutcomesAreSettled /\ FrozenOnce
    BY <2>1 DEF PatrolInit, WorkIsBacked, FrozenOnTheWay, OutcomesAreSettled, FrozenOnce
  <2>6. goal = {}
    BY <2>1 DEF PatrolInit
  <2> QED
    BY <2>3, <2>4, <2>5, <2>6 DEF PatrolInv, PatrolIsBacked
<1>2. PatrolTypeOK /\ PatrolInv /\ [PatrolNext]_patrolVars => PatrolTypeOK' /\ PatrolInv'
  <2>1. SUFFICES ASSUME PatrolTypeOK, PatrolInv, [PatrolNext]_patrolVars
                 PROVE  PatrolTypeOK' /\ PatrolInv'
    OBVIOUS
  <2>2. CASE UNCHANGED patrolVars
    <3>1. UNCHANGED <<plan, at, goal, node, acks, frozen, draft, outcomes, vaulted, queued>>
      BY <2>2 DEF patrolVars
    <3>2. PatrolTypeOK'
      BY <2>1, <3>1 DEF PatrolTypeOK
    <3>3. at' = Resting \/ WorkIsBacked'
      BY <2>1, <3>1, LegWaits
    <3> QED
      BY <2>1, <3>1, <3>2, <3>3, PatrolRests
  <2>3. CASE PatrolNext
    BY <2>1, <2>3, CallPatrolKeeps, RequestKeeps, RaiseKeeps, LegKeeps, DraftStepKeeps, KeepKeeps,
       RecordKeeps, FinalizeKeeps, FlushLaterKeeps, NetworkKeeps, DiscardKeeps, ElsewhereKeeps DEF PatrolNext
  <2> QED
    BY <2>1, <2>2, <2>3
<1>3. PatrolTypeOK /\ PatrolInv => PatrolIsBacked
  BY DEF PatrolInv
<1> QED
  BY <1>1, <1>2, <1>3, PTL DEF PatrolSpec
=============================================================================
