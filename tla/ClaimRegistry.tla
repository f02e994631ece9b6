--------------------------- MODULE ClaimRegistry ---------------------------
(***************************************************************************)
(* The registry of claims: who may redeem the settlement of a VDC.  The    *)
(* records live in memory and the whole registry is rewritten to a file    *)
(* after each change.  The endpoints run in threads and no lock is taken:  *)
(* a request checks the record, changes it, and writes the file; an        *)
(* assignment changes it in three steps, which may overlap another's.      *)
(***************************************************************************)
EXTENDS ServerThreads, Naturals, Sequences, SequencesExt

CONSTANTS
  Claim,       \* claim ids
  Agent,       \* holders
  Nonce,       \* nonces of signed assignments
  NoClaim,     \* no claim, no agent, no order
  MaxRequest,  \* bound on the requests that pass their checks
  MaxCrash     \* bound on the crashes

ASSUME ClaimAssumption ==
  /\ NoClaim \notin Claim \cup Agent
  /\ MaxRequest \in Nat /\ MaxCrash \in Nat

\* An assignment as its giver signed it: assignment_bytes.
Order == {o \in [by : Agent, to : Agent, nonce : Nonce] : o.by # o.to}

\* The open, reserved, spent and released claim; absent is a claim not issued.
ClaimStatus == {"absent", "open", "reserved", "spent", "released"}
Terminal == {"spent", "released"}

\* A lineage entry: the holder it names as giver, and the order it was made for.
ClaimRecord == [status : ClaimStatus, holder : Agent \cup {NoClaim},
           lineage : Seq([from : Agent, order : Order])]
Absent == [status |-> "absent", holder |-> NoClaim, lineage |-> <<>>]
NoClaims  == [c \in Claim |-> Absent]

\* The file with these claims, and a file that was opened and not written.
Text(claims) == [ok |-> TRUE, claims |-> claims]
Torn == [ok |-> FALSE, claims |-> NoClaims]

Op == {"assign", "reserve", "capture", "release", "redeem"}

VARIABLES
  mem,         \* _by_id
  file,        \* the file
  up,          \* whether the node runs; it does not start with an unreadable file
  handling,    \* the threads: step, operation, claim, order, the giver, registry to write
  paid,        \* history: successful redeems and captures of a claim
  told,        \* history: the terminal status a caller was answered
  requests,    \* number of requests that passed their checks
  crashes,     \* number of crashes
  claimsRaced  \* history: whether two threads were ever at work at the same time

claimVars == <<mem, file, up, handling, paid, told, requests, crashes, claimsRaced>>

NoOrder == [pc |-> "idle", op |-> NoClaim, claim |-> NoClaim, order |-> NoClaim,
            from |-> NoClaim, out |-> NoClaims]

ClaimInit ==
  /\ mem = NoClaims /\ file = Text(NoClaims) /\ up = TRUE
  /\ handling = [t \in Thread |-> NoOrder]
  /\ paid = [c \in Claim |-> 0]
  /\ told = [c \in Claim |-> NoClaim]
  /\ requests = 0 /\ crashes = 0 /\ claimsRaced = FALSE

---------------------------------------------------------------------------
\* issue: a claim of an agent, anchored on a VDC.
Issue(t, c, a) ==
  /\ up /\ handling[t].pc = "idle" /\ mem[c] = Absent
  /\ mem' = [mem EXCEPT ![c] = [Absent EXCEPT !.status = "open", !.holder = a]]
  /\ handling' = [handling EXCEPT ![t] = [NoOrder EXCEPT !.pc = "dump", !.op = "issue", !.claim = c]]
  /\ UNCHANGED <<file, up, paid, told, crashes>>

\* What each operation demands of the record.
Allowed(op, r, o) ==
  CASE op = "assign" -> r.status = "open" /\ r.holder = o.by
    [] op \in {"reserve", "redeem"} -> r.status = "open"
    [] op = "capture" -> r.status = "reserved"
    [] op = "release" -> r.status \in {"open", "reserved"}

\* A request passes its checks; one that fails them is answered with an error.
Check(t, op, c, o) ==
  /\ up /\ handling[t].pc = "idle"
  /\ Allowed(op, mem[c], o)
  /\ handling' = [handling EXCEPT ![t] = [NoOrder EXCEPT !.pc = "change", !.op = op, !.claim = c,
                                          !.order = o]]
  /\ UNCHANGED <<mem, file, up, paid, told, crashes>>

\* assign: the holder is read once more, as the giver ...
ReadGiver(t) ==
  /\ handling[t].pc = "change" /\ handling[t].op = "assign"
  /\ handling' = [handling EXCEPT ![t].pc = "append", ![t].from = mem[handling[t].claim].holder]
  /\ UNCHANGED <<mem, file, up, paid, told, crashes>>

\* Mutant: the new holder is entered as the giver.
Entry_NewGiver(t) == [from |-> handling[t].order.to, order |-> handling[t].order]

Entry(t) == [from |-> handling[t].from, order |-> handling[t].order]

\* ... who is entered into the lineage ...
AppendEntry(t) ==
  /\ handling[t].pc = "append"
  /\ mem' = [mem EXCEPT ![handling[t].claim].lineage = Append(@, Entry(t))]
  /\ handling' = [handling EXCEPT ![t].pc = "hold"]
  /\ UNCHANGED <<file, up, paid, told, crashes>>

\* ... and then the claim gets its new holder.
PassOn(t) ==
  /\ handling[t].pc = "hold"
  /\ mem' = [mem EXCEPT ![handling[t].claim].holder = handling[t].order.to]
  /\ handling' = [handling EXCEPT ![t].pc = "dump"]
  /\ UNCHANGED <<file, up, paid, told, crashes>>

\* What each other operation makes of the record, as it is now.
StatusAfter(op) ==
  CASE op = "reserve" -> "reserved"
    [] op \in {"capture", "redeem"} -> "spent"
    [] op = "release" -> "released"

Change(t) ==
  /\ handling[t].pc = "change" /\ handling[t].op # "assign"
  /\ mem' = [mem EXCEPT ![handling[t].claim].status = StatusAfter(handling[t].op)]
  /\ handling' = [handling EXCEPT ![t].pc = "dump"]
  /\ UNCHANGED <<file, up, paid, told, crashes>>

---------------------------------------------------------------------------
\* _persist: the text is made ...
Dump(t) ==
  /\ handling[t].pc = "dump"
  /\ handling' = [handling EXCEPT ![t].pc = "truncate", ![t].out = mem]
  /\ UNCHANGED <<mem, file, up, paid, told, crashes>>

\* ... or not, because another thread issues a claim while it is made: the dict
\* changes under the iteration, and the caller gets an error for the change ...
DumpFails(t) ==
  /\ handling[t].pc = "dump"
  /\ \E u \in Thread : /\ handling[u].op = "issue" /\ handling[u].pc = "dump"
                       /\ handling[u].claim # handling[t].claim
  /\ handling' = [handling EXCEPT ![t] = NoOrder]
  /\ UNCHANGED <<mem, file, up, paid, told, crashes>>

\* ... write_text opens the file, which empties it ...
Truncate(t) ==
  /\ handling[t].pc = "truncate"
  /\ file' = Torn
  /\ handling' = [handling EXCEPT ![t].pc = "write"]
  /\ UNCHANGED <<mem, up, paid, told, crashes>>

\* Two writers in the same file may leave a mixture of their texts.
Mixed(t) == IF \E u \in Thread \ {t} : handling[u].pc = "write" THEN {Torn} ELSE {}

\* ... and the text is written.
Write(t) ==
  /\ handling[t].pc = "write"
  /\ file' \in {Text(handling[t].out)} \cup Mixed(t)
  /\ handling' = [handling EXCEPT ![t].pc = "answer"]
  /\ UNCHANGED <<mem, up, paid, told, crashes>>

\* The caller is answered; a redeem or capture lets the partner pay.
Answer(t) ==
  LET c == handling[t].claim  op == handling[t].op IN
  /\ handling[t].pc = "answer"
  /\ paid' = [paid EXCEPT ![c] = @ + IF op \in {"capture", "redeem"} THEN 1 ELSE 0]
  /\ told' = [told EXCEPT ![c] = CASE op \in {"capture", "redeem"} -> "spent"
                                   [] op = "release" -> "released"
                                   [] OTHER -> @]
  /\ handling' = [handling EXCEPT ![t] = NoOrder]
  /\ UNCHANGED <<mem, file, up, crashes>>

\* The process dies and starts from the file, if it can be read.
ClaimCrash ==
  /\ up /\ crashes < MaxCrash
  /\ crashes' = crashes + 1
  /\ handling' = [t \in Thread |-> NoOrder]
  /\ up' = file.ok
  /\ mem' = file.claims
  /\ UNCHANGED <<file, paid, told>>

ClaimRequest(t) ==
  \/ \E c \in Claim, a \in Agent : Issue(t, c, a)
  \/ \E c \in Claim, o \in Order : Check(t, "assign", c, o)
  \/ \E c \in Claim, op \in Op \ {"assign"} : Check(t, op, c, NoClaim)

Continue(t) ==
  \/ ReadGiver(t) \/ AppendEntry(t) \/ PassOn(t) \/ Change(t)
  \/ Dump(t) \/ DumpFails(t) \/ Truncate(t) \/ Write(t) \/ Answer(t)

ClaimNext ==
  \/ /\ \E t \in Thread : ClaimRequest(t)
     /\ requests < MaxRequest /\ requests' = requests + 1
     /\ claimsRaced' = (claimsRaced \/ ~Alone(handling'))
  \/ (\E t \in Thread : Continue(t)) /\ UNCHANGED <<requests, claimsRaced>>
  \/ ClaimCrash /\ UNCHANGED <<requests, claimsRaced>>

ClaimSpec == ClaimInit /\ [][ClaimNext]_claimVars

---------------------------------------------------------------------------
(* Properties.                                                             *)

ClaimTypeOK ==
  /\ mem \in [Claim -> ClaimRecord] /\ file \in [ok : BOOLEAN, claims : [Claim -> ClaimRecord]]
  /\ \A c \in Claim : mem[c].status = "absent" <=> mem[c].holder = NoClaim
  /\ up \in BOOLEAN
  /\ handling \in [Thread -> [pc : {"idle", "change", "append", "hold", "dump", "truncate", "write",
                                    "answer"},
                              op : Op \cup {"issue", NoClaim}, claim : Claim \cup {NoClaim},
                              order : Order \cup {NoClaim}, from : Agent \cup {NoClaim},
                              out : [Claim -> ClaimRecord]]]
  /\ \A t \in Thread : handling[t].pc # "idle" =>
       /\ handling[t].claim \in Claim /\ handling[t].op \in Op \cup {"issue"}
       /\ handling[t].op = "assign" => handling[t].order \in Order
       /\ handling[t].pc \in {"append", "hold"} => handling[t].op = "assign"
  /\ paid \in [Claim -> Nat] /\ told \in [Claim -> Terminal \cup {NoClaim}]
  /\ requests \in 0 .. MaxRequest /\ crashes \in 0 .. MaxCrash /\ claimsRaced \in BOOLEAN

\* Whether an agent held the claim: it gave it first, or an order gave it to the agent.
HasHeld(r, a) ==
  LET l == r.lineage IN
  IF l = <<>> THEN a = r.holder
  ELSE a = l[1].from \/ \E j \in DOMAIN l : l[j].order.to = a

\* Every giver in the lineage had held the claim before.
GiversHeld(r) ==
  LET l == r.lineage IN
  \A i \in DOMAIN l : \/ l[i].from = l[1].from
                      \/ \E j \in 1 .. i - 1 : l[j].order.to = l[i].from

\* The lineage leads to the holder without a gap.
LeadsToHolder(r) ==
  LET l == r.lineage IN
  /\ \A i \in 1 .. Len(l) - 1 : l[i].order.to = l[i + 1].from
  /\ l # <<>> => Last(l).order.to = r.holder

\* However requests overlap and crash, in memory and in the file the holder and every
\* giver in a lineage did hold the claim before: two overlapping assignments may both give
\* it away, but nobody gives what was never theirs.  As long as requests do not overlap
\* the lineage leads to the holder without a gap, but for the moment in which an
\* assignment has entered the giver and not yet the holder, and every step is signed by
\* the holder that it names as the giver.
LineageLeadsToHolder ==
  \A c \in Claim :
    /\ \A r \in {mem[c], file.claims[c]} : GiversHeld(r) /\ HasHeld(r, r.holder)
    /\ ~claimsRaced =>
         /\ LeadsToHolder(file.claims[c])
         /\ \/ LeadsToHolder(mem[c])
            \/ \E t \in Thread : handling[t].pc = "hold" /\ handling[t].claim = c
         /\ \A i \in DOMAIN mem[c].lineage :
              mem[c].lineage[i].from = mem[c].lineage[i].order.by

\* The money of a claim is paid out once, whatever is repeated or crashed, as long
\* as requests do not overlap.
PaidOnce == ~claimsRaced => \A c \in Claim : paid[c] <= 1

\* A claim whose caller was told that it is spent or released is so for good, also
\* after a crash, as long as requests do not overlap.
ToldIsKept ==
  ~claimsRaced => \A c \in Claim : told[c] # NoClaim /\ up => mem[c].status = told[c]

\* claim_registry.py: the lineage, the payment and what callers were told, together.
ClaimsAreSound == LineageLeadsToHolder /\ PaidOnce /\ ToldIsKept

\* profiles/NP-CLAIM-XFER.md:42: redeems of one claim exclude each other.
RedeemsExclude == \A c \in Claim : paid[c] <= 1

\* The inductive invariant of the lineage, whatever races: in memory, in the file and in
\* every text that is still to be written the holder and the givers held the claim before,
\* and so did the giver a thread has read and the holder a thread is about to enter; a
\* request that passed its checks changes a claim that was issued.
Owned(claims) ==
  \A c \in Claim : /\ claims[c].status = "absent" <=> claims[c].holder = NoClaim
                   /\ GiversHeld(claims[c]) /\ HasHeld(claims[c], claims[c].holder)

LineageInv ==
  /\ Owned(mem) /\ Owned(file.claims)
  /\ \A t \in Thread :
       /\ Owned(handling[t].out)
       /\ handling[t].pc \in {"change", "append", "hold"} =>
            handling[t].op # "issue" /\ mem[handling[t].claim].status # "absent"
       /\ handling[t].pc = "append" => /\ handling[t].from \in Agent
                                       /\ HasHeld(mem[handling[t].claim], handling[t].from)
       /\ handling[t].pc = "hold" =>
            \E j \in DOMAIN mem[handling[t].claim].lineage :
              mem[handling[t].claim].lineage[j].order.to = handling[t].order.to

\* What a caller was told or paid stands in these claims.
Honours(claims) ==
  \A c \in Claim : /\ told[c] # NoClaim => claims[c].status = told[c]
                   /\ paid[c] > 0 => claims[c].status = "spent"

Signed(claims) ==
  \A c \in Claim : \A i \in DOMAIN claims[c].lineage :
    claims[c].lineage[i].from = claims[c].lineage[i].order.by

LedBy(claims) == \A c \in Claim : LeadsToHolder(claims[c])

\* A thread that is alone: what it checked still holds, what it did is in memory, and the
\* file is the memory before it begins and when it is through.
AloneAt(t) ==
  LET c == handling[t].claim  op == handling[t].op  pc == handling[t].pc IN
  /\ pc \in {"change", "append"} => file = Text(mem) /\ Allowed(op, mem[c], handling[t].order)
  /\ pc = "append" => handling[t].from = mem[c].holder
  /\ pc = "hold" => LedBy([mem EXCEPT ![c].holder = handling[t].order.to])
  /\ pc \in {"dump", "truncate", "write", "answer"} =>
       /\ op \in {"capture", "redeem"} => mem[c].status = "spent" /\ paid[c] = 0
       /\ op = "release" => mem[c].status = "released"
  /\ pc \in {"truncate", "write"} => handling[t].out = mem
  /\ pc = "answer" => file = Text(mem)

ClaimAlone ==
  /\ Alone(handling)
  /\ Signed(mem) /\ Signed(file.claims) /\ \A t \in Thread : Signed(handling[t].out)
  /\ LedBy(file.claims) /\ \A t \in Thread : LedBy(handling[t].out)
  /\ (\A t \in Thread : handling[t].pc # "hold") => LedBy(mem)
  /\ \A c \in Claim : paid[c] <= 1
  /\ up => Honours(mem)
  /\ file.ok => Honours(file.claims)
  /\ up /\ (\A t \in Thread : handling[t].pc = "idle") => file = Text(mem)
  /\ up \/ \A t \in Thread : handling[t].pc = "idle"
  /\ \A t \in Thread : AloneAt(t)

ClaimAloneInv == ~claimsRaced => ClaimAlone
=============================================================================
