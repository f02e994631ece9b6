--------------------------- MODULE Certifications ---------------------------
(***************************************************************************)
(* The public list of certified implementations, which stewards keep: how  *)
(* a certificate gets its number, who has it, and the file that is         *)
(* rewritten after each change.  src/novapanda/node/certifications.py.     *)
(*                                                                         *)
(* The endpoints run in threads; a grant reads the list for its number and *)
(* enters the record, a change of status looks up the record and marks it, *)
(* and no lock is taken.                                                   *)
(***************************************************************************)
EXTENDS ServerThreads, Naturals, FiniteSets, FiniteSetsExt

CONSTANTS
  MaxNumber,     \* bound on the numbers of a series
  MaxCertCall,   \* bound on the calls of stewards
  MaxCertStarts  \* bound on the starts of the process

ASSUME CertsAssumption == MaxNumber \in Nat /\ MaxCertCall \in Nat /\ MaxCertStarts \in Nat

Series == {"COMP", "CERT"}
CertId == Series \X (1 .. MaxNumber)
CertLevel == {"L1", "L3"}
Unasked == <<"none", 0>>

\* A record is known by the call that made it.
Grant == 1 .. MaxCertCall
NoCert  == [grant |-> 0, status |-> "none"]
NoCerts == [c \in CertId |-> NoCert]
Unreadable == [ok |-> FALSE, certs |-> NoCerts]
Listing(certs) == [ok |-> TRUE, certs |-> certs]
NoClerk == [pc |-> "idle", id |-> Unasked, rec |-> NoCert, out |-> NoCerts]

VARIABLES
  certs,       \* _by_id
  certFile,    \* the file
  clerk,       \* the threads: step, number, record, text to write
  certCalls,   \* number of calls of stewards
  certStarts,  \* number of starts after the first
  assured,     \* history: the number and status a steward was last answered, by grant
  replaced,    \* history: whether another record took the place of a grant's, asked for or not
  askedL3,     \* history: whether a steward ever asked for a number of the L3 series
  certsRaced   \* history: whether two threads were ever at work at the same time

certVars == <<certs, certFile, clerk, certCalls, certStarts, assured, replaced, askedL3, certsRaced>>

CertsInit ==
  /\ certs = NoCerts /\ certFile = Listing(NoCerts)
  /\ clerk = [t \in Thread |-> NoClerk]
  /\ certCalls = 0 /\ certStarts = 0
  /\ assured = [g \in Grant |-> [id |-> Unasked, status |-> "none"]]
  /\ replaced = [g \in Grant |-> "no"] /\ askedL3 = FALSE /\ certsRaced = FALSE
---------------------------------------------------------------------------
Issued(s) == {n \in 1 .. MaxNumber : certs[<<s, n>>] # NoCert}

\* Mutant: the records are counted in this series too.
NextComp_Counted == <<"COMP", Cardinality(Issued("COMP")) + 1>>

\* _next_comp_id: one more than the greatest number.
NextComp == <<"COMP", Max(Issued("COMP") \cup {0}) + 1>>

\* grant: certificates of the level L3 have a series of their own, whose records are
\* counted; any other number that was asked for is taken as it is.
NumberFor(level, wish) ==
  IF level = "L3" /\ wish[1] # "CERT" THEN <<"CERT", Cardinality(Issued("CERT")) + 1>>
  ELSE IF wish = Unasked THEN NextComp ELSE wish

BeginGrant(t, level, wish) ==
  LET id == NumberFor(level, wish) IN
  /\ clerk[t].pc = "idle" /\ id \in CertId
  /\ clerk' = [clerk EXCEPT ![t] = [NoClerk EXCEPT !.pc = IF id = wish THEN "enterAsked" ELSE "enter",
                                                   !.id = id, !.rec = [grant |-> certCalls + 1, status |-> "active"]]]
  /\ askedL3' = (askedL3 \/ (id = wish /\ wish[1] = "CERT"))
  /\ UNCHANGED <<certs, certFile, certStarts, assured, replaced>>

\* The record takes its place, whoever had it.
Enter(t) ==
  LET id == clerk[t].id IN
  /\ clerk[t].pc \in {"enter", "enterAsked"}
  /\ certs' = [certs EXCEPT ![id] = clerk[t].rec]
  /\ replaced' = [g \in Grant |-> IF g # certs[id].grant THEN replaced[g]
                                 ELSE IF clerk[t].pc = "enter" THEN "unasked" ELSE "asked"]
  /\ clerk' = [clerk EXCEPT ![t].pc = "dump"]
  /\ UNCHANGED <<certFile, certStarts, assured, askedL3>>

\* set_status looks up the record,
BeginStatus(t, id, status) ==
  /\ clerk[t].pc = "idle" /\ certs[id] # NoCert
  /\ clerk' = [clerk EXCEPT ![t] = [NoClerk EXCEPT !.pc = "mark", !.id = id,
                                                   !.rec = [certs[id] EXCEPT !.status = status]]]
  /\ UNCHANGED <<certs, certFile, certStarts, assured, replaced, askedL3>>

\* and marks it, where it still is or out of the list.
Mark(t) ==
  LET id == clerk[t].id  rec == clerk[t].rec IN
  /\ clerk[t].pc = "mark"
  /\ certs' = IF certs[id].grant = rec.grant THEN [certs EXCEPT ![id] = rec] ELSE certs
  /\ clerk' = [clerk EXCEPT ![t].pc = "dump"]
  /\ UNCHANGED <<certFile, certStarts, assured, replaced, askedL3>>
---------------------------------------------------------------------------
\* _persist: the text is made, the file is emptied and the text is written; two
\* writers may leave a mixture.
DumpCerts(t) ==
  /\ clerk[t].pc = "dump"
  /\ clerk' = [clerk EXCEPT ![t].pc = "empty", ![t].out = certs]
  /\ UNCHANGED <<certs, certFile, certStarts, assured, replaced, askedL3>>

EmptyList(t) ==
  /\ clerk[t].pc = "empty"
  /\ certFile' = Unreadable
  /\ clerk' = [clerk EXCEPT ![t].pc = "write"]
  /\ UNCHANGED <<certs, certStarts, assured, replaced, askedL3>>

\* The steward is answered with the record.
WriteList(t) ==
  LET also == {Unreadable : u \in {v \in Thread \ {t} : clerk[v].pc = "write"}} IN
  /\ clerk[t].pc = "write"
  /\ certFile' \in {Listing(clerk[t].out)} \cup also
  /\ assured' = [assured EXCEPT ![clerk[t].rec.grant] =
                   [id |-> clerk[t].id, status |-> clerk[t].rec.status]]
  /\ clerk' = [clerk EXCEPT ![t] = NoClerk]
  /\ UNCHANGED <<certs, certStarts, replaced, askedL3>>

\* load: the process ends and starts with the file, if it can be read.
RestartCerts ==
  /\ certStarts < MaxCertStarts /\ certFile.ok
  /\ certStarts' = certStarts + 1
  /\ certs' = certFile.certs
  /\ clerk' = [t \in Thread |-> NoClerk]
  /\ UNCHANGED <<certFile, assured, replaced, askedL3>>

BeginClerk(t) ==
  \/ \E level \in CertLevel, wish \in CertId \cup {Unasked} : BeginGrant(t, level, wish)
  \/ \E id \in CertId, status \in {"active", "revoked"} : BeginStatus(t, id, status)

ContinueClerk(t) == Enter(t) \/ Mark(t) \/ DumpCerts(t) \/ EmptyList(t) \/ WriteList(t)

CertsNext ==
  \/ /\ \E t \in Thread : BeginClerk(t)
     /\ certCalls < MaxCertCall /\ certCalls' = certCalls + 1
     /\ certsRaced' = (certsRaced \/ ~Alone(clerk'))
  \/ (\E t \in Thread : ContinueClerk(t)) /\ UNCHANGED <<certCalls, certsRaced>>
  \/ RestartCerts /\ UNCHANGED <<certCalls, certsRaced>>

CertsSpec == CertsInit /\ [][CertsNext]_certVars
---------------------------------------------------------------------------
(* Properties.                                                             *)

\* A number that the registry chooses is nobody's: after revocations and restarts, and
\* whatever numbers stewards ask for in the series of L1 and L2; one asked for in the
\* series of L3, where records are counted, or a second steward, breaks that.
NumbersAreFresh == ~certsRaced /\ ~askedL3 => \A g \in Grant : replaced[g] # "unasked"

\* A certificate that was answered for is in the list with the status of the last
\* answer, also after a restart, until its number is given away; with two stewards at
\* once it need not be.
AnsweredStatusStays ==
  ~certsRaced /\ (\A t \in Thread : clerk[t].pc = "idle") =>
    \A g \in Grant : assured[g].id # Unasked /\ replaced[g] = "no" =>
      certs[assured[g].id] = [grant |-> g, status |-> assured[g].status]

\* certifications.py: what the public list says of a certificate is what was decided
\* about it, and by the one it was granted to.
CertificatesStand == NumbersAreFresh /\ AnsweredStatusStays

CertStatus == {"active", "revoked"}
Cert  == {NoCert} \cup [grant : Grant, status : CertStatus]
Certs == [CertId -> Cert]
Clerk == [pc : {"idle", "enter", "enterAsked", "mark", "dump", "empty", "write"},
          id : CertId \cup {Unasked}, rec : Cert, out : Certs]

CertsTypeOK ==
  /\ certs \in Certs /\ certFile \in [ok : BOOLEAN, certs : Certs]
  /\ clerk \in [Thread -> Clerk]
  /\ \A t \in Thread : clerk[t].pc # "idle" => clerk[t].id \in CertId /\ clerk[t].rec # NoCert
  /\ certCalls \in 0 .. MaxCertCall /\ certStarts \in 0 .. MaxCertStarts
  /\ assured \in [Grant -> [id : CertId \cup {Unasked}, status : CertStatus \cup {"none"}]]
  /\ replaced \in [Grant -> {"no", "asked", "unasked"}]
  /\ askedL3 \in BOOLEAN /\ certsRaced \in BOOLEAN

\* The numbers of the L3 series are given in order, so that counting finds the next.
InOrder(list) ==
  \E k \in 0 .. MaxNumber : \A n \in 1 .. MaxNumber : list[<<"CERT", n>>] # NoCert <=> n <= k

\* A number that nobody has, and in that series the next one.
IsFree(id) ==
  /\ certs[id] = NoCert
  /\ id[1] = "CERT" => \A n \in 1 .. id[2] - 1 : certs[<<"CERT", n>>] # NoCert

\* Of one steward at a time: the number that was found is still nobody's when its record
\* is entered; memory, file and the text in between number in order until a steward asks
\* for a number of that series.
FreshInv ==
  /\ \A t \in Thread : clerk[t].pc = "enter" => IsFree(clerk[t].id)
  /\ \A t \in Thread : clerk[t].pc = "enterAsked" => clerk[t].id[1] # "CERT"
  /\ InOrder(certs) /\ (certFile.ok => InOrder(certFile.certs))
  /\ \A g \in Grant : replaced[g] # "unasked"

\* A certificate that was answered for and keeps its number, in a list.
Stands(g, list) ==
  assured[g].id # Unasked /\ replaced[g] = "no" =>
    list[assured[g].id] = [grant |-> g, status |-> assured[g].status]

\* What the steward at work has done to the list, and the text made of it.
ClerkOK(t) ==
  /\ clerk[t].pc = "mark" => certs[clerk[t].id].grant = clerk[t].rec.grant
  /\ clerk[t].pc \in {"dump", "empty", "write"} => certs[clerk[t].id] = clerk[t].rec
  /\ clerk[t].pc \in {"empty", "write"} => clerk[t].out = certs

\* Of one steward at a time: the list and a readable file have what was answered, but
\* for the certificate that is being changed.
StandInv ==
  /\ Alone(clerk) /\ \A t \in Thread : ClerkOK(t)
  /\ \A g \in Grant :
       \/ Stands(g, certs)
       \/ \E t \in Thread : clerk[t].pc \in {"dump", "empty", "write"} /\ clerk[t].rec.grant = g
  /\ certFile.ok => \A g \in Grant : Stands(g, certFile.certs)

CertsAloneInv == ~certsRaced => StandInv /\ (~askedL3 => FreshInv)
=============================================================================
