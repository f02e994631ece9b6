--------------------------- MODULE MarketListings ---------------------------
(***************************************************************************)
(* The market's listings: the cache, the index of commitments, the mirror  *)
(* of another node's listings, and the search for a provider.              *)
(* src/novapanda/marketplace: registry.py, federation.py, manifest_sync.py,*)
(* match_router.py, facade.py, policy.py.                                  *)
(*                                                                         *)
(* Cache and index are two dictionaries without a lock, and the threads of *)
(* the node change first the one and then the other.                       *)
(***************************************************************************)
EXTENDS Integers, Sequences, SequencesExt, FiniteSets

CONSTANTS
  Caller,        \* threads of the node that are inside the registry
  ListingId,
  Mirrored,      \* id under which a listing of the other node is kept
  Seller, NoSeller,
  ManifestId,    \* listing id that the manifest of a seller leads to
  Offer,         \* what listings offer: [price, slow, hash]; hash 0 stands for none
  Status,        \* the statuses that an update may give a listing
  Floor,         \* the policy's min_score, in hundredths
  Effective,     \* effective score of a seller, in hundredths
  Discounted,    \* its risk penalty, in hundredths
  Weigh,         \* weights of the router: [price, sla, rep]
  MaxPrice, MaxSlow,  \* bounds of a query
  Limit,         \* limit of a query
  DiscoverFactor, \* discover returns so many times the limit
  Fetch          \* so many active listings discover takes from the cache

ASSUME ListingsAssumption ==
  /\ Mirrored \in ListingId /\ NoSeller \notin Seller
  /\ ManifestId \in [Seller -> ListingId]
  /\ Offer \subseteq [price : Nat, slow : Nat, hash : Nat] /\ "none" \notin Status
  /\ Floor \in Nat /\ Effective \in [Seller -> Nat] /\ Discounted \in [Seller -> Nat]
  /\ Weigh \in [price : Nat, sla : Nat, rep : Nat]
  /\ MaxPrice \in Nat /\ MaxSlow \in Nat /\ Limit \in Nat /\ DiscoverFactor \in Nat /\ Fetch \in Nat

VARIABLES
  listing,   \* the cache
  order,     \* ids in the order in which the cache first saw them
  chain,     \* the index of commitments
  owes,      \* what a thread has yet to do, and with what: [op, id, of]
  raced,     \* history: ids last changed in the cache while another call owed the index
  withdrawn  \* history: ids that were last changed by revoke

listingVars == <<listing, order, chain, owes, raced, withdrawn>>

NoListing == [seller |-> NoSeller, status |-> "none", offer |-> [price |-> 0, slow |-> 0, hash |-> 0]]
NoCommitment == [seller |-> NoSeller, hash |-> 0]
Through == [op |-> "none", id |-> Mirrored, of |-> NoCommitment]

ListingsInit ==
  /\ listing = [i \in ListingId |-> NoListing] /\ order = <<>>
  /\ chain = [i \in ListingId |-> NoCommitment]
  /\ owes = [c \in Caller |-> Through] /\ raced = {} /\ withdrawn = {}
---------------------------------------------------------------------------
(* The registry.                                                           *)

Listed(s, o, status) == [seller |-> s, offer |-> o, status |-> status]
Commitment(l) == [seller |-> l.seller, hash |-> l.offer.hash]

\* A thread has changed the cache at i and not yet the index.
Owed(i) == \E c \in Caller : owes[c].id = i /\ owes[c].op \in {"publish", "withdraw"}

Upsert(i, l) == /\ listing' = [listing EXCEPT ![i] = l]
                /\ order' = IF listing[i] = NoListing THEN Append(order, i) ELSE order
                /\ raced' = IF Owed(i) THEN raced \cup {i} ELSE raced \ {i}

\* register and update: the cache first; a listing without a hash leaves the old
\* commitment where it is.
EnterListing(c, i, l) ==
  /\ owes[c].op = "none" /\ Upsert(i, l)
  /\ withdrawn' = withdrawn \ {i}
  /\ owes' = [owes EXCEPT ![c] =
                IF l.offer.hash = 0 THEN Through ELSE [op |-> "publish", id |-> i, of |-> Commitment(l)]]
  /\ UNCHANGED chain

\* register, and the endpoint in front of it: whoever uses the id replaces the listing.
RegisterListing(c, i, s, o) == EnterListing(c, i, Listed(s, o, "active"))

\* update takes any listing whose id is known: the status, a revocation among them, and
\* the seller as they are given.
UpdateListing(c, i, s, o, status) ==
  /\ listing[i] # NoListing
  /\ EnterListing(c, i, Listed(s, o, status))

\* Mutant: a commitment that is there is kept.
Publish_Once(c) ==
  /\ owes[c].op = "publish" /\ owes' = [owes EXCEPT ![c] = Through]
  /\ chain' = IF chain[owes[c].id] # NoCommitment THEN chain
              ELSE [chain EXCEPT ![owes[c].id] = owes[c].of]
  /\ UNCHANGED <<listing, order, raced, withdrawn>>

\* _maybe_publish, publish
Publish(c) ==
  /\ owes[c].op = "publish" /\ owes' = [owes EXCEPT ![c] = Through]
  /\ chain' = [chain EXCEPT ![owes[c].id] = owes[c].of]
  /\ UNCHANGED <<listing, order, raced, withdrawn>>

\* revoke by the seller: the listing is read, ...
ReadRevoked(c, i) ==
  /\ owes[c].op = "none" /\ listing[i] # NoListing
  /\ owes' = [owes EXCEPT ![c] = [op |-> "read", id |-> i, of |-> listing[i]]]
  /\ UNCHANGED <<listing, order, chain, raced, withdrawn>>

\* ... what was read goes back into the cache as revoked, ...
Withdraw(c) ==
  LET i == owes[c].id  l == [owes[c].of EXCEPT !.status = "revoked"] IN
  /\ owes[c].op = "read" /\ Upsert(i, l)
  /\ withdrawn' = withdrawn \cup {i}
  /\ owes' = [owes EXCEPT ![c] = [op |-> "withdraw", id |-> i, of |-> Commitment(l)]]
  /\ UNCHANGED chain

\* ... and the index drops the commitment, unless it is of another seller.
Unpublish(c) ==
  LET i == owes[c].id IN
  /\ owes[c].op = "withdraw" /\ owes' = [owes EXCEPT ![c] = Through]
  /\ chain' = IF chain[i].seller = owes[c].of.seller
                THEN [chain EXCEPT ![i] = NoCommitment] ELSE chain
  /\ UNCHANGED <<listing, order, raced, withdrawn>>

\* listings_from_agent_manifest: a verified manifest leads to an id and a hash of its own.
SyncManifest(c, s, o) ==
  /\ o.hash # 0
  /\ RegisterListing(c, ManifestId[s], s, o)

\* import_listing_bundle: a listing of the other node, active whatever was done to the
\* mirror before.
ImportListing(c, s, o) == RegisterListing(c, Mirrored, s, o)
---------------------------------------------------------------------------
(* The search.                                                             *)

Fits(i, q) == listing[i].offer.price <= q.price /\ listing[i].offer.slow <= q.slow

\* The first n of some positions
Foremost(P, n) == {k \in P : Cardinality({m \in P : m <= k}) <= n}

\* discover: in the order of the cache, cut before the query is looked at, and again
\* before anything is scored.
Discover(q) ==
  LET active == {k \in DOMAIN order : listing[order[k]].status = "active"}
  IN  Foremost({k \in Foremost(active, Fetch) : Fits(order[k], q)}, Limit * DiscoverFactor)

\* _score: cheap, quick and reputed, less the penalty, which the reputation already holds.
Score(i, q) ==
  LET l == listing[i]
      gain == Weigh.price * (100 - (100 * l.offer.price) \div q.price)
              + Weigh.sla * (100 - (100 * l.offer.slow) \div q.slow)
              + Weigh.rep * Effective[l.seller]
      loss == (Weigh.price + Weigh.sla + Weigh.rep) * Discounted[l.seller]
  IN  IF gain > loss THEN gain - loss ELSE 0

\* route: those above the floor, best first; equal ones in the order they were found.
Able(q) == {k \in Discover(q) : Effective[listing[order[k]].seller] >= q.floor}
Before(j, k, q) == \/ Score(order[j], q) > Score(order[k], q)
                   \/ Score(order[j], q) = Score(order[k], q) /\ j < k
Rank(k, q) == 1 + Cardinality({j \in Able(q) : Before(j, k, q)})
Route(q) ==
  LET n == Cardinality(Able(q))
  IN  [r \in 1 .. IF n < Limit THEN n ELSE Limit |-> order[CHOOSE k \in Able(q) : Rank(k, q) = r]]

\* find_providers: the floor of the node's policy holds for every query.
Query == [price : 1 .. MaxPrice, slow : 1 .. MaxSlow, asked : {0, 100}]
WithFloor(q) == [price |-> q.price, slow |-> q.slow, floor |-> IF q.asked < Floor THEN Floor ELSE q.asked]
FindProviders(q) == Route(WithFloor(q))

ListingsNext ==
  \/ \E c \in Caller, i \in ListingId, s \in Seller, o \in Offer :
       RegisterListing(c, i, s, o) \/ \E status \in Status : UpdateListing(c, i, s, o, status)
  \/ \E c \in Caller, i \in ListingId : ReadRevoked(c, i)
  \/ \E c \in Caller : Publish(c) \/ Withdraw(c) \/ Unpublish(c)
  \/ \E c \in Caller, s \in Seller, o \in Offer : SyncManifest(c, s, o) \/ ImportListing(c, s, o)

ListingsSpec == ListingsInit /\ [][ListingsNext]_listingVars
---------------------------------------------------------------------------
(* Properties.                                                             *)

\* Nothing is under way at i, and the last calls there did not overlap.
AtRest(i) == i \notin raced /\ ~Owed(i)

\* The index never commits to another text than the cache holds: not after a listing
\* has changed hands, was imported again, was paused or was taken back after a revocation.
ChainAgrees ==
  \A i \in ListingId :
    AtRest(i) /\ listing[i].offer.hash # 0 /\ i \notin withdrawn => chain[i] = Commitment(listing[i])

\* A listing that revoke took back has no commitment of its seller, even when another
\* call had replaced it after revoke read it.
RevokedIsGone ==
  \A i \in ListingId :
    AtRest(i) /\ i \in withdrawn => chain[i] = NoCommitment \/ chain[i].seller # listing[i].seller

\* An answer ranks offers that the client can take and the floor lets in, and leaves
\* out no better one of those that were found.
AnswersAreBest ==
  \A query \in Query :
    LET q == WithFloor(query)  ranked == FindProviders(query)
        fair == {i \in {order[k] : k \in Discover(q)} : Effective[listing[i].seller] >= q.floor}
    IN  /\ Range(ranked) \subseteq fair
        /\ fair # {} => ranked # <<>>
        /\ \A n \in DOMAIN ranked : \A j \in fair :
             Score(j, q) > Score(ranked[n], q) => j \in {ranked[k] : k \in 1 .. n - 1}

\* marketplace/*.py: cache and index agree over every sequence of registrations, updates,
\* imports and revocations once those of one id do not overlap any more, and no search
\* passes over a better offer.
ListingsAreSound == ChainAgrees /\ RevokedIsGone /\ AnswersAreBest
---------------------------------------------------------------------------
(* The inductive invariant of ListingsAreSound (ServiceProofs): what a     *)
(* thread owes the index is what the cache holds, with the types; that     *)
(* answers are the best holds of every typed state.                        *)

Entered == [seller : Seller, status : {"active", "revoked"} \cup Status, offer : Offer]

Commitments == [seller : Seller, hash : Nat]
Debts == [op : {"publish", "withdraw"}, id : ListingId, of : Commitments]
         \cup [op : {"read"}, id : ListingId, of : Entered]

ListingsTypeOK ==
  /\ listing \in [ListingId -> Entered \cup {NoListing}]
  /\ order \in Seq(ListingId)
  /\ chain \in [ListingId -> Commitments \cup {NoCommitment}]
  /\ owes \in [Caller -> {Through} \cup Debts]
  /\ raced \subseteq ListingId /\ withdrawn \subseteq ListingId

\* Where calls do not overlap, one thread at most owes the index something, and that is
\* to publish or to drop what is in the cache.
DebtsAreCurrent ==
  /\ \A c \in Caller : LET i == owes[c].id IN
       owes[c].op \in {"publish", "withdraw"} /\ i \notin raced =>
         Commitment(listing[i]) = owes[c].of /\ (i \in withdrawn <=> owes[c].op = "withdraw")
  /\ \A c, d \in Caller : LET i == owes[c].id IN
       {owes[c].op, owes[d].op} \subseteq {"publish", "withdraw"} /\ owes[d].id = i /\ i \notin raced => c = d

ListingsInv == DebtsAreCurrent /\ ChainAgrees /\ RevokedIsGone
=============================================================================
