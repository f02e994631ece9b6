------------------------------- MODULE Bundle -------------------------------
(***************************************************************************)
(* The documents that tie several exchanges to one goal, and what a client *)
(* works out from them: src/novapanda/bundle.py.  A bundle is a record     *)
(* with its exchanges (ids, a sequence without repetition), what each of   *)
(* them depends on, and its success rule: "all_settled", or the number of  *)
(* a quorum.                                                               *)
(***************************************************************************)
EXTENDS Naturals, Sequences, SequencesExt, FiniteSets

\* validate_bundle, on the parts of the document that decide about the order
BundleValid(b) ==
  \A child \in DOMAIN b.depends :
    child \in Range(b.ids) /\ b.depends[child] \subseteq Range(b.ids)

\* The legs of rest that wait for no leg of rest, in the order of ids.
ReadyIn(b, rest) ==
  SelectSeq(b.ids, LAMBDA i : i \in rest /\ b.depends[i] \cap rest = {})

\* topological_order: the ready legs, round by round.  With a cycle the code raises;
\* here the order misses the legs of the cycle and those behind it.
TopologicalOrder(b) ==
  LET order[rest \in SUBSET Range(b.ids)] ==
        LET ready == ReadyIn(b, rest)
        IN  IF ready = <<>> THEN <<>> ELSE ready \o order[rest \ Range(ready)]
  IN  order[Range(b.ids)]

Ordered(b) == BundleValid(b) /\ Len(TopologicalOrder(b)) = Len(b.ids)

\* bundle_ready, given the states that the caller has noted
BundleReady(b, states) ==
  LET settled == {i \in Range(b.ids) : states[i] = "SETTLED"}
  IN  /\ BundleValid(b)
      /\ IF b.rule = "all_settled" THEN settled = Range(b.ids)
                                   ELSE Cardinality(settled) >= b.rule

\* validate_prior_vdc_refs: every required document is known and valid.  valid is
\* the set of ids whose document is dual-signed and matches its deliverable.
PriorRefsHold(refs, valid) == \A r \in refs : r.required => r.vdc \in valid
=============================================================================
