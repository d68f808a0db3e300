---------------------------- MODULE MCPromotion ----------------------------
\* One tire and its part number are live.  Two datasets replace them as they are, under
\* one or another provenance record, the third has both records and drops the part
\* number for another; until its last row is loaded, all have the same counts.  A
\* second tire comes only from other writers.
EXTENDS Promotion, TLC

MCStampSymmetry == Permutations(Stamps)

MCKeys == [tires |-> {"t1", "t2"}, parts |-> {"p1", "p2"}, provenance |-> {"v1", "v2"}]
MCTireOf == [p \in MCKeys.parts |-> "t1"]
MCBase == [tires |-> {"t1"}, parts |-> {"p1"}]
MCDatasets ==
  { [name |-> "same", drops |-> {},
     keys |-> [tires |-> {"t1"}, parts |-> {"p1"}, provenance |-> {"v1"}]],
    [name |-> "twin", drops |-> {},
     keys |-> [tires |-> {"t1"}, parts |-> {"p1"}, provenance |-> {"v2"}]],
    [name |-> "more", drops |-> {"p1"},
     keys |-> [tires |-> {"t1"}, parts |-> {"p2"}, provenance |-> {"v1", "v2"}]] }
=============================================================================
