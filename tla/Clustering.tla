----------------------------- MODULE Clustering -----------------------------
(***************************************************************************)
(* How a flush of internal/correlation/correlator.go turns the alerts it   *)
(* took from the buffer into groups.  An alert of the buffer is a record   *)
(* with its fingerprint fp, the time starts it fired, and its position pos *)
(* in the buffer; labels, name and topology are looked up by fingerprint.  *)
(*                                                                         *)
(* A definition X_Variant before a definition X is X with a bug in it; the *)
(* mutation runs put it in X's place, and nothing else refers to it.       *)
(***************************************************************************)
EXTENDS Alerts, FiniteSets, FiniteSetsExt

CONSTANTS
  KeysOf,        \* the non-empty service, namespace and instance labels
  Downstream,    \* downstream services in the topology, -1 without an entry
  NameRank,      \* position of the alertname in the alphabet
  MaxGroupSize   \* hard cap of a group, 0 for none

ASSUME LabelAssumption ==
  /\ Downstream \in [Fingerprints -> Int]
  /\ NameRank \in [Fingerprints -> Int]
  /\ DOMAIN KeysOf = Fingerprints
  /\ MaxGroupSize \in Nat

Linked(d, e) == KeysOf[d.fp] \cap KeysOf[e.fp] # {}

(* clusterAlerts: every alert of a label value's bucket is united with the *)
(* first one of the bucket.                                                *)
First(bucket) == CHOOSE e \in bucket : \A d \in bucket : e.pos <= d.pos

Unions_AllLabels(alerts) ==
  UNION {{{d, e} : e \in {e \in alerts : KeysOf[e.fp] = KeysOf[d.fp]}} : d \in alerts}
Unions(alerts) ==
  LET Bucket(k) == {e \in alerts : k \in KeysOf[e.fp]}
  IN  UNION {{{First(Bucket(k)), e} : e \in Bucket(k)} :
               k \in UNION {KeysOf[e.fp] : e \in alerts}}

Merge(pair, parts) ==
  LET hit == {p \in parts : p \cap pair # {}}
  IN  (parts \ hit) \cup {UNION hit}

Clusters(alerts) == FoldSet(Merge, {{e} : e \in alerts}, Unions(alerts))

(* splitForCap: an oversize cluster is cut, in the order of starts (ties   *)
(* keep the buffer's order), into chunks of the maximal size.              *)
Before(d, e) ==
  \/ d.starts < e.starts
  \/ d.starts = e.starts /\ d.pos < e.pos

Index(e, cluster) == Cardinality({d \in cluster : Before(d, e)})

Chunk(k, cluster) == {e \in cluster : Index(e, cluster) \div MaxGroupSize = k}

SplitForCap_BufferOrder(cluster) ==
  IF MaxGroupSize = 0 \/ Cardinality(cluster) <= MaxGroupSize THEN {cluster}
  ELSE {{e \in cluster : Cardinality({d \in cluster : d.pos < e.pos}) \div MaxGroupSize = k} :
          k \in 0..((Cardinality(cluster) - 1) \div MaxGroupSize)}
SplitForCap_FullOnly(cluster) ==
  IF MaxGroupSize = 0 \/ Cardinality(cluster) <= MaxGroupSize THEN {cluster}
  ELSE {Chunk(k, cluster) : k \in 0..(Cardinality(cluster) \div MaxGroupSize - 1)}
SplitForCap(cluster) ==
  IF MaxGroupSize = 0 \/ Cardinality(cluster) <= MaxGroupSize THEN {cluster}
  ELSE {Chunk(k, cluster) : k \in 0..((Cardinality(cluster) - 1) \div MaxGroupSize)}

(* pickPrimary: the alert that fired first; among several, the one with    *)
(* most downstream services, then the first name, then the first position. *)
Earliest(group) == {e \in group : \A d \in group : e.starts <= d.starts}

Preferred(e, d) ==
  \/ Downstream[e.fp] > Downstream[d.fp]
  \/ /\ Downstream[e.fp] = Downstream[d.fp]
     /\ \/ NameRank[e.fp] < NameRank[d.fp]
        \/ NameRank[e.fp] = NameRank[d.fp] /\ e.pos <= d.pos

PickPrimary(group) ==
  CHOOSE e \in Earliest(group) : \A d \in Earliest(group) : Preferred(e, d)

(* dispatch: the groups one flush hands to the pipeline.                   *)
Groups(alerts) == UNION {SplitForCap(c) : c \in Clusters(alerts)}

=============================================================================
