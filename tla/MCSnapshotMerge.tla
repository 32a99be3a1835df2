--------------------------- MODULE MCSnapshotMerge ---------------------------
(* SnapshotMerge on a node with a property and an edge without: the edge   *)
(* needs the node, and the strict schema wants the node to have an edge.   *)
EXTENDS SnapshotMerge, TLC

CONSTANTS node, edge, weight, lax, strict, s1, s2, s3, v1, v2

Plain(structure) == [structure |-> structure, properties |-> (weight :> Absent)]

MCVerdict ==
  [s \in Snapshot |->
     IF s.elements[edge] # Absent /\ s.elements[node] = Absent THEN "schema"
     ELSE IF s.schema = strict /\ s.elements[node] # Absent /\ s.elements[edge] = Absent
     THEN "cardinality" ELSE "valid"]

MCManual ==
  {[schema |-> lax,
    elements |-> (node :> [structure |-> s3, properties |-> (weight :> v2)])
                 @@ (edge :> Absent)]}

\* The edge has no properties and two structures.
MCInput == {s \in ValidSnapshot : s.elements[edge] \in {Absent, Plain(s1), Plain(s2)}}

MCInit ==
  /\ base \in MCInput /\ source \in MCInput /\ target \in MCInput
  /\ Asked

MCSpec == MCInit /\ [][Next]_vars
=============================================================================
