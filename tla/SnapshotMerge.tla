---------------------------- MODULE SnapshotMerge ----------------------------
(***************************************************************************)
(* The content of a three-way merge: mergeSnapshots of review/engine.go,   *)
(* which a preview shows, and materializeMerge of review/finalize.go,      *)
(* which applies the client's resolutions to the same three snapshots.     *)
(*                                                                         *)
(* A snapshot is a schema and elements; nodes and edges go through the     *)
(* same generic code and are told apart only by the schema's validation,   *)
(* which graphcontract owns and Verdict stands for.  An element is a       *)
(* structure (title and labels, or ends and type) and properties.  What is *)
(* not there is Absent.                                                    *)
(*                                                                         *)
(* A resolution takes the value of one conflict from the source, from the  *)
(* target or from what the client wrote: from a snapshot, in each case.    *)
(***************************************************************************)
CONSTANTS
  Element, Property, Schema, Structure, Value,
  Absent,
  Verdict,   \* what graphcontract finds in a snapshot
  Manual     \* snapshots that the values of manual resolutions come from

Content == [structure : Structure, properties : [Property -> Value \cup {Absent}]]
Snapshot == [schema : Schema, elements : [Element -> Content \cup {Absent}]]

\* No violation, violations of cardinality only, or any other.
Finding == {"valid", "cardinality", "schema"}

ASSUME SnapshotAssumption ==
  /\ Absent \notin Content \cup Structure \cup Value \cup Element \cup Property
  /\ Verdict \in [Snapshot -> Finding]
  /\ Manual \subseteq Snapshot

\* What DecodeSnapshot returns.
ValidSnapshot == {s \in Snapshot : Verdict[s] = "valid"}

VARIABLES
  base, source, target,  \* the snapshots of one preview and its Apply
  preview,               \* the MergePreview
  choice,                \* the resolutions, a snapshot for each conflict
  result,                \* the snapshot that Apply stores
  phase

inputs == <<base, source, target>>
vars == <<inputs, preview, choice, result, phase>>

\* A place where a snapshot has a value: a property of an element, its
\* structure (no property), or the schema (no element).
Slot == {[element |-> Absent, property |-> Absent]}
        \cup [element : Element, property : Property \cup {Absent}]

\* The string a token is joins type, kind, id and property with ':' and does
\* not add the same string twice; it is taken to name one conflict, which is
\* so when no id and no property name contains ':'.
Token == [type : {"schema", "cardinality", "structural", "delete_update", "property"},
          slot : Slot]

Preview == [merged : Snapshot, conflicts : SUBSET Token, clean : SUBSET Slot]

SlotOf(e, p) == [element |-> e, property |-> p]
SchemaSlot == SlotOf(Absent, Absent)
TokenOf(type, slot) == [type |-> type, slot |-> slot]

Asked ==
  /\ preview = [merged |-> target, conflicts |-> {}, clean |-> {}]
  /\ choice = <<>>
  /\ result = Absent
  /\ phase = "asked"

Init ==
  /\ base \in ValidSnapshot /\ source \in ValidSnapshot /\ target \in ValidSnapshot
  /\ Asked
-----------------------------------------------------------------------------
(* mergeSnapshots                                                          *)

\* A deletion by the target that gives way.
ConflictingUnlessDeleted(b, s, t) == s # b /\ t # b /\ s # t /\ t # Absent

Conflicting(b, s, t) == s # b /\ t # b /\ s # t

\* mergeValue and mergeOptional; the target's value where they conflict.
Merge(b, s, t) == IF s = b \/ Conflicting(b, s, t) THEN t ELSE s

PropertyOf(x, p) == IF x = Absent THEN Absent ELSE x.properties[p]
StructureOf(x) == IF x = Absent THEN Absent ELSE x.structure

\* A check of what the source deleted only.
DeleteUpdateOfSource(b, s, t) ==
  b # Absent /\ s = Absent /\ t \notin {Absent, b}

\* One side deleted the element and the other changed it.
DeleteUpdate(b, s, t) ==
  b # Absent /\ \/ s = Absent /\ t \notin {Absent, b}
                \/ t = Absent /\ s \notin {Absent, b}

AddedDifferently(b, s, t) ==
  b = Absent /\ Absent \notin {s, t} /\ s.structure # t.structure

\* mergeElement, the element that is kept: the target's in a conflict.
MergeElement(b, s, t) ==
  IF DeleteUpdate(b, s, t) \/ AddedDifferently(b, s, t) THEN t
  ELSE IF Absent \in {s, t} THEN IF b # Absent THEN Absent
                                 ELSE IF s = Absent THEN t ELSE s
  ELSE [structure |-> Merge(StructureOf(b), s.structure, t.structure),
        properties |-> [p \in Property |->
                          Merge(PropertyOf(b, p), s.properties[p], t.properties[p])]]

\* Both sides have the element and it is merged slot by slot.
MergedInside(b, s, t) == Absent \notin {s, t} /\ ~AddedDifferently(b, s, t)

Restructured(b, s, t) ==
  /\ MergedInside(b, s, t)
  /\ Conflicting(StructureOf(b), s.structure, t.structure)

MergeElements(b, s, t) ==
  [schema |-> Merge(b.schema, s.schema, t.schema),
   elements |-> [e \in Element |->
                   MergeElement(b.elements[e], s.elements[e], t.elements[e])]]

\* The conflicts of the elements and of the properties that both sides have.
ElementConflicts(b, s, t) ==
  {TokenOf("delete_update", SlotOf(e, Absent)) : e \in
     {x \in Element : DeleteUpdate(b.elements[x], s.elements[x], t.elements[x])}}
  \cup {TokenOf("structural", SlotOf(e, Absent)) : e \in
     {x \in Element : \/ AddedDifferently(b.elements[x], s.elements[x], t.elements[x])
                     \/ Restructured(b.elements[x], s.elements[x], t.elements[x])}}
  \cup {TokenOf("property", SlotOf(at[1], at[2])) : at \in
     {at \in Element \X Property :
        LET x == b.elements[at[1]]
            y == s.elements[at[1]]
            z == t.elements[at[1]]
        IN  /\ MergedInside(x, y, z)
            /\ Conflicting(PropertyOf(x, at[2]), y.properties[at[2]], z.properties[at[2]])}}

MergeConflicts(b, s, t) ==
  ElementConflicts(b, s, t)
  \cup IF Conflicting(b.schema, s.schema, t.schema)
       THEN {TokenOf("schema", SchemaSlot)} ELSE {}

\* validateMergedSchema: only what merged without a conflict is validated.
Conflicts(b, s, t) ==
  LET verdict == Verdict[MergeElements(b, s, t)]
  IN  IF MergeConflicts(b, s, t) # {} \/ verdict = "valid" THEN MergeConflicts(b, s, t)
      ELSE {TokenOf(verdict, SchemaSlot)}

In(s, slot) ==
  IF slot.element = Absent THEN s.schema
  ELSE IF slot.property = Absent THEN StructureOf(s.elements[slot.element])
  ELSE PropertyOf(s.elements[slot.element], slot.property)

\* The slots with a clean change: they differ from the base and are not in
\* conflict.  Properties are listed for elements that both sides have.
CleanChanges(b, s, t) ==
  {slot \in Slot :
     /\ In(MergeElements(b, s, t), slot) # In(b, slot)
     /\ \A token \in MergeConflicts(b, s, t) : token.slot # slot
     /\ slot.property # Absent => MergedInside(b.elements[slot.element],
                                    s.elements[slot.element], t.elements[slot.element])}

PreviewMerge ==
  /\ phase = "asked"
  /\ preview' = [merged |-> MergeElements(base, source, target),
                 conflicts |-> Conflicts(base, source, target),
                 clean |-> CleanChanges(base, source, target)]
  /\ phase' = "previewed"
  /\ UNCHANGED <<inputs, choice, result>>
-----------------------------------------------------------------------------
(* materializeMerge                                                        *)

\* A manual property has a value; a manual element may be null.
Offers(token) ==
  {source, target} \cup
  {m \in Manual : token.slot.property # Absent => In(m, token.slot) # Absent}

\* Exactly one resolution for each conflict (validateResolutions).
Resolutions ==
  {r \in [preview.conflicts -> {source, target} \cup Manual] :
     \A token \in preview.conflicts : r[token] \in Offers(token)}

\* The whole element, or the schema, as in the snapshot that was chosen.
ResolveElements(m, r) ==
  [schema |-> LET about == {token \in DOMAIN r : token.slot = SchemaSlot}
              IN  IF about = {} THEN m.schema ELSE r[CHOOSE token \in about : TRUE].schema,
   elements |-> [e \in Element |->
     LET about == {token \in DOMAIN r : token.slot = SlotOf(e, Absent)}
     IN  IF about = {} THEN m.elements[e]
         ELSE r[CHOOSE token \in about : TRUE].elements[e]]]

\* setProperty on an element that is there.
ResolveProperties(m, r) ==
  [m EXCEPT !.elements = [e \in Element |->
     IF m.elements[e] = Absent THEN Absent
     ELSE [m.elements[e] EXCEPT !.properties = [p \in Property |->
            LET token == TokenOf("property", SlotOf(e, p))
            IN  IF token \in DOMAIN r THEN In(r[token], SlotOf(e, p))
                ELSE m.elements[e].properties[p]]]]]

\* Resolutions in the order of their tokens: property, then structural.
ResolveInTokenOrder(m, r) == ResolveElements(ResolveProperties(m, r), r)

\* resolutionRank: whole elements first, their properties after.
Resolve(m, r) == ResolveProperties(ResolveElements(m, r), r)

\* A manual null for an element leaves its property resolutions nowhere to go.
Misses(m, r) ==
  \E token \in DOMAIN r : /\ token.type = "property"
                          /\ ResolveElements(m, r).elements[token.slot.element] = Absent

CardinalityToken == TokenOf("cardinality", SchemaSlot)

\* Resolutions that are applied to the target's snapshot.
MaterializedOnTarget(r) == Resolve(target, r)

\* What the resolutions make of the merge, valid or not.  The one conflict
\* of cardinality is resolved by a whole snapshot.
Materialized(r) ==
  IF CardinalityToken \in DOMAIN r THEN r[CardinalityToken]
  ELSE Resolve(MergeElements(base, source, target), r)

\* An Apply that does not validate.
ApplyUnvalidated ==
  /\ phase = "previewed"
  /\ choice' \in Resolutions
  /\ result' = Materialized(choice') /\ phase' = "applied"
  /\ UNCHANGED <<inputs, preview>>

Apply ==
  /\ phase = "previewed"
  /\ choice' \in Resolutions
  /\ IF /\ Verdict[Materialized(choice')] = "valid"
        /\ ~Misses(MergeElements(base, source, target), choice')
     THEN result' = Materialized(choice') /\ phase' = "applied"
     ELSE phase' = "refused" /\ UNCHANGED result
  /\ UNCHANGED <<inputs, preview>>

Next == PreviewMerge \/ Apply

Spec == Init /\ [][Next]_vars
-----------------------------------------------------------------------------
(* What a merge promises.                                                  *)

\* Types; and what an Apply stored passed the schema's validation, whatever
\* was resolved, so that DecodeSnapshot can read it back.
MergeTypeOK ==
  /\ {base, source, target} \subseteq ValidSnapshot
  /\ preview \in Preview
  /\ phase \in {"asked", "previewed", "applied", "refused"}
  /\ result \in (IF phase = "applied" THEN ValidSnapshot ELSE {Absent})

\* The definition of a three-way merge, for one slot.
ThreeWay(b, s, t, m) ==
  \/ s = b /\ m = t
  \/ t = b /\ m = s
  \/ s = t /\ m = s

\* A conflict of the slot or of the element it is in.
Contested(slot) ==
  \E token \in preview.conflicts :
    \/ token.slot = slot
    \/ token.slot = SlotOf(slot.element, Absent) /\ slot.element # Absent

\* Where the preview names no conflict, each slot of the merged snapshot is
\* the three-way merge of that slot: no side's change is lost without a
\* conflict, however the two sides' changes are spread over elements.
PreviewIsThreeWay ==
  phase = "previewed" =>
    \A slot \in Slot : ~Contested(slot) =>
      ThreeWay(In(base, slot), In(source, slot), In(target, slot), In(preview.merged, slot))

\* Merging a into b and b into a meet the same conflicts, and without any
\* the same snapshot.
PreviewIsSymmetric ==
  phase = "previewed" =>
    /\ Conflicts(base, target, source) = preview.conflicts
    /\ preview.conflicts = {} => MergeElements(base, target, source) = preview.merged

\* What is stored has, for every conflict, the value that was chosen for it,
\* also where an element and its properties are in conflict at once.
ResolvedAsChosen ==
  phase = "applied" =>
    \A token \in preview.conflicts : In(result, token.slot) = In(choice[token], token.slot)

\* Outside of the elements in conflict what is stored is the three-way
\* merge, whatever was chosen elsewhere.
RestIsThreeWay ==
  phase = "applied" /\ CardinalityToken \notin preview.conflicts =>
    \A slot \in Slot : ~Contested(slot) =>
      ThreeWay(In(base, slot), In(source, slot), In(target, slot), In(result, slot))

\* A resolution decides its conflict and nothing else: what the preview
\* showed as a clean change is stored, unless a whole snapshot was chosen.
CleanChangesStay ==
  phase = "applied" /\ CardinalityToken \notin preview.conflicts =>
    \A slot \in preview.clean : In(result, slot) = In(preview.merged, slot)
=============================================================================
