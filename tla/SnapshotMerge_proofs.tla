------------------------ MODULE SnapshotMerge_proofs ------------------------
(***************************************************************************)
(* The properties of SnapshotMerge for any elements, properties, values    *)
(* and any validation of the schema.  The inductive invariant says what    *)
(* the preview and the stored result are functions of; what they promise   *)
(* is a matter of the merge alone.                                         *)
(***************************************************************************)
EXTENDS SnapshotMerge, TLAPS

MergeInv ==
  /\ MergeTypeOK
  /\ phase # "asked" =>
       preview = [merged |-> MergeElements(base, source, target),
                  conflicts |-> Conflicts(base, source, target),
                  clean |-> CleanChanges(base, source, target)]
  /\ phase = "applied" =>
       /\ choice \in Resolutions
       /\ result = Materialized(choice)
       /\ ~Misses(MergeElements(base, source, target), choice)

-----------------------------------------------------------------------------
(* The merge of snapshots is a snapshot, its conflicts are tokens.         *)

LEMMA SlotsTyped ==
  /\ SchemaSlot \in Slot
  /\ \A e \in Element : SlotOf(e, Absent) \in Slot /\ SlotOf(e, Absent) # SchemaSlot
  /\ \A e \in Element, p \in Property : /\ SlotOf(e, p) \in Slot
                                        /\ SlotOf(e, p) # SchemaSlot
  /\ \A e, f \in Element, p \in Property : SlotOf(e, p) # SlotOf(f, Absent)
BY SnapshotAssumption DEF Slot, SlotOf, SchemaSlot

LEMMA SlotCases ==
  ASSUME NEW slot \in Slot
  PROVE  \/ slot = SchemaSlot
         \/ \E e \in Element : slot = SlotOf(e, Absent)
         \/ \E e \in Element, p \in Property : slot = SlotOf(e, p)
BY SnapshotAssumption DEF Slot, SlotOf, SchemaSlot

LEMMA MergeElementTyped ==
  ASSUME NEW b \in Content \cup {Absent}, NEW s \in Content \cup {Absent},
         NEW t \in Content \cup {Absent}
  PROVE  MergeElement(b, s, t) \in Content \cup {Absent}
<1>1. CASE MergedInside(b, s, t)
  <2> DEFINE merged == [structure |-> Merge(StructureOf(b), s.structure, t.structure),
                        properties |-> [p \in Property |->
                          Merge(PropertyOf(b, p), s.properties[p], t.properties[p])]]
  <2>1. s \in Content /\ t \in Content
    BY <1>1 DEF MergedInside
  <2>2. merged \in Content
    BY <2>1 DEF Content, Merge
  <2>3. MergeElement(b, s, t) \in {t, merged}
    BY <1>1 DEF MergeElement, MergedInside
  <2> QED BY <2>2, <2>3
<1>2. CASE ~MergedInside(b, s, t)
  BY <1>2 DEF MergedInside, MergeElement
<1> QED BY <1>1, <1>2

LEMMA MergeElementsTyped ==
  ASSUME NEW b \in Snapshot, NEW s \in Snapshot, NEW t \in Snapshot
  PROVE  MergeElements(b, s, t) \in Snapshot
<1>1. Merge(b.schema, s.schema, t.schema) \in Schema
  BY DEF Snapshot, Merge
<1>2. \A e \in Element : MergeElement(b.elements[e], s.elements[e], t.elements[e])
                           \in Content \cup {Absent}
  BY MergeElementTyped DEF Snapshot
<1> QED BY <1>1, <1>2 DEF MergeElements, Snapshot

\* The conflicts of a merge, one by one.
LEMMA MergeConflictsAre ==
  ASSUME NEW b, NEW s, NEW t, NEW token
  PROVE  token \in MergeConflicts(b, s, t) <=>
           \/ /\ token = TokenOf("schema", SchemaSlot)
              /\ Conflicting(b.schema, s.schema, t.schema)
           \/ \E e \in Element :
                \/ /\ token = TokenOf("delete_update", SlotOf(e, Absent))
                   /\ DeleteUpdate(b.elements[e], s.elements[e], t.elements[e])
                \/ /\ token = TokenOf("structural", SlotOf(e, Absent))
                   /\ \/ AddedDifferently(b.elements[e], s.elements[e], t.elements[e])
                      \/ Restructured(b.elements[e], s.elements[e], t.elements[e])
           \/ \E e \in Element, p \in Property :
                /\ token = TokenOf("property", SlotOf(e, p))
                /\ MergedInside(b.elements[e], s.elements[e], t.elements[e])
                /\ Conflicting(PropertyOf(b.elements[e], p), s.elements[e].properties[p],
                               t.elements[e].properties[p])
<1>1. token \in MergeConflicts(b, s, t) <=>
        \/ token \in ElementConflicts(b, s, t)
        \/ /\ token = TokenOf("schema", SchemaSlot)
           /\ Conflicting(b.schema, s.schema, t.schema)
  BY DEF MergeConflicts
<1> DEFINE Deleted == {x \in Element : DeleteUpdate(b.elements[x], s.elements[x], t.elements[x])}
           Structured == {x \in Element :
              \/ AddedDifferently(b.elements[x], s.elements[x], t.elements[x])
              \/ Restructured(b.elements[x], s.elements[x], t.elements[x])}
           Contradict(e, p) ==
              /\ MergedInside(b.elements[e], s.elements[e], t.elements[e])
              /\ Conflicting(PropertyOf(b.elements[e], p), s.elements[e].properties[p],
                             t.elements[e].properties[p])
           Both == {at \in Element \X Property : Contradict(at[1], at[2])}
<1>2. token \in ElementConflicts(b, s, t) <=>
        \/ \E e \in Deleted : token = TokenOf("delete_update", SlotOf(e, Absent))
        \/ \E e \in Structured : token = TokenOf("structural", SlotOf(e, Absent))
        \/ \E at \in Both : token = TokenOf("property", SlotOf(at[1], at[2]))
  BY Zenon DEF ElementConflicts
<1> HIDE DEF Contradict
<1>3. (\E at \in Both : token = TokenOf("property", SlotOf(at[1], at[2])))
        <=> \E e \in Element, p \in Property :
              token = TokenOf("property", SlotOf(e, p)) /\ Contradict(e, p)
  <2>1. ASSUME NEW e \in Element, NEW p \in Property, Contradict(e, p)
        PROVE  <<e, p>> \in Both /\ <<e, p>>[1] = e /\ <<e, p>>[2] = p
    BY <2>1
  <2>2. \A at \in Both : at[1] \in Element /\ at[2] \in Property /\ Contradict(at[1], at[2])
    OBVIOUS
  <2> HIDE DEF Both
  <2>3. ASSUME NEW e \in Element, NEW p \in Property,
               token = TokenOf("property", SlotOf(e, p)), Contradict(e, p)
        PROVE  \E at \in Both : token = TokenOf("property", SlotOf(at[1], at[2]))
    <3>1. token = TokenOf("property", SlotOf(<<e, p>>[1], <<e, p>>[2]))
      BY <2>3
    <3> QED BY <2>1, <2>3, <3>1
  <2> QED BY <2>2, <2>3
<1> QED BY <1>1, <1>2, <1>3 DEF Contradict

LEMMA ConflictsTyped ==
  ASSUME NEW b \in Snapshot, NEW s \in Snapshot, NEW t \in Snapshot
  PROVE  Conflicts(b, s, t) \subseteq Token
<1>1. MergeConflicts(b, s, t) \subseteq Token
  <2> SUFFICES ASSUME NEW token \in MergeConflicts(b, s, t)
               PROVE  token \in Token
    OBVIOUS
  <2> QED BY MergeConflictsAre, SlotsTyped DEF TokenOf, Token
<1>2. Verdict[MergeElements(b, s, t)] \in Finding
  BY MergeElementsTyped, SnapshotAssumption
<1>3. \A verdict \in Finding \ {"valid"} : TokenOf(verdict, SchemaSlot) \in Token
  BY SlotsTyped DEF TokenOf, Token, Finding
<1> QED BY <1>1, <1>2, <1>3 DEF Conflicts

-----------------------------------------------------------------------------
(* Slot by slot the merge is three-way.                                    *)

LEMMA InSnapshot ==
  ASSUME NEW s
  PROVE  /\ In(s, SchemaSlot) = s.schema
         /\ \A e \in Element : In(s, SlotOf(e, Absent)) = StructureOf(s.elements[e])
         /\ \A e \in Element, p \in Property :
              In(s, SlotOf(e, p)) = PropertyOf(s.elements[e], p)
BY SnapshotAssumption DEF In, SlotOf, SchemaSlot

LEMMA MergeIsThreeWay ==
  ASSUME NEW b, NEW s, NEW t, ~Conflicting(b, s, t)
  PROVE  ThreeWay(b, s, t, Merge(b, s, t))
BY DEF ThreeWay, Merge, Conflicting

LEMMA ElementIsThreeWay ==
  ASSUME NEW b \in Content \cup {Absent}, NEW s \in Content \cup {Absent},
         NEW t \in Content \cup {Absent},
         ~DeleteUpdate(b, s, t), ~AddedDifferently(b, s, t)
  PROVE  LET m == MergeElement(b, s, t)
         IN  /\ ~Restructured(b, s, t) =>
                  ThreeWay(StructureOf(b), StructureOf(s), StructureOf(t), StructureOf(m))
             /\ \A p \in Property :
                  ~(MergedInside(b, s, t)
                    /\ Conflicting(PropertyOf(b, p), s.properties[p], t.properties[p])) =>
                  ThreeWay(PropertyOf(b, p), PropertyOf(s, p), PropertyOf(t, p),
                           PropertyOf(m, p))
<1> DEFINE m == MergeElement(b, s, t)
<1>1. CASE Absent \in {s, t}
  <2>1. \/ s = b /\ m = t
        \/ t = b /\ m = s
        \/ s = t /\ m = s
    BY <1>1 DEF MergeElement, DeleteUpdate, AddedDifferently
  <2> HIDE DEF m
  <2>2. ~MergedInside(b, s, t)
    BY <1>1 DEF MergedInside
  <2> QED BY <2>1 DEF ThreeWay, m
<1>2. CASE Absent \notin {s, t}
  <2>1. /\ m = [structure |-> Merge(StructureOf(b), s.structure, t.structure),
                properties |-> [p \in Property |->
                  Merge(PropertyOf(b, p), s.properties[p], t.properties[p])]]
        /\ MergedInside(b, s, t)
    BY <1>2 DEF MergeElement, MergedInside
  <2> HIDE DEF m
  <2>2. m # Absent
    <3>1. m \in Content
      BY <1>2, <2>1 DEF Content, Merge
    <3> QED BY <3>1, SnapshotAssumption
  <2>3. ~Restructured(b, s, t) =>
          ThreeWay(StructureOf(b), StructureOf(s), StructureOf(t), StructureOf(m))
    BY <1>2, <2>1, <2>2, MergeIsThreeWay DEF Restructured, StructureOf
  <2>4. ASSUME NEW p \in Property,
               ~Conflicting(PropertyOf(b, p), s.properties[p], t.properties[p])
        PROVE  ThreeWay(PropertyOf(b, p), PropertyOf(s, p), PropertyOf(t, p), PropertyOf(m, p))
    <3>1. PropertyOf(m, p) = Merge(PropertyOf(b, p), s.properties[p], t.properties[p])
      BY <2>1, <2>2 DEF PropertyOf
    <3>2. PropertyOf(s, p) = s.properties[p] /\ PropertyOf(t, p) = t.properties[p]
      BY <1>2 DEF PropertyOf
    <3> QED BY <2>4, <3>1, <3>2, MergeIsThreeWay
  <2> QED BY <2>1, <2>3, <2>4 DEF m
<1> QED BY <1>1, <1>2

\* No conflict is about the slot or the element it is in.
Free(slot, tokens) ==
  \A token \in tokens :
    /\ token.slot # slot
    /\ slot.element # Absent => token.slot # SlotOf(slot.element, Absent)

LEMMA SnapshotIsThreeWay ==
  ASSUME NEW b \in Snapshot, NEW s \in Snapshot, NEW t \in Snapshot, NEW slot \in Slot,
         Free(slot, MergeConflicts(b, s, t))
  PROVE  ThreeWay(In(b, slot), In(s, slot), In(t, slot), In(MergeElements(b, s, t), slot))
<1> DEFINE m == MergeElements(b, s, t)
<1>1. CASE slot = SchemaSlot
  <2>1. ~Conflicting(b.schema, s.schema, t.schema)
    <3>1. TokenOf("schema", SchemaSlot) \notin MergeConflicts(b, s, t)
      BY <1>1 DEF Free, TokenOf
    <3> QED BY <3>1, MergeConflictsAre
  <2> QED BY <1>1, <2>1, MergeIsThreeWay, InSnapshot DEF MergeElements
<1>2. ASSUME NEW e \in Element, \/ slot = SlotOf(e, Absent)
                                \/ \E p \in Property : slot = SlotOf(e, p)
      PROVE  ThreeWay(In(b, slot), In(s, slot), In(t, slot), In(m, slot))
  <2> DEFINE x == b.elements[e]
             y == s.elements[e]
             z == t.elements[e]
  <2>1. /\ x \in Content \cup {Absent} /\ y \in Content \cup {Absent}
        /\ z \in Content \cup {Absent} /\ m.elements[e] = MergeElement(x, y, z)
    BY DEF Snapshot, MergeElements
  <2>2. slot.element = e /\ e # Absent
    BY <1>2, SnapshotAssumption DEF SlotOf
  <2>3. \A type : TokenOf(type, SlotOf(e, Absent)) \notin MergeConflicts(b, s, t)
    BY <2>2 DEF Free, TokenOf
  <2>4. \A type : TokenOf(type, slot) \notin MergeConflicts(b, s, t)
    BY DEF Free, TokenOf
  <2>5. ~DeleteUpdate(x, y, z) /\ ~AddedDifferently(x, y, z) /\ ~Restructured(x, y, z)
    BY <2>3, MergeConflictsAre
  <2>6. ASSUME NEW p \in Property, slot = SlotOf(e, p)
        PROVE  ~(MergedInside(x, y, z)
                 /\ Conflicting(PropertyOf(x, p), y.properties[p], z.properties[p]))
    BY <2>4, <2>6, MergeConflictsAre
  <2> HIDE DEF x, y, z, m
  <2>7. ThreeWay(StructureOf(x), StructureOf(y), StructureOf(z), StructureOf(m.elements[e]))
    BY <2>1, <2>5, ElementIsThreeWay
  <2>8. ASSUME NEW p \in Property, slot = SlotOf(e, p)
        PROVE  ThreeWay(PropertyOf(x, p), PropertyOf(y, p), PropertyOf(z, p),
                        PropertyOf(m.elements[e], p))
    BY <2>1, <2>5, <2>6, <2>8, ElementIsThreeWay
  <2> QED BY <1>2, <2>7, <2>8, InSnapshot DEF x, y, z
<1> QED BY <1>1, <1>2, SlotCases

-----------------------------------------------------------------------------
(* The merge of two snapshots is the same from either side.                *)

LEMMA MergeIsSymmetric ==
  ASSUME NEW b, NEW s, NEW t
  PROVE  /\ Conflicting(b, s, t) <=> Conflicting(b, t, s)
         /\ ~Conflicting(b, s, t) => Merge(b, s, t) = Merge(b, t, s)
BY DEF Conflicting, Merge

LEMMA ElementIsSymmetric ==
  ASSUME NEW b, NEW s, NEW t
  PROVE  /\ DeleteUpdate(b, s, t) <=> DeleteUpdate(b, t, s)
         /\ AddedDifferently(b, s, t) <=> AddedDifferently(b, t, s)
         /\ MergedInside(b, s, t) <=> MergedInside(b, t, s)
         /\ Restructured(b, s, t) <=> Restructured(b, t, s)
BY DEF DeleteUpdate, AddedDifferently, MergedInside, Restructured, Conflicting

LEMMA ConflictsAreSymmetric ==
  ASSUME NEW b, NEW s, NEW t
  PROVE  MergeConflicts(b, s, t) = MergeConflicts(b, t, s)
<1> SUFFICES ASSUME NEW token
             PROVE  token \in MergeConflicts(b, s, t) <=> token \in MergeConflicts(b, t, s)
  OBVIOUS
<1> QED BY MergeConflictsAre, ElementIsSymmetric, MergeIsSymmetric

LEMMA CleanMergeIsSymmetric ==
  ASSUME NEW b \in Snapshot, NEW s \in Snapshot, NEW t \in Snapshot,
         MergeConflicts(b, s, t) = {}
  PROVE  MergeElements(b, s, t) = MergeElements(b, t, s)
<1>1. Merge(b.schema, s.schema, t.schema) = Merge(b.schema, t.schema, s.schema)
  BY MergeConflictsAre, MergeIsSymmetric
<1>2. ASSUME NEW e \in Element
      PROVE  MergeElement(b.elements[e], s.elements[e], t.elements[e])
               = MergeElement(b.elements[e], t.elements[e], s.elements[e])
  <2> DEFINE x == b.elements[e]
             y == s.elements[e]
             z == t.elements[e]
  <2>1. /\ ~DeleteUpdate(x, y, z) /\ ~AddedDifferently(x, y, z) /\ ~Restructured(x, y, z)
        /\ \A p \in Property :
             ~(MergedInside(x, y, z)
               /\ Conflicting(PropertyOf(x, p), y.properties[p], z.properties[p]))
    BY MergeConflictsAre
  <2> HIDE DEF x, y, z
  <2>2. ASSUME Absent \in {y, z}
        PROVE  MergeElement(x, y, z) = MergeElement(x, z, y)
    BY <2>1, <2>2 DEF MergeElement, DeleteUpdate, AddedDifferently
  <2>3. ASSUME Absent \notin {y, z}
        PROVE  MergeElement(x, y, z) = MergeElement(x, z, y)
    <3>1. MergedInside(x, y, z)
      BY <2>1, <2>3 DEF MergedInside
    <3>2. Merge(StructureOf(x), y.structure, z.structure)
            = Merge(StructureOf(x), z.structure, y.structure)
      BY <2>1, <3>1, MergeIsSymmetric DEF Restructured
    <3>3. \A p \in Property : Merge(PropertyOf(x, p), y.properties[p], z.properties[p])
            = Merge(PropertyOf(x, p), z.properties[p], y.properties[p])
      BY <2>1, <3>1, MergeIsSymmetric
    <3> QED BY <2>1, <2>3, <3>2, <3>3, ElementIsSymmetric DEF MergeElement
  <2> QED BY <2>2, <2>3 DEF x, y, z
<1> QED BY <1>1, <1>2 DEF MergeElements

-----------------------------------------------------------------------------
(* What a resolution does to each slot.                                    *)

\* A resolution takes values from snapshots.
FromSnapshots(r) == \A token \in DOMAIN r : r[token] \in Snapshot

LEMMA ResolveElementsTyped ==
  ASSUME NEW m \in Snapshot, NEW r, FromSnapshots(r)
  PROVE  ResolveElements(m, r) \in Snapshot
<1> DEFINE About(slot) == {token \in DOMAIN r : token.slot = slot}
           Chosen(slot) == r[CHOOSE token \in About(slot) : TRUE]
<1>1. \A slot : About(slot) # {} => Chosen(slot) \in Snapshot
  BY DEF FromSnapshots
<1> HIDE DEF Chosen
<1>2. ResolveElements(m, r) =
        [schema |-> IF About(SchemaSlot) = {} THEN m.schema ELSE Chosen(SchemaSlot).schema,
         elements |-> [e \in Element |->
           IF About(SlotOf(e, Absent)) = {} THEN m.elements[e]
           ELSE Chosen(SlotOf(e, Absent)).elements[e]]]
  BY DEF ResolveElements, Chosen
<1> HIDE DEF About
<1> QED BY <1>1, <1>2 DEF Snapshot

LEMMA ResolvePropertiesAre ==
  ASSUME NEW m \in Snapshot, NEW r, FromSnapshots(r)
  PROVE  LET n == ResolveProperties(m, r)
             TokenAt(e, p) == TokenOf("property", SlotOf(e, p))
         IN  /\ n \in Snapshot /\ n.schema = m.schema
             /\ \A e \in Element :
                  /\ n.elements[e] = Absent <=> m.elements[e] = Absent
                  /\ StructureOf(n.elements[e]) = StructureOf(m.elements[e])
                  /\ \A p \in Property :
                       /\ TokenAt(e, p) \notin DOMAIN r =>
                            PropertyOf(n.elements[e], p) = PropertyOf(m.elements[e], p)
                       /\ TokenAt(e, p) \in DOMAIN r /\ m.elements[e] # Absent =>
                            PropertyOf(n.elements[e], p)
                              = In(r[TokenAt(e, p)], SlotOf(e, p))
<1> DEFINE n == ResolveProperties(m, r)
           TokenAt(e, p) == TokenOf("property", SlotOf(e, p))
           Resolved(e) == [p \in Property |->
              IF TokenAt(e, p) \in DOMAIN r THEN In(r[TokenAt(e, p)], SlotOf(e, p))
              ELSE m.elements[e].properties[p]]
<1>1. n = [m EXCEPT !.elements = [e \in Element |->
             IF m.elements[e] = Absent THEN Absent
             ELSE [m.elements[e] EXCEPT !.properties = Resolved(e)]]]
  BY DEF ResolveProperties
<1>2. ASSUME NEW e \in Element, m.elements[e] # Absent
      PROVE  m.elements[e] \in Content /\ Resolved(e) \in [Property -> Value \cup {Absent}]
  <2>1. m.elements[e] \in Content
    BY <1>2 DEF Snapshot
  <2>2. ASSUME NEW p \in Property, NEW s \in Snapshot
        PROVE  In(s, SlotOf(e, p)) \in Value \cup {Absent}
    <3>1. s.elements[e] \in Content \cup {Absent}
      BY DEF Snapshot
    <3> QED BY <3>1, InSnapshot DEF PropertyOf, Content
  <2>3. \A p \in Property : m.elements[e].properties[p] \in Value \cup {Absent}
    BY <2>1 DEF Content
  <2> QED BY <2>1, <2>2, <2>3 DEF FromSnapshots
<1>3. \A e \in Element, p \in Property :
        Resolved(e)[p] = IF TokenAt(e, p) \in DOMAIN r THEN In(r[TokenAt(e, p)], SlotOf(e, p))
                         ELSE m.elements[e].properties[p]
  OBVIOUS
<1> HIDE DEF Resolved, TokenAt
<1>4. /\ n.schema = m.schema
      /\ \A e \in Element : n.elements[e] =
           IF m.elements[e] = Absent THEN Absent
           ELSE [m.elements[e] EXCEPT !.properties = Resolved(e)]
      /\ n \in [schema : Schema, elements : {n.elements}]
      /\ n.elements = [e \in Element |-> n.elements[e]]
  BY <1>1 DEF Snapshot
<1> HIDE DEF n
<1>5. ASSUME NEW e \in Element, m.elements[e] # Absent
      PROVE  /\ n.elements[e] \in Content
             /\ n.elements[e].structure = m.elements[e].structure
             /\ n.elements[e].properties = Resolved(e)
  <2>1. m.elements[e] \in Content /\ Resolved(e) \in [Property -> Value \cup {Absent}]
    BY <1>2, <1>5
  <2>2. n.elements[e] = [m.elements[e] EXCEPT !.properties = Resolved(e)]
    BY <1>4, <1>5
  <2> QED BY <2>1, <2>2 DEF Content
<1>6. n \in Snapshot
  <2>1. \A e \in Element : n.elements[e] \in Content \cup {Absent}
    BY <1>4, <1>5
  <2>2. n.elements \in [Element -> Content \cup {Absent}]
    BY <1>4, <2>1
  <2> QED BY <1>4, <2>2 DEF Snapshot
<1>7. ASSUME NEW e \in Element
      PROVE  /\ n.elements[e] = Absent <=> m.elements[e] = Absent
             /\ StructureOf(n.elements[e]) = StructureOf(m.elements[e])
             /\ \A p \in Property :
                  /\ TokenAt(e, p) \notin DOMAIN r =>
                       PropertyOf(n.elements[e], p) = PropertyOf(m.elements[e], p)
                  /\ TokenAt(e, p) \in DOMAIN r /\ m.elements[e] # Absent =>
                       PropertyOf(n.elements[e], p) = In(r[TokenAt(e, p)], SlotOf(e, p))
  <2>1. CASE m.elements[e] = Absent
    BY <1>4, <2>1 DEF StructureOf, PropertyOf
  <2>2. CASE m.elements[e] # Absent
    <3>1. n.elements[e] # Absent
      BY <1>5, <2>2, SnapshotAssumption
    <3> QED BY <1>3, <1>5, <2>2, <3>1 DEF StructureOf, PropertyOf
  <2> QED BY <2>1, <2>2
<1> QED BY <1>4, <1>6, <1>7 DEF n, TokenAt

LEMMA ResolveTyped ==
  ASSUME NEW m \in Snapshot, NEW r, FromSnapshots(r)
  PROVE  Resolve(m, r) \in Snapshot
BY ResolveElementsTyped, ResolvePropertiesAre DEF Resolve

\* A slot in no conflict keeps its value.
LEMMA ResolveKeeps ==
  ASSUME NEW m \in Snapshot, NEW r, FromSnapshots(r), NEW slot \in Slot, Free(slot, DOMAIN r)
  PROVE  In(Resolve(m, r), slot) = In(m, slot)
<1> DEFINE n == ResolveElements(m, r)
<1>0. n \in Snapshot /\ Resolve(m, r) = ResolveProperties(n, r)
  BY ResolveElementsTyped DEF Resolve
<1>1. CASE slot = SchemaSlot
  <2>1. {token \in DOMAIN r : token.slot = SchemaSlot} = {}
    BY <1>1 DEF Free
  <2>2. n.schema = m.schema
    BY <2>1 DEF ResolveElements
  <2> HIDE DEF n
  <2> QED BY <1>0, <1>1, <2>2, ResolvePropertiesAre, InSnapshot
<1>2. ASSUME NEW e \in Element, \/ slot = SlotOf(e, Absent)
                                \/ \E p \in Property : slot = SlotOf(e, p)
      PROVE  In(Resolve(m, r), slot) = In(m, slot)
  <2>1. slot.element = e /\ e # Absent
    BY <1>2, SnapshotAssumption DEF SlotOf
  <2>2. {token \in DOMAIN r : token.slot = SlotOf(e, Absent)} = {}
    BY <2>1 DEF Free
  <2>3. n.elements[e] = m.elements[e]
    BY <2>2 DEF ResolveElements
  <2>4. TokenOf("property", slot) \notin DOMAIN r
    BY DEF Free, TokenOf
  <2> HIDE DEF n
  <2> QED BY <1>0, <1>2, <2>3, <2>4, ResolvePropertiesAre, InSnapshot
<1> QED BY <1>1, <1>2, SlotCases

\* No two conflicts are about one schema or one whole element.
LEMMA OneConflictEach ==
  ASSUME NEW b, NEW s, NEW t,
         NEW tok \in MergeConflicts(b, s, t), NEW other \in MergeConflicts(b, s, t),
         other.slot = tok.slot
  PROVE  other = tok
<1>1. \A e \in Element :
        /\ ~(DeleteUpdate(b.elements[e], s.elements[e], t.elements[e])
             /\ AddedDifferently(b.elements[e], s.elements[e], t.elements[e]))
        /\ ~(DeleteUpdate(b.elements[e], s.elements[e], t.elements[e])
             /\ Restructured(b.elements[e], s.elements[e], t.elements[e]))
  BY DEF DeleteUpdate, AddedDifferently, Restructured, MergedInside
<1>2. \A e, f \in Element : SlotOf(e, Absent) = SlotOf(f, Absent) => e = f
  BY DEF SlotOf
<1> QED BY <1>1, <1>2, MergeConflictsAre, SlotsTyped DEF TokenOf

LEMMA OneResolutionEach ==
  ASSUME NEW b, NEW s, NEW t,
         NEW tok \in Conflicts(b, s, t), NEW other \in Conflicts(b, s, t),
         other.slot = tok.slot
  PROVE  other = tok
BY OneConflictEach DEF Conflicts

\* A conflict of a property is one of the merge: a finding is about the schema.
LEMMA PropertyConflict ==
  ASSUME NEW b, NEW s, NEW t, NEW tok \in Conflicts(b, s, t),
         NEW e \in Element, NEW p \in Property, tok.slot = SlotOf(e, p)
  PROVE  tok = TokenOf("property", SlotOf(e, p))
<1>1. tok \in MergeConflicts(b, s, t)
  BY SlotsTyped DEF Conflicts, TokenOf
<1> QED BY <1>1, MergeConflictsAre, SlotsTyped DEF TokenOf

LEMMA ResolveChooses ==
  ASSUME NEW b \in Snapshot, NEW s \in Snapshot, NEW t \in Snapshot,
         NEW m \in Snapshot, NEW r, FromSnapshots(r), DOMAIN r = Conflicts(b, s, t),
         ~Misses(m, r), NEW tok \in DOMAIN r
  PROVE  In(Resolve(m, r), tok.slot) = In(r[tok], tok.slot)
<1> DEFINE n == ResolveElements(m, r)
           About == {token \in DOMAIN r : token.slot = tok.slot}
<1>1. n \in Snapshot /\ Resolve(m, r) = ResolveProperties(n, r)
  BY ResolveElementsTyped DEF Resolve
<1>2. About = {tok}
  BY OneResolutionEach
<1>3. tok.slot \in Slot
  BY ConflictsTyped DEF Token
<1>4. (CHOOSE token \in About : TRUE) = tok
  BY <1>2
<1>5. CASE tok.slot = SchemaSlot
  <2>1. n.schema = r[tok].schema
    BY <1>2, <1>4, <1>5 DEF ResolveElements
  <2> HIDE DEF n
  <2> QED BY <1>1, <1>5, <2>1, ResolvePropertiesAre, InSnapshot
<1>6. ASSUME NEW e \in Element, tok.slot = SlotOf(e, Absent)
      PROVE  In(Resolve(m, r), tok.slot) = In(r[tok], tok.slot)
  <2>1. n.elements[e] = r[tok].elements[e]
    BY <1>2, <1>4, <1>6 DEF ResolveElements
  <2> HIDE DEF n
  <2> QED BY <1>1, <1>6, <2>1, ResolvePropertiesAre, InSnapshot
<1>7. ASSUME NEW e \in Element, NEW p \in Property, tok.slot = SlotOf(e, p)
      PROVE  In(Resolve(m, r), tok.slot) = In(r[tok], tok.slot)
  <2>1. tok = TokenOf("property", SlotOf(e, p))
    BY <1>7, PropertyConflict
  <2>2. tok.slot.element = e /\ tok.type = "property"
    BY <2>1 DEF TokenOf, SlotOf
  <2>3. n.elements[e] # Absent
    BY <2>2 DEF Misses
  <2> HIDE DEF n
  <2> QED BY <1>1, <1>7, <2>1, <2>3, ResolvePropertiesAre, InSnapshot
<1> QED BY <1>3, <1>5, <1>6, <1>7, SlotCases

LEMMA ResolutionsTyped ==
  ASSUME source \in Snapshot, target \in Snapshot, NEW r \in Resolutions
  PROVE  FromSnapshots(r) /\ DOMAIN r = preview.conflicts
BY SnapshotAssumption DEF Resolutions, FromSnapshots

LEMMA MaterializedTyped ==
  ASSUME MergeTypeOK, NEW r \in Resolutions
  PROVE  Materialized(r) \in Snapshot
<1>1. base \in Snapshot /\ source \in Snapshot /\ target \in Snapshot
  BY DEF MergeTypeOK, ValidSnapshot
<1>2. FromSnapshots(r)
  BY <1>1, ResolutionsTyped
<1>3. Resolve(MergeElements(base, source, target), r) \in Snapshot
  BY <1>1, <1>2, MergeElementsTyped, ResolveTyped
<1> QED BY <1>2, <1>3 DEF Materialized, FromSnapshots

-----------------------------------------------------------------------------
(* The invariant.                                                          *)

LEMMA PreviewTyped ==
  ASSUME NEW b \in Snapshot, NEW s \in Snapshot, NEW t \in Snapshot
  PROVE  [merged |-> MergeElements(b, s, t), conflicts |-> Conflicts(b, s, t),
          clean |-> CleanChanges(b, s, t)] \in Preview
<1>1. CleanChanges(b, s, t) \subseteq Slot
  BY DEF CleanChanges
<1> QED BY <1>1, MergeElementsTyped, ConflictsTyped DEF Preview

LEMMA PreviewMergeKeeps ==
  ASSUME MergeInv, PreviewMerge
  PROVE  MergeInv'
<1>1. base \in Snapshot /\ source \in Snapshot /\ target \in Snapshot
  BY DEF MergeInv, MergeTypeOK, ValidSnapshot
<1>2. preview' \in Preview
  BY <1>1, PreviewTyped DEF PreviewMerge
<1>3. MergeTypeOK'
  BY <1>2 DEF MergeInv, MergeTypeOK, PreviewMerge, inputs
<1> QED BY <1>3 DEF MergeInv, PreviewMerge, inputs

LEMMA ApplyKeeps ==
  ASSUME MergeInv, Apply
  PROVE  MergeInv'
<1>1. UNCHANGED <<base, source, target, preview>> /\ phase = "previewed"
      /\ choice' \in Resolutions /\ result = Absent
  BY DEF Apply, inputs, MergeInv, MergeTypeOK
<1>2. choice' \in Resolutions'
  BY <1>1 DEF Resolutions, Offers
<1>3. CASE phase' = "refused" /\ UNCHANGED result
  BY <1>1, <1>3 DEF MergeInv, MergeTypeOK
<1>4. CASE /\ Verdict[Materialized(choice')] = "valid"
           /\ ~Misses(MergeElements(base, source, target), choice')
           /\ result' = Materialized(choice') /\ phase' = "applied"
  <2>1. Materialized(choice') \in ValidSnapshot
    BY <1>1, <1>4, MaterializedTyped DEF MergeInv, ValidSnapshot
  <2>2. MergeTypeOK'
    BY <1>1, <1>4, <2>1 DEF MergeInv, MergeTypeOK
  <2>3. result' = Materialized(choice)'
    BY <1>1, <1>4 DEF Materialized
  <2> QED BY <1>1, <1>2, <1>4, <2>2, <2>3 DEF MergeInv
<1> QED BY <1>3, <1>4 DEF Apply

\* The preview and the result are what the merge makes of the snapshots.
THEOREM MergeInvariant == Spec => []MergeInv
<1>1. Init => MergeInv
  <2> SUFFICES ASSUME Init
               PROVE  MergeInv
    OBVIOUS
  <2>1. base \in ValidSnapshot /\ source \in ValidSnapshot /\ target \in ValidSnapshot
    BY DEF Init
  <2>2. preview \in Preview
    BY <2>1 DEF Init, Asked, Preview, ValidSnapshot
  <2> QED BY <2>1, <2>2 DEF Init, Asked, MergeInv, MergeTypeOK
<1>2. MergeInv /\ [Next]_vars => MergeInv'
  <2>1. MergeInv /\ UNCHANGED vars => MergeInv'
    BY DEF vars, inputs, MergeInv, MergeTypeOK, Resolutions, Offers, Materialized
  <2> QED BY <2>1, PreviewMergeKeeps, ApplyKeeps DEF Next
<1> QED BY <1>1, <1>2, PTL DEF Spec

-----------------------------------------------------------------------------
(* A merge in which only one side changed something.                       *)

\* What a merge comes to when a side still is the base, or both agree.
OneChange(b, s, t, r) == \/ t = b /\ r = s
                         \/ s = b /\ r = t
                         \/ s = t /\ r = s

LEMMA OneChangeOfValue ==
  ASSUME NEW b, NEW s, NEW t, NEW r, OneChange(b, s, t, r)
  PROVE  Merge(b, s, t) = r /\ ~Conflicting(b, s, t)
BY DEF OneChange, Merge, Conflicting

LEMMA OneChangeOfElement ==
  ASSUME NEW b \in Content \cup {Absent}, NEW s \in Content \cup {Absent},
         NEW t \in Content \cup {Absent}, NEW r \in Content \cup {Absent},
         OneChange(b, s, t, r)
  PROVE  /\ MergeElement(b, s, t) = r
         /\ ~DeleteUpdate(b, s, t) /\ ~AddedDifferently(b, s, t) /\ ~Restructured(b, s, t)
         /\ \A p \in Property :
              MergedInside(b, s, t) =>
                ~Conflicting(PropertyOf(b, p), s.properties[p], t.properties[p])
<1>1. ~DeleteUpdate(b, s, t) /\ ~AddedDifferently(b, s, t)
  BY DEF OneChange, DeleteUpdate, AddedDifferently
<1>2. CASE Absent \in {s, t}
  BY <1>1, <1>2 DEF OneChange, MergeElement, MergedInside, Restructured
<1>3. CASE Absent \notin {s, t}
  <2> DEFINE values == [p \in Property |->
                          Merge(PropertyOf(b, p), s.properties[p], t.properties[p])]
  <2>1. /\ OneChange(StructureOf(b), s.structure, t.structure, r.structure)
        /\ \A p \in Property :
             OneChange(PropertyOf(b, p), s.properties[p], t.properties[p], r.properties[p])
    BY <1>3 DEF OneChange, StructureOf, PropertyOf
  <2>2. /\ Merge(StructureOf(b), s.structure, t.structure) = r.structure
        /\ ~Conflicting(StructureOf(b), s.structure, t.structure)
    BY <2>1, OneChangeOfValue
  <2>3. ASSUME NEW p \in Property
        PROVE  /\ Merge(PropertyOf(b, p), s.properties[p], t.properties[p]) = r.properties[p]
               /\ ~Conflicting(PropertyOf(b, p), s.properties[p], t.properties[p])
    BY <2>1, OneChangeOfValue
  <2>4. r \in Content
    BY <1>3 DEF OneChange
  <2>5. /\ r.properties = [p \in Property |-> r.properties[p]]
        /\ r = [structure |-> r.structure, properties |-> r.properties]
    BY <2>4 DEF Content
  <2>6. values = r.properties
    BY <2>3, <2>5
  <2>7. MergeElement(b, s, t) =
          [structure |-> Merge(StructureOf(b), s.structure, t.structure), properties |-> values]
    BY <1>1, <1>3 DEF MergeElement
  <2> HIDE DEF values
  <2>8. MergeElement(b, s, t) = r
    BY <2>2, <2>5, <2>6, <2>7
  <2> QED BY <1>1, <2>2, <2>3, <2>8 DEF Restructured
<1> QED BY <1>2, <1>3

LEMMA OneChangeOfSnapshot ==
  ASSUME NEW b \in Snapshot, NEW s \in Snapshot, NEW t \in Snapshot, NEW r \in ValidSnapshot,
         OneChange(b, s, t, r)
  PROVE  MergeElements(b, s, t) = r /\ Conflicts(b, s, t) = {}
<1>1. r \in Snapshot /\ Verdict[r] = "valid"
  BY DEF ValidSnapshot
<1>2. ASSUME NEW e \in Element
      PROVE  /\ b.elements[e] \in Content \cup {Absent} /\ s.elements[e] \in Content \cup {Absent}
             /\ t.elements[e] \in Content \cup {Absent} /\ r.elements[e] \in Content \cup {Absent}
             /\ OneChange(b.elements[e], s.elements[e], t.elements[e], r.elements[e])
  <2>1. OneChange(b.elements[e], s.elements[e], t.elements[e], r.elements[e])
    BY DEF OneChange
  <2> QED BY <1>1, <2>1 DEF Snapshot
<1>3. Merge(b.schema, s.schema, t.schema) = r.schema /\ ~Conflicting(b.schema, s.schema, t.schema)
  <2>1. OneChange(b.schema, s.schema, t.schema, r.schema)
    BY DEF OneChange
  <2> QED BY <2>1, OneChangeOfValue
<1>4. ASSUME NEW e \in Element
      PROVE  LET x == b.elements[e]
                 y == s.elements[e]
                 z == t.elements[e]
             IN  /\ MergeElement(x, y, z) = r.elements[e]
                 /\ ~DeleteUpdate(x, y, z) /\ ~AddedDifferently(x, y, z)
                 /\ ~Restructured(x, y, z)
                 /\ \A p \in Property :
                      MergedInside(x, y, z) =>
                        ~Conflicting(PropertyOf(x, p), y.properties[p], z.properties[p])
  <2> DEFINE x == b.elements[e]
             y == s.elements[e]
             z == t.elements[e]
             w == r.elements[e]
  <2>1. /\ x \in Content \cup {Absent} /\ y \in Content \cup {Absent}
        /\ z \in Content \cup {Absent} /\ w \in Content \cup {Absent}
        /\ OneChange(x, y, z, w)
    BY <1>2
  <2> HIDE DEF x, y, z, w
  <2>2. /\ MergeElement(x, y, z) = w
        /\ ~DeleteUpdate(x, y, z) /\ ~AddedDifferently(x, y, z) /\ ~Restructured(x, y, z)
        /\ \A p \in Property :
             MergedInside(x, y, z) =>
               ~Conflicting(PropertyOf(x, p), y.properties[p], z.properties[p])
    BY <2>1, OneChangeOfElement
  <2> QED BY <2>2 DEF x, y, z, w
<1>5. MergeElements(b, s, t) = r
  <2> DEFINE merged == [e \in Element |->
                          MergeElement(b.elements[e], s.elements[e], t.elements[e])]
  <2>1. \A e \in Element :
          MergeElement(b.elements[e], s.elements[e], t.elements[e]) = r.elements[e]
    BY <1>4
  <2>2. /\ r.elements = [e \in Element |-> r.elements[e]]
        /\ r = [schema |-> r.schema, elements |-> r.elements]
    BY <1>1 DEF Snapshot
  <2>3. merged = r.elements
    BY <2>1, <2>2
  <2>4. MergeElements(b, s, t) =
          [schema |-> Merge(b.schema, s.schema, t.schema), elements |-> merged]
    BY DEF MergeElements
  <2> HIDE DEF merged
  <2> QED BY <1>3, <2>2, <2>3, <2>4
<1>6. MergeConflicts(b, s, t) = {}
  <2>1. \A token : token \notin MergeConflicts(b, s, t)
    BY <1>3, <1>4, MergeConflictsAre
  <2> QED BY <2>1
<1> QED BY <1>1, <1>5, <1>6 DEF Conflicts

\* Without conflicts there is nothing to resolve.
LEMMA NothingToResolve ==
  ASSUME NEW m \in Snapshot, NEW r, DOMAIN r = {}
  PROVE  Resolve(m, r) = m /\ ~Misses(m, r)
<1>1. /\ m = [schema |-> m.schema, elements |-> m.elements]
      /\ m.elements = [e \in Element |-> m.elements[e]]
      /\ \A e \in Element : m.elements[e] \in Content \cup {Absent}
  BY DEF Snapshot
<1>2. ResolveElements(m, r) = m
  BY <1>1 DEF ResolveElements
<1>3. ASSUME NEW e \in Element, m.elements[e] # Absent
      PROVE  [m.elements[e] EXCEPT !.properties =
                [p \in Property |-> m.elements[e].properties[p]]] = m.elements[e]
  <2>1. m.elements[e] \in Content
    BY <1>1, <1>3
  <2> QED BY <2>1 DEF Content
<1>4. ResolveProperties(m, r) = m
  <2> DEFINE Of(e) == IF m.elements[e] = Absent THEN Absent
                      ELSE [m.elements[e] EXCEPT !.properties =
                              [p \in Property |-> m.elements[e].properties[p]]]
  <2>1. ResolveProperties(m, r) = [m EXCEPT !.elements = [e \in Element |-> Of(e)]]
    BY DEF ResolveProperties
  <2>2. \A e \in Element : Of(e) = m.elements[e]
    BY <1>3
  <2> HIDE DEF Of
  <2>3. [e \in Element |-> Of(e)] = m.elements
    BY <1>1, <2>2
  <2>4. [m EXCEPT !.elements = m.elements] = m
    BY DEF Snapshot
  <2> QED BY <2>1, <2>3, <2>4
<1> QED BY <1>2, <1>4 DEF Resolve, Misses

-----------------------------------------------------------------------------
(* What a merge promises.                                                  *)

\* Types, and that what an Apply stores is valid.
THEOREM MergeTypeCorrect == Spec => []MergeTypeOK
<1>1. MergeInv => MergeTypeOK
  BY DEF MergeInv
<1> QED BY <1>1, MergeInvariant, PTL

LEMMA UncontestedIsFree ==
  ASSUME NEW b, NEW s, NEW t, preview.conflicts = Conflicts(b, s, t),
         NEW slot, ~Contested(slot)
  PROVE  Free(slot, MergeConflicts(b, s, t)) /\ Free(slot, preview.conflicts)
BY DEF Contested, Free, Conflicts

\* No change is lost from a preview without a conflict.
THEOREM PreviewLosesNothing == Spec => []PreviewIsThreeWay
<1>1. MergeInv => PreviewIsThreeWay
  <2> SUFFICES ASSUME MergeInv, phase = "previewed", NEW slot \in Slot, ~Contested(slot)
               PROVE  ThreeWay(In(base, slot), In(source, slot), In(target, slot),
                               In(preview.merged, slot))
    BY DEF PreviewIsThreeWay
  <2>1. /\ base \in Snapshot /\ source \in Snapshot /\ target \in Snapshot
        /\ preview.merged = MergeElements(base, source, target)
        /\ preview.conflicts = Conflicts(base, source, target)
    BY DEF MergeInv, MergeTypeOK, ValidSnapshot
  <2> QED BY <2>1, UncontestedIsFree, SnapshotIsThreeWay
<1> QED BY <1>1, MergeInvariant, PTL

\* Source and target may change places.
THEOREM PreviewHasNoSides == Spec => []PreviewIsSymmetric
<1>1. MergeInv => PreviewIsSymmetric
  <2> SUFFICES ASSUME MergeInv, phase = "previewed"
               PROVE  /\ Conflicts(base, target, source) = preview.conflicts
                      /\ preview.conflicts = {} =>
                           MergeElements(base, target, source) = preview.merged
    BY DEF PreviewIsSymmetric
  <2>1. /\ base \in Snapshot /\ source \in Snapshot /\ target \in Snapshot
        /\ preview.merged = MergeElements(base, source, target)
        /\ preview.conflicts = Conflicts(base, source, target)
    BY DEF MergeInv, MergeTypeOK, ValidSnapshot
  <2>2. MergeConflicts(base, target, source) = MergeConflicts(base, source, target)
    BY ConflictsAreSymmetric
  <2>3. MergeConflicts(base, source, target) = {} =>
          MergeElements(base, target, source) = MergeElements(base, source, target)
    BY <2>1, CleanMergeIsSymmetric
  <2>4. Conflicts(base, target, source) = Conflicts(base, source, target)
    BY <2>2, <2>3 DEF Conflicts
  <2>5. Conflicts(base, source, target) = {} => MergeConflicts(base, source, target) = {}
    BY DEF Conflicts
  <2> QED BY <2>1, <2>3, <2>4, <2>5
<1> QED BY <1>1, MergeInvariant, PTL

LEMMA AppliedTyped ==
  ASSUME MergeInv, phase = "applied"
  PROVE  /\ base \in Snapshot /\ source \in Snapshot /\ target \in Snapshot
         /\ preview.conflicts = Conflicts(base, source, target)
         /\ FromSnapshots(choice) /\ DOMAIN choice = preview.conflicts
         /\ MergeElements(base, source, target) \in Snapshot
         /\ ~Misses(MergeElements(base, source, target), choice)
         /\ result = IF CardinalityToken \in preview.conflicts
                     THEN choice[CardinalityToken]
                     ELSE Resolve(MergeElements(base, source, target), choice)
<1>1. base \in Snapshot /\ source \in Snapshot /\ target \in Snapshot
  BY DEF MergeInv, MergeTypeOK, ValidSnapshot
<1>2. FromSnapshots(choice) /\ DOMAIN choice = preview.conflicts
  BY <1>1, ResolutionsTyped DEF MergeInv
<1> QED BY <1>1, <1>2, MergeElementsTyped DEF MergeInv, Materialized

\* Every conflict gets the value that was chosen for it.
THEOREM ChoicesAreStored == Spec => []ResolvedAsChosen
<1>1. MergeInv => ResolvedAsChosen
  <2> SUFFICES ASSUME MergeInv, phase = "applied", NEW tok \in preview.conflicts
               PROVE  In(result, tok.slot) = In(choice[tok], tok.slot)
    BY DEF ResolvedAsChosen
  <2>1. CASE CardinalityToken \in preview.conflicts
    <3>1. tok = CardinalityToken
      <4>1. CardinalityToken \notin MergeConflicts(base, source, target)
        BY MergeConflictsAre DEF CardinalityToken, TokenOf
      <4> QED BY <2>1, <4>1, AppliedTyped DEF Conflicts
    <3> QED BY <2>1, <3>1, AppliedTyped
  <2>2. CASE CardinalityToken \notin preview.conflicts
    BY <2>2, AppliedTyped, ResolveChooses
  <2> QED BY <2>1, <2>2
<1> QED BY <1>1, MergeInvariant, PTL

\* The rest of what is stored is the merge.
THEOREM RestIsMerged == Spec => []RestIsThreeWay
<1>1. MergeInv => RestIsThreeWay
  <2> SUFFICES ASSUME MergeInv, phase = "applied", CardinalityToken \notin preview.conflicts,
                      NEW slot \in Slot, ~Contested(slot)
               PROVE  ThreeWay(In(base, slot), In(source, slot), In(target, slot),
                               In(result, slot))
    BY DEF RestIsThreeWay
  <2>1. /\ Free(slot, MergeConflicts(base, source, target))
        /\ Free(slot, DOMAIN choice)
    BY AppliedTyped, UncontestedIsFree
  <2>2. In(result, slot) = In(MergeElements(base, source, target), slot)
    BY <2>1, AppliedTyped, ResolveKeeps
  <2> QED BY <2>1, <2>2, AppliedTyped, SnapshotIsThreeWay
<1> QED BY <1>1, MergeInvariant, PTL

(***************************************************************************)
(* A branch that changed nothing has no say: where one of the two still    *)
(* has the base's snapshot, or both have the same, the preview is the      *)
(* other one's snapshot to the last slot and has no conflict, and an Apply *)
(* stores that and is not refused.                                         *)
(***************************************************************************)
OneChangeIsTaken ==
  \A r \in {source, target} :
    OneChange(base, source, target, r) =>
      /\ phase = "previewed" => preview.merged = r /\ preview.conflicts = {}
      /\ phase = "applied" => result = r
      /\ phase # "refused"

\* An Apply without conflicts stores the preview.
LEMMA OneChangeApplies ==
  ASSUME MergeInv, Apply, NEW r \in {source, target}, OneChange(base, source, target, r)
  PROVE  result' = r /\ phase' = "applied"
<1>1. /\ base \in Snapshot /\ source \in Snapshot /\ target \in Snapshot
      /\ r \in ValidSnapshot /\ r \in Snapshot /\ Verdict[r] = "valid"
  BY DEF MergeInv, MergeTypeOK, ValidSnapshot
<1>2. MergeElements(base, source, target) = r /\ Conflicts(base, source, target) = {}
  BY <1>1, OneChangeOfSnapshot
<1>3. DOMAIN choice' = {}
  <2>1. preview.conflicts = Conflicts(base, source, target)
    BY DEF MergeInv, Apply
  <2> QED BY <1>2, <2>1 DEF Apply, Resolutions
<1>4. Resolve(r, choice') = r /\ ~Misses(r, choice')
  <2> DEFINE c == choice'
  <2>1. DOMAIN c = {}
    BY <1>3
  <2> HIDE DEF c
  <2>2. Resolve(r, c) = r /\ ~Misses(r, c)
    BY <1>1, <2>1, NothingToResolve
  <2> QED BY <2>2 DEF c
<1>5. Materialized(choice') = r
  BY <1>2, <1>3, <1>4 DEF Materialized
<1> QED BY <1>1, <1>2, <1>4, <1>5 DEF Apply

\* The merge of one change is that change.
THEOREM OneSidedMergeIsTaken == Spec => []OneChangeIsTaken
<1>1. Init => OneChangeIsTaken
  BY DEF Init, Asked, OneChangeIsTaken
<1>2. MergeInv /\ OneChangeIsTaken /\ [Next]_vars => OneChangeIsTaken'
  <2> SUFFICES ASSUME MergeInv, OneChangeIsTaken, [Next]_vars,
                      NEW r \in {source', target'}, OneChange(base', source', target', r)
               PROVE  /\ phase' = "previewed" =>
                           preview'.merged = r /\ preview'.conflicts = {}
                      /\ phase' = "applied" => result' = r
                      /\ phase' # "refused"
    BY DEF OneChangeIsTaken, OneChange
  <2>1. r \in {source, target} /\ OneChange(base, source, target, r) /\ UNCHANGED inputs
    BY DEF Next, PreviewMerge, Apply, inputs, vars, OneChange
  <2>2. CASE PreviewMerge
    <3>1. /\ base \in Snapshot /\ source \in Snapshot /\ target \in Snapshot
          /\ r \in ValidSnapshot
      BY <2>1 DEF MergeInv, MergeTypeOK, ValidSnapshot
    <3>2. MergeElements(base, source, target) = r /\ Conflicts(base, source, target) = {}
      BY <2>1, <3>1, OneChangeOfSnapshot
    <3> QED BY <2>2, <3>2 DEF PreviewMerge
  <2>3. CASE Apply
    BY <2>1, <2>3, OneChangeApplies
  <2>4. CASE UNCHANGED vars
    BY <2>1, <2>4 DEF OneChangeIsTaken, vars
  <2> QED BY <2>2, <2>3, <2>4 DEF Next
<1> QED BY <1>1, <1>2, MergeInvariant, PTL DEF Spec
=============================================================================
