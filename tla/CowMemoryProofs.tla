--------------------------- MODULE CowMemoryProofs ---------------------------
(***************************************************************************)
(* Proofs, for any number of spaces, pages and frames, that CowMemory      *)
(* keeps its types, counts references exactly, isolates writable frames    *)
(* and keeps the TLB coherent, and that it implements PrivateMemory.       *)
(***************************************************************************)
EXTENDS CowMemory, FiniteSetTheorems, TLAPS

\* A frame is mapped at one virtual page only, whatever spaces share it: fork keeps the
\* addresses, and every other frame is fresh.
SameAddress ==
    \A s, t \in Space, v, w \in Page :
        maps[s][v] \in Frame /\ maps[s][v] = maps[t][w] => v = w

\* The inductive invariant.
Inv == TypeOK /\ SameAddress /\ CountsExact /\ Isolated /\ TlbCoherent

---------------------------------------------------------------------------
(* Facts about a state *)

\* Who maps a frame.
LEMMA InMappers ==
    ASSUME NEW s \in Space, NEW v \in Page, NEW f
    PROVE  <<s, v>> \in Mappers(f) <=> maps[s][v] = f
BY Zenon DEF Mappers

\* Spaces and pages are finite, so a frame has finitely many mappers.
LEMMA MappersFinite == ASSUME NEW f PROVE IsFiniteSet(Mappers(f))
<1>1. IsFiniteSet(Space \X Page)
  BY CowAssumption, FS_Product, Zenon
<1> QED
  BY <1>1, FS_Subset, Zenon DEF Mappers

\* A frame with no reference is mapped nowhere.
LEMMA FreeIsUnmapped ==
    ASSUME TypeOK, CountsExact, NEW f \in Frame, refcount[f] = 0
    PROVE  \A s \in Space, v \in Page : maps[s][v] # f
<1>1. Cardinality(Mappers(f)) \in Nat /\ leaked[f] \in Nat
  BY MappersFinite, FS_CardinalityType, Zenon DEF TypeOK
<1>2. Cardinality(Mappers(f)) = 0
  BY <1>1 DEF CountsExact
<1>3. Mappers(f) = {}
  BY <1>2, MappersFinite, FS_EmptySet, Zenon
<1> QED
  BY <1>3, InMappers, Zenon

\* A frame with one reference is mapped by one page.
LEMMA UnsharedHasOneMapper ==
    ASSUME TypeOK, CountsExact, NEW s \in Space, NEW v \in Page,
           maps[s][v] \in Frame, ~ (refcount[maps[s][v]] > 1)
    PROVE  OnlyMapper(s, v, maps[s][v])
<1> DEFINE f == maps[s][v]
<1>1. Cardinality(Mappers(f)) \in Nat /\ leaked[f] \in Nat /\ refcount[f] \in Nat
  BY MappersFinite, FS_CardinalityType DEF TypeOK
<1>2. Cardinality(Mappers(f)) <= 1
  BY <1>1 DEF CountsExact
<1>3. <<s, v>> \in Mappers(f)
  BY InMappers, Zenon
<1>4. Cardinality(Mappers(f)) # 0
  BY <1>3, MappersFinite, FS_EmptySet, Zenon
<1>5. Cardinality(Mappers(f)) = 1
  BY <1>1, <1>2, <1>4
<1>6. PICK m : Mappers(f) = {m}
  BY <1>5, MappersFinite, FS_Singleton, Zenon
<1>7. ASSUME NEW t \in Space, NEW w \in Page, maps[t][w] = f
      PROVE  t = s /\ w = v
  <2>1. <<t, w>> \in Mappers(f)
    BY <1>7, InMappers, Zenon
  <2> QED
    BY <2>1, <1>3, <1>6
<1> QED
  BY <1>7, Zenon DEF OnlyMapper

\* One space maps a frame at most once, so fork and drop count it once or not at all.
LEMMA AtMostOnce ==
    ASSUME TypeOK, SameAddress, NEW s \in Space, NEW D \in SUBSET Page, NEW f \in Frame
    PROVE  /\ At(s, D, f) = {} => Cardinality(At(s, D, f)) = 0
           /\ \A v \in At(s, D, f) : At(s, D, f) = {v} /\ Cardinality(At(s, D, f)) = 1
<1>1. At(s, D, f) = {} => Cardinality(At(s, D, f)) = 0
  BY FS_EmptySet, Zenon
<1>2. ASSUME NEW v \in At(s, D, f) PROVE At(s, D, f) = {v} /\ Cardinality(At(s, D, f)) = 1
  <2>1. At(s, D, f) = {v}
    BY <1>2, Zenon DEF At, SameAddress
  <2> QED
    BY <2>1, FS_Singleton, Zenon
<1> QED
  BY <1>1, <1>2, Zenon

---------------------------------------------------------------------------
(* Updates, point by point *)

\* Setting one leaf leaves the others alone.
LEMMA LeafUpdate ==
    ASSUME NEW P, NEW F \in [Space -> [Page -> P]], NEW s \in Space, NEW v \in Page, NEW x \in P
    PROVE  /\ [F EXCEPT ![s][v] = x] \in [Space -> [Page -> P]]
           /\ \A t \in Space, w \in Page :
                [F EXCEPT ![s][v] = x][t][w] = IF t = s /\ w = v THEN x ELSE F[t][w]
BY Zenon

\* What flush_if_active leaves in the TLB.
LEMMA Flushed ==
    ASSUME TypeOK, NEW s \in Space, NEW v \in Page, FlushIfActive(s, v)
    PROVE  /\ tlb_frame' \in [Page -> Leaf] /\ tlb_right' \in [Page -> {"None", "Read", "Write"}]
           /\ \A w \in Page :
                /\ tlb_frame'[w] = IF s = active /\ w = v THEN NoFrame ELSE tlb_frame[w]
                /\ tlb_right'[w] = IF s = active /\ w = v THEN "None" ELSE tlb_right[w]
<1>0. NoFrame \in Leaf
  BY Zenon DEF Leaf
<1>1. CASE s = active
  <2>1. /\ tlb_frame \in [Page -> Leaf] /\ tlb_right \in [Page -> {"None", "Read", "Write"}]
        /\ tlb_frame' = [tlb_frame EXCEPT ![v] = NoFrame]
        /\ tlb_right' = [tlb_right EXCEPT ![v] = "None"]
    BY <1>1, Zenon DEF TypeOK, FlushIfActive
  <2> QED
    BY <1>0, <1>1, <2>1, Zenon
<1>2. CASE s # active
  BY <1>2, Zenon DEF TypeOK, FlushIfActive
<1> QED
  BY <1>1, <1>2, Zenon

\* What setting one leaf to frame g with right r does to everything but the counts.  g is the
\* frame that was there, or nobody maps it; r is "Write" only if nobody else does.
LeafSet(s, v, g, r) ==
    /\ maps' = [maps EXCEPT ![s][v] = g] /\ right' = [right EXCEPT ![s][v] = r]
    /\ FlushIfActive(s, v) /\ UNCHANGED <<live, active>>

\* Setting one leaf of a live space, with its flush, keeps everything but the counts.
LEMMA LeafStep ==
    ASSUME Inv, NEW s \in live, NEW v \in Page, NEW g \in Leaf, NEW r \in Right,
           LeafSet(s, v, g, r),
           g = NoFrame <=> r = "None", r = "Cow" => g \in Frame,
           g \in Frame => \/ g = maps[s][v]
                          \/ \A t \in Space, w \in Page : maps[t][w] # g,
           r = "Write" /\ g \in Frame => OnlyMapper(s, v, g)
    PROVE  /\ refcount' \in [Frame -> 0..MaxRef] /\ memory' \in [Frame -> Value]
              /\ leaked' \in [Frame -> Nat] => TypeOK'
           /\ SameAddress' /\ Isolated' /\ TlbCoherent'
<1> s \in Space
  BY Zenon DEF Inv, TypeOK
<1>1. /\ maps' \in [Space -> [Page -> Leaf]]
      /\ \A t \in Space, w \in Page : maps'[t][w] = IF t = s /\ w = v THEN g ELSE maps[t][w]
  BY LeafUpdate DEF Inv, TypeOK, LeafSet
<1>2. /\ right' \in [Space -> [Page -> Right]]
      /\ \A t \in Space, w \in Page : right'[t][w] = IF t = s /\ w = v THEN r ELSE right[t][w]
  BY LeafUpdate DEF Inv, TypeOK, LeafSet
<1>3. /\ tlb_frame' \in [Page -> Leaf] /\ tlb_right' \in [Page -> {"None", "Read", "Write"}]
      /\ \A w \in Page :
           /\ tlb_frame'[w] = IF s = active /\ w = v THEN NoFrame ELSE tlb_frame[w]
           /\ tlb_right'[w] = IF s = active /\ w = v THEN "None" ELSE tlb_right[w]
  BY Flushed, ZenonT(60) DEF Inv, LeafSet
<1>4. live' = live /\ active' = active
  BY Zenon DEF LeafSet
<1>5. refcount' \in [Frame -> 0..MaxRef] /\ memory' \in [Frame -> Value]
        /\ leaked' \in [Frame -> Nat] => TypeOK'
  BY <1>1, <1>2, <1>3, <1>4, SMTT(60) DEF Inv, TypeOK
<1>6. SameAddress'
  BY <1>1 DEF Inv, SameAddress
<1>7. TlbCoherent'
  BY <1>1, <1>2, <1>3, <1>4, SMTT(60) DEF Inv, TlbCoherent, TypeOK
<1>8. ASSUME NEW t \in Space, NEW w \in Page, right'[t][w] = "Write", maps'[t][w] \in Frame
      PROVE  OnlyMapper(t, w, maps[t][w])'
  BY <1>1, <1>2, <1>8, SMTT(60) DEF Inv, Isolated, OnlyMapper
<1>9. ASSUME NEW w \in Page, tlb_right'[w] = "Write", tlb_frame'[w] \in Frame
      PROVE  OnlyMapper(active, w, tlb_frame[w])'
  <2>1. ~ (s = active /\ w = v) /\ tlb_frame'[w] = tlb_frame[w] /\ tlb_right[w] = "Write"
    BY <1>3, <1>9, Zenon
  <2>2. OnlyMapper(active, w, tlb_frame[w])
    BY <2>1, <1>9, Zenon DEF Inv, Isolated
  <2>3. active \in Space /\ maps[active][w] = tlb_frame[w]
    BY <2>1, <1>9, CowAssumption, Zenon DEF Inv, TlbCoherent, TypeOK
  <2> QED
    BY <1>1, <1>4, <1>9, <2>1, <2>2, <2>3 DEF OnlyMapper
<1>10. Isolated'
  BY <1>8, <1>9, Zenon DEF Isolated
<1> QED
  BY <1>5, <1>6, <1>7, <1>10, Zenon

\* Two sets of (space, page) pairs with the same members are equal.
LEMMA PairsEqual ==
    ASSUME NEW A \in SUBSET (Space \X Page), NEW B \in SUBSET (Space \X Page),
           \A t \in Space, w \in Page : <<t, w>> \in A <=> <<t, w>> \in B
    PROVE  A = B
OBVIOUS

\* Who maps a frame after a step.
LEMMA InMappersNext ==
    ASSUME NEW s \in Space, NEW v \in Page, NEW f
    PROVE  <<s, v>> \in Mappers(f)' <=> maps'[s][v] = f
BY Zenon DEF Mappers

\* Mappers are pairs.
LEMMA MappersPairs == ASSUME NEW f PROVE Mappers(f) \in SUBSET (Space \X Page)
                                        /\ Mappers(f)' \in SUBSET (Space \X Page)
BY Zenon DEF Mappers

\* How setting one leaf to g changes the number of mappers of f.
LEMMA LeafCounts ==
    ASSUME TypeOK, NEW s \in Space, NEW v \in Page, NEW g \in Leaf,
           maps' = [maps EXCEPT ![s][v] = g], NEW f \in Frame
    PROVE  /\ Cardinality(Mappers(f)) \in Nat
           /\ Cardinality(Mappers(f)') =
                IF g = f /\ maps[s][v] # f THEN Cardinality(Mappers(f)) + 1
                ELSE IF g # f /\ maps[s][v] = f THEN Cardinality(Mappers(f)) - 1
                ELSE Cardinality(Mappers(f))
<1>1. \A t \in Space, w \in Page : maps'[t][w] = IF t = s /\ w = v THEN g ELSE maps[t][w]
  BY LeafUpdate DEF TypeOK
<1>2. IsFiniteSet(Mappers(f)) /\ Cardinality(Mappers(f)) \in Nat
  BY MappersFinite, FS_CardinalityType, Zenon
<1>3. CASE g = f
  <2>1. Mappers(f)' = Mappers(f) \cup {<<s, v>>}
    BY <1>1, <1>3, MappersPairs, PairsEqual, InMappers, InMappersNext
  <2>2. <<s, v>> \in Mappers(f) <=> maps[s][v] = f
    BY InMappers, Zenon
  <2> QED
    BY <1>2, <1>3, <2>1, <2>2, FS_AddElement, ZenonT(60)
<1>4. CASE g # f
  <2>1. Mappers(f)' = Mappers(f) \ {<<s, v>>}
    BY <1>1, <1>4, MappersPairs, PairsEqual, InMappers, InMappersNext
  <2>2. <<s, v>> \in Mappers(f) <=> maps[s][v] = f
    BY InMappers, Zenon
  <2> QED
    BY <1>2, <1>4, <2>1, <2>2, FS_RemoveElement, ZenonT(60)
<1> QED
  BY <1>3, <1>4, Zenon

---------------------------------------------------------------------------
(* One lemma per action *)

\* map_owned keeps the invariant: the frame it maps was free.
LEMMA MapOwnedStep ==
    ASSUME Inv, NEW s \in Space, NEW v \in Page, NEW f \in Frame, NEW x \in Value,
           NEW r \in {"Read", "Write"}, MapOwned(s, v, f, x, r)
    PROVE  Inv'
<1>1. \A t \in Space, w \in Page : maps[t][w] # f
  BY FreeIsUnmapped, Zenon DEF Inv, MapOwned
<1>2. OnlyMapper(s, v, f)
  BY <1>1, Zenon DEF OnlyMapper
<1>3. f \in Leaf /\ f # NoFrame /\ r \in Right /\ LeafSet(s, v, f, r) /\ s \in live
  BY CowAssumption, Zenon DEF MapOwned, LeafSet, Leaf, Right
<1>4. TypeOK' /\ SameAddress' /\ Isolated' /\ TlbCoherent'
  <2>1. refcount' \in [Frame -> 0..MaxRef] /\ memory' \in [Frame -> Value]
        /\ leaked' \in [Frame -> Nat]
    BY CowAssumption DEF MapOwned, Inv, TypeOK
  <2> QED
    BY <2>1, <1>1, <1>2, <1>3, LeafStep, Zenon
<1>5. CountsExact'
  <2> SUFFICES ASSUME NEW h \in Frame
               PROVE  refcount'[h] = Cardinality(Mappers(h)') + leaked'[h]
    BY Zenon DEF CountsExact
  <2>1. refcount[h] = Cardinality(Mappers(h)) + leaked[h] /\ leaked[h] \in Nat
    BY Zenon DEF Inv, CountsExact, TypeOK
  <2>2. refcount'[h] = (IF h = f THEN 1 ELSE refcount[h]) /\ leaked'[h] = leaked[h]
    BY Zenon DEF MapOwned, Inv, TypeOK
  <2>3. refcount[f] = 0 /\ maps[s][v] # h
    BY CowAssumption, Zenon DEF MapOwned
  <2>4. /\ Cardinality(Mappers(h)) \in Nat
        /\ Cardinality(Mappers(h)') =
             IF f = h /\ maps[s][v] # h THEN Cardinality(Mappers(h)) + 1
             ELSE IF f # h /\ maps[s][v] = h THEN Cardinality(Mappers(h)) - 1
             ELSE Cardinality(Mappers(h))
    <3>1. TypeOK /\ maps' = [maps EXCEPT ![s][v] = f]
      BY <1>3, Zenon DEF Inv, LeafSet
    <3> QED
      BY <1>3, <3>1, LeafCounts, ZenonT(60)
  <2> QED
    BY <1>1, <2>1, <2>2, <2>3, <2>4, SMTT(60)
<1> QED
  BY <1>4, <1>5, Zenon DEF Inv

\* map_device keeps the invariant: device frames are not counted.
LEMMA MapDeviceStep ==
    ASSUME Inv, NEW s \in Space, NEW v \in Page, NEW r \in {"Read", "Write"}, MapDevice(s, v, r)
    PROVE  Inv'
<1>1. /\ Device \in Leaf /\ Device # NoFrame /\ Device \notin Frame
      /\ r \in Right /\ LeafSet(s, v, Device, r) /\ s \in live
  BY CowAssumption, Zenon DEF MapDevice, LeafSet, Leaf, Right
<1>2. TypeOK' /\ SameAddress' /\ Isolated' /\ TlbCoherent'
  <2>1. refcount' \in [Frame -> 0..MaxRef] /\ memory' \in [Frame -> Value]
        /\ leaked' \in [Frame -> Nat]
    BY Zenon DEF MapDevice, Inv, TypeOK
  <2> QED
    BY <2>1, <1>1, LeafStep, Zenon
<1>3. \A h \in Frame : Cardinality(Mappers(h)') = Cardinality(Mappers(h))
  <2>1. TypeOK /\ maps[s][v] = NoFrame /\ maps' = [maps EXCEPT ![s][v] = Device]
    BY Zenon DEF Inv, MapDevice
  <2> SUFFICES ASSUME NEW h \in Frame PROVE Cardinality(Mappers(h)') = Cardinality(Mappers(h))
    BY Zenon
  <2>2. maps[s][v] # h /\ Device # h
    BY <2>1, CowAssumption, Zenon
  <2>3. PICK g \in Leaf : g = Device
    BY <1>1, Zenon
  <2>4. Cardinality(Mappers(h)') =
           IF g = h /\ maps[s][v] # h THEN Cardinality(Mappers(h)) + 1
           ELSE IF g # h /\ maps[s][v] = h THEN Cardinality(Mappers(h)) - 1
           ELSE Cardinality(Mappers(h))
    <3>1. TypeOK /\ maps' = [maps EXCEPT ![s][v] = g]
      BY <2>1, <2>3, Zenon
    <3> QED
      BY <3>1, LeafCounts, ZenonT(60)
  <2> QED
    BY <2>2, <2>3, <2>4, Zenon
<1>4. CountsExact'
  BY <1>3, Zenon DEF CountsExact, Inv, MapDevice
<1> QED
  BY <1>2, <1>4, Zenon DEF Inv

\* unmap_mapping keeps the invariant: one mapping and one reference go.
LEMMA UnmapStep ==
    ASSUME Inv, NEW s \in Space, NEW v \in Page, Unmap(s, v)
    PROVE  Inv'
<1> DEFINE old == maps[s][v]
<1>1. NoFrame \in Leaf /\ NoFrame \notin Frame /\ "None" \in Right /\ LeafSet(s, v, NoFrame, "None")
      /\ s \in live
  BY CowAssumption, Zenon DEF Unmap, LeafSet, Leaf, Right
<1>2. old \in Frame => refcount[old] # 0
  BY FreeIsUnmapped, Zenon DEF Inv
<1>3. \A h \in Frame : /\ refcount'[h] = IF h = old THEN refcount[h] - 1 ELSE refcount[h]
                       /\ leaked'[h] = leaked[h]
  BY Zenon DEF Unmap, Freed, Inv, TypeOK
<1>4. TypeOK' /\ SameAddress' /\ Isolated' /\ TlbCoherent'
  <2>1. refcount' \in [Frame -> 0..MaxRef]
    <3>1. refcount \in [Frame -> 0..MaxRef] /\ MaxRef \in Nat
      BY CowAssumption, Zenon DEF Inv, TypeOK
    <3>2. CASE old \in Frame
      BY <1>2, <3>1, <3>2 DEF Unmap, Freed
    <3> QED
      BY <3>1, <3>2, Zenon DEF Unmap
  <2>2. memory' \in [Frame -> Value] /\ leaked' \in [Frame -> Nat]
    BY Zenon DEF Unmap, Inv, TypeOK
  <2> QED
    BY <2>1, <2>2, <1>1, LeafStep, Zenon
<1>5. CountsExact'
  <2> SUFFICES ASSUME NEW h \in Frame
               PROVE  refcount'[h] = Cardinality(Mappers(h)') + leaked'[h]
    BY Zenon DEF CountsExact
  <2>1. refcount[h] = Cardinality(Mappers(h)) + leaked[h] /\ leaked[h] \in Nat
    BY Zenon DEF Inv, CountsExact, TypeOK
  <2>2. /\ Cardinality(Mappers(h)) \in Nat
        /\ Cardinality(Mappers(h)') =
             IF NoFrame = h /\ maps[s][v] # h THEN Cardinality(Mappers(h)) + 1
             ELSE IF NoFrame # h /\ maps[s][v] = h THEN Cardinality(Mappers(h)) - 1
             ELSE Cardinality(Mappers(h))
    <3>1. TypeOK /\ maps' = [maps EXCEPT ![s][v] = NoFrame]
      BY <1>1, Zenon DEF Inv, LeafSet
    <3>2. PICK g \in Leaf : g = NoFrame
      BY <1>1, Zenon
    <3> QED
      BY <3>1, <3>2, LeafCounts, ZenonT(60)
  <2> QED
    BY <1>1, <1>3, <2>1, <2>2
<1> QED
  BY <1>4, <1>5, Zenon DEF Inv

\* Steps that leave maps alone leave the number of mappers alone.
LEMMA SameMappers == ASSUME maps' = maps PROVE \A h \in Frame : Mappers(h)' = Mappers(h)
BY Zenon DEF Mappers

\* Writing a leaf the value it has changes nothing.
LEMMA SameLeaf ==
    ASSUME TypeOK, NEW s \in Space, NEW v \in Page
    PROVE  maps = [maps EXCEPT ![s][v] = maps[s][v]]
BY Zenon DEF TypeOK

\* set_leaf_flags keeps the invariant: a shared frame becomes COW, not writable.
LEMMA ProtectStep ==
    ASSUME Inv, NEW s \in Space, NEW v \in Page, NEW r \in {"Read", "Write"}, Protect(s, v, r)
    PROVE  Inv'
<1> DEFINE g == maps[s][v]
           q == IF r = "Write" /\ SharedFrame(g) THEN "Cow" ELSE r
<1>1. /\ g \in Leaf /\ g # NoFrame /\ q \in Right /\ q # "None" /\ s \in live
      /\ q = "Cow" => g \in Frame
  BY DEF Protect, SharedFrame, Inv, TypeOK, Right
<1>2. LeafSet(s, v, g, q)
  BY SameLeaf, Zenon DEF Protect, LeafSet, Inv
<1>3. q = "Write" /\ g \in Frame => OnlyMapper(s, v, g)
  BY UnsharedHasOneMapper, Zenon DEF SharedFrame, Inv
<1>4. TypeOK' /\ SameAddress' /\ Isolated' /\ TlbCoherent'
  <2>1. refcount' \in [Frame -> 0..MaxRef] /\ memory' \in [Frame -> Value]
        /\ leaked' \in [Frame -> Nat]
    BY Zenon DEF Protect, Inv, TypeOK
  <2> HIDE DEF g, q
  <2> QED
    BY <2>1, <1>1, <1>2, <1>3, LeafStep, Zenon DEF g
<1>5. CountsExact'
  BY SameMappers, Zenon DEF Protect, CountsExact, Inv
<1> QED
  BY <1>4, <1>5, Zenon DEF Inv

\* resolve_cow on the last reference keeps the invariant.
LEMMA ResolveInPlaceStep ==
    ASSUME Inv, NEW v \in Page, ResolveInPlace(v)
    PROVE  Inv'
<1> DEFINE g == maps[active][v]
<1>1. active \in live /\ active \in Space /\ g \in Frame /\ g \in Leaf /\ g # NoFrame
  BY CowAssumption, Zenon DEF ResolveInPlace, Inv, TypeOK, Leaf
<1>2. LeafSet(active, v, g, "Write")
  BY <1>1, SameLeaf, Zenon DEF ResolveInPlace, LeafSet, Inv
<1>3. OnlyMapper(active, v, g)
  <2>1. ~ (refcount[g] > 1)
    BY <1>1 DEF ResolveInPlace, Inv, TypeOK
  <2> QED
    BY <1>1, <2>1, UnsharedHasOneMapper, Zenon DEF Inv
<1>4. TypeOK' /\ SameAddress' /\ Isolated' /\ TlbCoherent'
  <2>1. refcount' \in [Frame -> 0..MaxRef] /\ memory' \in [Frame -> Value]
        /\ leaked' \in [Frame -> Nat]
    BY Zenon DEF ResolveInPlace, Inv, TypeOK
  <2>2. "Write" \in Right
    BY Zenon DEF Right
  <2> HIDE DEF g
  <2> QED
    BY <2>1, <2>2, <1>1, <1>2, <1>3, LeafStep, Zenon DEF g
<1>5. CountsExact'
  BY SameMappers, Zenon DEF ResolveInPlace, CountsExact, Inv
<1> QED
  BY <1>4, <1>5, Zenon DEF Inv

\* resolve_cow with a copy keeps the invariant.
LEMMA ResolveCopyStep ==
    ASSUME Inv, NEW v \in Page, NEW f \in Frame, ResolveCopy(v, f)
    PROVE  Inv'
<1> DEFINE old == maps[active][v]
<1>1. active \in live /\ active \in Space /\ old \in Frame /\ f \in Leaf /\ f # NoFrame /\ f # old
  BY CowAssumption DEF ResolveCopy, Inv, TypeOK, Leaf
<1>2. LeafSet(active, v, f, "Write")
  BY Zenon DEF ResolveCopy, LeafSet
<1>3. \A t \in Space, w \in Page : maps[t][w] # f
  BY FreeIsUnmapped, Zenon DEF ResolveCopy, Inv
<1>4. OnlyMapper(active, v, f)
  BY <1>3, Zenon DEF OnlyMapper
<1>5. /\ \A h \in Frame : refcount'[h] = IF h = f THEN 1
                                         ELSE IF h = old THEN refcount[h] - 1 ELSE refcount[h]
      /\ leaked' = leaked /\ refcount[old] > 1 /\ refcount[f] = 0
  BY <1>1, Zenon DEF ResolveCopy, Freed, Inv, TypeOK
<1>6. TypeOK' /\ SameAddress' /\ Isolated' /\ TlbCoherent'
  <2>1. refcount' \in [Frame -> 0..MaxRef] /\ memory' \in [Frame -> Value]
        /\ leaked' \in [Frame -> Nat]
    <3>1. refcount \in [Frame -> 0..MaxRef] /\ memory \in [Frame -> Value] /\ MaxRef \in Nat \ {0}
      BY CowAssumption, Zenon DEF Inv, TypeOK
    <3>2. refcount' = [[refcount EXCEPT ![old] = @ - 1] EXCEPT ![f] = 1]
      BY Zenon DEF ResolveCopy, Freed
    <3>3. refcount' \in [Frame -> 0..MaxRef]
      BY <1>1, <1>5, <3>1, <3>2
    <3>4. memory' \in [Frame -> Value]
      BY <1>1, <3>1, Zenon DEF ResolveCopy
    <3> QED
      BY <3>3, <3>4, <1>5, Zenon DEF Inv, TypeOK
  <2>2. "Write" \in Right
    BY Zenon DEF Right
  <2> QED
    BY <2>1, <2>2, <1>1, <1>2, <1>3, <1>4, LeafStep, Zenon
<1>7. CountsExact'
  <2> SUFFICES ASSUME NEW h \in Frame
               PROVE  refcount'[h] = Cardinality(Mappers(h)') + leaked'[h]
    BY Zenon DEF CountsExact
  <2>1. refcount[h] = Cardinality(Mappers(h)) + leaked[h] /\ leaked[h] \in Nat
    BY Zenon DEF Inv, CountsExact, TypeOK
  <2>2. /\ Cardinality(Mappers(h)) \in Nat
        /\ Cardinality(Mappers(h)') =
             IF f = h /\ maps[active][v] # h THEN Cardinality(Mappers(h)) + 1
             ELSE IF f # h /\ maps[active][v] = h THEN Cardinality(Mappers(h)) - 1
             ELSE Cardinality(Mappers(h))
    <3>1. PICK s \in Space : s = active
      BY <1>1, Zenon
    <3>2. PICK g \in Leaf : g = f
      BY <1>1, Zenon
    <3>3. TypeOK /\ maps' = [maps EXCEPT ![s][v] = g]
      BY <1>2, <3>1, <3>2, Zenon DEF Inv, LeafSet
    <3>4. /\ Cardinality(Mappers(h)) \in Nat
          /\ Cardinality(Mappers(h)') =
               IF g = h /\ maps[s][v] # h THEN Cardinality(Mappers(h)) + 1
               ELSE IF g # h /\ maps[s][v] = h THEN Cardinality(Mappers(h)) - 1
               ELSE Cardinality(Mappers(h))
      BY <3>3, LeafCounts, ZenonT(60)
    <3> QED
      BY <3>1, <3>2, <3>4, Zenon
  <2> QED
    BY <1>1, <1>5, <2>1, <2>2
<1> QED
  BY <1>6, <1>7, Zenon DEF Inv

\* The counts fork takes stay within their width, and drop never takes one below zero.
LEMMA GottenInRange ==
    ASSUME TypeOK, SameAddress, NEW s \in Space, NEW D \in SUBSET OwnedPages(s), CanGet(s, D),
           NEW f \in Frame
    PROVE  Cardinality(At(s, D, f)) \in Nat /\ refcount[f] + Cardinality(At(s, D, f)) \in 0..MaxRef
<1>1. D \in SUBSET Page /\ refcount[f] \in 0..MaxRef /\ MaxRef \in Nat
  BY CowAssumption, Zenon DEF OwnedPages, TypeOK
<1>2. CASE At(s, D, f) = {}
  <2>1. Cardinality(At(s, D, f)) = 0
    BY <1>2, FS_EmptySet, Zenon
  <2> QED
    BY <1>1, <2>1
<1>3. CASE \E v : v \in At(s, D, f)
  <2>1. Cardinality(At(s, D, f)) = 1
    BY <1>1, <1>3, AtMostOnce, Zenon
  <2>2. refcount[f] < MaxRef
    BY <1>3, Zenon DEF At, CanGet
  <2> QED
    BY <1>1, <2>1, <2>2
<1> QED
  BY <1>2, <1>3, Zenon

\* Marking owned pages of the active space COW, whatever the TLB still holds.
LEMMA ShareStep ==
    ASSUME Inv, active # NoSpace, NEW D \in SUBSET OwnedPages(active),
           right' = [right EXCEPT ![active] = Shared(active, D)],
           UNCHANGED <<live, maps, active, tlb_frame, tlb_right>>
    PROVE  /\ refcount' \in [Frame -> 0..MaxRef] /\ memory' \in [Frame -> Value]
              /\ leaked' \in [Frame -> Nat] => TypeOK'
           /\ SameAddress' /\ Isolated' /\ TlbCoherent'
<1>1. active \in Space
  BY Zenon DEF Inv, TypeOK
<1>2. /\ right' \in [Space -> [Page -> Right]]
      /\ \A t \in Space, w \in Page :
           right'[t][w] = IF t = active /\ w \in D /\ right[t][w] = "Write" THEN "Cow" ELSE right[t][w]
  <2>1. right \in [Space -> [Page -> Right]] /\ "Cow" \in Right
    BY Zenon DEF Inv, TypeOK, Right
  <2>2. Shared(active, D) \in [Page -> Right]
    BY <1>1, <2>1, Zenon DEF Shared
  <2> QED
    BY <1>1, <2>1, <2>2, Zenon DEF Shared
<1>3. refcount' \in [Frame -> 0..MaxRef] /\ memory' \in [Frame -> Value]
        /\ leaked' \in [Frame -> Nat] => TypeOK'
  BY <1>2 DEF Inv, TypeOK, OwnedPages
<1>4. SameAddress'
  BY Zenon DEF Inv, SameAddress
<1>5. Isolated'
  BY <1>2 DEF Inv, Isolated, OnlyMapper
<1>6. TlbCoherent'
  BY <1>1, <1>2, Zenon DEF Inv, TlbCoherent
<1> QED
  BY <1>3, <1>4, <1>5, <1>6, Zenon

\* A fork that runs out of tables keeps the invariant.
LEMMA ForkMapFailsStep == ASSUME Inv, NEW D \in SUBSET Page, ForkMapFails(D) PROVE Inv'
<1>1. refcount' \in [Frame -> 0..MaxRef] /\ memory' \in [Frame -> Value] /\ leaked' \in [Frame -> Nat]
  BY Zenon DEF ForkMapFails, Inv, TypeOK
<1>2. TypeOK' /\ SameAddress' /\ Isolated' /\ TlbCoherent'
  BY <1>1, ShareStep, Zenon DEF ForkMapFails
<1>3. CountsExact'
  BY SameMappers, Zenon DEF ForkMapFails, CountsExact, Inv
<1> QED
  BY <1>2, <1>3, Zenon DEF Inv

\* A fork that loses the references to the pages of D: every count is still explained.
LEMMA LossStep ==
    ASSUME Inv, active # NoSpace, NEW D \in SUBSET OwnedPages(active), CanGet(active, D),
           NEW E \in SUBSET OwnedPages(active),
           right' = [right EXCEPT ![active] = Shared(active, E)],
           refcount' = Gotten(active, D),
           leaked' = [f \in Frame |-> leaked[f] + Cardinality(At(active, D, f))],
           UNCHANGED <<live, maps, memory, active, tlb_frame, tlb_right>>
    PROVE  Inv'
<1>1. active \in Space
  BY Zenon DEF Inv, TypeOK
<1>2. \A f \in Frame : /\ Cardinality(At(active, D, f)) \in Nat
                       /\ refcount[f] + Cardinality(At(active, D, f)) \in 0..MaxRef
                       /\ leaked[f] \in Nat /\ refcount[f] \in Nat
  BY <1>1, GottenInRange, SMTT(30) DEF Inv, TypeOK
<1>3. refcount' \in [Frame -> 0..MaxRef] /\ memory' \in [Frame -> Value] /\ leaked' \in [Frame -> Nat]
  BY <1>2 DEF Gotten, Inv, TypeOK
<1>4. TypeOK' /\ SameAddress' /\ Isolated' /\ TlbCoherent'
  BY <1>3, ShareStep, Zenon
<1>5. CountsExact'
  <2> SUFFICES ASSUME NEW h \in Frame
               PROVE  refcount'[h] = Cardinality(Mappers(h)') + leaked'[h]
    BY Zenon DEF CountsExact
  <2>1. Mappers(h)' = Mappers(h) /\ Cardinality(Mappers(h)) \in Nat
    BY SameMappers, MappersFinite, FS_CardinalityType, Zenon
  <2>2. refcount[h] = Cardinality(Mappers(h)) + leaked[h]
    BY Zenon DEF Inv, CountsExact
  <2>3. refcount'[h] = refcount[h] + Cardinality(At(active, D, h))
    BY Zenon DEF Gotten
  <2>4. leaked'[h] = leaked[h] + Cardinality(At(active, D, h))
    BY Zenon
  <2>5. Cardinality(At(active, D, h)) \in Nat /\ leaked[h] \in Nat
    BY <1>2, Zenon
  <2> QED
    BY <2>1, <2>2, <2>3, <2>4, <2>5
<1> QED
  BY <1>4, <1>5, Zenon DEF Inv

\* A fork refused by frame_get keeps the invariant, its references accounted as lost.
LEMMA ForkGetFailsStep ==
    ASSUME Inv, NEW D \in SUBSET Page, NEW v \in Page, ForkGetFails(D, v) PROVE Inv'
BY LossStep, Zenon DEF ForkGetFails

\* A fork without heap for the device list keeps the invariant, likewise.
LEMMA ForkReserveFailsStep == ASSUME Inv, ForkReserveFails PROVE Inv'
BY LossStep, Zenon DEF ForkReserveFails

\* A successful fork_cow keeps the invariant.
LEMMA ForkStep == ASSUME Inv, NEW c \in Space, Fork(c) PROVE Inv'
<1> DEFINE s == active
           D == OwnedPages(s)
<1>1. s \in Space /\ s \in live /\ c \notin live /\ c # s /\ CanGet(s, D)
  BY Zenon DEF Fork, Inv, TypeOK
<1>2. /\ maps' \in [Space -> [Page -> Leaf]]
      /\ \A t \in Space, w \in Page : maps'[t][w] = IF t = c THEN maps[s][w] ELSE maps[t][w]
  BY <1>1, ZenonT(60) DEF Fork, Inv, TypeOK
<1>3. /\ right' \in [Space -> [Page -> Right]]
      /\ \A t \in Space, w \in Page :
           right'[t][w] = IF t = s \/ t = c
                          THEN IF w \in D /\ right[s][w] = "Write" THEN "Cow" ELSE right[s][w]
                          ELSE right[t][w]
  <2>1. right \in [Space -> [Page -> Right]] /\ "Cow" \in Right
    BY Zenon DEF Inv, TypeOK, Right
  <2>2. Shared(s, D) \in [Page -> Right]
    BY <1>1, <2>1, Zenon DEF Shared
  <2>3. right' = [right EXCEPT ![s] = Shared(s, D), ![c] = Shared(s, D)]
    BY Zenon DEF Fork
  <2> QED
    BY <1>1, <2>1, <2>2, <2>3, Zenon DEF Shared
<1>4. /\ tlb_frame' = [v \in Page |-> NoFrame] /\ tlb_right' = [v \in Page |-> "None"]
      /\ active' = active /\ live' = live \cup {c} /\ memory' = memory /\ leaked' = leaked
      /\ refcount' = Gotten(s, D)
  BY Zenon DEF Fork, FlushAll, EmptyMaps, EmptyRights
<1>5. \A v \in Page : maps[c][v] = NoFrame
  BY <1>1, Zenon DEF Inv, TypeOK
<1>6. \A f \in Frame : /\ Cardinality(At(s, D, f)) \in Nat
                       /\ refcount[f] + Cardinality(At(s, D, f)) \in 0..MaxRef
  BY <1>1, GottenInRange, Zenon DEF Inv
<1>7. TypeOK'
  <2>1. refcount' \in [Frame -> 0..MaxRef] /\ memory' \in [Frame -> Value]
        /\ leaked' \in [Frame -> Nat]
    BY <1>4, <1>6, Zenon DEF Gotten, Inv, TypeOK
  <2>2. tlb_frame' \in [Page -> Leaf] /\ tlb_right' \in [Page -> {"None", "Read", "Write"}]
    BY <1>4, Zenon DEF Leaf
  <2>3. ASSUME NEW t \in Space, NEW w \in Page
        PROVE  /\ maps'[t][w] = NoFrame <=> right'[t][w] = "None"
               /\ right'[t][w] = "Cow" => maps'[t][w] \in Frame
               /\ t \notin live' => maps'[t][w] = NoFrame
    BY <1>1, <1>2, <1>3, <1>4, SMTT(60) DEF Inv, TypeOK, OwnedPages
  <2> QED
    BY <1>1, <1>2, <1>3, <1>4, <2>1, <2>2, <2>3, SMTT(60) DEF Inv, TypeOK
<1>8. SameAddress'
  BY <1>1, <1>2, SMTT(60) DEF Inv, SameAddress
<1>9. Isolated'
  <2>1. ASSUME NEW t \in Space, NEW w \in Page, right'[t][w] = "Write", maps'[t][w] \in Frame
        PROVE  OnlyMapper(t, w, maps[t][w])'
    <3>1. t # s /\ t # c
      BY <1>1, <1>2, <1>3, <2>1, SMTT(60) DEF OwnedPages
    <3>2. OnlyMapper(t, w, maps[t][w])
      BY <1>2, <1>3, <2>1, <3>1, Zenon DEF Inv, Isolated
    <3> QED
      BY <1>1, <1>2, <3>1, <3>2, SMTT(60) DEF OnlyMapper
  <2> QED
    BY <2>1, <1>4, Zenon DEF Isolated
<1>10. TlbCoherent'
  BY <1>4, Zenon DEF TlbCoherent
<1>11. CountsExact'
  <2> SUFFICES ASSUME NEW h \in Frame
               PROVE  refcount'[h] = Cardinality(Mappers(h)') + leaked'[h]
    BY Zenon DEF CountsExact
  <2>1. /\ refcount'[h] = refcount[h] + Cardinality(At(s, D, h)) /\ leaked'[h] = leaked[h]
        /\ refcount[h] = Cardinality(Mappers(h)) + leaked[h] /\ leaked[h] \in Nat
    BY <1>4, Zenon DEF Gotten, Inv, CountsExact, TypeOK
  <2>2. IsFiniteSet(Mappers(h)) /\ Cardinality(Mappers(h)) \in Nat
    BY MappersFinite, FS_CardinalityType, Zenon
  <2>3. CASE At(s, D, h) = {}
    <3>1. \A w \in Page : maps[s][w] # h
      BY <2>3, Zenon DEF At, OwnedPages
    <3>2. Mappers(h)' = Mappers(h)
      <4>1. \A t \in Space, w \in Page : maps'[t][w] = h <=> maps[t][w] = h
        BY <1>1, <1>2, <1>5, <3>1, CowAssumption, ZenonT(60)
      <4>2. \A t \in Space, w \in Page : <<t, w>> \in Mappers(h)' <=> <<t, w>> \in Mappers(h)
        BY <4>1, InMappers, InMappersNext
      <4> QED
        BY <4>2, MappersPairs, PairsEqual, Zenon
    <3>3. Cardinality(At(s, D, h)) = 0
      BY <2>3, FS_EmptySet, Zenon
    <3> QED
      BY <2>1, <2>2, <3>2, <3>3
  <2>4. CASE \E v : v \in At(s, D, h)
    <3>1. PICK v \in Page : v \in At(s, D, h) /\ maps[s][v] = h
      BY <2>4, Zenon DEF At, OwnedPages
    <3>2. \A w \in Page : maps[s][w] = h => w = v
      BY <1>1, <3>1, Zenon DEF Inv, SameAddress
    <3>3. Mappers(h)' = Mappers(h) \cup {<<c, v>>}
      BY <1>2, <1>5, <3>1, <3>2, CowAssumption, MappersPairs, PairsEqual, InMappers, InMappersNext, SMTT(60)
    <3>4. <<c, v>> \notin Mappers(h)
      BY <1>5, CowAssumption, InMappers, Zenon
    <3>5. Cardinality(At(s, D, h)) = 1
      <4>1. D \in SUBSET Page
        BY Zenon DEF OwnedPages
      <4> QED
        BY <1>1, <3>1, <4>1, AtMostOnce, Zenon DEF Inv
    <3>6. Cardinality(Mappers(h)') = Cardinality(Mappers(h)) + 1
      BY <2>2, <3>3, <3>4, FS_AddElement, Zenon
    <3> QED
      BY <2>1, <2>2, <3>5, <3>6, SMTT(60)
  <2> QED
    BY <2>3, <2>4, Zenon
<1> QED
  BY <1>7, <1>8, <1>9, <1>10, <1>11, Zenon DEF Inv

\* Dropping a space gives back one reference for each of its owned pages.
LEMMA DestroyStep == ASSUME Inv, NEW s \in Space, Destroy(s) PROVE Inv'
<1>1. s \in live /\ s # active
  BY Zenon DEF Destroy
<1>2. /\ maps' \in [Space -> [Page -> Leaf]]
      /\ \A t \in Space, w \in Page : maps'[t][w] = IF t = s THEN NoFrame ELSE maps[t][w]
  BY Zenon DEF Destroy, EmptyMaps, Inv, TypeOK, Leaf
<1>3. /\ right' \in [Space -> [Page -> Right]]
      /\ \A t \in Space, w \in Page : right'[t][w] = IF t = s THEN "None" ELSE right[t][w]
  BY Zenon DEF Destroy, EmptyRights, Inv, TypeOK, Right
<1>4. /\ tlb_frame' = tlb_frame /\ tlb_right' = tlb_right /\ active' = active
      /\ live' = live \ {s} /\ memory' = memory /\ leaked' = leaked
      /\ refcount' = [f \in Frame |-> refcount[f] - Cardinality(At(s, Page, f))]
  BY Zenon DEF Destroy
<1>5. ASSUME NEW h \in Frame
      PROVE  /\ refcount'[h] = Cardinality(Mappers(h)') + leaked'[h]
             /\ refcount'[h] \in 0..MaxRef
  <2>1. /\ refcount'[h] = refcount[h] - Cardinality(At(s, Page, h)) /\ leaked'[h] = leaked[h]
        /\ refcount[h] = Cardinality(Mappers(h)) + leaked[h] /\ leaked[h] \in Nat
        /\ refcount[h] \in 0..MaxRef
    BY <1>4, Zenon DEF Inv, CountsExact, TypeOK
  <2>2. IsFiniteSet(Mappers(h)) /\ Cardinality(Mappers(h)) \in Nat
    BY MappersFinite, FS_CardinalityType, Zenon
  <2>3. h # NoFrame /\ MaxRef \in Nat
    BY CowAssumption, Zenon
  <2>4. CASE At(s, Page, h) = {}
    <3>1. \A w \in Page : maps[s][w] # h
      BY <2>4, Zenon DEF At
    <3>2. \A t \in Space, w \in Page : <<t, w>> \in Mappers(h)' <=> <<t, w>> \in Mappers(h)
      BY <1>2, <2>3, <3>1, InMappers, InMappersNext, SMTT(60)
    <3>3. Mappers(h)' = Mappers(h)
      BY <3>2, MappersPairs, PairsEqual, Zenon
    <3>4. Cardinality(At(s, Page, h)) = 0
      BY <2>4, FS_EmptySet, Zenon
    <3> QED
      BY <2>1, <2>2, <3>3, <3>4, SMTT(30)
  <2>5. CASE \E v : v \in At(s, Page, h)
    <3>1. PICK v \in Page : v \in At(s, Page, h) /\ maps[s][v] = h
      BY <2>5, Zenon DEF At
    <3>2. \A w \in Page : maps[s][w] = h => w = v
      BY <3>1, Zenon DEF Inv, SameAddress
    <3>3. \A t \in Space, w \in Page :
            <<t, w>> \in Mappers(h)' <=> <<t, w>> \in Mappers(h) \ {<<s, v>>}
      BY <1>2, <2>3, <3>1, <3>2, InMappers, InMappersNext, SMTT(60)
    <3>4. Mappers(h)' = Mappers(h) \ {<<s, v>>}
      BY <3>3, MappersPairs, PairsEqual
    <3>5. <<s, v>> \in Mappers(h)
      BY <3>1, InMappers, Zenon
    <3>6. Cardinality(Mappers(h)') = Cardinality(Mappers(h)) - 1
      BY <2>2, <3>4, <3>5, FS_RemoveElement, ZenonT(60)
    <3>7. Cardinality(Mappers(h)') \in Nat
      BY <2>2, <3>4, FS_RemoveElement, FS_CardinalityType, Zenon
    <3>8. Cardinality(At(s, Page, h)) = 1
      BY <3>1, AtMostOnce DEF Inv
    <3>9. refcount'[h] = refcount[h] - 1 /\ refcount[h] \in Nat
      BY <2>1, <2>3, <3>8
    <3> QED
      BY <2>1, <2>2, <2>3, <3>6, <3>7, <3>9, SMTT(30)
  <2> QED
    BY <2>4, <2>5, Zenon
<1>6. TypeOK'
  <2>1. refcount' \in [Frame -> 0..MaxRef]
    BY <1>4, <1>5, Zenon
  <2>2. ASSUME NEW t \in Space, NEW w \in Page
        PROVE  /\ maps'[t][w] = NoFrame <=> right'[t][w] = "None"
               /\ right'[t][w] = "Cow" => maps'[t][w] \in Frame
               /\ t \notin live' => maps'[t][w] = NoFrame
    BY <1>1, <1>2, <1>3, <1>4, SMTT(60) DEF Inv, TypeOK
  <2> QED
    BY <1>1, <1>2, <1>3, <1>4, <2>1, <2>2, Zenon DEF Inv, TypeOK
<1>7. SameAddress'
  BY <1>2, CowAssumption DEF Inv, SameAddress
<1>9. Isolated'
  <2>1. ASSUME NEW t \in Space, NEW w \in Page, right'[t][w] = "Write", maps'[t][w] \in Frame
        PROVE  OnlyMapper(t, w, maps[t][w])'
    <3>1. t # s /\ maps'[t][w] = maps[t][w] /\ right[t][w] = "Write"
      BY <1>2, <1>3, <2>1, CowAssumption, Zenon
    <3>2. OnlyMapper(t, w, maps[t][w])
      BY <2>1, <3>1, ZenonT(60) DEF Inv, Isolated
    <3> QED
      BY <1>2, <2>1, <3>1, <3>2, CowAssumption DEF OnlyMapper
  <2>2. ASSUME NEW v \in Page, tlb_right'[v] = "Write", tlb_frame'[v] \in Frame
        PROVE  OnlyMapper(active, v, tlb_frame[v])'
    <3>1. OnlyMapper(active, v, tlb_frame[v])
      BY <1>4, <2>2, Zenon DEF Inv, Isolated
    <3> QED
      BY <1>2, <1>4, <2>2, <3>1, CowAssumption, SMTT(30) DEF OnlyMapper
  <2> QED
    BY <2>1, <2>2, Zenon DEF Isolated
<1>10. TlbCoherent'
  BY <1>1, <1>2, <1>3, <1>4, SMTT(30) DEF Inv, TlbCoherent, TypeOK
<1> QED
  BY <1>5, <1>6, <1>7, <1>9, <1>10, Zenon DEF Inv, CountsExact

---------------------------------------------------------------------------
(* Steps that leave every leaf alone *)

\* What a step that touches neither leaves nor counts must still show.
LEMMA SameTables ==
    ASSUME Inv, UNCHANGED <<maps, right, refcount, leaked>>,
           live' \subseteq Space, live \subseteq live', active' \in live' \cup {NoSpace},
           memory' \in [Frame -> Value], tlb_frame' \in [Page -> Leaf],
           tlb_right' \in [Page -> {"None", "Read", "Write"}]
    PROVE  TypeOK' /\ SameAddress' /\ CountsExact'
<1>1. TypeOK'
  BY Zenon DEF Inv, TypeOK
<1>2. SameAddress'
  BY DEF Inv, SameAddress
<1>3. \A f \in Frame : Mappers(f)' = Mappers(f)
  BY SameMappers, Zenon
<1>4. CountsExact'
  BY <1>3, Zenon DEF Inv, CountsExact
<1> QED
  BY <1>1, <1>2, <1>4, Zenon

\* What a step that touches neither leaves nor translations leaves alone.
LEMMA SameTranslations ==
    ASSUME Inv, UNCHANGED <<maps, right, active, tlb_frame, tlb_right>>
    PROVE  Isolated' /\ TlbCoherent'
<1>1. ASSUME NEW s \in Space, NEW v \in Page, right'[s][v] = "Write", maps'[s][v] \in Frame
      PROVE  OnlyMapper(s, v, maps[s][v])'
  <2>1. OnlyMapper(s, v, maps[s][v])
    BY <1>1, Zenon DEF Inv, Isolated
  <2> QED
    BY <2>1, Zenon DEF OnlyMapper
<1>2. ASSUME NEW v \in Page, tlb_right'[v] = "Write", tlb_frame'[v] \in Frame
      PROVE  OnlyMapper(active, v, tlb_frame[v])'
  <2>1. OnlyMapper(active, v, tlb_frame[v])
    BY <1>2, Zenon DEF Inv, Isolated
  <2> QED
    BY <2>1, Zenon DEF OnlyMapper
<1>3. Isolated'
  BY <1>1, <1>2, Zenon DEF Isolated
<1>4. TlbCoherent'
  BY Zenon DEF Inv, TlbCoherent
<1> QED
  BY <1>3, <1>4, Zenon

\* AddressSpace::new keeps the invariant.
LEMMA CreateStep == ASSUME Inv, NEW s \in Space, Create(s) PROVE Inv'
<1>1. TypeOK' /\ SameAddress' /\ CountsExact'
  BY SameTables, Zenon DEF Create, Inv, TypeOK
<1>2. Isolated' /\ TlbCoherent'
  BY SameTranslations, Zenon DEF Create
<1> QED
  BY <1>1, <1>2, Zenon DEF Inv

\* Loading CR3 keeps the invariant.
LEMMA ActivateStep == ASSUME Inv, NEW s \in Space \cup {NoSpace}, Activate(s) PROVE Inv'
<1>1. /\ tlb_frame' = [v \in Page |-> NoFrame] /\ tlb_right' = [v \in Page |-> "None"]
      /\ active' = s /\ s \in live \cup {NoSpace}
      /\ UNCHANGED <<live, maps, right, refcount, memory, leaked>>
  BY Zenon DEF Activate, FlushAll, EmptyMaps, EmptyRights
<1>2. tlb_frame' \in [Page -> Leaf] /\ tlb_right' \in [Page -> {"None", "Read", "Write"}]
  BY <1>1, Zenon DEF Leaf
<1>3. TypeOK' /\ SameAddress' /\ CountsExact'
  BY <1>1, <1>2, SameTables, ZenonT(60) DEF Inv, TypeOK
<1>4. Isolated' /\ TlbCoherent'
  BY <1>1, SMTT(30) DEF Inv, Isolated, OnlyMapper, TlbCoherent
<1> QED
  BY <1>3, <1>4, Zenon DEF Inv

\* A page walk keeps the invariant.
LEMMA FillStep == ASSUME Inv, NEW v \in Page, Fill(v) PROVE Inv'
<1> DEFINE r == IF right[active][v] = "Write" THEN "Write" ELSE "Read"
<1>1. active \in Space /\ active \in live /\ maps[active][v] \in Leaf /\ maps[active][v] # NoFrame
  BY DEF Fill, Inv, TypeOK
<1>2. /\ tlb_frame' \in [Page -> Leaf] /\ tlb_right' \in [Page -> {"None", "Read", "Write"}]
      /\ \A w \in Page : /\ tlb_frame'[w] = IF w = v THEN maps[active][v] ELSE tlb_frame[w]
                         /\ tlb_right'[w] = IF w = v THEN r ELSE tlb_right[w]
  BY <1>1, Zenon DEF Fill, Inv, TypeOK
<1>3. UNCHANGED <<live, maps, right, refcount, memory, active, leaked>>
  BY Zenon DEF Fill
<1>4. TypeOK' /\ SameAddress' /\ CountsExact'
  BY <1>2, <1>3, SameTables, Zenon DEF Inv, TypeOK
<1>5. TlbCoherent'
  <2>1. active # NoSpace
    BY Zenon DEF Fill
  <2> SUFFICES ASSUME NEW w \in Page
               PROVE  /\ tlb_frame'[w] = NoFrame <=> tlb_right'[w] = "None"
                      /\ tlb_frame'[w] # NoFrame =>
                           /\ tlb_frame'[w] = maps[active][w]
                           /\ tlb_right'[w] = "Write" => right[active][w] \in {"Write", "Cow"}
                           /\ tlb_right'[w] = "Read" => right[active][w] # "Write"
    BY <1>3, <2>1, Zenon DEF TlbCoherent
  <2>2. CASE w = v
    BY <1>1, <1>2, <2>2, Zenon
  <2>3. CASE w # v
    BY <1>2, <2>1, <2>3, Zenon DEF Inv, TlbCoherent
  <2> QED
    BY <2>2, <2>3, Zenon
<1>6. Isolated'
  BY <1>1, <1>2, <1>3, SMTT(30) DEF Inv, Isolated, OnlyMapper
<1> QED
  BY <1>4, <1>5, <1>6, Zenon DEF Inv

\* A store through the TLB keeps the invariant.
LEMMA WriteStep == ASSUME Inv, NEW v \in Page, NEW x \in Value, Write(v, x) PROVE Inv'
<1>1. memory' \in [Frame -> Value]
  BY Zenon DEF Write, Inv, TypeOK
<1>2. UNCHANGED <<live, maps, right, refcount, active, tlb_frame, tlb_right, leaked>>
  BY Zenon DEF Write
<1>3. TypeOK' /\ SameAddress' /\ CountsExact'
  BY <1>1, <1>2, SameTables, Zenon DEF Inv, TypeOK
<1>4. Isolated' /\ TlbCoherent'
  BY <1>2, SameTranslations, Zenon
<1> QED
  BY <1>3, <1>4, Zenon DEF Inv

---------------------------------------------------------------------------
(* The theorems *)

\* The invariant holds before any space exists.
LEMMA InitInv == ASSUME Init PROVE Inv
<1>1. TypeOK
  BY CowAssumption DEF Init, EmptyMaps, EmptyRights, TypeOK, Leaf, Right
<1>2. SameAddress /\ Isolated /\ TlbCoherent
  BY CowAssumption, Zenon DEF Init, EmptyMaps, EmptyRights, SameAddress, Isolated, TlbCoherent
<1>3. CountsExact
  <2>1. ASSUME NEW f \in Frame PROVE Mappers(f) = {}
    BY CowAssumption, Zenon DEF Init, EmptyMaps, Mappers
  <2> QED
    BY <2>1, FS_EmptySet DEF CountsExact, Init
<1> QED
  BY <1>1, <1>2, <1>3, Zenon DEF Inv

\* Every step keeps the invariant.
LEMMA NextInv == ASSUME Inv, [Next]_vars PROVE Inv'
<1>1. ASSUME NEW s \in Space, Create(s) \/ Destroy(s) \/ Fork(s) PROVE Inv'
  BY <1>1, CreateStep, DestroyStep, ForkStep, Zenon
<1>2. ASSUME NEW s \in Space \cup {NoSpace}, Activate(s) PROVE Inv'
  BY <1>2, ActivateStep, Zenon
<1>3. ASSUME NEW s \in Space, NEW v \in Page, Unmap(s, v) PROVE Inv'
  BY <1>3, UnmapStep, Zenon
<1>4. ASSUME NEW s \in Space, NEW v \in Page, NEW r \in {"Read", "Write"},
             MapDevice(s, v, r) \/ Protect(s, v, r)
      PROVE  Inv'
  BY <1>4, MapDeviceStep, ProtectStep, Zenon
<1>5. ASSUME NEW s \in Space, NEW v \in Page, NEW r \in {"Read", "Write"},
             NEW f \in Frame, NEW x \in Value, MapOwned(s, v, f, x, r)
      PROVE  Inv'
  BY <1>5, MapOwnedStep, Zenon
<1>6. ASSUME NEW v \in Page, Fill(v) \/ ResolveInPlace(v) PROVE Inv'
  BY <1>6, FillStep, ResolveInPlaceStep, Zenon
<1>7. ASSUME NEW v \in Page, NEW f \in Frame, ResolveCopy(v, f) PROVE Inv'
  BY <1>7, ResolveCopyStep, Zenon
<1>8. ASSUME NEW v \in Page, NEW x \in Value, Write(v, x) PROVE Inv'
  BY <1>8, WriteStep, Zenon
<1>9. ASSUME ForkFails PROVE Inv'
  BY <1>9, ForkMapFailsStep, ForkGetFailsStep, ForkReserveFailsStep, Zenon DEF ForkFails
<1>10. ASSUME UNCHANGED vars PROVE Inv'
  <2>1. UNCHANGED <<live, maps, right, refcount, memory, active, tlb_frame, tlb_right, leaked>>
    BY <1>10, Zenon DEF vars
  <2>2. TypeOK' /\ SameAddress' /\ CountsExact'
    BY <2>1, SameTables, Zenon DEF Inv, TypeOK
  <2>3. Isolated' /\ TlbCoherent'
    BY <2>1, SameTranslations, Zenon
  <2> QED
    BY <2>2, <2>3, Zenon DEF Inv
<1> QED
  BY <1>1, <1>2, <1>3, <1>4, <1>5, <1>6, <1>7, <1>8, <1>9, <1>10, ZenonT(60) DEF Next

\* The invariant is inductive, so it holds in every reachable state of AddressSpace and the
\* frame counts, however many spaces, pages and frames there are.
THEOREM Invariance == Spec => []Inv
<1>1. Init => Inv
  BY InitInv, Zenon
<1>2. Inv /\ [Next]_vars => Inv'
  BY NextInv, Zenon
<1> QED
  BY <1>1, <1>2, PTL DEF Spec

\* Every variable keeps its type: in particular no reference count leaves its u16.
THEOREM TypesHold == Spec => []TypeOK
<1>1. Inv => TypeOK
  BY Zenon DEF Inv
<1> QED
  BY <1>1, Invariance, PTL

\* free_frame and frame_get keep the count of a frame equal to the number of leaves that map
\* it, plus what failed forks lost: no frame is freed while mapped.
THEOREM CountsHold == Spec => []CountsExact
<1>1. Inv => CountsExact
  BY Zenon DEF Inv
<1> QED
  BY <1>1, Invariance, PTL

\* A frame one space can write, by its tables or by a stale translation, is mapped by no other.
THEOREM IsolationHolds == Spec => []Isolated
<1>1. Inv => Isolated
  BY Zenon DEF Inv
<1> QED
  BY <1>1, Invariance, PTL

\* The flushes of fork_cow, set_leaf_flags and unmap_page keep the TLB in step with the tables.
THEOREM CoherenceHolds == Spec => []TlbCoherent
<1>1. Inv => TlbCoherent
  BY Zenon DEF Inv
<1> QED
  BY <1>1, Invariance, PTL

---------------------------------------------------------------------------
(* The proof that CowMemory implements PrivateMemory: copy-on-write fork   *)
(* is invisible to user code.  The mapping reads each page through its     *)
(* leaf (View); the invariant above says that a store reaches one page of  *)
(* one space and that a frame taken from the allocator is seen by nobody   *)
(* yet.                                                                    *)

\* View, page by page, before and after a step.
LEMMA ViewAt ==
    /\ View = [s \in Space |-> [v \in Page |-> Content(maps[s][v], memory)]]
    /\ View' = [s \in Space |-> [v \in Page |-> Content(maps'[s][v], memory')]]
BY Zenon DEF View

\* Two views that agree page by page are equal.
LEMMA ViewSame ==
    ASSUME \A t \in Space, w \in Page : Content(maps'[t][w], memory') = Content(maps[t][w], memory)
    PROVE  View' = View
BY ViewAt, Zenon

\* A view that changes at one page is an EXCEPT at that page.
LEMMA ViewPage ==
    ASSUME NEW s \in Space, NEW v \in Page, NEW x,
           \A t \in Space, w \in Page :
               Content(maps'[t][w], memory') =
                   IF t = s /\ w = v THEN x ELSE Content(maps[t][w], memory)
    PROVE  View' = [View EXCEPT ![s][v] = x] /\ View[s][v] = Content(maps[s][v], memory)
<1>1. View[s] = [w \in Page |-> Content(maps[s][w], memory)]
  BY ViewAt, Zenon
<1>2. [View EXCEPT ![s][v] = x] =
        [t \in Space |-> IF t = s THEN [View[s] EXCEPT ![v] = x] ELSE View[t]]
  BY ViewAt, Zenon
<1>3. [View[s] EXCEPT ![v] = x] =
        [w \in Page |-> IF w = v THEN x ELSE Content(maps[s][w], memory)]
  BY <1>1, Zenon
<1>4. ASSUME NEW t \in Space
      PROVE  View'[t] = IF t = s THEN [View[s] EXCEPT ![v] = x] ELSE View[t]
  <2>1. View'[t] = [w \in Page |-> Content(maps'[t][w], memory')]
    BY ViewAt, Zenon
  <2>2. View[t] = [w \in Page |-> Content(maps[t][w], memory)]
    BY ViewAt, Zenon
  <2> QED
    BY <1>3, <2>1, <2>2
<1>5. View' = [t \in Space |-> View'[t]]
  BY ViewAt, Zenon
<1> QED
  BY <1>1, <1>2, <1>4, <1>5, Zenon

---------------------------------------------------------------------------
(* Steps user code cannot see *)

\* A step that leaves the maps and the contents of frames alone is a stutter of private memory.
LEMMA InvisibleStep ==
    ASSUME UNCHANGED <<live, maps, memory>> PROVE UNCHANGED <<live, View>>
BY ViewSame, Zenon

\* A frame the allocator hands out is mapped nowhere, so filling it shows nowhere.
LEMMA CopyInvisible ==
    ASSUME Inv, NEW v \in Page, NEW f \in Frame, ResolveCopy(v, f)
    PROVE  UNCHANGED <<live, View>>
<1> DEFINE s == active
           old == maps[s][v]
<1>1. s \in Space /\ old \in Frame /\ live' = live /\ f # old
  BY DEF ResolveCopy, Inv, TypeOK
<1>2. memory' = [memory EXCEPT ![f] = memory[old]] /\ memory \in [Frame -> Value]
  BY ZenonT(60) DEF ResolveCopy, Inv, TypeOK
<1>3. \A t \in Space, w \in Page : maps'[t][w] = IF t = s /\ w = v THEN f ELSE maps[t][w]
  BY <1>1, LeafUpdate, SMTT(60) DEF ResolveCopy, Inv, TypeOK, Leaf
<1>4. \A t \in Space, w \in Page : maps[t][w] # f /\ maps[t][w] \in Leaf
  BY FreeIsUnmapped DEF ResolveCopy, Inv, TypeOK
<1>5. ASSUME NEW t \in Space, NEW w \in Page
      PROVE  Content(maps'[t][w], memory') = Content(maps[t][w], memory)
  <2>1. CASE t = s /\ w = v
    BY <1>1, <1>2, <1>3, <2>1, CowAssumption, ZenonT(60) DEF Content
  <2>2. CASE ~ (t = s /\ w = v)
    BY <1>2, <1>3, <1>4, <2>2, CowAssumption DEF Content, Leaf
  <2> QED
    BY <2>1, <2>2, Zenon
<1> QED
  BY <1>1, <1>5, ViewSame, ZenonT(60)

---------------------------------------------------------------------------
(* Steps that change one page of one space *)

\* map_owned puts a fresh value at one page of one private memory.
LEMMA MapOwnedRefines ==
    ASSUME Inv, NEW s \in Space, NEW v \in Page, NEW f \in Frame, NEW x \in Value, NEW r,
           MapOwned(s, v, f, x, r)
    PROVE  Private!Map(s, v, x)
<1>1. s \in live /\ maps[s][v] = NoFrame /\ live' = live
  BY Zenon DEF MapOwned
<1>2. memory' = [memory EXCEPT ![f] = x] /\ memory \in [Frame -> Value]
  BY Zenon DEF MapOwned, Inv, TypeOK
<1>3. \A t \in Space, w \in Page : maps'[t][w] = IF t = s /\ w = v THEN f ELSE maps[t][w]
  BY LeafUpdate, SMTT(60) DEF MapOwned, Inv, TypeOK, Leaf
<1>4. \A t \in Space, w \in Page : maps[t][w] # f /\ maps[t][w] \in Leaf
  BY FreeIsUnmapped, SMTT(60) DEF MapOwned, Inv, TypeOK
<1>5. ASSUME NEW t \in Space, NEW w \in Page
      PROVE  Content(maps'[t][w], memory') =
                 IF t = s /\ w = v THEN x ELSE Content(maps[t][w], memory)
  BY <1>2, <1>3, <1>4, CowAssumption, SMTT(60) DEF Content, Leaf
<1>6. View' = [View EXCEPT ![s][v] = x] /\ View[s][v] = Content(maps[s][v], memory)
  BY <1>5, ViewPage
<1> QED
  BY <1>1, <1>6, Zenon DEF Private!Map, Content

\* map_device puts device memory at one page of one private memory.
LEMMA MapDeviceRefines ==
    ASSUME Inv, NEW s \in Space, NEW v \in Page, NEW r, MapDevice(s, v, r)
    PROVE  Private!Map(s, v, "DeviceMemory")
<1>1. s \in live /\ maps[s][v] = NoFrame /\ live' = live /\ memory' = memory
  BY Zenon DEF MapDevice
<1>2. \A t \in Space, w \in Page : maps'[t][w] = IF t = s /\ w = v THEN Device ELSE maps[t][w]
  <2>1. PICK g \in Leaf : g = Device
    BY Zenon DEF Leaf
  <2>2. maps' = [maps EXCEPT ![s][v] = g] /\ maps \in [Space -> [Page -> Leaf]]
    BY <2>1, Zenon DEF MapDevice, Inv, TypeOK
  <2> QED
    BY <2>1, <2>2, LeafUpdate
<1>3. ASSUME NEW t \in Space, NEW w \in Page
      PROVE  Content(maps'[t][w], memory') =
                 IF t = s /\ w = v THEN "DeviceMemory" ELSE Content(maps[t][w], memory)
  BY <1>1, <1>2, CowAssumption, Zenon DEF Content
<1>4. View' = [View EXCEPT ![s][v] = "DeviceMemory"] /\ View[s][v] = Content(maps[s][v], memory)
  <2>1. PICK x : x = "DeviceMemory"
    BY Zenon
  <2> QED
    BY <1>3, <2>1, ViewPage
<1> QED
  BY <1>1, <1>4, Zenon DEF Private!Map, Content

\* unmap_mapping empties one page of one private memory.
LEMMA UnmapRefines ==
    ASSUME Inv, NEW s \in Space, NEW v \in Page, Unmap(s, v)
    PROVE  Private!Unmap(s, v)
<1>1. s \in live /\ live' = live /\ memory' = memory
  BY Zenon DEF Unmap
<1>2. \A t \in Space, w \in Page : maps'[t][w] = IF t = s /\ w = v THEN NoFrame ELSE maps[t][w]
  <2>1. PICK g \in Leaf : g = NoFrame
    BY Zenon DEF Leaf
  <2>2. maps' = [maps EXCEPT ![s][v] = g] /\ maps \in [Space -> [Page -> Leaf]]
    BY <2>1, Zenon DEF Unmap, Inv, TypeOK
  <2> QED
    BY <2>1, <2>2, LeafUpdate
<1>3. ASSUME NEW t \in Space, NEW w \in Page
      PROVE  Content(maps'[t][w], memory') =
                 IF t = s /\ w = v THEN "Unmapped" ELSE Content(maps[t][w], memory)
  BY <1>1, <1>2, Zenon DEF Content
<1>4. View' = [View EXCEPT ![s][v] = "Unmapped"]
  <2>1. PICK x : x = "Unmapped"
    BY Zenon
  <2> QED
    BY <1>3, <2>1, ViewPage, ZenonT(60)
<1> QED
  BY <1>1, <1>4, Zenon DEF Private!Unmap

\* The heart of it: a store goes to a frame that only this page maps.
LEMMA WriteRefines ==
    ASSUME Inv, NEW v \in Page, NEW x \in Value, Write(v, x)
    PROVE  active \in Space /\ Private!Write(active, v, x)
<1> DEFINE f == tlb_frame[v]
<1>1. active \in Space /\ active \in live /\ live' = live /\ maps' = maps
  BY Zenon DEF Write, Inv, TypeOK
<1>2. f \in Frame /\ maps[active][v] = f /\ OnlyMapper(active, v, f)
  BY CowAssumption, Zenon DEF Write, Inv, TlbCoherent, Isolated
<1>3. memory' = [memory EXCEPT ![f] = x] /\ memory \in [Frame -> Value]
  BY Zenon DEF Write, Inv, TypeOK
<1>4. ASSUME NEW t \in Space, NEW w \in Page
      PROVE  Content(maps'[t][w], memory') =
                 IF t = active /\ w = v THEN x ELSE Content(maps[t][w], memory)
  <2>1. CASE t = active /\ w = v
    BY <1>1, <1>2, <1>3, <2>1, CowAssumption, Zenon DEF Content
  <2>2. CASE ~ (t = active /\ w = v)
    <3>1. maps[t][w] # f /\ maps[t][w] \in Leaf
      BY <1>2, <2>2, ZenonT(60) DEF OnlyMapper, Inv, TypeOK
    <3> QED
      BY <1>1, <1>3, <2>2, <3>1, CowAssumption, ZenonT(60) DEF Content, Leaf
  <2> QED
    BY <2>1, <2>2, Zenon
<1>5. View' = [View EXCEPT ![active][v] = x] /\ View[active][v] = Content(f, memory)
  BY <1>1, <1>2, <1>4, ViewPage
<1>6. Content(f, memory) \in Value
  BY <1>2, <1>3, CowAssumption, Zenon DEF Content
<1> QED
  BY <1>1, <1>5, <1>6, Zenon DEF Private!Write

---------------------------------------------------------------------------
(* Steps that change a whole space *)

\* AddressSpace::new makes an empty private memory.
LEMMA CreateRefines ==
    ASSUME NEW s \in Space, Create(s) PROVE Private!Create(s)
<1>1. UNCHANGED <<maps, memory>>
  BY Zenon DEF Create
<1>2. View' = View
  BY <1>1, ViewSame, Zenon
<1> QED
  BY <1>2, Zenon DEF Create, Private!Create

\* Dropping a space drops its private memory and no other.
LEMMA DestroyRefines ==
    ASSUME Inv, NEW s \in Space, Destroy(s) PROVE Private!Destroy(s)
<1>1. /\ s \in live /\ live' = live \ {s} /\ memory' = memory
      /\ \A t \in Space, w \in Page : maps'[t][w] = IF t = s THEN NoFrame ELSE maps[t][w]
  BY Zenon DEF Destroy, EmptyMaps, Inv, TypeOK
<1>2. ASSUME NEW t \in Space
      PROVE  View'[t] = IF t = s THEN [v \in Page |-> "Unmapped"] ELSE View[t]
  <2>1. View'[t] = [w \in Page |-> Content(maps'[t][w], memory')]
    BY ViewAt, Zenon
  <2>2. View[t] = [w \in Page |-> Content(maps[t][w], memory)]
    BY ViewAt, Zenon
  <2>3. CASE t = s
    <3>1. \A w \in Page : Content(maps'[t][w], memory') = "Unmapped"
      BY <1>1, <2>3, Zenon DEF Content
    <3> QED
      BY <2>1, <2>3, <3>1, Zenon
  <2>4. CASE t # s
    BY <1>1, <2>1, <2>2, <2>4, Zenon
  <2> QED
    BY <2>3, <2>4, Zenon
<1>3. View' = [View EXCEPT ![s] = [v \in Page |-> "Unmapped"]]
  <2>1. View = [t \in Space |-> View[t]] /\ View' = [t \in Space |-> View'[t]]
    BY ViewAt, Zenon
  <2> QED
    BY <1>2, <2>1, Zenon
<1> QED
  BY <1>1, <1>3, Zenon DEF Private!Destroy, Private!Empty

\* fork copies: the child reads what the parent reads, and the parent goes on reading it.
LEMMA ForkRefines ==
    ASSUME Inv, NEW c \in Space, Fork(c)
    PROVE  active \in Space /\ Private!Fork(active, c)
<1>1. /\ active \in Space /\ active \in live /\ c \notin live
      /\ live' = live \cup {c} /\ memory' = memory
      /\ \A t \in Space, w \in Page : maps'[t][w] = IF t = c THEN maps[active][w] ELSE maps[t][w]
  BY ZenonT(60) DEF Fork, Inv, TypeOK
<1>2. ASSUME NEW t \in Space
      PROVE  View'[t] = IF t = c THEN View[active] ELSE View[t]
  <2>1. View'[t] = [w \in Page |-> Content(maps'[t][w], memory')]
    BY ViewAt, Zenon
  <2>2. /\ View[t] = [w \in Page |-> Content(maps[t][w], memory)]
        /\ View[active] = [w \in Page |-> Content(maps[active][w], memory)]
    BY <1>1, ViewAt, Zenon
  <2> QED
    BY <1>1, <2>1, <2>2, ZenonT(60)
<1>3. View' = [View EXCEPT ![c] = View[active]]
  <2>1. View = [t \in Space |-> View[t]] /\ View' = [t \in Space |-> View'[t]]
    BY ViewAt, Zenon
  <2> QED
    BY <1>2, <2>1, Zenon
<1> QED
  BY <1>1, <1>3, Zenon DEF Private!Fork

---------------------------------------------------------------------------
(* The theorem *)

\* No space, no private memory.
LEMMA InitRefines == Init => Private!Init
<1> SUFFICES ASSUME Init PROVE Private!Init
  BY Zenon
<1>1. \A s \in Space, v \in Page : Content(maps[s][v], memory) = "Unmapped"
  BY Zenon DEF Init, EmptyMaps, Content
<1>2. View = [s \in Space |-> [v \in Page |-> "Unmapped"]]
  BY <1>1, ViewAt, Zenon
<1> QED
  BY <1>2, Zenon DEF Init, Private!Init, Private!Empty

\* Every step is a step of private memory or a stutter of it.
LEMMA NextRefines == ASSUME Inv, [Next]_vars PROVE [Private!Next]_<<live, View>>
<1> DEFINE Goal == Private!Next \/ UNCHANGED <<live, View>>
<1>1. ASSUME NEW s \in Space, Create(s) \/ Destroy(s) \/ Fork(s) PROVE Goal
  <2>1. CASE Create(s)
    BY <2>1, CreateRefines, Zenon DEF Private!Next
  <2>2. CASE Destroy(s)
    BY <2>2, DestroyRefines, Zenon DEF Private!Next
  <2>3. CASE Fork(s)
    BY <2>3, ForkRefines, Zenon DEF Private!Next
  <2> QED
    BY <1>1, <2>1, <2>2, <2>3, Zenon
<1>2. ASSUME NEW s \in Space \cup {NoSpace}, Activate(s) PROVE Goal
  BY <1>2, InvisibleStep, Zenon DEF Activate
<1>3. ASSUME NEW s \in Space, NEW v \in Page, Unmap(s, v) PROVE Goal
  BY <1>3, UnmapRefines, Zenon DEF Private!Next
<1>4. ASSUME NEW s \in Space, NEW v \in Page, NEW r \in {"Read", "Write"}, MapDevice(s, v, r)
      PROVE  Goal
  BY <1>4, MapDeviceRefines, Zenon DEF Private!Next
<1>5. ASSUME NEW s \in Space, NEW v \in Page, NEW r \in {"Read", "Write"}, Protect(s, v, r)
      PROVE  Goal
  BY <1>5, InvisibleStep, Zenon DEF Protect
<1>6. ASSUME NEW s \in Space, NEW v \in Page, NEW r \in {"Read", "Write"},
             NEW f \in Frame, NEW x \in Value, MapOwned(s, v, f, x, r)
      PROVE  Goal
  BY <1>6, MapOwnedRefines, Zenon DEF Private!Next
<1>7. ASSUME NEW v \in Page, Fill(v) \/ ResolveInPlace(v) PROVE Goal
  BY <1>7, InvisibleStep, Zenon DEF Fill, ResolveInPlace
<1>8. ASSUME NEW v \in Page, NEW f \in Frame, ResolveCopy(v, f) PROVE Goal
  BY <1>8, CopyInvisible, Zenon
<1>9. ASSUME NEW v \in Page, NEW x \in Value, Write(v, x) PROVE Goal
  BY <1>9, WriteRefines, Zenon DEF Private!Next
<1>10. ASSUME ForkFails PROVE Goal
  BY <1>10, InvisibleStep, Zenon DEF ForkFails, ForkMapFails, ForkGetFails, ForkReserveFails
<1>11. ASSUME UNCHANGED vars PROVE Goal
  BY <1>11, InvisibleStep, Zenon DEF vars
<1> QED
  BY <1>1, <1>2, <1>3, <1>4, <1>5, <1>6, <1>7, <1>8, <1>9, <1>10, <1>11, ZenonT(60) DEF Next

\* Copy-on-write is invisible: AddressSpace, with its shared frames, its write faults and its
\* lazily filled TLB, behaves as spaces with private memories that fork copies.
THEOREM Refinement == Spec => PrivateSpec
<1>1. Init => Private!Init
  BY InitRefines, Zenon
<1>2. Inv /\ [Next]_vars => [Private!Next]_<<live, View>>
  BY NextRefines, Zenon
<1> QED
  BY <1>1, <1>2, Invariance, PTL DEF Spec, PrivateSpec, Private!Spec, Private!vars
=============================================================================
