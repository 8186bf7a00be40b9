-------------------------- MODULE ROIOverlayProofs --------------------------
(***************************************************************************)
(* What is proved of ROIOverlay, for any number of regions, shapes and     *)
(* colours, with lost requests and restarts or without: its types, that    *)
(* panel and service agree where they should, that colours are distinct,   *)
(* and that no old timer sends a change.                                   *)
(***************************************************************************)
EXTENDS ROIOverlay, FiniteSetTheorems, WellFoundedInduction, TLAPS

(* What each handler keeps of the overlay: every timer is that of a region    *)
(* the user has moved, and the count of regions is on record.                *)
OverlayOK ==
    /\ rois \in Regions
    /\ colors \in [Shown -> Palette]
    /\ pending \subseteq dragged
    /\ dragged \subseteq Shown
    /\ peak \in 0 .. Cardinality(Ids)
    /\ Cardinality(Shown) <= peak
    /\ ColorsDistinctSoFar

RestOK ==
    /\ masks \in 0 .. MaxMasks
    /\ opening \in BOOLEAN /\ switching \in BOOLEAN
    /\ backend \in Regions
    /\ backendMask \in 0 .. MaxMasks
    /\ lost \in BOOLEAN

OverlayInv == OverlayOK /\ RestOK /\ PanelMatchesService

-----------------------------------------------------------------------------
(* Numbers and sets *)

LEMMA SmallestOfSome ==
    ASSUME NEW T, T \subseteq Nat, T # {}
    PROVE  Min(T) \in T
<1> DEFINE R == OpToRel(<, Nat)
<1>1. IsWellFoundedOn(R, Nat)
  BY NatLessThanWellFounded
<1>2. \A m, n \in Nat : m < n => <<m, n>> \in R
  BY DEF OpToRel
<1> HIDE DEF R
<1>3. PICK n \in T : \A m \in T : <<m, n>> \notin R
  BY <1>1, WFMin
<1>4. \A m \in T : ~(m < n)
  BY <1>2, <1>3, Zenon
<1>5. \A m \in T : n =< m
  BY <1>4
<1>6. QED
  BY <1>5 DEF Min

LEMMA LargerOfTwo ==
    ASSUME NEW a \in Nat, NEW b \in Nat
    PROVE  Max({a, b}) = IF a >= b THEN a ELSE b
<1>1. CASE a >= b
  <2>1. \A x \in {a, b} : (\A y \in {a, b} : x >= y) => x = a
    BY <1>1
  <2>2. \A y \in {a, b} : a >= y
    BY <1>1
  <2>3. QED
    BY <1>1, <2>1, <2>2 DEF Max
<1>2. CASE ~(a >= b)
  <2>1. \A x \in {a, b} : (\A y \in {a, b} : x >= y) => x = b
    BY <1>2
  <2>2. \A y \in {a, b} : b >= y
    BY <1>2
  <2>3. QED
    BY <1>2, <2>1, <2>2 DEF Max
<1>3. QED
  BY <1>1, <1>2

LEMMA PlacesInThePalette ==
    ASSUME NEW n \in Nat
    PROVE  /\ (n % NumColors) + 1 \in Palette
           /\ n < NumColors => n % NumColors = n
<1>1. NumColors \in Nat /\ NumColors > 0
  BY OverlayAssumption
<1>2. n % NumColors \in 0 .. NumColors - 1
  BY <1>1, SMT
<1>3. n < NumColors => n % NumColors = n
  BY <1>1, SMT
<1>4. QED
  BY <1>1, <1>2, <1>3 DEF Palette

LEMMA SomeRegions ==
    ASSUME NEW R, R \subseteq Ids
    PROVE  IsFiniteSet(R) /\ Cardinality(R) \in Nat /\ Cardinality(R) <= Cardinality(Ids)
<1>1. IsFiniteSet(Ids)
  BY OverlayAssumption
<1>2. R \in SUBSET Ids
  OBVIOUS
<1>3. IsFiniteSet(R) /\ Cardinality(R) <= Cardinality(Ids)
  BY <1>1, <1>2, FS_Subset
<1>4. QED
  BY <1>3, FS_CardinalityType

LEMMA AllIds == Cardinality(Ids) \in Nat
  BY SomeRegions

LEMMA NoRegions ==
    /\ Nothing \in Regions
    /\ DOMAIN Nothing = {}
    /\ \A S : Nothing \in [{} -> S]
    /\ Cardinality({}) = 0
<1>1. Nothing = [x \in {} |-> Default]
  BY DEF Nothing
<1> HIDE DEF Nothing
<1>2. {} \in SUBSET Ids
  OBVIOUS
<1>3. DOMAIN Nothing = {} /\ \A S : Nothing \in [{} -> S]
  BY <1>1
<1>4. QED
  BY <1>2, <1>3, FS_EmptySet DEF Regions

LEMMA RegionsAreFunctions ==
    ASSUME NEW f
    PROVE  f \in Regions <=> DOMAIN f \subseteq Ids /\ f \in [DOMAIN f -> Shapes]
  BY DEF Regions

LEMMA WithOne ==
    ASSUME NEW f \in Regions, NEW r \in Ids, NEW s \in Shapes
    PROVE  /\ With(f, r, s) \in Regions
           /\ DOMAIN With(f, r, s) = DOMAIN f \cup {r}
           /\ With(f, r, s)[r] = s
           /\ \A q \in DOMAIN f \ {r} : With(f, r, s)[q] = f[q]
<1>1. DOMAIN f \subseteq Ids /\ f \in [DOMAIN f -> Shapes]
  BY RegionsAreFunctions
<1>2. With(f, r, s) \in [DOMAIN f \cup {r} -> Shapes]
  BY <1>1 DEF With
<1>3. DOMAIN f \cup {r} \subseteq Ids
  BY <1>1
<1>4. QED
  BY <1>1, <1>2, <1>3, RegionsAreFunctions DEF With

LEMMA WithoutSome ==
    ASSUME NEW f \in Regions, NEW R
    PROVE  /\ Without(f, R) \in Regions
           /\ DOMAIN Without(f, R) = DOMAIN f \ R
           /\ \A q \in DOMAIN f \ R : Without(f, R)[q] = f[q]
<1>1. DOMAIN f \subseteq Ids /\ f \in [DOMAIN f -> Shapes]
  BY RegionsAreFunctions
<1>2. Without(f, R) \in [DOMAIN f \ R -> Shapes]
  BY <1>1 DEF Without, Restrict
<1>3. QED
  BY <1>1, <1>2, RegionsAreFunctions DEF Without, Restrict

(* While there are fewer regions than colours, the colour of a new region is  *)
(* taken by no other one.                                                    *)
LEMMA NewColor ==
    ASSUME Shown \subseteq Ids, colors \in [Shown -> Palette]
    PROVE  /\ AllocateColor \in Palette
           /\ Cardinality(Shown) < NumColors => AllocateColor \notin Range(colors)
<1> DEFINE free == Palette \ Range(colors)
           cycled == (Cardinality(DOMAIN colors) % NumColors) + 1
<1>1. AllocateColor = IF free # {} THEN Min(free) ELSE cycled
  BY DEF AllocateColor
<1>2. free \subseteq Nat
  BY OverlayAssumption DEF Palette
<1>3. free # {} => Min(free) \in free
  BY <1>2, SmallestOfSome
<1>4. IsFiniteSet(Shown) /\ Cardinality(Shown) \in Nat
  BY SomeRegions
<1>5. cycled \in Palette
  <2>1. DOMAIN colors = Shown
    OBVIOUS
  <2>2. QED
    BY <1>4, <2>1, PlacesInThePalette
<1>6. ASSUME free = {}
      PROVE  NumColors <= Cardinality(Shown)
  <2>1. \A c \in Palette : \E r \in Shown : colors[r] = c
    BY <1>6 DEF Range
  <2>2. colors \in Surjection(Shown, Palette)
    BY <2>1 DEF Surjection
  <2>3. Cardinality(Palette) <= Cardinality(Shown)
    BY <1>4, <2>2, FS_Surjection
  <2>4. NumColors \in Nat \ {0}
    BY OverlayAssumption
  <2>5. Cardinality(1 .. NumColors) = NumColors
    BY <2>4, FS_Interval
  <2>6. QED
    BY <2>3, <2>5 DEF Palette
<1>7. NumColors \in Nat
  BY OverlayAssumption
<1> HIDE DEF free, cycled
<1>8. AllocateColor \in Palette
  <2>1. CASE free # {}
    <3>1. AllocateColor \in free
      BY <1>1, <1>3, <2>1
    <3>2. QED
      BY <3>1 DEF free
  <2>2. QED
    BY <1>1, <1>5, <2>1
<1>9. ASSUME Cardinality(Shown) < NumColors
      PROVE  AllocateColor \notin Range(colors)
  <2>1. free # {}
    BY <1>4, <1>6, <1>7, <1>9
  <2>2. AllocateColor \in free
    BY <1>1, <1>3, <2>1
  <2>3. QED
    BY <2>2 DEF free
<1>10. QED
  BY <1>8, <1>9

-----------------------------------------------------------------------------
(* ROIOverlayManager *)

LEMMA AddKeepsOverlay ==
    ASSUME OverlayOK, NEW r \in Ids, r \notin Shown, AddRoi(r)
    PROVE  OverlayOK' /\ Shown' = Shown \cup {r}
<1>1. /\ rois \in Regions /\ colors \in [Shown -> Palette]
      /\ pending \subseteq dragged /\ dragged \subseteq Shown
      /\ peak \in 0 .. Cardinality(Ids) /\ Cardinality(Shown) <= peak
      /\ peak <= NumColors => IsInjective(colors)
  BY DEF OverlayOK, ColorsDistinctSoFar
<1>2. /\ rois' = With(rois, r, Default) /\ colors' = With(colors, r, AllocateColor)
      /\ peak' = Max({peak, Cardinality(Shown) + 1})
      /\ pending' = pending /\ dragged' = dragged
  BY DEF AddRoi
<1>3. Shown \subseteq Ids
  BY <1>1, RegionsAreFunctions DEF Shown
<1>4. /\ AllocateColor \in Palette
      /\ Cardinality(Shown) < NumColors => AllocateColor \notin Range(colors)
  BY <1>1, <1>3, NewColor
<1>5. rois' \in Regions /\ Shown' = Shown \cup {r}
  <2>1. Default \in Shapes
    BY OverlayAssumption
  <2>2. QED
    BY <1>1, <1>2, <2>1, WithOne DEF Shown
<1>6. /\ colors' \in [Shown' -> Palette]
      /\ colors'[r] = AllocateColor
      /\ \A q \in Shown : colors'[q] = colors[q]
  BY <1>1, <1>2, <1>4, <1>5 DEF With
<1>7. Cardinality(Shown \cup {r}) = Cardinality(Shown) + 1
  BY <1>3, SomeRegions, FS_AddElement
<1>8. /\ Cardinality(Shown) \in Nat
      /\ Cardinality(Ids) \in Nat
      /\ Cardinality(Shown) + 1 <= Cardinality(Ids)
  <2>1. Shown \cup {r} \subseteq Ids
    BY <1>3
  <2>2. Cardinality(Shown \cup {r}) <= Cardinality(Ids)
    BY <2>1, SomeRegions
  <2>3. QED
    BY <1>3, <1>7, <2>2, SomeRegions, AllIds
<1>9. peak' = IF peak >= Cardinality(Shown) + 1 THEN peak ELSE Cardinality(Shown) + 1
  BY <1>1, <1>2, <1>8, LargerOfTwo
<1>10. peak' \in 0 .. Cardinality(Ids) /\ Cardinality(Shown') <= peak'
  BY <1>1, <1>5, <1>7, <1>8, <1>9
<1>11. ASSUME peak' <= NumColors
       PROVE  IsInjective(colors')
  <2>1. NumColors \in Nat
    BY OverlayAssumption
  <2>2. peak <= NumColors /\ Cardinality(Shown) < NumColors
    BY <1>1, <1>8, <1>9, <1>11, <2>1
  <2>3. IsInjective(colors) /\ AllocateColor \notin Range(colors)
    BY <1>1, <1>4, <2>2
  <2>4. \A q \in Shown : colors'[q] # colors'[r]
    BY <1>1, <1>6, <2>3 DEF Range
  <2>5. \A p, q \in Shown : colors'[p] = colors'[q] => p = q
    BY <1>1, <1>6, <2>3 DEF IsInjective
  <2>6. \A p, q \in Shown' : colors'[p] = colors'[q] => p = q
    BY <1>5, <2>4, <2>5
  <2>7. DOMAIN colors' = Shown'
    BY <1>6
  <2>8. QED
    BY <2>6, <2>7 DEF IsInjective
<1>12. pending' \subseteq dragged' /\ dragged' \subseteq Shown'
  BY <1>1, <1>2, <1>5
<1>13. QED
  BY <1>5, <1>6, <1>10, <1>11, <1>12 DEF OverlayOK, ColorsDistinctSoFar

LEMMA RemoveKeepsOverlay ==
    ASSUME OverlayOK, NEW R, RemoveRois(R)
    PROVE  /\ OverlayOK' /\ Shown' = Shown \ R
           /\ \A q \in Shown' : rois'[q] = rois[q]
<1>1. /\ rois \in Regions /\ colors \in [Shown -> Palette]
      /\ pending \subseteq dragged /\ dragged \subseteq Shown
      /\ peak \in 0 .. Cardinality(Ids) /\ Cardinality(Shown) <= peak
      /\ peak <= NumColors => IsInjective(colors)
  BY DEF OverlayOK, ColorsDistinctSoFar
<1>2. /\ rois' = Without(rois, R) /\ colors' = Without(colors, R)
      /\ pending' = pending \ R /\ dragged' = dragged \ R
      /\ peak' = IF Shown \subseteq R THEN 0 ELSE peak
  BY DEF RemoveRois
<1>3. /\ rois' \in Regions /\ Shown' = Shown \ R
      /\ \A q \in Shown' : rois'[q] = rois[q]
  <2>1. rois \in Regions /\ rois' = Without(rois, R)
    BY <1>1, <1>2
  <2>2. /\ Without(rois, R) \in Regions
        /\ DOMAIN Without(rois, R) = DOMAIN rois \ R
        /\ \A q \in DOMAIN rois \ R : Without(rois, R)[q] = rois[q]
    BY <2>1, WithoutSome
  <2>3. QED
    BY <2>1, <2>2, Zenon DEF Shown
<1>4. /\ colors' \in [Shown' -> Palette]
      /\ \A q \in Shown' : colors'[q] = colors[q]
  BY <1>1, <1>2, <1>3 DEF Without, Restrict
<1>5. pending' \subseteq dragged' /\ dragged' \subseteq Shown'
  BY <1>1, <1>2, <1>3
<1>6. Cardinality(Ids) \in Nat
  BY AllIds
<1>7. peak' \in 0 .. Cardinality(Ids) /\ Cardinality(Shown') <= peak'
  <2>1. CASE Shown \subseteq R
    <3>1. Shown' = {}
      BY <1>3, <2>1
    <3>2. QED
      BY <1>2, <1>6, <2>1, <3>1, NoRegions
  <2>2. CASE ~(Shown \subseteq R)
    <3>1. Shown \subseteq Ids
      BY <1>1, RegionsAreFunctions DEF Shown
    <3>2. IsFiniteSet(Shown) /\ Cardinality(Shown) \in Nat
      BY <3>1, SomeRegions
    <3>3. Shown' \subseteq Ids
      BY <1>3, <3>1
    <3>4. Cardinality(Shown') \in Nat
      BY <3>3, SomeRegions
    <3>5. Shown' \in SUBSET Shown
      BY <1>3
    <3>6. Cardinality(Shown') <= Cardinality(Shown)
      BY <3>2, <3>5, FS_Subset
    <3>7. peak' = peak
      BY <1>2, <2>2
    <3>8. QED
      BY <1>1, <1>6, <3>2, <3>4, <3>6, <3>7
  <2>3. QED
    BY <2>1, <2>2
<1>8. ASSUME peak' <= NumColors
      PROVE  IsInjective(colors')
  <2>1. DOMAIN colors' = Shown'
    BY <1>4
  <2>2. CASE Shown \subseteq R
    BY <1>3, <2>1, <2>2 DEF IsInjective
  <2>3. CASE ~(Shown \subseteq R)
    <3>1. IsInjective(colors)
      BY <1>1, <1>2, <1>8, <2>3
    <3>2. QED
      BY <1>1, <1>3, <1>4, <2>1, <3>1 DEF IsInjective
  <2>4. QED
    BY <2>2, <2>3
<1>9. QED
  BY <1>3, <1>4, <1>5, <1>7, <1>8 DEF OverlayOK, ColorsDistinctSoFar

LEMMA RebuildKeepsOverlay ==
    ASSUME backend \in Regions, SyncFromStatus
    PROVE  OverlayOK'
<1> DEFINE B == DOMAIN backend
           n == Cardinality(B)
<1>1. PICK position \in Bijection(B, 1 .. n) :
         colors' = [r \in B |-> ((position[r] - 1) % NumColors) + 1]
  BY DEF SyncFromStatus, Rebuilt
<1>2. rois' = backend /\ dragged' = {} /\ pending' = {} /\ peak' = n
  BY DEF SyncFromStatus, Rebuilt
<1>3. B \subseteq Ids
  BY RegionsAreFunctions
<1>4. n \in Nat /\ n <= Cardinality(Ids) /\ Cardinality(Ids) \in Nat
  BY <1>3, SomeRegions, AllIds
<1>5. position \in [B -> 1 .. n] /\ \A p, q \in B : position[p] = position[q] => p = q
  BY <1>1 DEF Bijection, Injection, IsInjective
<1>6. Shown' = B
  BY <1>2 DEF Shown
<1> HIDE DEF B, n
<1>7. NumColors \in Nat \ {0}
  BY OverlayAssumption
<1>8. \A r \in B : position[r] - 1 \in Nat
  BY <1>4, <1>5
<1>9. \A r \in B : ((position[r] - 1) % NumColors) + 1 \in Palette
  BY <1>8, PlacesInThePalette
<1>10. colors' \in [Shown' -> Palette]
  BY <1>1, <1>6, <1>9
<1>11. ASSUME peak' <= NumColors
       PROVE  IsInjective(colors')
  <2>1. n <= NumColors
    BY <1>2, <1>11
  <2>2. \A r \in B : position[r] \in Int /\ position[r] - 1 < NumColors
    BY <1>4, <1>5, <1>7, <2>1
  <2>3. \A r \in B : (position[r] - 1) % NumColors = position[r] - 1
    BY <1>8, <2>2, PlacesInThePalette
  <2>4. \A r \in B : colors'[r] = (position[r] - 1) + 1
    BY <1>1, <2>3
  <2>5. \A r \in B : colors'[r] = position[r]
    BY <2>2, <2>4
  <2>6. DOMAIN colors' = B
    BY <1>6, <1>10
  <2>7. QED
    BY <1>5, <2>5, <2>6 DEF IsInjective
<1>12. peak' \in 0 .. Cardinality(Ids) /\ Cardinality(Shown') <= peak'
  BY <1>2, <1>4, <1>6 DEF n, B
<1>13. QED
  BY <1>2, <1>6, <1>10, <1>11, <1>12 DEF OverlayOK, ColorsDistinctSoFar

LEMMA EmptyKeepsOverlay ==
    ASSUME rois' = Nothing, colors' = Nothing, pending' = {}, dragged' = {}, peak' = 0
    PROVE  OverlayOK'
<1>1. rois' \in Regions /\ DOMAIN rois' = {} /\ colors' \in [{} -> Palette]
  BY NoRegions
<1>2. Shown' = {}
  BY <1>1 DEF Shown
<1>3. DOMAIN colors' = {}
  BY NoRegions
<1>4. IsInjective(colors')
  BY <1>3 DEF IsInjective
<1>5. peak' \in 0 .. Cardinality(Ids) /\ Cardinality(Shown') <= peak'
  BY <1>2, NoRegions, AllIds
<1>6. QED
  BY <1>1, <1>2, <1>4, <1>5 DEF OverlayOK, ColorsDistinctSoFar

LEMMA StillKeepsOverlay ==
    ASSUME OverlayOK, UNCHANGED overlay
    PROVE  OverlayOK' /\ Shown' = Shown
  BY DEF OverlayOK, overlay, Shown, ColorsDistinctSoFar, IsInjective

-----------------------------------------------------------------------------
(* The handlers *)

(* Panel and service, told of one region or rid of it.                       *)
LEMMA OneRegionAgrees ==
    ASSUME NEW q \in Ids, NEW r,
           Agree(q), q # r, (q \in Shown)' = (q \in Shown), q \in Shown => rois'[q] = rois[q],
           (q \in DOMAIN backend)' = (q \in DOMAIN backend),
           q \in DOMAIN backend => backend'[q] = backend[q]
    PROVE  Agree(q)'
  BY DEF Agree

LEMMA MasksInRange ==
    /\ 0 \in 0 .. MaxMasks
    /\ \A m \in 0 .. MaxMasks : m < MaxMasks => m + 1 \in 0 .. MaxMasks
  BY OverlayAssumption

LEMMA InitialPanel == Init => OverlayInv
<1> SUFFICES ASSUME Init PROVE OverlayInv
  OBVIOUS
<1>1. /\ rois = Nothing /\ colors = Nothing /\ pending = {} /\ dragged = {} /\ peak = 0
      /\ opening = TRUE
  BY DEF Init
<1>2. OverlayOK
  <2>1. rois \in Regions /\ Shown = {} /\ colors \in [{} -> Palette] /\ DOMAIN colors = {}
    BY <1>1, NoRegions DEF Shown
  <2>2. IsInjective(colors)
    BY <2>1 DEF IsInjective
  <2>3. peak \in 0 .. Cardinality(Ids) /\ Cardinality(Shown) <= peak
    BY <1>1, <2>1, NoRegions, AllIds
  <2>4. QED
    BY <1>1, <2>1, <2>2, <2>3 DEF OverlayOK, ColorsDistinctSoFar
<1>3. RestOK
  <2>1. backend \in Regions
    BY DEF Init, Regions
  <2>2. masks \in 0 .. MaxMasks
    BY MasksInRange DEF Init
  <2>3. /\ opening \in BOOLEAN /\ switching \in BOOLEAN /\ lost \in BOOLEAN
        /\ backendMask \in 0 .. MaxMasks
    BY Zenon DEF Init
  <2>4. QED
    BY <2>1, <2>2, <2>3 DEF RestOK
<1>4. PanelMatchesService
  BY <1>1 DEF PanelMatchesService
<1>5. QED
  BY <1>2, <1>3, <1>4 DEF OverlayInv

LEMMA OverlayOfIds == OverlayOK => rois \in Regions /\ Shown \subseteq Ids /\ pending \subseteq Shown
  BY RegionsAreFunctions DEF OverlayOK, Shown

LEMMA AddedOnBothSides ==
    ASSUME OverlayInv, NEW r \in Ids, NEW arrives \in BOOLEAN, OnAddRoi(r, arrives)
    PROVE  OverlayInv'
<1>1. OverlayOK /\ RestOK /\ PanelMatchesService
  BY DEF OverlayInv
<1>2. /\ r \notin Shown /\ r \notin DOMAIN backend /\ AddRoi(r)
      /\ backend' = IF arrives THEN With(backend, r, Default) ELSE backend
      /\ lost' = (lost \/ (~arrives))
      /\ masks' = masks /\ opening' = opening /\ switching' = switching
      /\ backendMask' = backendMask
  BY DEF OnAddRoi
<1>3. OverlayOK' /\ Shown' = Shown \cup {r}
  BY <1>1, <1>2, AddKeepsOverlay
<1>4. Default \in Shapes
  BY OverlayAssumption
<1>5. rois \in Regions /\ backend \in Regions
  BY <1>1 DEF OverlayOK, RestOK
<1>6. /\ With(backend, r, Default) \in Regions
      /\ DOMAIN With(backend, r, Default) = DOMAIN backend \cup {r}
      /\ With(backend, r, Default)[r] = Default
      /\ \A q \in DOMAIN backend \ {r} : With(backend, r, Default)[q] = backend[q]
  BY <1>4, <1>5, WithOne
<1>7. /\ rois'[r] = Default
      /\ \A q \in Shown \ {r} : rois'[q] = rois[q]
  <2>1. rois' = With(rois, r, Default)
    BY <1>2 DEF AddRoi
  <2>2. /\ With(rois, r, Default)[r] = Default
        /\ \A q \in DOMAIN rois \ {r} : With(rois, r, Default)[q] = rois[q]
    BY <1>4, <1>5, WithOne
  <2>3. QED
    BY <2>1, <2>2, Zenon DEF Shown
<1>8. RestOK'
  BY <1>1, <1>2, <1>6, Zenon DEF RestOK
<1>9. ASSUME ~(lost \/ opening \/ switching)', NEW q \in Ids \ pending'
      PROVE  Agree(q)'
  <2>1. arrives /\ ~(lost \/ opening \/ switching)
    BY <1>2, <1>9
  <2>2. pending' = pending
    BY <1>2 DEF AddRoi
  <2>3. Agree(q)
    BY <1>1, <1>9, <2>1, <2>2 DEF PanelMatchesService
  <2>4. backend' = With(backend, r, Default)
    BY <1>2, <2>1
  <2>5. CASE q = r
    BY <1>3, <1>6, <1>7, <2>4, <2>5 DEF Agree
  <2>6. CASE q # r
    <3>1. (q \in Shown)' = (q \in Shown) /\ (q \in Shown => rois'[q] = rois[q])
      BY <1>3, <1>7, <2>6
    <3>2. /\ (q \in DOMAIN backend)' = (q \in DOMAIN backend)
          /\ q \in DOMAIN backend => backend'[q] = backend[q]
      BY <1>6, <2>4, <2>6
    <3>3. QED
      BY <1>9, <2>3, <2>6, <3>1, <3>2, OneRegionAgrees
  <2>7. QED
    BY <2>5, <2>6
<1>10. QED
  BY <1>3, <1>8, <1>9 DEF OverlayInv, PanelMatchesService

LEMMA DraggedOutOfStep ==
    ASSUME OverlayInv, NEW r \in Shown, NEW s \in Shapes, Drag(r, s)
    PROVE  OverlayInv'
<1>1. OverlayOK /\ RestOK /\ PanelMatchesService
  BY DEF OverlayInv
<1>2. /\ rois' = [rois EXCEPT ![r] = s]
      /\ pending' = pending \cup {r} /\ dragged' = dragged \cup {r}
      /\ colors' = colors /\ peak' = peak /\ masks' = masks
      /\ opening' = opening /\ switching' = switching /\ lost' = lost
      /\ backend' = backend /\ backendMask' = backendMask
  BY DEF Drag, service
<1>3. rois \in Regions /\ DOMAIN rois \subseteq Ids /\ rois \in [DOMAIN rois -> Shapes]
  BY <1>1, RegionsAreFunctions DEF OverlayOK
<1>4. /\ rois' \in [DOMAIN rois -> Shapes]
      /\ \A q \in DOMAIN rois : q # r => rois'[q] = rois[q]
  BY <1>2, <1>3
<1>5. DOMAIN rois' = DOMAIN rois /\ Shown' = Shown
  BY <1>4 DEF Shown
<1>6. rois' \in Regions
  BY <1>3, <1>4, <1>5, RegionsAreFunctions
<1>7. OverlayOK'
  <2>1. colors' \in [Shown' -> Palette]
    BY <1>1, <1>2, <1>5 DEF OverlayOK
  <2>2. pending' \subseteq dragged' /\ dragged' \subseteq Shown'
    BY <1>1, <1>2, <1>5 DEF OverlayOK
  <2>3. peak' \in 0 .. Cardinality(Ids) /\ Cardinality(Shown') <= peak'
    BY <1>1, <1>2, <1>5 DEF OverlayOK
  <2>4. ColorsDistinctSoFar'
    BY <1>1, <1>2 DEF OverlayOK, ColorsDistinctSoFar, IsInjective
  <2>5. QED
    BY <1>6, <2>1, <2>2, <2>3, <2>4 DEF OverlayOK
<1>8. RestOK'
  BY <1>1, <1>2 DEF RestOK
<1>9. ASSUME ~(lost \/ opening \/ switching)', NEW q \in Ids \ pending'
      PROVE  Agree(q)'
  <2>1. Agree(q) /\ q # r
    BY <1>1, <1>2, <1>9 DEF PanelMatchesService
  <2>2. q \in Shown => rois'[q] = rois[q]
    BY <1>4, <2>1 DEF Shown
  <2>3. QED
    BY <1>2, <1>5, <2>1, <2>2 DEF Agree
<1>10. QED
  BY <1>7, <1>8, <1>9 DEF OverlayInv, PanelMatchesService

LEMMA RemovedOnBothSides ==
    ASSUME OverlayInv, NEW r \in Shown, NEW arrives \in BOOLEAN, RemoveRoi(r, arrives)
    PROVE  OverlayInv'
<1>1. OverlayOK /\ RestOK /\ PanelMatchesService
  BY DEF OverlayInv
<1>2. /\ RemoveRois({r})
      /\ backend' = IF arrives THEN Without(backend, {r}) ELSE backend
      /\ lost' = (lost \/ (~arrives))
      /\ masks' = masks /\ opening' = opening /\ switching' = switching
      /\ backendMask' = backendMask
  BY DEF RemoveRoi
<1>3. /\ OverlayOK' /\ Shown' = Shown \ {r}
      /\ \A q \in Shown' : rois'[q] = rois[q]
  BY <1>1, <1>2, RemoveKeepsOverlay
<1>4. /\ Without(backend, {r}) \in Regions
      /\ DOMAIN Without(backend, {r}) = DOMAIN backend \ {r}
      /\ \A q \in DOMAIN backend \ {r} : Without(backend, {r})[q] = backend[q]
  <2>1. backend \in Regions
    BY <1>1 DEF RestOK
  <2>2. QED
    BY <2>1, WithoutSome
<1>5. RestOK'
  BY <1>1, <1>2, <1>4, Zenon DEF RestOK
<1>6. ASSUME ~(lost \/ opening \/ switching)', NEW q \in Ids \ pending'
      PROVE  Agree(q)'
  <2>1. arrives /\ ~(lost \/ opening \/ switching)
    BY <1>2, <1>6
  <2>2. backend' = Without(backend, {r})
    BY <1>2, <2>1
  <2>3. CASE q = r
    BY <1>3, <1>4, <2>2, <2>3 DEF Agree
  <2>4. CASE q # r
    <3>1. q \notin pending
      BY <1>2, <1>6, <2>4 DEF RemoveRois
    <3>2. Agree(q)
      BY <1>1, <1>6, <2>1, <3>1 DEF PanelMatchesService
    <3>3. (q \in Shown)' = (q \in Shown) /\ (q \in Shown => rois'[q] = rois[q])
      BY <1>3, <2>4
    <3>4. /\ (q \in DOMAIN backend)' = (q \in DOMAIN backend)
          /\ q \in DOMAIN backend => backend'[q] = backend[q]
      BY <1>4, <2>2, <2>4
    <3>5. QED
      BY <1>6, <2>4, <3>2, <3>3, <3>4, OneRegionAgrees
  <2>5. QED
    BY <2>3, <2>4
<1>7. QED
  BY <1>3, <1>5, <1>6 DEF OverlayInv, PanelMatchesService

LEMMA WhatIsLeft ==
    ASSUME backend \in Regions, NEW b \in AfterRemovals
    PROVE  b \in Regions
<1>1. \A R : Without(backend, R) \in Regions
  BY WithoutSome
<1>2. PICK R : b = Without(backend, R)
  BY DEF AfterRemovals
<1>3. QED
  BY <1>1, <1>2

(* A panel that shows nothing agrees with a service that has nothing.        *)
LEMMA NothingOnBothSides ==
    ASSUME Shown' = {}, backend' = Nothing
    PROVE  \A q \in Ids : Agree(q)'
<1>1. DOMAIN backend' = {}
  BY NoRegions
<1>2. QED
  BY <1>1 DEF Agree

LEMMA AllCleared ==
    ASSUME OverlayInv, NEW arrives \in BOOLEAN,
           RemoveRois(Shown), backend' \in AfterRemovals \/ backend' = Nothing,
           lost' = (backend' # Nothing),
           masks' \in 0 .. MaxMasks, opening' = opening, switching' \in BOOLEAN,
           backendMask' = backendMask
    PROVE  OverlayInv'
<1>1. OverlayOK /\ RestOK
  BY DEF OverlayInv
<1>2. OverlayOK' /\ Shown' = Shown \ Shown
  BY <1>1, RemoveKeepsOverlay
<1>3. backend' \in Regions
  <2>1. backend \in Regions
    BY <1>1 DEF RestOK
  <2>2. Nothing \in Regions
    BY NoRegions
  <2>3. QED
    BY <2>1, <2>2, WhatIsLeft
<1>4. lost' \in BOOLEAN
  BY Zenon
<1>5. RestOK'
  BY <1>1, <1>3, <1>4 DEF RestOK
<1>6. ASSUME ~(lost \/ opening \/ switching)'
      PROVE  \A q \in Ids : Agree(q)'
  <2>1. backend' = Nothing
    BY <1>6, Zenon
  <2>2. Shown' = {}
    BY <1>2
  <2>3. QED
    BY <2>1, <2>2, NothingOnBothSides
<1>7. QED
  BY <1>2, <1>5, <1>6 DEF OverlayInv, PanelMatchesService

LEMMA TimerReports ==
    ASSUME OverlayInv, NEW r \in Ids, NEW arrives \in BOOLEAN, TimerFires(r, arrives)
    PROVE  OverlayInv'
<1>1. OverlayOK /\ RestOK /\ PanelMatchesService
  BY DEF OverlayInv
<1>2. r \in Shown /\ Shown \subseteq Ids /\ rois \in Regions
  BY <1>1, OverlayOfIds DEF TimerFires
<1>3. /\ pending' = pending \ {r} /\ dragged' = dragged \ {r}
      /\ backend' = IF arrives THEN With(backend, r, rois[r]) ELSE backend
      /\ lost' = (lost \/ (~arrives))
      /\ rois' = rois /\ colors' = colors /\ peak' = peak /\ masks' = masks
      /\ opening' = opening /\ switching' = switching /\ backendMask' = backendMask
  BY <1>2 DEF TimerFires
<1>4. Shown' = Shown
  BY <1>3 DEF Shown
<1>5. OverlayOK'
  BY <1>1, <1>3, <1>4 DEF OverlayOK, ColorsDistinctSoFar, IsInjective
<1>6. rois[r] \in Shapes
  BY <1>2, RegionsAreFunctions DEF Shown
<1>7. /\ With(backend, r, rois[r]) \in Regions
      /\ DOMAIN With(backend, r, rois[r]) = DOMAIN backend \cup {r}
      /\ With(backend, r, rois[r])[r] = rois[r]
      /\ \A q \in DOMAIN backend \ {r} : With(backend, r, rois[r])[q] = backend[q]
  <2>1. backend \in Regions
    BY <1>1 DEF RestOK
  <2>2. QED
    BY <1>6, <2>1, WithOne
<1>8. RestOK'
  BY <1>1, <1>3, <1>7, Zenon DEF RestOK
<1>9. ASSUME ~(lost \/ opening \/ switching)', NEW q \in Ids \ pending'
      PROVE  Agree(q)'
  <2>1. arrives /\ ~(lost \/ opening \/ switching)
    BY <1>3, <1>9
  <2>2. backend' = With(backend, r, rois[r])
    BY <1>3, <2>1
  <2>3. CASE q = r
    BY <1>2, <1>3, <1>4, <1>7, <2>2, <2>3 DEF Agree
  <2>4. CASE q # r
    <3>1. Agree(q)
      BY <1>1, <1>3, <1>9, <2>1, <2>4 DEF PanelMatchesService
    <3>2. /\ (q \in DOMAIN backend)' = (q \in DOMAIN backend)
          /\ q \in DOMAIN backend => backend'[q] = backend[q]
      BY <1>7, <2>2, <2>4
    <3>3. QED
      BY <1>3, <1>4, <1>9, <2>4, <3>1, <3>2, OneRegionAgrees
  <2>5. QED
    BY <2>3, <2>4
<1>10. QED
  BY <1>5, <1>8, <1>9 DEF OverlayInv, PanelMatchesService

LEMMA ResyncAgrees ==
    ASSUME OverlayInv, NEW arrives \in BOOLEAN, Resync(arrives)
    PROVE  OverlayInv'
<1>1. OverlayOK /\ RestOK
  BY DEF OverlayInv
<1>2. /\ opening' = FALSE /\ masks' = masks /\ switching' = switching
      /\ backend' = backend /\ backendMask' = backendMask
  BY DEF Resync, service
<1>3. CASE arrives
  <2>1. SyncFromStatus /\ lost' = FALSE
    BY <1>3 DEF Resync
  <2>2. backend \in Regions
    BY <1>1 DEF RestOK
  <2>3. OverlayOK'
    BY <2>1, <2>2, RebuildKeepsOverlay
  <2>4. RestOK'
    BY <1>1, <1>2, <2>1 DEF RestOK
  <2>5. rois' = backend'
    BY <1>2, <2>1 DEF SyncFromStatus, Rebuilt
  <2>6. QED
    BY <2>3, <2>4, <2>5 DEF OverlayInv, PanelMatchesService, Agree, Shown
<1>4. CASE ~arrives
  <2>1. lost' = TRUE /\ UNCHANGED overlay
    BY <1>4 DEF Resync
  <2>2. OverlayOK'
    BY <1>1, <2>1, StillKeepsOverlay
  <2>3. RestOK'
    BY <1>1, <1>2, <2>1 DEF RestOK
  <2>4. QED
    BY <2>1, <2>2, <2>3 DEF OverlayInv, PanelMatchesService
<1>5. QED
  BY <1>3, <1>4

(* One step, of whichever actor.                                             *)
LEMMA UserSteps ==
    ASSUME OverlayInv, User
    PROVE  OverlayInv'
<1>1. OverlayOK /\ RestOK /\ PanelMatchesService
  BY DEF OverlayInv
<1>2. \A arrives \in Arrives : arrives \in BOOLEAN
  BY DEF Arrives
<1>3. CASE \E r \in Shown, s \in Shapes : Drag(r, s)
  BY <1>3, DraggedOutOfStep
<1>4. ASSUME NEW arrives \in Arrives, NEW r \in Ids, OnAddRoi(r, arrives)
      PROVE  OverlayInv'
  BY <1>2, <1>4, AddedOnBothSides
<1>5. ASSUME NEW arrives \in Arrives, NEW r \in Shown, RemoveRoi(r, arrives)
      PROVE  OverlayInv'
  BY <1>2, <1>5, RemovedOnBothSides
<1>6. ASSUME NEW arrives \in Arrives, OnClearRois(arrives)
      PROVE  OverlayInv'
  <2>1. /\ RemoveRois(Shown) /\ lost' = (backend' # Nothing)
        /\ (backend' \in AfterRemovals \/ backend' = Nothing)
        /\ masks' = masks /\ opening' = opening /\ switching' = switching
        /\ backendMask' = backendMask
    BY <1>6, Zenon DEF OnClearRois
  <2>2. masks' \in 0 .. MaxMasks /\ switching' \in BOOLEAN
    BY <1>1, <2>1 DEF RestOK
  <2>3. QED
    BY <1>2, <2>1, <2>2, AllCleared
<1>7. ASSUME NEW arrives \in Arrives, OnApplyMask(arrives) \/ OnClearMask(arrives)
      PROVE  OverlayInv'
  <2>1. /\ UNCHANGED overlay
        /\ opening' = opening /\ switching' = switching /\ backend' = backend /\ lost' = lost
        /\ masks' \in {masks, 0} /\ backendMask' \in {masks, 0, backendMask}
    BY <1>7 DEF OnApplyMask, OnClearMask
  <2>2. OverlayOK' /\ Shown' = Shown
    BY <1>1, <2>1, StillKeepsOverlay
  <2>3. RestOK'
    BY <1>1, <2>1, MasksInRange DEF RestOK
  <2>4. rois' = rois /\ pending' = pending
    BY <2>1 DEF overlay
  <2>5. PanelMatchesService'
    BY <1>1, <2>1, <2>2, <2>4 DEF PanelMatchesService, Agree
  <2>6. QED
    BY <2>2, <2>3, <2>5 DEF OverlayInv
<1>8. CASE OnAddMask
  <2>1. /\ UNCHANGED overlay /\ masks < MaxMasks /\ masks' = masks + 1
        /\ opening' = opening /\ switching' = switching /\ backend' = backend
        /\ backendMask' = backendMask /\ lost' = lost
    BY <1>8 DEF OnAddMask, service
  <2>2. OverlayOK' /\ Shown' = Shown
    BY <1>1, <2>1, StillKeepsOverlay
  <2>3. RestOK'
    BY <1>1, <2>1, MasksInRange DEF RestOK
  <2>4. rois' = rois /\ pending' = pending
    BY <2>1 DEF overlay
  <2>5. PanelMatchesService'
    BY <1>1, <2>1, <2>2, <2>4 DEF PanelMatchesService, Agree
  <2>6. QED
    BY <2>2, <2>3, <2>5 DEF OverlayInv
<1>9. CASE Reopen
  <2>1. /\ rois' = Nothing /\ colors' = Nothing /\ pending' = {} /\ dragged' = {} /\ peak' = 0
        /\ masks' = 0 /\ opening' = TRUE /\ switching' = FALSE /\ lost' = FALSE
        /\ backend' = backend /\ backendMask' = backendMask
    BY <1>9 DEF Reopen, service
  <2>2. OverlayOK'
    BY <2>1, EmptyKeepsOverlay
  <2>3. masks' \in 0 .. MaxMasks
    BY <2>1, MasksInRange
  <2>4. RestOK'
    BY <1>1, <2>1, <2>3, Zenon DEF RestOK
  <2>5. QED
    BY <2>1, <2>2, <2>4 DEF OverlayInv, PanelMatchesService
<1>10. QED
  BY <1>3, <1>4, <1>5, <1>6, <1>7, <1>8, <1>9, Zenon DEF User

LEMMA EventSteps ==
    ASSUME OverlayInv, Events
    PROVE  OverlayInv'
<1>1. OverlayOK /\ RestOK
  BY DEF OverlayInv
<1>2. ASSUME NEW arrives \in Arrives, Resync(arrives)
      PROVE  OverlayInv'
  <2>1. arrives \in BOOLEAN
    BY DEF Arrives
  <2>2. QED
    BY <1>2, <2>1, ResyncAgrees
<1>3. CASE OnDetectorResolved
  <2>1. /\ RemoveRois(Shown) /\ lost' = (backend' # Nothing) /\ backend' \in AfterRemovals
        /\ opening' = opening /\ switching' = FALSE /\ backendMask' = backendMask /\ masks' = 0
    BY <1>3 DEF OnDetectorResolved
  <2>2. masks' \in 0 .. MaxMasks /\ switching' \in BOOLEAN
    BY <2>1, MasksInRange
  <2>3. TRUE \in BOOLEAN
    OBVIOUS
  <2>4. QED
    BY <2>1, <2>2, <2>3, AllCleared
<1>4. CASE ImageViewFails
  <2>1. /\ UNCHANGED overlay /\ switching' = FALSE /\ lost' = TRUE
        /\ masks' = masks /\ opening' = opening /\ backend' = backend /\ backendMask' = backendMask
    BY <1>4 DEF ImageViewFails, service
  <2>2. OverlayOK'
    BY <1>1, <2>1, StillKeepsOverlay
  <2>3. RestOK'
    BY <1>1, <2>1 DEF RestOK
  <2>4. QED
    BY <2>1, <2>2, <2>3 DEF OverlayInv, PanelMatchesService
<1>5. QED
  BY <1>2, <1>3, <1>4 DEF Events

LEMMA ServiceSteps ==
    ASSUME OverlayInv, BindDetector \/ Restart
    PROVE  OverlayInv'
<1>1. OverlayOK /\ RestOK
  BY DEF OverlayInv
<1>2. /\ UNCHANGED overlay /\ masks' = masks /\ opening' = opening
      /\ backend' = Nothing /\ backendMask' = 0
      /\ (switching' = TRUE /\ lost' = lost) \/ (switching' = switching /\ lost' = TRUE)
  BY Zenon DEF BindDetector, Restart
<1>3. OverlayOK'
  BY <1>1, <1>2, StillKeepsOverlay
<1>4. backend' \in Regions /\ backendMask' \in 0 .. MaxMasks
  BY <1>2, MasksInRange, NoRegions
<1>5. RestOK'
  BY <1>1, <1>2, <1>4, Zenon DEF RestOK
<1>6. PanelMatchesService'
  BY <1>2, Zenon DEF PanelMatchesService
<1>7. QED
  BY <1>3, <1>5, <1>6 DEF OverlayInv

LEMMA OverlayStutters ==
    ASSUME OverlayInv, UNCHANGED vars
    PROVE  OverlayInv'
<1>1. /\ OverlayOK /\ RestOK /\ PanelMatchesService
      /\ UNCHANGED overlay /\ masks' = masks /\ opening' = opening /\ switching' = switching
      /\ backend' = backend /\ backendMask' = backendMask /\ lost' = lost
  BY DEF vars, service, OverlayInv
<1>2. OverlayOK' /\ Shown' = Shown
  BY <1>1, StillKeepsOverlay
<1>3. RestOK'
  BY <1>1 DEF RestOK
<1>4. rois' = rois /\ pending' = pending
  BY <1>1 DEF overlay
<1>5. PanelMatchesService'
  BY <1>1, <1>2, <1>4 DEF PanelMatchesService, Agree
<1>6. QED
  BY <1>2, <1>3, <1>5 DEF OverlayInv

LEMMA PanelSteps == OverlayInv /\ [Next]_vars => OverlayInv'
<1> SUFFICES ASSUME OverlayInv, [Next]_vars PROVE OverlayInv'
  OBVIOUS
<1>1. ASSUME NEW r \in Ids, Timer(r)
      PROVE  OverlayInv'
  BY <1>1, TimerReports DEF Timer, Arrives
<1>2. QED
  BY <1>1, UserSteps, EventSteps, ServiceSteps, OverlayStutters DEF Next

-----------------------------------------------------------------------------
(* The theorems *)

(* Whatever the user, the timers, the events of the Qt loop and the service   *)
(* do, and in whichever order, the overlay and the record of it stay in shape. *)
THEOREM OverlayInvariant == Spec => []OverlayInv
<1>1. Init => OverlayInv
  BY InitialPanel
<1>2. OverlayInv /\ [Next]_vars => OverlayInv'
  BY PanelSteps
<1>3. QED
  BY <1>1, <1>2, PTL DEF Spec

(* Every region that is shown has a colour of ROI_COLORS, and no other one    *)
(* has a colour or a timer (remove_roi, clear_rois, sync_from_status).        *)
THEOREM OverlayTypeCorrect == Spec => []TypeOK
<1>1. OverlayInv => TypeOK
  BY DEF OverlayInv, OverlayOK, RestOK, TypeOK
<1>2. QED
  BY <1>1, OverlayInvariant, PTL

(* The panel and the service agree on every region but those whose timer      *)
(* runs, as long as the panel has seen or sent all there was.                 *)
THEOREM PanelAndServiceAgree == Spec => []PanelMatchesService
<1>1. OverlayInv => PanelMatchesService
  BY DEF OverlayInv
<1>2. QED
  BY <1>1, OverlayInvariant, PTL

(* _allocate_color: up to len(ROI_COLORS) regions stay visually distinct.     *)
THEOREM ColorsStayDistinct == Spec => []ColorsDistinctSoFar
<1>1. OverlayInv => ColorsDistinctSoFar
  BY DEF OverlayInv, OverlayOK
<1>2. QED
  BY <1>1, OverlayInvariant, PTL

(* No timer of before a rebuild sends a change of a region the user has not   *)
(* moved since (the comment in sync_from_status).                             *)
THEOREM NoOldTimerReports == Spec => NoUnsolicitedChange
<1>1. OverlayInv => \A r \in Ids : r \in pending => r \in dragged
  BY DEF OverlayInv, OverlayOK
<1>2. ASSUME OverlayInv
      PROVE  \A r \in Ids, arrives \in BOOLEAN :
                (TimerFires(r, arrives) /\ r \in Shown) => r \in dragged
  BY <1>1, <1>2 DEF TimerFires
<1>3. OverlayInv => [ \A r \in Ids, arrives \in BOOLEAN :
                         (TimerFires(r, arrives) /\ r \in Shown) => r \in dragged ]_vars
  BY <1>2
<1>4. QED
  BY <1>3, OverlayInvariant, PTL DEF NoUnsolicitedChange

=============================================================================
