------------------------- MODULE ProcessMemory_proofs -------------------------
(***************************************************************************)
(* What holds of a process's memory for every layout of the address space, *)
(* every range and every sequence of calls.  The argument is about pages:  *)
(* View(map, p) is what the guest sees of page p, and each operation on    *)
(* the areas is shown to keep the tiling and to change the view of the     *)
(* pages it is for only.  The loop of UnmapRange and ReprotectRange is     *)
(* taken through its turns by induction on sets of numbers                 *)
(* (SetInduction).  From what the operations do to the areas then follow   *)
(* the page table, the merging of free areas, what a step may do to a      *)
(* page, that the heaps' areas stay inside their blocks (HeapInv), and     *)
(* that heap_used is the number of pages mapped in the heap (UsedInv).     *)
(***************************************************************************)
EXTENDS ProcessMemory, TLAPS, WellFoundedInduction

(* The leaves are for Zenon where they name no other prover.               *)
USE ZenonT(40)

Good(map) == map \subseteq Area /\ Tiles(map)

(* What the guest sees of page p of area v.                                *)
PageOf(v, p) ==
    [permissions |-> v.permissions, meminfo_state |-> v.meminfo_state, block |-> v.block,
     index |-> IF IsFree(v) THEN 0 ELSE v.offset + p - v.base]

View(map, p) == PageOf(FindVMA(map, p), p)

SameView(map, other) == \A p \in Address : View(other, p) = View(map, p)

(* The number of managed pages is a number.                                *)
LEMMA MaxIsNat == MAX_ADDRESS \in Nat
BY LayoutFits

(* What the fields of an area are, and which pages it has.                 *)
LEMMA AreaFields ==
  ASSUME NEW v \in Area
  PROVE  /\ v.base \in Nat /\ v.size \in Nat /\ v.size > 0 /\ v.offset \in Nat
         /\ End(v) = v.base + v.size
         /\ \A p : p \in Pages(v) <=> p \in Int /\ v.base <= p /\ p < v.base + v.size
BY SMT DEF Area, End, Pages

(* FindVMA finds the area of a managed address.                            *)
LEMMA FindVMAFound ==
  ASSUME NEW map, Good(map), NEW a \in Address
  PROVE  FindVMA(map, a) \in map /\ a \in Pages(FindVMA(map, a))
<1>1. \E v \in map : a \in Pages(v)
  BY DEF Good, Tiles
<1> QED  BY <1>1 DEF FindVMA

(* No other area has that address, so FindVMA can only find this one.      *)
LEMMA FindVMAUnique ==
  ASSUME NEW map, Good(map), NEW v \in map, NEW a \in Address, a \in Pages(v)
  PROVE  FindVMA(map, a) = v
<1> DEFINE w == FindVMA(map, a)
<1>1. w \in map /\ a \in Pages(w)
  BY FindVMAFound
<1> HIDE DEF w
<1>2. v \in Area /\ w \in Area
  BY <1>1 DEF Good
<1>3. v = w \/ End(v) <= w.base \/ End(w) <= v.base
  BY <1>1 DEF Good, Tiles
<1>4. v = w
  BY <1>1, <1>2, <1>3, AreaFields, SMT
<1> QED  BY <1>4 DEF w

(* The pages of an area are managed addresses.                             *)
LEMMA PagesManaged ==
  ASSUME NEW map, Good(map), NEW v \in map, NEW p \in Pages(v)
  PROVE  p \in Address
BY MaxIsNat, AreaFields, SMT DEF Good, Tiles, Address

(* SplitVMA leaves a tiling, and every page as the guest sees it: the      *)
(* second half of the area starts that much later in its block.            *)
LEMMA SplitVMAGood ==
  ASSUME NEW map, Good(map), NEW v \in map, NEW k \in Nat, 0 < k, k < v.size
  PROVE  Good(SplitVMA(map, v, k)) /\ SameView(map, SplitVMA(map, v, k))
<1> DEFINE l == [v EXCEPT !.size = k]
           r == [v EXCEPT !.base = @ + k, !.size = @ - k,
                          !.offset = IF IsFree(v) THEN @ ELSE @ + k]
           new == SplitVMA(map, v, k)
<1>0. v \in Area /\ map \subseteq Area
  BY DEF Good
<1>1. l \in Area /\ r \in Area
  <2> DEFINE off == IF IsFree(v) THEN v.offset ELSE v.offset + k
  <2>1. /\ v.base + k \in Nat /\ v.size - k \in Nat \ {0} /\ off \in Nat
        /\ k \in Nat \ {0}
    BY <1>0, AreaFields, SMT
  <2>2. r = [[[v EXCEPT !.base = @ + k] EXCEPT !.size = v.size - k] EXCEPT !.offset = off]
    BY <1>0 DEF Area
  <2> HIDE DEF off
  <2>3. ASSUME NEW w \in Area, NEW n \in Nat PROVE [w EXCEPT !.base = n] \in Area
    BY DEF Area
  <2>4. ASSUME NEW w \in Area, NEW n \in Nat \ {0} PROVE [w EXCEPT !.size = n] \in Area
    BY DEF Area
  <2>5. ASSUME NEW w \in Area, NEW n \in Nat PROVE [w EXCEPT !.offset = n] \in Area
    BY DEF Area
  <2>6. [v EXCEPT !.base = @ + k] \in Area
    BY <1>0, <2>1 DEF Area
  <2> QED  BY <1>0, <2>1, <2>2, <2>4, <2>5, <2>6
<1>2. /\ l.base = v.base /\ l.size = k /\ r.base = v.base + k /\ r.size = v.size - k
      /\ l.block = v.block /\ r.block = v.block /\ l.offset = v.offset
      /\ l.permissions = v.permissions /\ r.permissions = v.permissions
      /\ l.meminfo_state = v.meminfo_state /\ r.meminfo_state = v.meminfo_state
      /\ r.offset = IF IsFree(v) THEN v.offset ELSE v.offset + k
  BY <1>0 DEF Area
<1>3. new = (map \ {v}) \cup {l, r}
  BY DEF SplitVMA
<1> HIDE DEF l, r, new
<1>4. /\ \A p : p \in Pages(l) <=> p \in Int /\ v.base <= p /\ p < v.base + k
      /\ \A p : p \in Pages(r) <=> p \in Int /\ v.base + k <= p /\ p < v.base + v.size
      /\ \A p : p \in Pages(v) <=> p \in Int /\ v.base <= p /\ p < v.base + v.size
      /\ End(l) = v.base + k /\ End(r) = v.base + v.size /\ End(v) = v.base + v.size
  BY <1>0, <1>1, <1>2, AreaFields, SMT
<1>5. new \subseteq Area
  BY <1>0, <1>1, <1>3
<1>6. Tiles(new)
  <2>1. ASSUME NEW u \in new PROVE u.size > 0 /\ u.base >= 0 /\ End(u) <= MAX_ADDRESS
    BY <1>0, <1>2, <1>3, <1>4, MaxIsNat, AreaFields, SMT DEF Good, Tiles
  <2>2. ASSUME NEW u \in map \ {v} PROVE End(u) <= v.base \/ v.base + v.size <= u.base
    BY <1>4 DEF Good, Tiles
  <2>3. ASSUME NEW u \in new, NEW w \in new
        PROVE  u = w \/ End(u) <= w.base \/ End(w) <= u.base
    <3>1. CASE u \in map \ {v} /\ w \in map \ {v}
      BY <3>1 DEF Good, Tiles
    <3>2. CASE u \in {l, r} /\ w \in {l, r}
      BY <3>2, <1>0, <1>2, <1>4, AreaFields, SMT
    <3>3. CASE u \in map \ {v} /\ w \in {l, r}
      <4>1. u \in Area
        BY <3>3, <1>0
      <4> QED  BY <3>3, <4>1, <1>0, <1>2, <1>4, <2>2, AreaFields, SMT
    <3>4. CASE w \in map \ {v} /\ u \in {l, r}
      <4>1. w \in Area
        BY <3>4, <1>0
      <4> QED  BY <3>4, <4>1, <1>0, <1>2, <1>4, <2>2, AreaFields, SMT
    <3> QED  BY <1>3, <3>1, <3>2, <3>3, <3>4
  <2>4. ASSUME NEW p \in Address PROVE \E u \in new : p \in Pages(u)
    <3>1. PICK u \in map : p \in Pages(u)
      BY DEF Good, Tiles
    <3>2. CASE u = v
      BY <3>1, <3>2, <1>0, <1>3, <1>4, AreaFields, SMT
    <3> QED  BY <3>1, <3>2, <1>3
  <2> QED  BY <2>1, <2>3, <2>4 DEF Tiles
<1>7. Good(new)
  BY <1>5, <1>6 DEF Good
<1>8. ASSUME NEW p \in Address PROVE View(new, p) = View(map, p)
  <2> DEFINE u == FindVMA(map, p)
  <2>1. u \in map /\ p \in Pages(u)
    BY FindVMAFound
  <2> HIDE DEF u
  <2>2. CASE u # v
    <3>1. FindVMA(new, p) = u
      BY <2>1, <2>2, <1>3, <1>7, FindVMAUnique
    <3> QED  BY <3>1 DEF View, u
  <2>3. CASE u = v /\ p \in Pages(l)
    <3>1. FindVMA(new, p) = l
      BY <2>3, <1>3, <1>7, FindVMAUnique
    <3>2. PageOf(l, p) = PageOf(v, p)
      BY <1>2 DEF PageOf, IsFree
    <3> QED  BY <2>3, <3>1, <3>2 DEF View, u
  <2>4. CASE u = v /\ p \in Pages(r)
    <3>1. FindVMA(new, p) = r
      BY <2>4, <1>3, <1>7, FindVMAUnique
    <3>2. PageOf(r, p) = PageOf(v, p)
      BY <1>0, <1>2, AreaFields, SMT DEF PageOf, IsFree, Address
    <3> QED  BY <2>4, <3>1, <3>2 DEF View, u
  <2> QED  BY <2>1, <2>2, <2>3, <2>4, <1>0, <1>4, AreaFields, SMT
<1> QED  BY <1>7, <1>8 DEF SameView, new

(* A split elsewhere than at a boundary falls inside an area.              *)
LEMMA SplitAtCases ==
  ASSUME NEW map, Good(map), NEW a \in Nat
  PROVE  \/ /\ SplitAt(map, a) = map
            /\ a >= MAX_ADDRESS \/ \E u \in map : u.base = a
         \/ \E v \in map :
              /\ SplitAt(map, a) = SplitVMA(map, v, a - v.base)
              /\ a - v.base \in Nat /\ 0 < a - v.base /\ a - v.base < v.size
              /\ a \in Pages(v) /\ v.base < a /\ a < End(v)
<1>1. CASE a >= MAX_ADDRESS \/ \E u \in map : u.base = a
  BY <1>1 DEF SplitAt
<1>2. CASE ~(a >= MAX_ADDRESS \/ \E u \in map : u.base = a)
  <2>1. a \in Address
    BY <1>2, MaxIsNat, SMT DEF Address
  <2> DEFINE v == FindVMA(map, a)
  <2>2. v \in map /\ a \in Pages(v)
    BY <2>1, FindVMAFound
  <2>3. SplitAt(map, a) = SplitVMA(map, v, a - v.base)
    BY <1>2 DEF SplitAt
  <2> HIDE DEF v
  <2>4. v \in Area /\ v.base # a
    BY <1>2, <2>2 DEF Good
  <2> QED  BY <2>2, <2>3, <2>4, AreaFields, SMT
<1> QED  BY <1>1, <1>2

(* So does a split at an address, whether or not one is needed.            *)
LEMMA SplitAtGood ==
  ASSUME NEW map, Good(map), NEW a \in Nat
  PROVE  Good(SplitAt(map, a)) /\ SameView(map, SplitAt(map, a))
<1>1. SameView(map, map)
  BY DEF SameView
<1> QED  BY <1>1, SplitAtCases, SplitVMAGood, SMT

(* An area that is split at its end or inside ends there.                  *)
LEMMA SplitAtEnds ==
  ASSUME NEW map, Good(map), NEW v \in map, NEW a \in Nat, v.base < a, a <= End(v)
  PROVE  \E u \in SplitAt(map, a) : u.base = v.base /\ End(u) = a
<1>0. v \in Area /\ End(v) <= MAX_ADDRESS
  BY DEF Good, Tiles
<1>1. CASE SplitAt(map, a) = map /\ (a >= MAX_ADDRESS \/ \E u \in map : u.base = a)
  <2>1. CASE a = End(v)
    BY <1>1, <2>1
  <2>2. CASE a < End(v)
    <3>1. a < MAX_ADDRESS /\ a \in Address /\ a \in Pages(v)
      BY <1>0, <2>2, MaxIsNat, AreaFields, SMT DEF Address
    <3>2. PICK u \in map : u.base = a
      BY <1>1, <3>1, MaxIsNat, SMT
    <3>3. u \in Area /\ a \in Pages(u)
      BY <3>2, AreaFields, SMT DEF Good
    <3>4. u = v
      BY <3>1, <3>3, FindVMAUnique, SMT
    <3> QED  BY <3>2, <3>4, <1>0, AreaFields, SMT
  <2> QED  BY <2>1, <2>2, <1>0, AreaFields, SMT
<1>2. ASSUME NEW z \in map,
             SplitAt(map, a) = SplitVMA(map, z, a - z.base),
             a \in Pages(z), z.base < a, a < End(z)
      PROVE  \E u \in SplitAt(map, a) : u.base = v.base /\ End(u) = a
  <2>1. z \in Area
    BY DEF Good
  <2>2. z = v \/ End(z) <= v.base \/ End(v) <= z.base
    BY DEF Good, Tiles
  <2>3. z = v
    BY <1>0, <1>2, <2>1, <2>2, AreaFields, SMT
  <2> DEFINE l == [v EXCEPT !.size = a - v.base]
  <2>4. l.base = v.base /\ l.size = a - v.base
    BY <1>0 DEF Area
  <2>5. l \in SplitAt(map, a)
    BY <1>2, <2>3 DEF SplitVMA
  <2> HIDE DEF l
  <2>6. End(l) = a
    BY <2>4, <1>0, AreaFields, SMT DEF End
  <2> QED  BY <2>4, <2>5, <2>6
<1> QED  BY <1>1, <1>2, SplitAtCases

(* An area that is split at its base or inside begins there.               *)
LEMMA SplitAtBegins ==
  ASSUME NEW map, Good(map), NEW v \in map, NEW a \in Nat, v.base <= a, a < End(v)
  PROVE  \E u \in SplitAt(map, a) : u.base = a /\ End(u) = End(v)
<1>0. v \in Area /\ End(v) <= MAX_ADDRESS
  BY DEF Good, Tiles
<1>3. a < MAX_ADDRESS /\ a \in Address /\ a \in Pages(v)
  BY <1>0, MaxIsNat, AreaFields, SMT DEF Address
<1>1. CASE SplitAt(map, a) = map /\ (a >= MAX_ADDRESS \/ \E u \in map : u.base = a)
  <2>2. PICK u \in map : u.base = a
    BY <1>1, <1>3, MaxIsNat, SMT
  <2>3. u \in Area /\ a \in Pages(u)
    BY <2>2, AreaFields, SMT DEF Good
  <2>4. u = v
    BY <1>3, <2>3, FindVMAUnique, SMT
  <2> QED  BY <1>1, <2>2, <2>4
<1>2. ASSUME NEW z \in map,
             SplitAt(map, a) = SplitVMA(map, z, a - z.base),
             a \in Pages(z), z.base < a, a < End(z)
      PROVE  \E u \in SplitAt(map, a) : u.base = a /\ End(u) = End(v)
  <2>3. z = v
    BY <1>2, <1>3, FindVMAUnique, SMT
  <2> DEFINE r == [v EXCEPT !.base = @ + (a - v.base), !.size = @ - (a - v.base),
                            !.offset = IF IsFree(v) THEN @ ELSE @ + (a - v.base)]
  <2>4. r.base = v.base + (a - v.base) /\ r.size = v.size - (a - v.base)
    BY <1>0 DEF Area
  <2>5. r \in SplitAt(map, a)
    BY <1>2, <2>3 DEF SplitVMA
  <2> HIDE DEF r
  <2>6. r.base = a /\ End(r) = End(v)
    BY <2>4, <1>0, AreaFields, SMT DEF End
  <2> QED  BY <2>5, <2>6
<1> QED  BY <1>1, <1>2, SplitAtCases

(* And the two splits of CarveVMARange.                                    *)
LEMMA CarveVMARangeGood ==
  ASSUME NEW map, Good(map), NEW target \in Nat, NEW size \in Nat
  PROVE  /\ Good(CarveVMARange(map, target, size))
         /\ SameView(map, CarveVMARange(map, target, size))
<1> DEFINE m == SplitAt(map, target)
<1>1. Good(m) /\ SameView(map, m)
  BY SplitAtGood
<1> HIDE DEF m
<1>2. target + size \in Nat
  BY SMT
<1>3. Good(SplitAt(m, target + size)) /\ SameView(m, SplitAt(m, target + size))
  BY <1>1, <1>2, SplitAtGood
<1> QED  BY <1>1, <1>3 DEF SameView, CarveVMARange, m

(* CarveVMA makes the range an area of its own.                            *)
LEMMA CarveVMAGood ==
  ASSUME NEW map, Good(map), NEW base \in Nat, NEW size \in Nat, size > 0,
         CanCarve(map, base, size)
  PROVE  /\ Good(CarveVMA(map, base, size))
         /\ SameView(map, CarveVMA(map, base, size))
         /\ base \in Address
         /\ FindVMA(CarveVMA(map, base, size), base) \in CarveVMA(map, base, size)
         /\ FindVMA(CarveVMA(map, base, size), base).base = base
         /\ FindVMA(CarveVMA(map, base, size), base).size = size
<1> DEFINE v == FindVMA(map, base)
           m == SplitAt(map, base + size)
           carved == SplitAt(m, base)
<1>1. base \in Address
  BY MaxIsNat, SMT DEF CanCarve, Address
<1>2. v \in map /\ base \in Pages(v)
  BY <1>1, FindVMAFound
<1>3. base + size <= End(v)
  BY DEF CanCarve
<1>4. CarveVMA(map, base, size) = carved
  BY DEF CarveVMA
<1>5. Good(m) /\ SameView(map, m)
  BY SplitAtGood, SMT
<1> HIDE DEF v
<1>6. v \in Area
  BY <1>2 DEF Good
<1>7. v.base <= base /\ v.base < base + size /\ base + size \in Nat /\ v.base \in Nat
  BY <1>2, <1>6, AreaFields, SMT
<1>8. PICK u \in m : u.base = v.base /\ End(u) = base + size
  BY <1>2, <1>3, <1>7, SplitAtEnds
<1> HIDE DEF m
<1>9. Good(carved) /\ SameView(m, carved)
  BY <1>5, SplitAtGood
<1>10. PICK x \in carved : x.base = base /\ End(x) = End(u)
  BY <1>5, <1>7, <1>8, SplitAtBegins, SMT
<1> HIDE DEF carved
<1>11. x \in Area
  BY <1>9, <1>10 DEF Good
<1>12. base \in Pages(x) /\ x.size = size
  BY <1>8, <1>10, <1>11, AreaFields, SMT
<1>13. FindVMA(carved, base) = x
  BY <1>1, <1>9, <1>12, FindVMAUnique
<1>14. SameView(map, carved)
  BY <1>5, <1>9 DEF SameView
<1> QED  BY <1>1, <1>4, <1>9, <1>10, <1>12, <1>13, <1>14

(* An area that covers whole areas of the map and ends inside the managed  *)
(* addresses may replace them.                                             *)
Covers(map, area) ==
    /\ area \in Area /\ End(area) <= MAX_ADDRESS
    /\ \A u \in map : \/ area.base <= u.base /\ End(u) <= End(area)
                      \/ End(u) <= area.base \/ End(area) <= u.base

Replaced(map, area) ==
    {u \in map : u.base < area.base \/ u.base >= End(area)} \cup {area}

(* It leaves a tiling, with the area where it is and the others elsewhere. *)
LEMMA ReplacedGood ==
  ASSUME NEW map, Good(map), NEW area, Covers(map, area)
  PROVE  /\ Good(Replaced(map, area))
         /\ \A p \in Address : FindVMA(Replaced(map, area), p) =
                                 IF p \in Pages(area) THEN area ELSE FindVMA(map, p)
<1> DEFINE new == Replaced(map, area)
<1>1. area \in Area /\ map \subseteq Area /\ area \in new /\ new \subseteq Area
  BY DEF Good, Covers, Replaced
<1>2. ASSUME NEW u \in new, u # area
      PROVE  u \in map /\ (End(u) <= area.base \/ End(area) <= u.base)
  <2>1. u \in map /\ (u.base < area.base \/ u.base >= End(area))
    BY <1>2 DEF Replaced
  <2> QED  BY <1>1, <2>1, AreaFields, SMT DEF Covers
<1>3. ASSUME NEW u \in map, u \notin new
      PROVE  area.base <= u.base /\ End(u) <= End(area)
  <2>1. ~(u.base < area.base \/ u.base >= End(area))
    BY <1>3 DEF Replaced
  <2> QED  BY <1>1, <2>1, AreaFields, SMT DEF Covers
<1> HIDE DEF new
<1>4. Tiles(new)
  <2>1. ASSUME NEW u \in new PROVE u.size > 0 /\ u.base >= 0 /\ End(u) <= MAX_ADDRESS
    BY <1>1, <1>2, AreaFields, SMT DEF Good, Tiles, Covers
  <2>2. ASSUME NEW u \in new, NEW w \in new
        PROVE  u = w \/ End(u) <= w.base \/ End(w) <= u.base
    BY <1>2 DEF Good, Tiles
  <2>3. ASSUME NEW p \in Address PROVE \E u \in new : p \in Pages(u)
    <3>1. PICK u \in map : p \in Pages(u)
      BY DEF Good, Tiles
    <3>2. CASE u \notin new
      BY <3>1, <3>2, <1>1, <1>3, AreaFields, SMT
    <3> QED  BY <3>1, <3>2
  <2> QED  BY <2>1, <2>2, <2>3 DEF Tiles
<1>5. Good(new)
  BY <1>1, <1>4 DEF Good
<1>6. ASSUME NEW p \in Address
      PROVE  FindVMA(new, p) = IF p \in Pages(area) THEN area ELSE FindVMA(map, p)
  <2>1. CASE p \in Pages(area)
    BY <2>1, <1>1, <1>5, FindVMAUnique
  <2>2. CASE p \notin Pages(area)
    <3> DEFINE u == FindVMA(map, p)
    <3>1. u \in map /\ p \in Pages(u)
      BY FindVMAFound
    <3> HIDE DEF u
    <3>2. u \in new
      BY <2>2, <3>1, <1>1, <1>3, AreaFields, SMT
    <3>3. FindVMA(new, p) = u
      BY <3>1, <3>2, <1>5, FindVMAUnique
    <3> QED  BY <2>2, <3>3 DEF u
  <2> QED  BY <2>1, <2>2
<1> QED  BY <1>5, <1>6 DEF new

(* The pages of an area point where they did, but for those of v, which    *)
(* point where w says.                                                     *)
PointsAs(map, v, w, area) ==
    \A q \in Pages(area) :
       PageOf(area, q) = IF q \in Pages(v) THEN PageOf(w, q) ELSE View(map, q)

(* Two areas that can be merged are backed by adjacent parts of a block.   *)
LEMMA JoinPoints ==
  ASSUME NEW a \in Area, NEW b \in Area, CanBeMergedWith(a, b),
         NEW j, j = [a EXCEPT !.size = @ + b.size]
  PROVE  /\ j \in Area /\ j.base = a.base /\ End(j) = End(b)
         /\ \A q \in Pages(j) : PageOf(j, q) = IF q \in Pages(a) THEN PageOf(a, q)
                                                  ELSE PageOf(b, q)
         /\ \A q : q \in Pages(j) <=> q \in Pages(a) \/ q \in Pages(b)
<1>1. j \in Area
  <2>1. a.size + b.size \in Nat \ {0}
    BY AreaFields, SMT
  <2> QED  BY <2>1 DEF Area
<1>2. /\ j.base = a.base /\ j.size = a.size + b.size /\ j.block = a.block
      /\ j.offset = a.offset /\ j.permissions = a.permissions
      /\ j.meminfo_state = a.meminfo_state
  BY DEF Area
<1>3. /\ a.base + a.size = b.base /\ a.block = b.block
      /\ a.permissions = b.permissions /\ a.meminfo_state = b.meminfo_state
      /\ a.block = NULL \/ a.offset + a.size = b.offset
  BY DEF CanBeMergedWith, IsFree, End
<1>7. /\ End(j) = j.base + j.size
      /\ \A q : q \in Pages(j) <=> q \in Int /\ j.base <= q /\ q < j.base + j.size
  BY <1>1, AreaFields
<1>8. /\ {a.base, a.size, b.base, b.size} \subseteq Nat
      /\ End(b) = b.base + b.size
      /\ \A q : q \in Pages(a) <=> q \in Int /\ a.base <= q /\ q < a.base + a.size
      /\ \A q : q \in Pages(b) <=> q \in Int /\ b.base <= q /\ q < b.base + b.size
  BY AreaFields
<1>4. End(j) = End(b)
  BY <1>2, <1>3, <1>7, <1>8, SMT
<1>5. \A q : q \in Pages(j) <=> q \in Pages(a) \/ q \in Pages(b)
  BY <1>2, <1>3, <1>7, <1>8, SMT
<1>6. ASSUME NEW q \in Pages(j)
      PROVE  PageOf(j, q) = IF q \in Pages(a) THEN PageOf(a, q) ELSE PageOf(b, q)
  <2>1. q \in Int
    BY <1>1, AreaFields
  <2>2. PageOf(j, q) = PageOf(a, q)
    BY <1>2, SMT DEF PageOf, IsFree
  <2>3. PageOf(a, q) = PageOf(b, q)
    BY <1>3, <2>1, AreaFields, SMT DEF PageOf, IsFree
  <2> QED  BY <2>2, <2>3
<1> QED  BY <1>1, <1>2, <1>4, <1>5, <1>6

(* What Joined makes of w, the new form of area v, replaces the areas it   *)
(* has taken in.                                                           *)
LEMMA JoinedGood ==
  ASSUME NEW map, Good(map), NEW v \in map, NEW w \in Area,
         w.base = v.base, w.size = v.size,
         NEW area, area = Joined(map \ {v}, w)
  PROVE  /\ Covers(map, area) /\ PointsAs(map, v, w, area)
         /\ area.base <= v.base /\ End(v) <= End(area)
         /\ \A u \in map \ {v} : CanBeMergedWith(u, w) => area.base <= u.base
<1> DEFINE others == map \ {v}
           next == {n \in others : CanBeMergedWith(w, n)}
           grown == IF next = {} THEN w
                    ELSE [w EXCEPT !.size = @ + (CHOOSE n \in next : TRUE).size]
           prev == {p \in others : CanBeMergedWith(p, w)}
<1>0. v \in Area /\ map \subseteq Area /\ End(w) = End(v) /\ Pages(w) = Pages(v)
  BY DEF Good, End, Pages
<1>1. ASSUME NEW u \in others, NEW q \in Pages(u)
      PROVE  q \notin Pages(v) /\ View(map, q) = PageOf(u, q)
  <2>1. q \in Address
    BY PagesManaged
  <2>2. FindVMA(map, q) = u
    BY <2>1, FindVMAUnique
  <2>3. q \notin Pages(v)
    BY <2>1, <2>2, FindVMAUnique
  <2> QED  BY <2>2, <2>3 DEF View
<1>2. /\ grown \in Area /\ grown.base = v.base /\ End(v) <= End(grown)
      /\ Covers(map, grown) /\ PointsAs(map, v, w, grown)
      /\ grown.permissions = w.permissions /\ grown.meminfo_state = w.meminfo_state
      /\ grown.block = w.block /\ grown.offset = w.offset
  <2>1. CASE next = {}
    <3>1. grown = w
      BY <2>1
    <3> HIDE DEF grown
    <3>2. Covers(map, w)
      BY <1>0, AreaFields, SMT DEF Good, Tiles, Covers
    <3>3. PointsAs(map, v, w, w)
      BY <1>0 DEF PointsAs
    <3> QED  BY <1>0, <3>1, <3>2, <3>3, AreaFields, SMT
  <2>2. CASE next # {}
    <3> DEFINE n == CHOOSE m \in next : TRUE
    <3>1. n \in others /\ CanBeMergedWith(w, n)
      BY <2>2
    <3>2. grown = [w EXCEPT !.size = @ + n.size]
      BY <2>2
    <3> HIDE DEF n, grown, next
    <3>3. n \in Area /\ n \in map
      BY <1>0, <3>1
    <3>4. /\ grown \in Area /\ grown.base = v.base /\ End(grown) = End(n)
          /\ \A q \in Pages(grown) : PageOf(grown, q) =
                IF q \in Pages(w) THEN PageOf(w, q) ELSE PageOf(n, q)
          /\ \A q : q \in Pages(grown) <=> q \in Pages(w) \/ q \in Pages(n)
      BY <3>1, <3>2, <3>3, JoinPoints, SMT
    <3>5. End(w) = n.base
      BY <3>1 DEF CanBeMergedWith
    <3>6. Covers(map, grown)
      <4>1. End(grown) <= MAX_ADDRESS
        BY <3>3, <3>4 DEF Good, Tiles
      <4>2. ASSUME NEW u \in map
            PROVE  \/ grown.base <= u.base /\ End(u) <= End(grown)
                   \/ End(u) <= grown.base \/ End(grown) <= u.base
        <5>1. u = v \/ End(u) <= v.base \/ End(v) <= u.base
          BY DEF Good, Tiles
        <5>2. u = n \/ End(u) <= n.base \/ End(n) <= u.base
          BY <3>3 DEF Good, Tiles
        <5>3. u \in Area
          BY <1>0
        <5> QED  BY <1>0, <3>3, <3>4, <3>5, <5>1, <5>2, <5>3, AreaFields, SMT
      <4> QED  BY <3>4, <4>1, <4>2 DEF Covers
    <3>7. PointsAs(map, v, w, grown)
      BY <1>0, <1>1, <3>1, <3>4 DEF PointsAs
    <3>8. End(v) <= End(grown)
      BY <1>0, <3>3, <3>4, <3>5, AreaFields, SMT
    <3>9. /\ grown.permissions = w.permissions /\ grown.meminfo_state = w.meminfo_state
          /\ grown.block = w.block /\ grown.offset = w.offset
      BY <3>2 DEF Area
    <3> QED  BY <3>4, <3>6, <3>7, <3>8, <3>9
  <2> QED  BY <2>1, <2>2
<1>3. CASE prev = {}
  <2>1. area = grown
    BY <1>3 DEF Joined
  <2>2. \A u \in map \ {v} : ~CanBeMergedWith(u, w)
    BY <1>3
  <2> HIDE DEF grown
  <2> QED  BY <1>0, <1>2, <2>1, <2>2, AreaFields, SMT
<1>4. CASE prev # {}
  <2> DEFINE p == CHOOSE q \in prev : TRUE
  <2>1. p \in others /\ CanBeMergedWith(p, w)
    BY <1>4
  <2>2. area = [p EXCEPT !.size = @ + grown.size]
    BY <1>4 DEF Joined
  <2> HIDE DEF p, grown, next, prev
  <2>3. p \in Area /\ p \in map
    BY <1>0, <2>1
  <2>4. CanBeMergedWith(p, grown) /\ End(p) = v.base
    BY <2>1, <1>2 DEF CanBeMergedWith
  <2>5. /\ area \in Area /\ area.base = p.base /\ End(area) = End(grown)
        /\ \A q \in Pages(area) : PageOf(area, q) =
              IF q \in Pages(p) THEN PageOf(p, q) ELSE PageOf(grown, q)
        /\ \A q : q \in Pages(area) <=> q \in Pages(p) \/ q \in Pages(grown)
    BY <1>2, <2>2, <2>3, <2>4, JoinPoints
  <2>6. Covers(map, area)
    <3>1. End(area) <= MAX_ADDRESS
      BY <1>2, <2>5 DEF Covers
    <3>2. ASSUME NEW u \in map
          PROVE  \/ area.base <= u.base /\ End(u) <= End(area)
                 \/ End(u) <= area.base \/ End(area) <= u.base
      <4>1. \/ grown.base <= u.base /\ End(u) <= End(grown)
            \/ End(u) <= grown.base \/ End(grown) <= u.base
        BY <1>2 DEF Covers
      <4>2. u = p \/ End(u) <= p.base \/ End(p) <= u.base
        BY <2>3 DEF Good, Tiles
      <4>3. u \in Area
        BY <1>0
      <4> QED  BY <1>0, <1>2, <2>3, <2>4, <2>5, <4>1, <4>2, <4>3, AreaFields, SMT
    <3> QED  BY <2>5, <3>1, <3>2 DEF Covers
  <2>7. PointsAs(map, v, w, area)
    BY <1>1, <1>2, <2>1, <2>5 DEF PointsAs
  <2>8. area.base <= v.base /\ End(v) <= End(area)
    BY <1>0, <1>2, <2>3, <2>4, <2>5, AreaFields, SMT
  <2>9. ASSUME NEW u \in others, CanBeMergedWith(u, w) PROVE area.base <= u.base
    <3>1. u \in Area /\ End(u) = w.base
      BY <1>0, <2>9 DEF CanBeMergedWith
    <3>2. u = p \/ End(u) <= p.base \/ End(p) <= u.base
      BY <2>3 DEF Good, Tiles
    <3> QED  BY <2>3, <2>4, <2>5, <3>1, <3>2, AreaFields, SMT
  <2> QED  BY <2>6, <2>7, <2>8, <2>9
<1> QED  BY <1>3, <1>4

(* How far what Joined makes of w reaches: to the ends of the neighbours   *)
(* it has taken in, and it takes in every one that it may.                 *)
LEMMA JoinedReach ==
  ASSUME NEW map, Good(map), NEW v \in map, NEW w \in Area,
         w.base = v.base, w.size = v.size,
         NEW area, area = Joined(map \ {v}, w)
  PROVE  /\ \/ area.base = v.base /\ \A u \in map \ {v} : ~CanBeMergedWith(u, w)
            \/ \E u \in map \ {v} : area.base = u.base /\ CanBeMergedWith(u, w)
         /\ \/ End(area) = End(v) /\ \A u \in map \ {v} : ~CanBeMergedWith(w, u)
            \/ \E u \in map \ {v} : End(area) = End(u) /\ CanBeMergedWith(w, u)
<1> DEFINE others == map \ {v}
           next == {n \in others : CanBeMergedWith(w, n)}
           grown == IF next = {} THEN w
                    ELSE [w EXCEPT !.size = @ + (CHOOSE n \in next : TRUE).size]
           prev == {p \in others : CanBeMergedWith(p, w)}
<1>0. v \in Area /\ map \subseteq Area /\ End(w) = End(v)
  BY DEF Good, End
<1>1. /\ grown.base = w.base /\ grown.size \in Nat
      /\ \/ End(grown) = End(v) /\ next = {}
         \/ \E u \in map \ {v} : End(grown) = End(u) /\ CanBeMergedWith(w, u)
  <2>1. CASE next = {}
    <3>1. grown = w
      BY <2>1
    <3> HIDE DEF grown
    <3> QED  BY <1>0, <2>1, <3>1, AreaFields
  <2>2. CASE next # {}
    <3> DEFINE n == CHOOSE m \in next : TRUE
    <3>1. n \in others /\ CanBeMergedWith(w, n)
      BY <2>2
    <3>2. grown = [w EXCEPT !.size = @ + n.size]
      BY <2>2
    <3> HIDE DEF n, grown, next
    <3>3. n \in Area
      BY <1>0, <3>1
    <3>4. grown.base = w.base /\ grown.size = w.size + n.size
      BY <3>2 DEF Area
    <3>5. End(w) = n.base
      BY <3>1 DEF CanBeMergedWith
    <3>6. End(grown) = End(n) /\ grown.size \in Nat
      BY <3>3, <3>4, <3>5, AreaFields, SMT DEF End
    <3> QED  BY <3>1, <3>4, <3>6
  <2> QED  BY <2>1, <2>2
<1>2. next = {} => \A u \in map \ {v} : ~CanBeMergedWith(w, u)
  OBVIOUS
<1>3. CASE prev = {}
  <2>1. area = grown
    BY <1>3 DEF Joined
  <2>2. \A u \in map \ {v} : ~CanBeMergedWith(u, w)
    BY <1>3
  <2> HIDE DEF grown, next
  <2> QED  BY <1>1, <1>2, <2>1, <2>2
<1>4. CASE prev # {}
  <2> DEFINE p == CHOOSE q \in prev : TRUE
  <2>1. p \in others /\ CanBeMergedWith(p, w)
    BY <1>4
  <2>2. area = [p EXCEPT !.size = @ + grown.size]
    BY <1>4 DEF Joined
  <2> HIDE DEF p, grown, next, prev
  <2>3. p \in Area
    BY <1>0, <2>1
  <2>4. area.base = p.base /\ area.size = p.size + grown.size
    BY <2>2, <2>3 DEF Area
  <2>5. End(p) = w.base
    BY <2>1 DEF CanBeMergedWith
  <2>6. End(area) = End(grown)
    BY <1>1, <2>3, <2>4, <2>5, AreaFields, SMT DEF End
  <2> QED  BY <1>1, <1>2, <2>1, <2>4, <2>6
<1> QED  BY <1>3, <1>4

(* MergeAdjacent gives map with w in place of v, merged into new.          *)
MergesInto(map, v, w, new) ==
    /\ Good(new)
    /\ \A p \in Address : View(new, p) =
         IF p \in Pages(v) THEN PageOf(w, p) ELSE View(map, p)
    /\ FindVMA(new, v.base) \in new
    /\ \A p \in Pages(v) : p \in Address /\ FindVMA(new, p) = FindVMA(new, v.base)
    /\ v.base \in Pages(v) /\ Pages(v) \subseteq Pages(FindVMA(new, v.base))
    /\ End(v) <= End(FindVMA(new, v.base))
    /\ \A u \in map \ {v} : CanBeMergedWith(u, w) =>
         \A p \in Pages(u) : FindVMA(new, p) = FindVMA(new, v.base)
    /\ \A u \in map : u.base >= End(FindVMA(new, v.base)) => u \in new

(* MergeAdjacent keeps the tiling and every pointer but those it is to     *)
(* change; the pages of the changed area share an area.                    *)
LEMMA MergeGood ==
  ASSUME NEW map, Good(map), NEW v \in map, NEW w \in Area,
         w.base = v.base, w.size = v.size,
         NEW new, new = MergeAdjacent(map, v, w)
  PROVE  MergesInto(map, v, w, new)
<1> DEFINE area == Joined(map \ {v}, w)
<1>1. /\ Covers(map, area) /\ PointsAs(map, v, w, area)
      /\ area.base <= v.base /\ End(v) <= End(area)
  BY JoinedGood
<1>10. \A u \in map \ {v} : CanBeMergedWith(u, w) => area.base <= u.base
  BY JoinedGood
<1>2. new = {u \in map \ {v} : u.base < area.base \/ u.base >= End(area)} \cup {area}
  BY DEF MergeAdjacent
<1> HIDE DEF area
<1>3. v \in Area /\ area \in Area
  BY <1>1 DEF Good, Covers
<1>4. ~(v.base < area.base \/ v.base >= End(area))
  BY <1>1, <1>3, AreaFields, SMT
<1>5. new = Replaced(map, area)
  BY <1>2, <1>4 DEF Replaced
<1>6. /\ Good(new)
      /\ \A p \in Address : FindVMA(new, p) =
           IF p \in Pages(area) THEN area ELSE FindVMA(map, p)
  BY <1>1, <1>5, ReplacedGood, SMT
<1>7. Pages(v) \subseteq Pages(area)
  BY <1>1, <1>3, AreaFields, SMT
<1>8. ASSUME NEW p \in Address
      PROVE  View(new, p) = IF p \in Pages(v) THEN PageOf(w, p) ELSE View(map, p)
  <2>1. CASE p \in Pages(area)
    BY <2>1, <1>1, <1>6 DEF View, PointsAs
  <2>2. CASE p \notin Pages(area)
    BY <2>2, <1>6, <1>7 DEF View
  <2> QED  BY <2>1, <2>2
<1>9. ASSUME NEW p \in Pages(v) PROVE p \in Address /\ FindVMA(new, p) = area
  <2>1. p \in Address
    BY PagesManaged
  <2> QED  BY <2>1, <1>6, <1>7
<1>11. v.base \in Pages(v)
  BY <1>3, AreaFields, SMT
<1>12. ASSUME NEW u \in map \ {v}, CanBeMergedWith(u, w), NEW p \in Pages(u)
       PROVE  FindVMA(new, p) = area
  <2>1. u \in Area /\ End(u) = v.base /\ area.base <= u.base
    BY <1>10, <1>12 DEF Good, CanBeMergedWith
  <2>2. p \in Pages(area)
    BY <2>1, <1>1, <1>3, AreaFields, SMT
  <2>3. p \in Address
    BY PagesManaged
  <2> QED  BY <2>2, <2>3, <1>6
<1>13. \A u \in map : u.base >= End(area) => u \in new
  BY <1>5 DEF Replaced
<1>14. area \in new /\ FindVMA(new, v.base) = area
  BY <1>5, <1>9, <1>11 DEF Replaced
<1> QED  BY <1>1, <1>6, <1>7, <1>8, <1>9, <1>11, <1>12, <1>13, <1>14
        DEF MergesInto

-----------------------------------------------------------------------------
(* The page table follows the areas.                                       *)
Pointer(page) ==
    IF page.block = NULL THEN NULL ELSE [block |-> page.block, index |-> page.index]

(* What UpdatePageTableForVMA enters for a page, from what the guest sees. *)
LEMMA PointerOfPage ==
  ASSUME NEW v, NEW p
  PROVE  PointerAt(v, p) = Pointer(PageOf(v, p))
BY DEF PointerAt, Pointer, PageOf, IsFree

Current(map, table) == \A p \in Address : table[p] = Pointer(View(map, p))

(* A free page keeps nothing of what was mapped there.                     *)
Blank(map) ==
    \A p \in Address : View(map, p).block = NULL =>
       View(map, p).permissions = {} /\ View(map, p).meminfo_state = "Free"

(* Two free pages side by side are of one area.                            *)
FreeTogether(map, p) ==
    p + 1 \in Address /\ View(map, p).block = NULL /\ View(map, p + 1).block = NULL
      => p + 1 \in Pages(FindVMA(map, p))

FreeMerged(map) == \A p \in Address : FreeTogether(map, p)

(* A free area has nothing that could keep it from merging.                *)
LEMMA FreeAreaBlank ==
  ASSUME NEW map, Good(map), Blank(map), NEW v \in map, NEW p \in Address, p \in Pages(v),
         View(map, p).block = NULL
  PROVE  v.block = NULL /\ v.permissions = {} /\ v.meminfo_state = "Free"
<1>1. View(map, p) = PageOf(v, p)
  BY FindVMAUnique DEF View
<1> QED  BY <1>1, SMT DEF Blank, PageOf

(* Changing an area merges it with the free areas on both sides, if it is  *)
(* free now; elsewhere nothing comes apart.                                *)
LEMMA MergeFree ==
  ASSUME NEW map, Good(map), Blank(map), NEW v \in map, NEW w \in Area,
         w.base = v.base, w.size = v.size,
         w.block = NULL => w.permissions = {} /\ w.meminfo_state = "Free",
         \A p \in Address : p \notin Pages(v) /\ p + 1 \notin Pages(v) => FreeTogether(map, p)
  PROVE  FreeMerged(MergeAdjacent(map, v, w))
<1> DEFINE area == Joined(map \ {v}, w)
           new == MergeAdjacent(map, v, w)
<1>1. /\ Covers(map, area) /\ PointsAs(map, v, w, area)
      /\ area.base <= v.base /\ End(v) <= End(area)
  BY JoinedGood
<1>2. /\ \/ area.base = v.base /\ \A u \in map \ {v} : ~CanBeMergedWith(u, w)
         \/ \E u \in map \ {v} : area.base = u.base /\ CanBeMergedWith(u, w)
      /\ \/ End(area) = End(v) /\ \A u \in map \ {v} : ~CanBeMergedWith(w, u)
         \/ \E u \in map \ {v} : End(area) = End(u) /\ CanBeMergedWith(w, u)
  BY JoinedReach, SMT
<1>3. new = {u \in map \ {v} : u.base < area.base \/ u.base >= End(area)} \cup {area}
  BY DEF MergeAdjacent
<1>4. \A p \in Address : View(new, p) =
        IF p \in Pages(v) THEN PageOf(w, p) ELSE View(map, p)
  <2>1. MergesInto(map, v, w, new)
    BY MergeGood
  <2> QED  BY <2>1 DEF MergesInto
<1> HIDE DEF area, new
<1>5. v \in Area /\ area \in Area /\ map \subseteq Area
  BY <1>1 DEF Good, Covers
<1>6. new = Replaced(map, area)
  <2>1. ~(v.base < area.base \/ v.base >= End(area))
    BY <1>1, <1>5, AreaFields, SMT
  <2> QED  BY <1>3, <2>1 DEF Replaced
<1>7. \A p \in Address : FindVMA(new, p) =
        IF p \in Pages(area) THEN area ELSE FindVMA(map, p)
  BY <1>1, <1>6, ReplacedGood, SMT
<1>8. Pages(v) \subseteq Pages(area) /\ End(w) = End(v)
  BY <1>1, <1>5, AreaFields, SMT
<1> SUFFICES ASSUME NEW p \in Address, p + 1 \in Address,
                    View(new, p).block = NULL, View(new, p + 1).block = NULL
             PROVE  p + 1 \in Pages(FindVMA(new, p))
  BY DEF FreeMerged, FreeTogether, new
<1>9. p \in Nat /\ p + 1 \in Nat
  BY MaxIsNat, SMT DEF Address
<1> DEFINE l == FindVMA(map, p)
           r == FindVMA(map, p + 1)
<1>10. /\ l \in map /\ p \in Pages(l) /\ l \in Area
       /\ r \in map /\ p + 1 \in Pages(r) /\ r \in Area
  BY <1>5, FindVMAFound
<1>11. ASSUME p \notin Pages(v), p + 1 \notin Pages(v)
       PROVE  p + 1 \in Pages(l)
  BY <1>4, <1>11 DEF FreeTogether
<1> HIDE DEF l, r
<1>12. CASE p \in Pages(area) /\ p + 1 \in Pages(area)
  BY <1>7, <1>12
<1>13. CASE p \notin Pages(area) /\ p + 1 \notin Pages(area)
  BY <1>7, <1>8, <1>11, <1>13 DEF l
<1>14. CASE p \in Pages(area) /\ p + 1 \notin Pages(area)
  <2>1. End(area) = p + 1 /\ p + 1 \notin Pages(v) /\ r # v
    BY <1>5, <1>8, <1>9, <1>10, <1>14, AreaFields, SMT
  <2>2. View(map, p + 1).block = NULL
    BY <1>4, <2>1
  <2>3. r.block = NULL /\ r.permissions = {} /\ r.meminfo_state = "Free"
    BY <1>10, <2>2, FreeAreaBlank
  <2>4. CASE End(area) = End(v) /\ \A u \in map \ {v} : ~CanBeMergedWith(w, u)
    <3>1. p \in Pages(v) /\ r.base = p + 1
      <4>1. r = v \/ End(r) <= v.base \/ End(v) <= r.base
        BY <1>10 DEF Good, Tiles
      <4> QED  BY <1>5, <1>9, <1>10, <2>1, <2>4, <4>1, AreaFields, SMT
    <3>2. w.block = NULL
      BY <1>4, <3>1, SMT DEF PageOf
    <3>3. CanBeMergedWith(w, r)
      BY <1>8, <2>1, <2>3, <2>4, <3>1, <3>2 DEF CanBeMergedWith, IsFree
    <3> QED  BY <1>10, <2>1, <2>4, <3>3
  <2>5. ASSUME NEW u \in map \ {v}, End(area) = End(u)
        PROVE  FALSE
    <3>1. u \in Area /\ p \in Pages(u)
      BY <1>5, <1>9, <2>1, <2>5, AreaFields, SMT
    <3>2. l = u /\ p \notin Pages(v)
      BY <3>1, FindVMAUnique, SMT DEF l
    <3> QED  BY <1>5, <1>9, <1>11, <2>1, <2>5, <3>1, <3>2, AreaFields, SMTT(30)
  <2> QED  BY <1>2, <2>4, <2>5
<1>15. CASE p \notin Pages(area) /\ p + 1 \in Pages(area)
  <2>1. area.base = p + 1 /\ p \notin Pages(v) /\ l # v
    BY <1>5, <1>8, <1>9, <1>10, <1>15, AreaFields, SMT
  <2>2. View(map, p).block = NULL
    BY <1>4, <2>1
  <2>3. l.block = NULL /\ l.permissions = {} /\ l.meminfo_state = "Free"
    BY <1>10, <2>2, FreeAreaBlank
  <2>4. CASE area.base = v.base /\ \A u \in map \ {v} : ~CanBeMergedWith(u, w)
    <3>1. p + 1 \in Pages(v) /\ End(l) = p + 1
      <4>1. l = v \/ End(l) <= v.base \/ End(v) <= l.base
        BY <1>10 DEF Good, Tiles
      <4> QED  BY <1>5, <1>9, <1>10, <2>1, <2>4, <4>1, AreaFields, SMT
    <3>2. w.block = NULL
      BY <1>4, <3>1, SMT DEF PageOf
    <3>3. CanBeMergedWith(l, w)
      BY <2>1, <2>3, <2>4, <3>1, <3>2 DEF CanBeMergedWith, IsFree
    <3> QED  BY <1>10, <2>1, <2>4, <3>3
  <2>5. ASSUME NEW u \in map \ {v}, area.base = u.base
        PROVE  FALSE
    <3>1. u \in Area /\ p + 1 \in Pages(u)
      BY <1>5, <1>9, <2>1, <2>5, AreaFields, SMT
    <3>2. FindVMA(map, p + 1) = u /\ p + 1 \notin Pages(v)
      BY <3>1, FindVMAUnique, SMT
    <3>3. p + 1 \in Pages(l)
      BY <1>11, <2>1, <3>2
    <3>4. l = u
      BY <1>10, <3>2, <3>3, FindVMAUnique
    <3> QED  BY <1>9, <1>10, <2>1, <2>5, <3>1, <3>4, AreaFields, SMT
  <2> QED  BY <1>2, <2>4, <2>5
<1> QED  BY <1>12, <1>13, <1>14, <1>15

(* A split parts two pages only where it is made.                          *)
LEMMA SplitAtParts ==
  ASSUME NEW map, Good(map), NEW a \in Nat, NEW p \in Address, p + 1 \in Address,
         p + 1 \in Pages(FindVMA(map, p)), p + 1 # a
  PROVE  p + 1 \in Pages(FindVMA(SplitAt(map, a), p))
<1> DEFINE v == FindVMA(map, p)
           new == SplitAt(map, a)
<1>1. v \in map /\ v \in Area /\ p \in Pages(v) /\ p + 1 \in Pages(v) /\ p \in Nat
  BY FindVMAFound, MaxIsNat, SMT DEF Good, Address
<1>2. Good(new)
  BY SplitAtGood
<1> HIDE DEF v
<1>3. CASE new = map
  BY <1>3 DEF new
<1>4. ASSUME NEW z \in map, new = SplitVMA(map, z, a - z.base), z.base < a, a < End(z)
      PROVE  p + 1 \in Pages(FindVMA(new, p))
  <2> DEFINE left == [z EXCEPT !.size = a - z.base]
             right == [z EXCEPT !.base = @ + (a - z.base), !.size = @ - (a - z.base),
                                !.offset = IF IsFree(z) THEN @ ELSE @ + (a - z.base)]
  <2>1. z \in Area
    BY DEF Good
  <2>2. /\ left.base = z.base /\ left.size = a - z.base
        /\ right.base = z.base + (a - z.base) /\ right.size = z.size - (a - z.base)
    BY <2>1 DEF Area
  <2>3. left \in new /\ right \in new /\ \A u \in map : u # z => u \in new
    BY <1>4 DEF SplitVMA
  <2> HIDE DEF left, right, new
  <2>4. left \in Area /\ right \in Area
    BY <1>2, <2>3 DEF Good
  <2>5. \E u \in new : p \in Pages(u) /\ p + 1 \in Pages(u)
    <3>1. CASE v # z
      BY <1>1, <2>3, <3>1
    <3>2. CASE v = z /\ p < a
      <4>1. p \in Pages(left) /\ p + 1 \in Pages(left)
        BY <1>1, <2>1, <2>2, <2>4, <3>2, AreaFields, SMT
      <4> QED  BY <2>3, <4>1
    <3>3. CASE v = z /\ a <= p
      <4>1. p \in Pages(right) /\ p + 1 \in Pages(right)
        BY <1>1, <2>1, <2>2, <2>4, <3>3, AreaFields, SMT
      <4> QED  BY <2>3, <4>1
    <3> QED  BY <1>1, <3>1, <3>2, <3>3, SMT
  <2> QED  BY <1>2, <2>5, FindVMAUnique
<1>5. p + 1 \in Pages(FindVMA(new, p))
  <2> HIDE DEF new
  <2>1. \/ new = map
        \/ \E z \in map : new = SplitVMA(map, z, a - z.base) /\ z.base < a /\ a < End(z)
    BY SplitAtCases DEF new
  <2> QED  BY <1>3, <1>4, <2>1
<1> QED  BY <1>5

(* FreeMerged is FreeAreasMerged, said of pages.                           *)
LEMMA FreeMergedAreas ==
  ASSUME NEW map, Good(map), Blank(map)
  PROVE  FreeMerged(map) <=>
           \A v, w \in map : IsFree(v) /\ IsFree(w) => ~CanBeMergedWith(v, w)
<1>1. ASSUME FreeMerged(map), NEW v \in map, NEW w \in map, IsFree(v), IsFree(w),
             CanBeMergedWith(v, w)
      PROVE  FALSE
  <2> DEFINE p == End(v) - 1
  <2>1. v \in Area /\ w \in Area /\ End(v) = w.base
    BY <1>1 DEF Good, CanBeMergedWith
  <2>2. p \in Pages(v) /\ p + 1 \in Pages(w) /\ p + 1 \notin Pages(v) /\ p \in Int
    BY <2>1, AreaFields, SMT
  <2> HIDE DEF p
  <2>3. p \in Address /\ p + 1 \in Address
    BY <2>2, PagesManaged
  <2>4. FindVMA(map, p) = v /\ FindVMA(map, p + 1) = w
    BY <2>2, <2>3, FindVMAUnique
  <2>5. View(map, p).block = NULL /\ View(map, p + 1).block = NULL
    BY <1>1, <2>4 DEF View, PageOf, IsFree
  <2> QED  BY <1>1, <2>2, <2>3, <2>4, <2>5 DEF FreeMerged, FreeTogether
<1>2. ASSUME \A v, w \in map : IsFree(v) /\ IsFree(w) => ~CanBeMergedWith(v, w),
             NEW p \in Address, p + 1 \in Address,
             View(map, p).block = NULL, View(map, p + 1).block = NULL
      PROVE  p + 1 \in Pages(FindVMA(map, p))
  <2> DEFINE l == FindVMA(map, p)
             r == FindVMA(map, p + 1)
  <2>1. /\ l \in map /\ l \in Area /\ p \in Pages(l)
        /\ r \in map /\ r \in Area /\ p + 1 \in Pages(r) /\ p \in Nat
    BY <1>2, FindVMAFound, MaxIsNat, SMT DEF Good, Address
  <2> HIDE DEF l, r
  <2>2. /\ l.block = NULL /\ l.permissions = {} /\ l.meminfo_state = "Free"
        /\ r.block = NULL /\ r.permissions = {} /\ r.meminfo_state = "Free"
    BY <1>2, <2>1, FreeAreaBlank
  <2>3. End(l) # r.base
    BY <1>2, <2>1, <2>2 DEF CanBeMergedWith, IsFree
  <2>4. l = r \/ End(l) <= r.base \/ End(r) <= l.base
    BY <2>1 DEF Good, Tiles
  <2>5. p + 1 \in Pages(l)
    BY <2>1, <2>3, <2>4, AreaFields, SMT
  <2> QED  BY <2>5 DEF l
<1> QED  BY <1>1, <1>2 DEF FreeMerged, FreeTogether

AreasOK(map, table) ==
    Good(map) /\ Blank(map) /\ FreeMerged(map) /\ Current(map, table)

(* Entering an area that has been merged into the map.                     *)
LEMMA UpdateCurrent ==
  ASSUME NEW map, Good(map), NEW v \in map, NEW w \in Area,
         w.base = v.base, w.size = v.size,
         NEW table, Current(map, table)
  PROVE  Current(MergeAdjacent(map, v, w), UpdatePageTableForVMA(table, w))
<1>1. Pages(w) = Pages(v)
  BY DEF Pages
<1> DEFINE new == MergeAdjacent(map, v, w)
<1>2. \A p \in Address : View(new, p) =
        IF p \in Pages(v) THEN PageOf(w, p) ELSE View(map, p)
  <2>1. MergesInto(map, v, w, new)
    BY MergeGood
  <2> QED  BY <2>1 DEF MergesInto
<1> HIDE DEF new
<1>3. Current(new, UpdatePageTableForVMA(table, w))
  BY <1>1, <1>2, PointerOfPage DEF Current, UpdatePageTableForVMA
<1> QED  BY <1>3 DEF new

(* The loop changes an area into one of the same pages.                    *)
LEMMA ChangedArea ==
  ASSUME NEW v \in Area, NEW perms, perms = NULL \/ perms \in SUBSET ReadWrite
  PROVE  /\ Changed(v, perms) \in Area
         /\ Changed(v, perms).base = v.base /\ Changed(v, perms).size = v.size
<1>1. CASE perms = NULL
  BY <1>1 DEF Changed, FreeArea, Area, Block
<1>2. CASE perms # NULL
  BY <1>2 DEF Changed, Area
<1> QED  BY <1>1, <1>2

(* One turn of the range loop changes the area it is for, and goes on      *)
(* after the area that this one has become part of.                        *)
Turned(s, v, w, t) ==
    /\ v \in s.map /\ s.at \in Address /\ s.at \in Pages(v)
    /\ Good(t.map) /\ Current(t.map, t.table) /\ t.at \in Nat /\ t.at > s.at
    /\ \A p \in Address : View(t.map, p) =
         IF p \in Pages(v) THEN PageOf(w, p) ELSE View(s.map, p)
    /\ \E n \in t.map :
         /\ End(n) = t.at /\ Pages(v) \subseteq Pages(n)
         /\ \A p \in Pages(v) : FindVMA(t.map, p) = n
         /\ \A u \in s.map \ {v} : CanBeMergedWith(u, w) =>
              \A p \in Pages(u) : FindVMA(t.map, p) = n
         /\ \A u \in s.map : u.base >= End(n) => u \in t.map

(* A turn that is taken does what Turned says.                             *)
LEMMA TurnEffect ==
  ASSUME NEW s, Good(s.map), Current(s.map, s.table), s.at \in Nat,
         NEW end \in Nat, end <= MAX_ADDRESS, ~(s.at >= end),
         NEW perms, perms = NULL \/ perms \in SUBSET ReadWrite,
         NEW v, v = FindVMA(s.map, s.at), NEW t, t = Turn(s, end, perms)
  PROVE  Turned(s, v, Changed(v, perms), t)
<1> DEFINE w == Changed(v, perms)
           merged == MergeAdjacent(s.map, v, w)
           table == UpdatePageTableForVMA(s.table, w)
           n == FindVMA(merged, v.base)
<1>1. t = [map |-> merged, table |-> table, at |-> End(n)]
  BY DEF Turn, NextAt
<1>2. s.at \in Address
  BY MaxIsNat, SMT DEF Address
<1>3. v \in s.map /\ v \in Area /\ s.at \in Pages(v)
  BY <1>2, FindVMAFound DEF Good
<1>4. w \in Area /\ w.base = v.base /\ w.size = v.size
  BY <1>3, ChangedArea
<1> HIDE DEF w
<1>5. Current(merged, table)
  BY <1>3, <1>4, UpdateCurrent
<1>6. /\ Good(merged)
      /\ \A p \in Address : View(merged, p) =
           IF p \in Pages(v) THEN PageOf(w, p) ELSE View(s.map, p)
      /\ n \in merged
      /\ \A p \in Pages(v) : p \in Address /\ FindVMA(merged, p) = n
      /\ v.base \in Pages(v) /\ Pages(v) \subseteq Pages(n)
      /\ End(v) <= End(n)
      /\ \A u \in s.map \ {v} : CanBeMergedWith(u, w) =>
           \A p \in Pages(u) : FindVMA(merged, p) = n
      /\ \A u \in s.map : u.base >= End(n) => u \in merged
  <2>1. MergesInto(s.map, v, w, merged)
    BY <1>3, <1>4, MergeGood
  <2> QED  BY <2>1 DEF MergesInto
<1> HIDE DEF n, merged, table
<1>7. n \in Area
  BY <1>6 DEF Good
<1>8. End(n) \in Nat /\ End(n) > s.at
  BY <1>3, <1>6, <1>7, AreaFields, SMT
<1>9. t.map = merged /\ t.table = table /\ t.at = End(n)
  BY <1>1, SMT
<1> QED  BY <1>2, <1>3, <1>5, <1>6, <1>8, <1>9, SMT DEF Turned, w

(* A turn leaves free areas merged, if it does not reprotect one.          *)
LEMMA TurnFree ==
  ASSUME NEW s, Good(s.map), Blank(s.map), FreeMerged(s.map), s.at \in Nat,
         NEW end \in Nat, end <= MAX_ADDRESS, ~(s.at >= end),
         NEW perms, perms = NULL \/ perms \in SUBSET ReadWrite,
         NEW v, v = FindVMA(s.map, s.at), perms = NULL \/ v.block # NULL,
         NEW t, t = Turn(s, end, perms)
  PROVE  FreeMerged(t.map)
<1> DEFINE w == Changed(v, perms)
<1>1. t.map = MergeAdjacent(s.map, v, w)
  BY DEF Turn
<1>2. s.at \in Address
  BY MaxIsNat, SMT DEF Address
<1>3. v \in s.map /\ v \in Area
  BY <1>2, FindVMAFound DEF Good
<1>4. w \in Area /\ w.base = v.base /\ w.size = v.size
  BY <1>3, ChangedArea
<1>5. w.block = NULL => w.permissions = {} /\ w.meminfo_state = "Free"
  <2>1. CASE perms = NULL
    BY <2>1 DEF Changed, FreeArea
  <2>2. CASE perms # NULL
    BY <1>3, <2>2 DEF Changed, Area
  <2> QED  BY <2>1, <2>2
<1> HIDE DEF w
<1>6. FreeMerged(MergeAdjacent(s.map, v, w))
  BY <1>3, <1>4, <1>5, MergeFree DEF FreeMerged
<1> QED  BY <1>1, <1>6
-----------------------------------------------------------------------------
(* Induction over the naturals, for a set of them.                         *)
LEMMA SetInduction ==
  ASSUME NEW S, S \subseteq Nat, 0 \in S, \A n \in S : n + 1 \in S
  PROVE  S = Nat
<1> SUFFICES ASSUME Nat \ S # {} PROVE FALSE
  OBVIOUS
<1> DEFINE R == OpToRel(<, Nat)
<1>1. PICK x \in Nat \ S : \A y \in Nat \ S : ~(<<y, x>> \in R)
  <2>1. IsWellFoundedOn(R, Nat)
    BY NatLessThanWellFounded
  <2> HIDE DEF R
  <2>2. Nat \ S \subseteq Nat
    OBVIOUS
  <2> QED  BY <2>1, <2>2, WFMin
<1>2. x # 0 /\ x - 1 \in Nat /\ <<x - 1, x>> \in R
  BY SMT DEF OpToRel
<1>3. x - 1 \in S
  BY <1>1, <1>2
<1> QED  BY <1>3, SMT

(* The range loop begins with the carved range and takes one turn after    *)
(* the other; the recursive function of its definition exists.             *)
LEMMA LoopUnfolds ==
  ASSUME NEW map, NEW table, NEW target \in Nat, NEW size \in Nat, NEW perms
  PROVE  \E f :
           /\ f[0] = [map |-> CarveVMARange(map, target, size), table |-> table,
                      at |-> target]
           /\ \A n \in Nat : n < size => f[n + 1] = Turn(f[n], target + size, perms)
           /\ RangeLoop(map, table, target, size, perms) = f[size]
<1> DEFINE first == [map |-> CarveVMARange(map, target, size), table |-> table, at |-> target]
           IsLoop(f, n) == f = [k \in 0 .. n |-> IF k = 0 THEN first
                                              ELSE Turn(f[k - 1], target + size, perms)]
           S == {n \in Nat : \E f : IsLoop(f, n)}
<1> HIDE DEF first
<1>1. 0 \in S
  <2> IsLoop([k \in 0 .. 0 |-> first], 0)
    BY SMT
  <2> QED  OBVIOUS
<1>2. ASSUME NEW n \in S PROVE n + 1 \in S
  <2>1. PICK f : IsLoop(f, n)
    OBVIOUS
  <2> DEFINE g == [k \in 0 .. n + 1 |-> IF k <= n THEN f[k]
                                        ELSE Turn(f[n], target + size, perms)]
  <2>2. IsLoop(g, n + 1)
    <3>1. ASSUME NEW k \in 0 .. n + 1
          PROVE  g[k] = IF k = 0 THEN first ELSE Turn(g[k - 1], target + size, perms)
      <4>1. CASE k <= n
        BY <2>1, <4>1, SMT
      <4>2. CASE k = n + 1
        BY <2>1, <4>2, SMT
      <4> QED  BY <4>1, <4>2, SMT
    <3> QED  BY <3>1
  <2> HIDE DEF g
  <2> QED  BY <2>2, SMT
<1>3. S = Nat
  <2> HIDE DEF S
  <2>1. S \subseteq Nat
    BY DEF S
  <2> QED  BY <1>1, <1>2, <2>1, SetInduction
<1> DEFINE f == CHOOSE f : IsLoop(f, size)
<1>4. IsLoop(f, size)
  <2>1. \E g : IsLoop(g, size)
    BY <1>3
  <2> HIDE DEF IsLoop
  <2> QED  BY <2>1
<1>5. RangeLoop(map, table, target, size, perms) = f[size]
  BY DEF RangeLoop, first
<1> HIDE DEF f
<1>6. f[0] = first
  BY <1>4, SMT
<1>7. ASSUME NEW n \in Nat, n < size PROVE f[n + 1] = Turn(f[n], target + size, perms)
  <2>1. n + 1 \in 0 .. size /\ n + 1 # 0 /\ (n + 1) - 1 = n
    BY <1>7, SMT
  <2> QED  BY <1>4, <2>1
<1> QED  BY <1>5, <1>6, <1>7 DEF first

(* Where an area ends, the next one begins.                                *)
LEMMA BeginsAfter ==
  ASSUME NEW map, Good(map), NEW v \in map, End(v) < MAX_ADDRESS
  PROVE  \E u \in map : u.base = End(v)
<1>1. v \in Area
  BY DEF Good
<1>2. End(v) \in Address
  BY <1>1, AreaFields, MaxIsNat, SMT DEF Address
<1>3. PICK u \in map : End(v) \in Pages(u)
  BY <1>2 DEF Good, Tiles
<1>4. u \in Area /\ (u = v \/ End(u) <= v.base \/ End(v) <= u.base)
  BY <1>3 DEF Good, Tiles
<1>5. u.base = End(v)
  BY <1>1, <1>3, <1>4, AreaFields, SMT
<1> QED  BY <1>3, <1>5

Begins(map, a) == \E u \in map : u.base = a

(* A split leaves areas that begin where they did, and one that begins     *)
(* where it was made.                                                      *)
LEMMA SplitAtKeepsBegins ==
  ASSUME NEW map, Good(map), NEW a \in Nat
  PROVE  /\ \A b : Begins(map, b) => Begins(SplitAt(map, a), b)
         /\ a < MAX_ADDRESS => Begins(SplitAt(map, a), a)
<1>1. ASSUME NEW u \in map PROVE Begins(SplitAt(map, a), u.base)
  <2>1. CASE SplitAt(map, a) = map
    BY <2>1 DEF Begins
  <2>2. ASSUME NEW v \in map, SplitAt(map, a) = SplitVMA(map, v, a - v.base)
        PROVE  Begins(SplitAt(map, a), u.base)
    <3>1. CASE u # v
      BY <2>2, <3>1 DEF Begins, SplitVMA
    <3>2. CASE u = v
      <4> DEFINE l == [v EXCEPT !.size = a - v.base]
      <4>1. v \in Area
        BY DEF Good
      <4>2. l.base = v.base
        BY <4>1 DEF Area
      <4>3. l \in SplitAt(map, a)
        BY <2>2 DEF SplitVMA
      <4> HIDE DEF l
      <4> QED  BY <3>2, <4>2, <4>3 DEF Begins
    <3> QED  BY <3>1, <3>2
  <2> QED  BY <2>1, <2>2, SplitAtCases
<1>2. ASSUME a < MAX_ADDRESS PROVE Begins(SplitAt(map, a), a)
  <2>1. a \in Address
    BY <1>2, MaxIsNat, SMT DEF Address
  <2>2. PICK v \in map : a \in Pages(v)
    BY <2>1 DEF Good, Tiles
  <2>3. v \in Area
    BY <2>2 DEF Good
  <2>4. v.base <= a /\ a < End(v)
    BY <2>2, <2>3, AreaFields
  <2> QED  BY <2>2, <2>4, SplitAtBegins DEF Begins
<1> QED  BY <1>1, <1>2 DEF Begins

(* What the loop does to the pages, in the range only: unmapping frees     *)
(* them, and reprotecting changes their permissions.                       *)
OnlyPermissions(x, y) ==
    x.block = y.block /\ x.index = y.index /\ x.meminfo_state = y.meminfo_state

Unmapped(map, new, target, end) ==
    \A p \in Address :
       \/ View(new, p) = View(map, p)
       \/ target <= p /\ p < end /\ View(new, p).block = NULL

Reprotected(map, new, target, end) ==
    \A p \in Address :
       \/ View(new, p) = View(map, p)
       \/ target <= p /\ p < end /\ OnlyPermissions(View(map, p), View(new, p))

RangeMapped(map, target, end) ==
    \A p \in Address : target <= p /\ p < end => View(map, p).block # NULL

(* Until the loop gets to the end of the range, an area begins where it    *)
(* is, and one where the range ends.                                       *)
InRange(s, end) ==
    \/ s.at >= end
    \/ Begins(s.map, s.at) /\ (end = MAX_ADDRESS \/ Begins(s.map, end))

(* A turn is for one whole area of the range.                              *)
LEMMA TurnInRange ==
  ASSUME NEW s, Good(s.map), s.at \in Nat, NEW end \in Nat, end <= MAX_ADDRESS,
         ~(s.at >= end), InRange(s, end), NEW v, v = FindVMA(s.map, s.at)
  PROVE  v.base = s.at /\ End(v) <= end
<1>0. Begins(s.map, s.at) /\ (end = MAX_ADDRESS \/ Begins(s.map, end))
  BY DEF InRange
<1>1. s.at \in Address
  BY MaxIsNat, SMT DEF Address
<1>2. v \in s.map /\ v \in Area /\ s.at \in Pages(v) /\ End(v) <= MAX_ADDRESS
  BY <1>1, FindVMAFound DEF Good, Tiles
<1>3. PICK u \in s.map : u.base = s.at
  BY <1>0 DEF Begins
<1>4. u \in Area /\ (u = v \/ End(u) <= v.base \/ End(v) <= u.base)
  BY <1>2, <1>3 DEF Good, Tiles
<1>5. v.base = s.at
  BY <1>2, <1>3, <1>4, AreaFields, SMT
<1>6. CASE end = MAX_ADDRESS
  BY <1>2, <1>5, <1>6
<1>7. CASE Begins(s.map, end)
  <2>1. PICK x \in s.map : x.base = end
    BY <1>7 DEF Begins
  <2>2. x \in Area /\ (x = v \/ End(x) <= v.base \/ End(v) <= x.base)
    BY <1>2, <2>1 DEF Good, Tiles
  <2>3. End(v) <= end
    BY <1>2, <1>5, <2>1, <2>2, AreaFields, SMT
  <2> QED  BY <1>5, <2>3
<1> QED  BY <1>0, <1>6, <1>7

(* The next turn is in the range too.                                      *)
LEMMA TurnStaysInRange ==
  ASSUME NEW s, NEW end \in Nat, end <= MAX_ADDRESS, ~(s.at >= end), InRange(s, end),
         NEW v, NEW w, NEW t, Turned(s, v, w, t)
  PROVE  InRange(t, end)
<1> SUFFICES ASSUME ~(t.at >= end)
             PROVE  Begins(t.map, t.at) /\ (end = MAX_ADDRESS \/ Begins(t.map, end))
  BY DEF InRange
<1>0. end = MAX_ADDRESS \/ Begins(s.map, end)
  BY DEF InRange
<1>1. Good(t.map) /\ t.at \in Nat
  BY DEF Turned
<1>2. PICK n \in t.map : End(n) = t.at /\ \A u \in s.map : u.base >= End(n) => u \in t.map
  BY DEF Turned
<1>3. Begins(t.map, t.at)
  BY <1>1, <1>2, BeginsAfter, MaxIsNat, SMT DEF Begins
<1>4. CASE Begins(s.map, end)
  <2>1. PICK x \in s.map : x.base = end
    BY <1>4 DEF Begins
  <2>2. x \in t.map
    BY <1>1, <1>2, <2>1, SMTT(30)
  <2> QED  BY <1>3, <2>1, <2>2 DEF Begins
<1> QED  BY <1>0, <1>3, <1>4

(* The invariant of the loop that unmaps: what it has passed is one free   *)
(* area.                                                                   *)
UnmapInv(s, map, target, end) ==
    /\ AreasOK(s.map, s.table) /\ s.at \in Nat /\ target <= s.at
    /\ Unmapped(map, s.map, target, end) /\ InRange(s, end)
    /\ s.at > target => /\ FindVMA(s.map, target).block = NULL
                        /\ End(FindVMA(s.map, target)) = s.at

(* A turn of the loop that unmaps frees the area it is at, and merges it   *)
(* with what the loop has passed.                                          *)
LEMMA UnmapTurn ==
  ASSUME NEW map, NEW target \in Address, NEW s,
         NEW end \in Nat, end <= MAX_ADDRESS, UnmapInv(s, map, target, end), ~(s.at >= end),
         NEW t, t = Turn(s, end, NULL)
  PROVE  UnmapInv(t, map, target, end) /\ t.at > s.at
<1>0. /\ Good(s.map) /\ Blank(s.map) /\ FreeMerged(s.map) /\ Current(s.map, s.table)
      /\ s.at \in Nat /\ InRange(s, end)
  BY DEF UnmapInv, AreasOK
<1> DEFINE v == FindVMA(s.map, s.at)
           w == Changed(v, NULL)
<1>1. Turned(s, v, w, t)
  BY <1>0, TurnEffect
<1>21. /\ v \in s.map /\ s.at \in Address /\ s.at \in Pages(v)
       /\ Good(t.map) /\ Current(t.map, t.table) /\ t.at \in Nat /\ t.at > s.at
       /\ \A p \in Address : View(t.map, p) =
            IF p \in Pages(v) THEN PageOf(w, p) ELSE View(s.map, p)
       /\ \E n \in t.map :
            /\ End(n) = t.at /\ Pages(v) \subseteq Pages(n)
            /\ \A p \in Pages(v) : FindVMA(t.map, p) = n
            /\ \A u \in s.map \ {v} : CanBeMergedWith(u, w) =>
                 \A p \in Pages(u) : FindVMA(t.map, p) = n
            /\ \A u \in s.map : u.base >= End(n) => u \in t.map
  BY <1>1 DEF Turned
<1>2. PICK n \in t.map :
           /\ End(n) = t.at /\ Pages(v) \subseteq Pages(n)
           /\ \A p \in Pages(v) : FindVMA(t.map, p) = n
           /\ \A u \in s.map \ {v} : CanBeMergedWith(u, w) =>
                \A p \in Pages(u) : FindVMA(t.map, p) = n
  BY <1>21
<1>3. /\ w.base = v.base /\ w.block = NULL /\ w.permissions = {}
      /\ w.meminfo_state = "Free"
  BY DEF Changed, FreeArea
<1>11. FreeMerged(t.map)
  BY <1>0, TurnFree
<1>12. InRange(t, end)
  BY <1>0, <1>1, TurnStaysInRange
<1>13. v.base = s.at /\ End(v) <= end
  BY <1>0, TurnInRange
<1> HIDE DEF v, w
<1>4. \A p : /\ PageOf(w, p).block = NULL /\ PageOf(w, p).permissions = {}
             /\ PageOf(w, p).meminfo_state = "Free"
  BY <1>3 DEF PageOf
<1>5. Blank(t.map)
  BY <1>0, <1>21, <1>4, SMTT(30) DEF Blank
<1>7. target <= s.at /\ v \in Area /\ target \in Nat
  BY <1>0, <1>21, MaxIsNat, SMTT(30) DEF UnmapInv, Good, Address
<1>14. ASSUME NEW p \in Pages(v) PROVE target <= p /\ p < end
  BY <1>0, <1>7, <1>13, <1>14, AreaFields, SMT
<1>6. Unmapped(map, t.map, target, end)
  BY <1>21, <1>4, <1>14 DEF UnmapInv, Unmapped
<1>8. FindVMA(t.map, target) = n
  <2>1. CASE s.at = target
    BY <1>21, <1>2, <2>1
  <2>2. CASE s.at > target
    <3> DEFINE f == FindVMA(s.map, target)
    <3>1. f \in s.map /\ target \in Pages(f) /\ f.block = NULL /\ End(f) = s.at
      BY <1>0, <2>2, FindVMAFound DEF UnmapInv
    <3>2. f.permissions = {} /\ f.meminfo_state = "Free"
      <4>1. View(s.map, target) = PageOf(f, target)
        BY DEF View
      <4> HIDE DEF f
      <4>2. View(s.map, target).block = NULL
        BY <3>1, <4>1, SMT DEF PageOf
      <4> QED  BY <1>0, <4>1, <4>2, SMT DEF Blank, PageOf
    <3> HIDE DEF f
    <3>3. f \in Area /\ (f = v \/ End(f) <= v.base \/ End(v) <= f.base)
      BY <1>0, <1>21, <3>1 DEF Good, Tiles
    <3>4. f # v /\ v.base = s.at
      BY <1>21, <1>7, <2>2, <3>1, <3>3, AreaFields, SMT
    <3>5. CanBeMergedWith(f, w)
      BY <1>3, <3>1, <3>2, <3>4 DEF CanBeMergedWith, IsFree
    <3> QED  BY <1>2, <3>1, <3>4, <3>5
  <2> QED  BY <1>0, <1>7, <2>1, <2>2, SMT
<1>9. n.block = NULL
  <2>1. FindVMA(t.map, s.at) = n
    BY <1>21, <1>2
  <2>2. View(t.map, s.at) = PageOf(n, s.at)
    BY <2>1 DEF View
  <2>3. View(t.map, s.at).block = NULL
    BY <1>21, <1>4
  <2> QED  BY <2>2, <2>3, SMT DEF PageOf
<1>10. target <= t.at
  BY <1>0, <1>21, <1>7, SMT
<1> QED  BY <1>21, <1>2, <1>5, <1>6, <1>8, <1>9, <1>10, <1>11, <1>12, SMT DEF UnmapInv, AreasOK

(* The invariant of the loop that reprotects.                              *)
ReprotectInv(s, map, target, end) ==
    /\ AreasOK(s.map, s.table) /\ s.at \in Nat /\ target <= s.at
    /\ Reprotected(map, s.map, target, end) /\ InRange(s, end)

(* A turn of the loop that reprotects.                                     *)
LEMMA ReprotectTurn ==
  ASSUME NEW map, NEW target \in Address, NEW s,
         NEW end \in Nat, end <= MAX_ADDRESS, RangeMapped(map, target, end),
         ReprotectInv(s, map, target, end), ~(s.at >= end),
         NEW perms \in SUBSET ReadWrite, NEW t, t = Turn(s, end, perms)
  PROVE  ReprotectInv(t, map, target, end) /\ t.at > s.at
<1>0. /\ Good(s.map) /\ Blank(s.map) /\ FreeMerged(s.map) /\ Current(s.map, s.table)
      /\ s.at \in Nat /\ target <= s.at /\ target \in Nat
      /\ InRange(s, end)
  BY MaxIsNat, SMT DEF ReprotectInv, AreasOK, Address
<1> DEFINE v == FindVMA(s.map, s.at)
           w == Changed(v, perms)
<1>1. Turned(s, v, w, t)
  BY <1>0, TurnEffect
<1>21. /\ v \in s.map /\ s.at \in Address /\ s.at \in Pages(v)
       /\ Good(t.map) /\ Current(t.map, t.table) /\ t.at \in Nat /\ t.at > s.at
       /\ \A p \in Address : View(t.map, p) =
            IF p \in Pages(v) THEN PageOf(w, p) ELSE View(s.map, p)
       /\ \E n \in t.map :
            /\ End(n) = t.at /\ Pages(v) \subseteq Pages(n)
            /\ \A p \in Pages(v) : FindVMA(t.map, p) = n
            /\ \A u \in s.map \ {v} : CanBeMergedWith(u, w) =>
                 \A p \in Pages(u) : FindVMA(t.map, p) = n
            /\ \A u \in s.map : u.base >= End(n) => u \in t.map
  BY <1>1 DEF Turned
<1>2. InRange(t, end)
  BY <1>0, <1>1, TurnStaysInRange
<1>6. v.base = s.at /\ End(v) <= end
  BY <1>0, TurnInRange
<1>3. v \in Area
  BY <1>0, <1>21 DEF Good
<1>4. /\ w.base = v.base /\ w.block = v.block /\ w.offset = v.offset
      /\ w.meminfo_state = v.meminfo_state
  <2>1. perms # NULL
    BY LayoutFits
  <2>2. w = [v EXCEPT !.permissions = perms]
    BY <2>1 DEF Changed
  <2> HIDE DEF v, w
  <2> QED  BY <1>3, <2>2 DEF Area
<1> HIDE DEF v, w
<1>5. ASSUME NEW p \in Pages(v) PROVE p \in Address /\ View(s.map, p) = PageOf(v, p)
  <2>1. p \in Address
    BY <1>0, <1>21, PagesManaged
  <2>2. FindVMA(s.map, p) = v
    BY <1>0, <1>21, <2>1, FindVMAUnique, SMT
  <2> QED  BY <2>1, <2>2 DEF View
<1>7. ASSUME NEW p \in Pages(v) PROVE OnlyPermissions(View(s.map, p), PageOf(w, p))
  <2>1. View(s.map, p) = PageOf(v, p)
    BY <1>5
  <2>2. OnlyPermissions(PageOf(v, p), PageOf(w, p))
    BY <1>4 DEF OnlyPermissions, PageOf, IsFree
  <2> QED  BY <2>1, <2>2
<1>8. v.block # NULL
  <2>1. View(map, s.at).block # NULL
    BY <1>0, <1>21, SMT DEF RangeMapped
  <2>2. View(s.map, s.at).block = View(map, s.at).block
    BY <1>21 DEF ReprotectInv, Reprotected, OnlyPermissions
  <2>3. View(s.map, s.at) = PageOf(v, s.at)
    BY <1>21, <1>5
  <2> QED  BY <2>1, <2>2, <2>3, SMTT(30) DEF PageOf
<1>9. Blank(t.map)
  <2>1. \A p : PageOf(w, p).block # NULL
    BY <1>4, <1>8 DEF PageOf
  <2> QED  BY <1>0, <1>21, <2>1, SMT DEF Blank
<1>10. Reprotected(map, t.map, target, end)
  <2> SUFFICES ASSUME NEW p \in Address
               PROVE  \/ View(t.map, p) = View(map, p)
                      \/ /\ target <= p /\ p < end
                         /\ OnlyPermissions(View(map, p), View(t.map, p))
    BY DEF Reprotected
  <2>1. CASE p \notin Pages(v)
    BY <1>21, <2>1 DEF ReprotectInv, Reprotected
  <2>2. CASE p \in Pages(v)
    <3>1. target <= p /\ p < end
      BY <1>0, <1>3, <1>6, <2>2, AreaFields, SMT
    <3>2. OnlyPermissions(View(map, p), View(s.map, p))
      BY DEF ReprotectInv, Reprotected, OnlyPermissions
    <3>3. OnlyPermissions(View(s.map, p), View(t.map, p))
      BY <1>21, <1>7, <2>2
    <3> QED  BY <3>1, <3>2, <3>3 DEF OnlyPermissions
  <2> QED  BY <2>1, <2>2
<1>12. target <= t.at
  BY <1>0, <1>21, SMT
<1>13. FreeMerged(t.map)
  BY <1>0, <1>8, TurnFree DEF v
<1> QED  BY <1>2, <1>21, <1>9, <1>10, <1>12, <1>13 DEF ReprotectInv, AreasOK

(* The loop begins with the range carved out.                              *)
LEMMA CarvedOK ==
  ASSUME NEW map, NEW table, AreasOK(map, table), NEW target \in Nat, NEW size \in Nat,
         size > 0, target + size <= MAX_ADDRESS, RangeMapped(map, target, target + size),
         NEW new, new = CarveVMARange(map, target, size)
  PROVE  /\ AreasOK(new, table) /\ SameView(map, new)
         /\ Begins(new, target)
         /\ target + size = MAX_ADDRESS \/ Begins(new, target + size)
<1>1. Good(new) /\ SameView(map, new)
  BY CarveVMARangeGood DEF AreasOK
<1>2. Blank(new) /\ Current(new, table)
  BY <1>1 DEF AreasOK, SameView, Blank, Current
<1> DEFINE m == SplitAt(map, target)
<1>3. Good(m) /\ (target < MAX_ADDRESS => Begins(m, target))
  BY SplitAtGood, SplitAtKeepsBegins DEF AreasOK
<1>4. new = SplitAt(m, target + size)
  BY DEF CarveVMARange
<1> HIDE DEF m
<1>5. target < MAX_ADDRESS /\ target + size \in Nat
  BY MaxIsNat, SMT
<1>6. /\ Begins(m, target) => Begins(new, target)
      /\ target + size < MAX_ADDRESS => Begins(new, target + size)
  BY <1>3, <1>4, <1>5, SplitAtKeepsBegins
<1>7. FreeMerged(new)
  <2> SUFFICES ASSUME NEW p \in Address, p + 1 \in Address,
                      View(new, p).block = NULL, View(new, p + 1).block = NULL
               PROVE  p + 1 \in Pages(FindVMA(new, p))
    BY DEF FreeMerged, FreeTogether
  <2>1. View(map, p).block = NULL /\ View(map, p + 1).block = NULL
    BY <1>1 DEF SameView
  <2>2. p + 1 # target /\ p + 1 # target + size
    BY <2>1, MaxIsNat, SMT DEF RangeMapped, Address
  <2>3. p + 1 \in Pages(FindVMA(map, p))
    BY <2>1 DEF AreasOK, FreeMerged, FreeTogether
  <2>4. p + 1 \in Pages(FindVMA(m, p))
    BY <2>2, <2>3, SplitAtParts DEF m, AreasOK
  <2> QED  BY <1>3, <1>4, <1>5, <2>2, <2>4, SplitAtParts
<1> QED  BY <1>1, <1>2, <1>3, <1>5, <1>6, <1>7, MaxIsNat, SMT DEF AreasOK

(* UnmapRange: in the end one free area holds the whole range.             *)
LEMMA UnmapLoop ==
  ASSUME NEW map, NEW table, AreasOK(map, table),
         NEW target \in Nat, NEW size \in Nat, size > 0, target + size <= MAX_ADDRESS,
         RangeMapped(map, target, target + size),
         NEW done, done = RangeLoop(map, table, target, size, NULL)
  PROVE  UnmapInv(done, map, target, target + size) /\ done.at >= target + size
<1> DEFINE end == target + size
           first == [map |-> CarveVMARange(map, target, size), table |-> table,
                     at |-> target]
<1>1. PICK f :
        /\ f[0] = first
        /\ \A n \in Nat : n < size => f[n + 1] = Turn(f[n], end, NULL)
        /\ RangeLoop(map, table, target, size, NULL) = f[size]
  BY LoopUnfolds, SMT
<1>2. target \in Address /\ end \in Nat /\ end <= MAX_ADDRESS
  BY MaxIsNat, SMTT(30) DEF Address
<1>3. UnmapInv(first, map, target, end)
  <2>1. /\ AreasOK(first.map, first.table) /\ SameView(map, first.map)
        /\ Begins(first.map, target) /\ (end = MAX_ADDRESS \/ Begins(first.map, end))
    BY CarvedOK
  <2>2. first.at = target
    OBVIOUS
  <2> HIDE DEF first
  <2> QED  BY <2>1, <2>2, SMT DEF UnmapInv, Unmapped, SameView, InRange
<1> HIDE DEF first
<1> DEFINE Held(n) == UnmapInv(f[n], map, target, end)
                      /\ (f[n].at >= end \/ f[n].at >= target + n)
           S == {n \in Nat : n <= size => Held(n)}
<1>4. 0 \in S
  <2>1. f[0] = first /\ first.at = target
    BY <1>1 DEF first
  <2> QED  BY <1>3, <2>1, SMT
<1>5. ASSUME NEW n \in S PROVE n + 1 \in S
  <2>1. CASE n + 1 <= size
    <3>1. n < size /\ n <= size /\ n \in Nat
      BY <2>1, SMT
    <3>2. f[n + 1] = Turn(f[n], end, NULL)
      BY <1>1, <3>1
    <3>3. UnmapInv(f[n], map, target, end) /\ (f[n].at >= end \/ f[n].at >= target + n)
      BY <3>1
    <3>4. f[n].at \in Nat
      BY <3>3 DEF UnmapInv
    <3>5. CASE f[n].at >= end
      <4>1. f[n + 1] = f[n]
        BY <3>2, <3>5 DEF Turn
      <4>2. Held(n + 1)
        BY <3>3, <3>5, <4>1
      <4> QED  BY <3>1, <4>2, SMTT(30)
    <3>6. CASE ~(f[n].at >= end)
      <4>1. UnmapInv(f[n + 1], map, target, end) /\ f[n + 1].at > f[n].at
        BY <1>2, <3>2, <3>3, <3>6, UnmapTurn
      <4>2. f[n + 1].at \in Nat
        BY <4>1 DEF UnmapInv
      <4>3. f[n + 1].at >= target + (n + 1)
        BY <3>1, <3>3, <3>4, <3>6, <4>1, <4>2, SMTT(30)
      <4> QED  BY <4>1, <4>3, SMT
    <3> QED  BY <3>5, <3>6
  <2>2. CASE ~(n + 1 <= size)
    BY <2>2, SMT
  <2> QED  BY <2>1, <2>2
<1>6. S = Nat
  <2> HIDE DEF S
  <2>1. S \subseteq Nat
    BY DEF S
  <2> QED  BY <1>4, <1>5, <2>1, SetInduction
<1>7. UnmapInv(f[size], map, target, end) /\ f[size].at >= end
  BY <1>6, SMT
<1> QED  BY <1>1, <1>7

(* ReprotectRange: only permissions have changed, and only in the range.   *)
LEMMA ReprotectLoop ==
  ASSUME NEW map, NEW table, AreasOK(map, table),
         NEW target \in Nat, NEW size \in Nat, size > 0, target + size <= MAX_ADDRESS,
         NEW perms \in SUBSET ReadWrite,
         RangeMapped(map, target, target + size),
         NEW done, done = RangeLoop(map, table, target, size, perms)
  PROVE  ReprotectInv(done, map, target, target + size) /\ done.at >= target + size
<1> DEFINE end == target + size
           first == [map |-> CarveVMARange(map, target, size), table |-> table,
                     at |-> target]
<1>1. PICK f :
        /\ f[0] = first
        /\ \A n \in Nat : n < size => f[n + 1] = Turn(f[n], end, perms)
        /\ RangeLoop(map, table, target, size, perms) = f[size]
  BY LoopUnfolds, SMT
<1>2. target \in Address /\ end \in Nat /\ end <= MAX_ADDRESS
  BY MaxIsNat, SMT DEF Address
<1>3. ReprotectInv(first, map, target, end)
  <2>1. /\ AreasOK(first.map, first.table) /\ SameView(map, first.map)
        /\ Begins(first.map, target) /\ (end = MAX_ADDRESS \/ Begins(first.map, end))
    BY CarvedOK
  <2>2. first.at = target
    OBVIOUS
  <2> HIDE DEF first
  <2> QED  BY <2>1, <2>2, SMT DEF ReprotectInv, Reprotected, SameView, InRange
<1> HIDE DEF first
<1> DEFINE Held(n) == ReprotectInv(f[n], map, target, end)
                      /\ (f[n].at >= end \/ f[n].at >= target + n)
           S == {n \in Nat : n <= size => Held(n)}
<1>4. 0 \in S
  <2>1. f[0] = first /\ first.at = target
    BY <1>1 DEF first
  <2> QED  BY <1>3, <2>1, SMT
<1>5. ASSUME NEW n \in S PROVE n + 1 \in S
  <2>1. CASE n + 1 <= size
    <3>1. n < size /\ n <= size /\ n \in Nat
      BY <2>1, SMT
    <3>2. f[n + 1] = Turn(f[n], end, perms)
      BY <1>1, <3>1
    <3>3. ReprotectInv(f[n], map, target, end) /\ (f[n].at >= end \/ f[n].at >= target + n)
      BY <3>1
    <3>4. f[n].at \in Nat
      BY <3>3 DEF ReprotectInv
    <3>5. CASE f[n].at >= end
      <4>1. f[n + 1] = f[n]
        BY <3>2, <3>5 DEF Turn
      <4>2. Held(n + 1)
        BY <3>3, <3>5, <4>1
      <4> QED  BY <3>1, <4>2, SMTT(30)
    <3>6. CASE ~(f[n].at >= end)
      <4>1. ReprotectInv(f[n + 1], map, target, end) /\ f[n + 1].at > f[n].at
        BY <1>2, <3>2, <3>3, <3>6, ReprotectTurn
      <4>2. f[n + 1].at \in Nat
        BY <4>1 DEF ReprotectInv
      <4>3. f[n + 1].at >= target + (n + 1)
        BY <3>1, <3>3, <3>4, <3>6, <4>1, <4>2, SMTT(30)
      <4> QED  BY <4>1, <4>3, SMT
    <3> QED  BY <3>5, <3>6
  <2>2. CASE ~(n + 1 <= size)
    BY <2>2, SMT
  <2> QED  BY <2>1, <2>2
<1>6. S = Nat
  <2> HIDE DEF S
  <2>1. S \subseteq Nat
    BY DEF S
  <2> QED  BY <1>4, <1>5, <2>1, SetInduction
<1>7. ReprotectInv(f[size], map, target, end) /\ f[size].at >= end
  BY <1>6, SMT
<1> QED  BY <1>1, <1>7

(* A block that has moved is entered again wherever it is mapped.          *)
LEMMA RefreshCurrent ==
  ASSUME NEW map, Good(map), NEW table, Current(map, table),
         NEW block \in Block \ {NULL}
  PROVE  Current(map, RefreshMemoryBlockMappings(map, Moved(table, block), block))
<1> SUFFICES ASSUME NEW p \in Address
             PROVE  RefreshMemoryBlockMappings(map, Moved(table, block), block)[p]
                      = PointerAt(FindVMA(map, p), p)
  BY PointerOfPage DEF Current, View
<1> DEFINE v == FindVMA(map, p)
<1>1. table[p] = PointerAt(v, p)
  BY PointerOfPage DEF Current, View
<1>2. RefreshMemoryBlockMappings(map, Moved(table, block), block)[p] =
        IF v.block = block THEN PointerAt(v, p) ELSE Moved(table, block)[p]
  BY DEF RefreshMemoryBlockMappings
<1>3. Moved(table, block)[p] =
        IF table[p] # NULL /\ table[p].block = block THEN Dangling ELSE table[p]
  BY DEF Moved
<1> HIDE DEF v
<1>4. ASSUME v.block # block, table[p] # NULL PROVE table[p].block # block
  BY <1>1, <1>4, SMT DEF PointerAt
<1> QED  BY <1>1, <1>2, <1>3, <1>4 DEF v

(* In mapped the range from target has the pages of a, where map had none. *)
MapsBlock(map, target, size, block, mapped, a) ==
    /\ Good(mapped) /\ target \in Address /\ target + size <= MAX_ADDRESS
    /\ target \in Pages(a) /\ a.block = block /\ a.permissions = ReadWrite
    /\ \A p \in Pages(a) : View(map, p).block = NULL
    /\ Pages(a) \subseteq Pages(FindVMA(mapped, target))
    /\ \A p : p \in Pages(a) <=> p \in Int /\ target <= p /\ p < target + size
    /\ \A p \in Address : View(mapped, p) =
         IF p \in Pages(a) THEN PageOf(a, p) ELSE View(map, p)

(* MapMemoryBlock gives a range that was free an area that points into the *)
(* block.                                                                  *)
LEMMA MapMemoryBlockGood ==
  ASSUME NEW map, Good(map), NEW target \in Nat, NEW size \in Nat, size > 0,
         CanCarve(map, target, size),
         NEW block \in Block, NEW offset \in Nat,
         NEW state \in {"Free", "Locked", "Private", "Continuous", "Shared"},
         NEW mapped, mapped = MapMemoryBlock(map, target, block, offset, size, state),
         NEW a, a = Allocation(target, block, offset, size, state)
  PROVE  MapsBlock(map, target, size, block, mapped, a)
<1> DEFINE carved == CarveVMA(map, target, size)
           v == FindVMA(carved, target)
           free == FindVMA(map, target)
<1>1. /\ Good(carved) /\ SameView(map, carved) /\ target \in Address
      /\ v \in carved /\ v.base = target /\ v.size = size
  BY CarveVMAGood, SMT
<1>2. /\ a \in Area /\ a.base = target /\ a.size = size
      /\ a.block = block /\ a.permissions = ReadWrite
  BY SMT DEF Allocation, Area
<1>3. mapped = MergeAdjacent(carved, v, a)
  BY DEF MapMemoryBlock
<1>4. free \in map /\ target \in Pages(free) /\ free.block = NULL /\ target + size <= End(free)
  BY <1>1, FindVMAFound DEF CanCarve, IsFree
<1> HIDE DEF v, carved, free
<1>5. free \in Area /\ End(free) <= MAX_ADDRESS
  BY <1>4 DEF Good, Tiles
<1>6. \A p : p \in Pages(a) <=> p \in Int /\ target <= p /\ p < target + size
  <2>1. \A p : p \in Pages(a) <=> p \in Int /\ a.base <= p /\ p < a.base + a.size
    BY <1>2, AreaFields
  <2> QED  BY <1>2, <2>1
<1>7. ASSUME NEW p \in Pages(a) PROVE View(map, p).block = NULL
  <2>1. p \in Pages(free)
    BY <1>4, <1>5, <1>6, AreaFields, SMT
  <2>2. FindVMA(map, p) = free
    BY <1>4, <2>1, PagesManaged, FindVMAUnique
  <2> QED  BY <1>4, <2>2 DEF View, PageOf
<1>8. Pages(v) = Pages(a)
  BY <1>1, <1>2 DEF Pages
<1>9. /\ Good(mapped)
      /\ \A p \in Address : View(mapped, p) =
           IF p \in Pages(v) THEN PageOf(a, p) ELSE View(carved, p)
      /\ \A p \in Pages(v) : FindVMA(mapped, p) = FindVMA(mapped, v.base)
      /\ Pages(v) \subseteq Pages(FindVMA(mapped, v.base))
  <2>1. MergesInto(carved, v, a, mapped)
    BY <1>1, <1>2, <1>3, MergeGood
  <2> QED  BY <2>1 DEF MergesInto
<1>10. target \in Pages(a) /\ target + size <= MAX_ADDRESS
  BY <1>4, <1>5, <1>6, AreaFields, MaxIsNat, SMT
<1> QED  BY <1>1, <1>2, <1>6, <1>7, <1>8, <1>9, <1>10
        DEF SameView, MapsBlock

(* MapMemoryBlock parts free pages only at the ends of what it maps.       *)
LEMMA MapMemoryBlockFree ==
  ASSUME NEW map, Good(map), Blank(map), FreeMerged(map),
         NEW target \in Nat, NEW size \in Nat, size > 0, CanCarve(map, target, size),
         NEW block \in Block \ {NULL}, NEW offset \in Nat,
         NEW state \in {"Free", "Locked", "Private", "Continuous", "Shared"},
         NEW mapped, mapped = MapMemoryBlock(map, target, block, offset, size, state)
  PROVE  FreeMerged(mapped)
<1> DEFINE m == SplitAt(map, target + size)
           carved == CarveVMA(map, target, size)
           v == FindVMA(carved, target)
           a == Allocation(target, block, offset, size, state)
<1>1. /\ Good(carved) /\ SameView(map, carved) /\ target \in Address
      /\ v \in carved /\ v.base = target /\ v.size = size
  BY CarveVMAGood, SMT
<1>2. a \in Area /\ a.base = target /\ a.size = size /\ a.block # NULL
  BY SMT DEF Allocation, Area
<1>3. mapped = MergeAdjacent(carved, v, a)
  BY DEF MapMemoryBlock
<1>4. Good(m) /\ SameView(map, m) /\ carved = SplitAt(m, target)
  BY SplitAtGood, SMT DEF CarveVMA
<1>5. ASSUME NEW p \in Address, p + 1 \in Address, p + 1 \in Pages(FindVMA(map, p)),
             p + 1 # target + size, p + 1 # target
      PROVE  p + 1 \in Pages(FindVMA(carved, p))
  <2>1. p + 1 \in Pages(FindVMA(m, p))
    BY <1>5, SplitAtParts, SMT
  <2> HIDE DEF m
  <2> QED  BY <1>4, <1>5, <2>1, SplitAtParts
<1> HIDE DEF m, carved, v, a
<1>6. Blank(carved)
  BY <1>1 DEF SameView, Blank
<1>7. v \in Area
  BY <1>1 DEF Good
<1>8. ASSUME NEW p \in Address, p \notin Pages(v), p + 1 \notin Pages(v)
      PROVE  FreeTogether(carved, p)
  <2>1. p + 1 # target + size /\ p + 1 # target
    BY <1>1, <1>7, <1>8, AreaFields, MaxIsNat, SMT DEF Address
  <2>2. FreeTogether(map, p)
    BY DEF FreeMerged
  <2> QED  BY <1>1, <1>5, <2>1, <2>2 DEF FreeTogether, SameView
<1>9. FreeMerged(MergeAdjacent(carved, v, a))
  BY <1>1, <1>2, <1>6, <1>8, MergeFree
<1> QED  BY <1>3, <1>9

-----------------------------------------------------------------------------
(* The inductive invariant.                                                *)
IInv == TypeOK /\ AreasTile /\ FreeAreasMerged /\ PageTableCurrent /\ AssertionsExplained

SizesOK ==
    /\ {heap_start, heap_end, linheap_size} \subseteq Nat
    /\ heap_start <= heap_end
    /\ LinearHeapEnd <= LinearHeapLimit
    /\ shared \in [Shared -> {NULL} \cup SharedMemory]

(* The invariant speaks of the areas with their page table and of the rest *)
(* of the state apart.                                                     *)
LEMMA IInvParts ==
  IInv <=> AreasOK(vma_map, page_table) /\ SizesOK /\ AssertionsExplained
<1>1. ASSUME Good(vma_map), Current(vma_map, page_table), NEW p \in Address
      PROVE  page_table[p] \in {NULL} \cup [block : Block, index : Nat]
  <2> DEFINE v == FindVMA(vma_map, p)
  <2>1. v \in Area /\ p \in Pages(v)
    BY <1>1, FindVMAFound DEF Good
  <2>2. page_table[p] = PointerAt(v, p)
    BY <1>1, PointerOfPage DEF Current, View
  <2> HIDE DEF v
  <2>3. v.block \in Block /\ v.offset + p - v.base \in Nat
    BY <2>1, AreaFields, SMTT(30) DEF Area
  <2> QED  BY <2>2, <2>3, SMT DEF PointerAt
<1>2. ASSUME Good(vma_map), Blank(vma_map), NEW v \in vma_map, IsFree(v)
      PROVE  v.permissions = {} /\ v.meminfo_state = "Free"
  <2>1. v \in Area /\ v.base \in Pages(v)
    BY <1>2, AreaFields, SMT DEF Good
  <2>2. v.base \in Address
    BY <1>2, <2>1, PagesManaged
  <2>3. View(vma_map, v.base) = PageOf(v, v.base)
    BY <1>2, <2>1, <2>2, FindVMAUnique DEF View
  <2> QED  BY <1>2, <2>2, <2>3, SMT DEF Blank, PageOf, IsFree
<1>3. ASSUME Good(vma_map), NEW p \in Address,
             \A v \in vma_map : IsFree(v) => v.permissions = {} /\ v.meminfo_state = "Free",
             View(vma_map, p).block = NULL
      PROVE  View(vma_map, p).permissions = {} /\ View(vma_map, p).meminfo_state = "Free"
  BY <1>3, FindVMAFound DEF View, PageOf, IsFree
<1>4. PageTableCurrent <=> Current(vma_map, page_table)
  BY PointerOfPage DEF PageTableCurrent, Current, View
<1>5. ASSUME Good(vma_map), Blank(vma_map)
      PROVE  FreeAreasMerged <=> FreeMerged(vma_map)
  BY <1>5, FreeMergedAreas DEF FreeAreasMerged
<1>6. TypeOK /\ AreasTile => Good(vma_map) /\ Blank(vma_map)
  BY <1>3 DEF TypeOK, AreasTile, Good, Blank
<1>7. IInv => AreasOK(vma_map, page_table) /\ SizesOK /\ AssertionsExplained
  BY <1>4, <1>5, <1>6 DEF IInv, TypeOK, AreasOK, SizesOK
<1>8. AreasOK(vma_map, page_table) /\ SizesOK /\ AssertionsExplained => IInv
  BY <1>1, <1>2, <1>4, <1>5 DEF IInv, TypeOK, AreasTile, AreasOK, SizesOK, Good
<1> QED  BY <1>7, <1>8

(* The same after a step.                                                  *)
LEMMA IInvNext ==
  AreasOK(vma_map', page_table') /\ SizesOK' /\ AssertionsExplained' => IInv'
<1>1. AreasOK(vma_map, page_table)' /\ SizesOK' /\ AssertionsExplained' => IInv'
  BY IInvParts, PTL
<1> QED  BY <1>1

(* The inductive invariant holds of a process that has its stack only.     *)
LEMMA InitIInv == Init => IInv
<1> SUFFICES ASSUME Init PROVE AreasOK(vma_map, page_table) /\ SizesOK /\ AssertionsExplained
  BY IInvParts
<1> DEFINE a == FreeArea(0, StackArea.base)
           c == FreeArea(HEAP_VADDR_END, MAX_ADDRESS - HEAP_VADDR_END)
<1>1. /\ StackArea \in Area /\ StackArea.base = HEAP_VADDR_END - StackSize
      /\ StackArea.size = StackSize /\ StackArea.block = "stack"
  BY LayoutFits, SMTT(30) DEF StackArea, Allocation, Area, Block
<1>2. /\ a \in Area /\ a.base = 0 /\ a.size = HEAP_VADDR_END - StackSize /\ a.block = NULL
      /\ c \in Area /\ c.base = HEAP_VADDR_END
      /\ c.size = MAX_ADDRESS - HEAP_VADDR_END /\ c.block = NULL
  BY <1>1, LayoutFits, SMT DEF FreeArea, Area, Block
<1>3. vma_map = {a, StackArea, c}
  BY DEF Init
<1>4. page_table = UpdatePageTableForVMA([p \in Address |-> NULL], StackArea)
  BY DEF Init
<1>5. SizesOK
  BY LayoutFits, SMTT(30) DEF Init, SizesOK, LinearHeapEnd
<1> HIDE DEF a, c
<1>6. /\ \A p : p \in Pages(a) <=> p \in Int /\ 0 <= p /\ p < HEAP_VADDR_END - StackSize
      /\ \A p : p \in Pages(StackArea) <=> /\ p \in Int /\ HEAP_VADDR_END - StackSize <= p
                                           /\ p < HEAP_VADDR_END
      /\ \A p : p \in Pages(c) <=> p \in Int /\ HEAP_VADDR_END <= p /\ p < MAX_ADDRESS
      /\ End(a) = HEAP_VADDR_END - StackSize /\ End(StackArea) = HEAP_VADDR_END
      /\ End(c) = MAX_ADDRESS
  BY <1>1, <1>2, AreaFields, LayoutFits, SMT
<1>7. Good(vma_map)
  <2>1. vma_map \subseteq Area
    BY <1>1, <1>2, <1>3
  <2>2. ASSUME NEW v \in vma_map PROVE v.size > 0 /\ v.base >= 0 /\ End(v) <= MAX_ADDRESS
    BY <1>1, <1>2, <1>3, <1>6, LayoutFits, SMTT(30)
  <2>3. ASSUME NEW v \in vma_map, NEW w \in vma_map
        PROVE  v = w \/ End(v) <= w.base \/ End(w) <= v.base
    BY <1>1, <1>2, <1>3, <1>6, LayoutFits, SMTT(30)
  <2>4. ASSUME NEW p \in Address PROVE \E v \in vma_map : p \in Pages(v)
    BY <1>3, <1>6, LayoutFits, SMT DEF Address
  <2> QED  BY <2>1, <2>2, <2>3, <2>4 DEF Good, Tiles
<1>8. Current(vma_map, page_table)
  <2> SUFFICES ASSUME NEW p \in Address
               PROVE  page_table[p] = PointerAt(FindVMA(vma_map, p), p)
    BY PointerOfPage DEF Current, View
  <2>1. CASE p \in Pages(StackArea)
    <3>1. FindVMA(vma_map, p) = StackArea
      BY <2>1, <1>3, <1>7, FindVMAUnique
    <3> QED  BY <2>1, <3>1, <1>4 DEF UpdatePageTableForVMA
  <2>2. CASE p \notin Pages(StackArea)
    <3>1. FindVMA(vma_map, p) \in {a, c}
      BY <2>2, <1>3, <1>7, FindVMAFound, SMT
    <3>2. PointerAt(FindVMA(vma_map, p), p) = NULL
      BY <3>1, <1>2 DEF PointerAt, IsFree
    <3> QED  BY <2>2, <3>2, <1>4 DEF UpdatePageTableForVMA
  <2> QED  BY <2>1, <2>2
<1>9. Blank(vma_map)
  <2> SUFFICES ASSUME NEW p \in Address, View(vma_map, p).block = NULL
               PROVE  View(vma_map, p).permissions = {} /\ View(vma_map, p).meminfo_state = "Free"
    BY DEF Blank
  <2>1. FindVMA(vma_map, p) # StackArea
    BY <1>1, LayoutFits DEF View, PageOf
  <2>2. FindVMA(vma_map, p) \in {a, c}
    BY <2>1, <1>3, <1>7, FindVMAFound, SMT
  <2> QED  BY <2>2, SMT DEF View, PageOf, a, c, FreeArea
<1>10. AssertionsExplained
  BY DEF Init, AssertionsExplained
<1>11. FreeMerged(vma_map)
  <2>1. ASSUME NEW v \in vma_map, NEW w \in vma_map, IsFree(v), IsFree(w),
               CanBeMergedWith(v, w)
        PROVE  FALSE
    BY <2>1, <1>1, <1>2, <1>3, <1>6, LayoutFits, SMTT(30) DEF CanBeMergedWith, IsFree
  <2> QED  BY <1>7, <1>9, <2>1, FreeMergedAreas
<1> QED  BY <1>5, <1>7, <1>8, <1>9, <1>10, <1>11 DEF AreasOK

(* What a step may do to the pages: they stay, are mapped or unmapped, or  *)
(* get other permissions for one of the two reasons that                   *)
(* NeighboursKeepPermissions names.                                        *)
MayChangePermissions(p) ==
    \/ \E target \in ProtectAddresses, size \in Sizes, perms \in Permissions :
          p \in target .. target + size - 1 /\ Protect(target, size, perms)
    \/ /\ View(vma_map, p).permissions = ReadWrite
       /\ \E q \in Pages(FindVMA(vma_map', p)) : page_table[q] = NULL

(* A page of the heap or of the linear heap lies inside its block, here of *)
(* as many pages as the last two arguments say, and a page of the linear   *)
(* heap has the place in it that its address says.                         *)
Inside(page, p, heap, linear) ==
    /\ page.meminfo_state = "Private" => page.block = "heap" /\ page.index < heap
    /\ page.meminfo_state = "Continuous" =>
         page.block = "linear" /\ page.index = p - LinearHeapBase /\ page.index < linear

Effect ==
    \A p \in Address :
       \/ View(vma_map', p) = View(vma_map, p)
       \/ /\ View(vma_map, p).block = NULL
          /\ Inside(View(vma_map', p), p, heap_end' - heap_start', linheap_size')
       \/ View(vma_map', p).block = NULL
       \/ /\ OnlyPermissions(View(vma_map, p), View(vma_map', p))
          /\ MayChangePermissions(p)

(* The pages of a new area lie inside its block as the step leaves it.     *)
AllocationInside(target, block, offset, size, state) ==
    LET a == Allocation(target, block, offset, size, state)
    IN  \A p \in Pages(a) :
           Inside(PageOf(a, p), p, heap_end' - heap_start', linheap_size')

(* A step may also map or unmap the pages of one range, and no other.      *)
Mapped(map, p) == View(map, p).block # NULL

Gains(target, size) ==
    \A p \in Address :
       /\ target <= p /\ p < target + size => ~Mapped(vma_map, p) /\ Mapped(vma_map', p)
       /\ ~(target <= p /\ p < target + size) =>
            (Mapped(vma_map', p) <=> Mapped(vma_map, p))

Loses(target, size) ==
    \A p \in Address :
       /\ target <= p /\ p < target + size => Mapped(vma_map, p) /\ ~Mapped(vma_map', p)
       /\ ~(target <= p /\ p < target + size) =>
            (Mapped(vma_map', p) <=> Mapped(vma_map, p))

(* The heap's addresses, the stack's among them, are mapped as before.     *)
HeapRange == HEAP_VADDR .. HEAP_VADDR_END - 1

HeapKept == \A p \in HeapRange : Mapped(vma_map', p) <=> Mapped(vma_map, p)

(* A step that maps or unmaps a range elsewhere.                           *)
LEMMA KeptElsewhere ==
  ASSUME NEW target \in Nat, NEW size \in Nat,
         target + size <= HEAP_VADDR \/ HEAP_VADDR_END <= target,
         vma_map' = vma_map \/ Gains(target, size) \/ Loses(target, size)
  PROVE  HeapKept
<1>1. CASE vma_map' = vma_map
  BY <1>1 DEF HeapKept
<1>2. CASE Gains(target, size) \/ Loses(target, size)
  <2>1. ASSUME NEW p \in HeapRange
        PROVE  p \in Address /\ ~(target <= p /\ p < target + size)
    BY <2>1, LayoutFits, SMT DEF HeapRange, Address
  <2> QED  BY <1>2, <2>1 DEF HeapKept, Gains, Loses
<1> QED  BY <1>1, <1>2

(* An area of the heap whose end is not beyond the heap's.                 *)
LEMMA HeapAllocationInside ==
  ASSUME NEW target \in Nat, NEW offset \in Nat, NEW size \in Nat,
         NEW heap \in Int, heap_end' - heap_start' = heap, offset + size <= heap
  PROVE  AllocationInside(target, "heap", offset, size, "Private")
<1> DEFINE a == Allocation(target, "heap", offset, size, "Private")
<1> SUFFICES ASSUME NEW p \in Pages(a)
             PROVE  Inside(PageOf(a, p), p, heap, linheap_size')
  BY DEF AllocationInside
<1>1. a.base = target /\ a.size = size
  BY ZenonT(40) DEF Allocation
<1>2. /\ PageOf(a, p).meminfo_state = "Private" /\ PageOf(a, p).block = "heap"
      /\ PageOf(a, p).index = offset + p - target
  BY LayoutFits, SMT DEF PageOf, Allocation, IsFree
<1> HIDE DEF a
<1>3. p \in Int /\ p < target + size
  BY <1>1, SMT DEF Pages, End
<1>4. offset + p - target < heap
  BY <1>3, SMT
<1> QED  BY <1>2, <1>4 DEF Inside

(* The same of the linear heap, where the address says the place.          *)
LEMMA LinearAllocationInside ==
  ASSUME NEW target \in Nat, NEW size \in Nat, target - LinearHeapBase \in Nat,
         linheap_size' \in Nat, target - LinearHeapBase + size <= linheap_size'
  PROVE  AllocationInside(target, "linear", target - LinearHeapBase, size, "Continuous")
<1> DEFINE a == Allocation(target, "linear", target - LinearHeapBase, size, "Continuous")
<1> SUFFICES ASSUME NEW p \in Pages(a)
             PROVE  Inside(PageOf(a, p), p, heap_end' - heap_start', linheap_size')
  BY DEF AllocationInside
<1>1. a.base = target /\ a.size = size
  BY ZenonT(40) DEF Allocation
<1>2. /\ PageOf(a, p).meminfo_state = "Continuous" /\ PageOf(a, p).block = "linear"
      /\ PageOf(a, p).index = target - LinearHeapBase + p - target
  BY LayoutFits, SMT DEF PageOf, Allocation, IsFree
<1> HIDE DEF a
<1>3. p \in Int /\ p < target + size
  BY <1>1, SMTT(30) DEF Pages, End
<1>4. /\ target - LinearHeapBase + p - target = p - LinearHeapBase
      /\ p - LinearHeapBase < linheap_size'
  BY <1>3, LayoutFits, SMT
<1> QED  BY <1>2, <1>4 DEF Inside

(* What a step may do to the extents: the heap never shrinks, and the      *)
(* linear heap loses no page that is still mapped at its address.          *)
Extents ==
    /\ heap_end - heap_start <= heap_end' - heap_start'
    /\ \A p \in Address : LinearHeapBase + linheap_size' <= p /\ p < LinearHeapEnd
         => View(vma_map', p).block = NULL

(* A step that leaves the extents alone, or extends the linear heap.       *)
LEMMA ExtentsKept ==
  ASSUME SizesOK, UNCHANGED <<heap_start, heap_end>>, linheap_size' \in Nat,
         linheap_size <= linheap_size'
  PROVE  Extents
<1>1. heap_start \in Nat /\ heap_end \in Nat /\ linheap_size \in Nat
  BY DEF SizesOK
<1>2. heap_end - heap_start <= heap_end' - heap_start'
  BY <1>1, SMTT(30)
<1>3. ASSUME NEW p \in Address
      PROVE  ~(LinearHeapBase + linheap_size' <= p /\ p < LinearHeapEnd)
  BY <1>1, LayoutFits, SMT DEF LinearHeapEnd, Address
<1> QED  BY <1>2, <1>3 DEF Extents

(* The same, of a step that leaves all three alone.                        *)
LEMMA SameExtents ==
  ASSUME SizesOK, UNCHANGED <<heap_start, heap_end, linheap_size>>
  PROVE  Extents
<1>1. linheap_size' \in Nat /\ linheap_size <= linheap_size'
  BY SMTT(30) DEF SizesOK
<1> QED  BY <1>1, ExtentsKept

(* The heap grows to the left and to the right, from nothing at first.     *)
LEMMA HeapAllocateExtents ==
  ASSUME SizesOK, NEW target \in Nat, NEW size \in Nat, NEW perms,
         HeapAllocate(target, size, perms)
  PROVE  Extents
<1>1. /\ heap_start \in Nat /\ heap_end \in Nat /\ linheap_size \in Nat
      /\ heap_start <= heap_end
  BY DEF SizesOK
<1>2. /\ heap_start' = IF heap_end = 0 \/ target < heap_start THEN target ELSE heap_start
      /\ heap_end' = IF heap_end = 0 \/ target + size > heap_end
                     THEN target + size ELSE heap_end
      /\ linheap_size' = linheap_size
  BY DEF HeapAllocate
<1>3. heap_end - heap_start <= heap_end' - heap_start'
  BY <1>1, <1>2, SMTT(30)
<1>4. ASSUME NEW p \in Address
      PROVE  ~(LinearHeapBase + linheap_size' <= p /\ p < LinearHeapEnd)
  BY <1>1, <1>2, LayoutFits, SMTT(30) DEF LinearHeapEnd, Address
<1> QED  BY <1>3, <1>4 DEF Extents

(* Shared blocks stay out of the heap: they are mapped above its addresses *)
(* and, where address 0 is meant as such, end below them.                  *)
SharedOutsideHeap ==
    /\ \A address \in MapAddresses : address = 0 \/ HEAP_VADDR_END <= address
    /\ \A size \in SharedSizes : size <= HEAP_VADDR

SharedSized == \A s \in Shared : shared[s] # NULL => shared[s].size \in SharedSizes

(* What each step does to heap_used and to the pages it counts.            *)
UsedStep ==
    \/ HeapKept /\ heap_used' = heap_used
    \/ \E target, size \in Nat :
          /\ InHeap(target, size)
          /\ \/ Gains(target, size) /\ heap_used' = heap_used + size
             \/ Loses(target, size) /\ heap_used' = heap_used - size

UsedOK == SharedOutsideHeap /\ SharedSized => UsedStep /\ SharedSized'

(* A step that has no part in the heap and in shared blocks.               *)
LEMMA UsedUntouched ==
  ASSUME HeapKept, heap_used' = heap_used, shared' = shared
  PROVE  UsedOK
BY DEF UsedOK, UsedStep, SharedSized

(* A step that may create a shared block.                                  *)
LEMMA UsedCreates ==
  ASSUME SizesOK, vma_map' = vma_map, heap_used' = heap_used,
         NEW s \in Shared, NEW m, m.size \in SharedSizes,
         shared' = shared \/ shared' = [shared EXCEPT ![s] = m]
  PROVE  UsedOK
<1>1. HeapKept
  BY DEF HeapKept
<1>2. ASSUME NEW x \in Shared PROVE shared'[x] = shared[x] \/ shared'[x] = m
  BY <1>2 DEF SizesOK
<1> QED  BY <1>1, <1>2 DEF UsedOK, UsedStep, SharedSized

(* All that a step may do.                                                 *)
StepOK == IInv' /\ Effect /\ Extents /\ UsedOK

(* A step that leaves the areas alone may refresh the page table.          *)
LEMMA SameAreas ==
  ASSUME AreasOK(vma_map, page_table), NEW table, Current(vma_map, table),
         vma_map' = vma_map, page_table' = table
  PROVE  AreasOK(vma_map', page_table') /\ Effect /\ HeapKept
BY DEF AreasOK, Effect, HeapKept

(* A new mapping and the Reprotect after it, which may reach the pages     *)
(* that the new area was merged with.                                      *)
LEMMA MapAndReprotectOK ==
  ASSUME AreasOK(vma_map, page_table), NEW table, Current(vma_map, table),
         NEW target \in Nat, NEW size \in Nat, size > 0, CanCarve(vma_map, target, size),
         NEW block \in Block \ {NULL}, NEW offset \in Nat,
         NEW state \in {"Free", "Locked", "Private", "Continuous", "Shared"},
         NEW perms \in SUBSET ReadWrite,
         MapAndReprotect(table, target, block, offset, size, state, perms),
         AllocationInside(target, block, offset, size, state)
  PROVE  AreasOK(vma_map', page_table') /\ Effect /\ Gains(target, size)
<1> DEFINE mapped == MapMemoryBlock(vma_map, target, block, offset, size, state)
           a == Allocation(target, block, offset, size, state)
           v == FindVMA(mapped, target)
           w == [v EXCEPT !.permissions = perms]
           n == FindVMA(vma_map', v.base)
<1>1. /\ vma_map' = MergeAdjacent(mapped, v, w)
      /\ page_table' = UpdatePageTableForVMA(table, w)
  BY DEF MapAndReprotect
<1>0. /\ Good(vma_map) /\ Blank(vma_map) /\ FreeMerged(vma_map)
      /\ Current(vma_map, page_table)
  BY DEF AreasOK
<1>13. FreeMerged(mapped)
  BY <1>0, MapMemoryBlockFree
<1>14. /\ mapped = MapMemoryBlock(vma_map, target, block, offset, size, state)
       /\ a = Allocation(target, block, offset, size, state)
       /\ block \in Block
  OBVIOUS
<1> HIDE DEF mapped, a
<1>2. /\ Good(mapped) /\ target \in Address /\ target + size <= MAX_ADDRESS
      /\ target \in Pages(a) /\ a.block = block /\ a.permissions = ReadWrite
      /\ \A p \in Pages(a) : View(vma_map, p).block = NULL
      /\ Pages(a) \subseteq Pages(v)
      /\ \A p : p \in Pages(a) <=> p \in Int /\ target <= p /\ p < target + size
      /\ \A p \in Address : View(mapped, p) =
           IF p \in Pages(a) THEN PageOf(a, p) ELSE View(vma_map, p)
  <2>1. MapsBlock(vma_map, target, size, block, mapped, a)
    BY <1>0, <1>14, MapMemoryBlockGood
  <2> QED  BY <2>1 DEF MapsBlock
<1>3. v \in mapped /\ v \in Area /\ target \in Pages(v)
  BY <1>2, FindVMAFound DEF Good
<1>4. PageOf(v, target) = PageOf(a, target)
  BY <1>2 DEF View
<1> HIDE DEF v
<1>5. v.permissions = ReadWrite /\ v.block # NULL
  BY <1>2, <1>4 DEF PageOf
<1>6. /\ w \in Area /\ w.base = v.base /\ w.size = v.size /\ w.block = v.block
      /\ w.offset = v.offset /\ w.meminfo_state = v.meminfo_state
  BY <1>3 DEF Area
<1> HIDE DEF w
<1>7. /\ Good(vma_map')
      /\ \A p \in Address : View(vma_map', p) =
           IF p \in Pages(v) THEN PageOf(w, p) ELSE View(mapped, p)
      /\ \A p \in Pages(v) : p \in Address /\ FindVMA(vma_map', p) = n
      /\ Pages(v) \subseteq Pages(n)
  <2>1. MergesInto(mapped, v, w, vma_map')
    BY <1>1, <1>2, <1>3, <1>6, MergeGood
  <2> QED  BY <2>1 DEF MergesInto
<1> HIDE DEF n
<1>8. ASSUME NEW p \in Pages(v) PROVE View(mapped, p) = PageOf(v, p)
  BY <1>2, <1>3, <1>7, FindVMAUnique, ZenonT(40) DEF View
<1>10. Blank(vma_map')
  <2>1. \A p : PageOf(w, p).block # NULL
    BY <1>5, <1>6 DEF PageOf
  <2>2. \A p : PageOf(a, p).block # NULL
    BY <1>2 DEF PageOf
  <2> QED  BY <1>0, <1>2, <1>7, <2>1, <2>2 DEF Blank
<1>11. Current(vma_map', page_table')
  <2>1. Pages(w) = Pages(v)
    BY <1>6 DEF Pages
  <2> QED  BY <1>1, <1>2, <1>7, <2>1, PointerOfPage DEF Current, UpdatePageTableForVMA
<1>12. Effect
  <2> DEFINE Gained(p) == /\ View(vma_map, p).block = NULL
                          /\ Inside(View(vma_map', p), p, heap_end' - heap_start',
                                    linheap_size')
  <2>6. ASSUME NEW p \in Pages(a), p \in Address PROVE Gained(p)
    <3>1. p \in Pages(v) /\ PageOf(v, p) = PageOf(a, p)
      BY <1>2, <1>8, <2>6
    <3>4. OnlyPermissions(PageOf(v, p), PageOf(w, p))
      BY <1>6 DEF OnlyPermissions, PageOf, IsFree
    <3>2. OnlyPermissions(PageOf(a, p), View(vma_map', p))
      BY <1>7, <2>6, <3>1, <3>4
    <3>3. Inside(PageOf(a, p), p, heap_end' - heap_start', linheap_size')
      BY <1>14 DEF AllocationInside
    <3> QED  BY <1>2, <3>2, <3>3 DEF Inside, OnlyPermissions
  <2> SUFFICES ASSUME NEW p \in Address, p \notin Pages(a),
                      View(vma_map', p) # View(vma_map, p)
               PROVE  /\ OnlyPermissions(View(vma_map, p), View(vma_map', p))
                      /\ MayChangePermissions(p)
    BY <2>6 DEF Effect
  <2>1. p \notin Pages(a) /\ p \in Pages(v) /\ View(vma_map, p) = PageOf(v, p)
    BY <1>2, <1>7, <1>8
  <2>2. OnlyPermissions(PageOf(v, p), PageOf(w, p))
    BY <1>6 DEF OnlyPermissions, PageOf, IsFree
  <2>5. PageOf(v, p).permissions = v.permissions
    BY DEF PageOf
  <2>3. View(vma_map, p).permissions = ReadWrite
    BY <1>5, <2>1, <2>5
  <2>4. target \in Pages(FindVMA(vma_map', p)) /\ page_table[target] = NULL
    BY <1>0, <1>2, <1>3, <1>7, <2>1 DEF Current, Pointer
  <2> QED  BY <1>7, <2>1, <2>2, <2>3, <2>4 DEF MayChangePermissions
<1>15. FreeMerged(vma_map')
  <2>1. \A p : PageOf(a, p).block # NULL
    BY <1>2 DEF PageOf
  <2>2. Blank(mapped)
    BY <1>0, <1>2, <2>1 DEF Blank
  <2> QED  BY <1>1, <1>2, <1>3, <1>5, <1>6, <1>13, <2>2, MergeFree DEF FreeMerged
<1>16. Gains(target, size)
  <2>1. ASSUME NEW p \in Address
        PROVE  p \in Pages(a) <=> target <= p /\ p < target + size
    BY <1>2, <2>1, MaxIsNat, SMT DEF Address
  <2>2. \A p : PageOf(w, p).block # NULL /\ PageOf(v, p).block # NULL
    BY <1>5, <1>6 DEF PageOf
  <2>3. ASSUME NEW p \in Address, p \in Pages(a)
        PROVE  ~Mapped(vma_map, p) /\ Mapped(vma_map', p)
    BY <1>2, <1>7, <2>2, <2>3 DEF Mapped
  <2>4. ASSUME NEW p \in Address, p \notin Pages(a)
        PROVE  Mapped(vma_map', p) <=> Mapped(vma_map, p)
    BY <1>2, <1>7, <1>8, <2>2, <2>4, ZenonT(40) DEF Mapped
  <2> QED  BY <2>1, <2>3, <2>4 DEF Gains
<1> QED  BY <1>7, <1>10, <1>11, <1>12, <1>15, <1>16 DEF AreasOK

(* A failure that AssertionsExplained allows.                              *)
LEMMA FailExplained ==
  ASSUME NEW assertion, NEW size, Fail(assertion, size),
         \/ size = 0
         \/ assertion \in {"MapMemoryBlock", "SharedMemory::Create", "CarveVMARange"}
  PROVE  AssertionsExplained'
BY DEF Fail, AssertionsExplained

(* A step that trips no assertion keeps AssertionsExplained.               *)
LEMMA NoFailure ==
  ASSUME AssertionsExplained, failed' = failed \/ failed' = NULL
  PROVE  AssertionsExplained'
BY DEF AssertionsExplained

(* The four ways an allocation ends.                                       *)
LEMMA AllocateOK ==
  ASSUME AreasOK(vma_map, page_table), AssertionsExplained,
         NEW table, Current(vma_map, table),
         NEW target \in Nat, NEW size \in Nat,
         NEW block \in Block \ {NULL}, NEW offset \in Nat,
         NEW state \in {"Free", "Locked", "Private", "Continuous", "Shared"},
         NEW perms \in SUBSET ReadWrite,
         \/ Fail("MapMemoryBlock", size) /\ page_table' = table /\ UNCHANGED vma_map
         \/ page_table' = table /\ UNCHANGED <<vma_map, failed>>
         \/ /\ size = 0 /\ Fail("SplitVMA", size)
            /\ page_table' = table /\ UNCHANGED vma_map
         \/ /\ CanCarve(vma_map, target, size) /\ size > 0
            /\ MapAndReprotect(table, target, block, offset, size, state, perms)
            /\ AllocationInside(target, block, offset, size, state)
            /\ UNCHANGED failed
  PROVE  /\ AreasOK(vma_map', page_table') /\ Effect /\ AssertionsExplained'
         /\ vma_map' = vma_map \/ Gains(target, size)
<1>1. /\ AreasOK(vma_map', page_table') /\ Effect
      /\ vma_map' = vma_map \/ Gains(target, size)
  BY SameAreas, MapAndReprotectOK, SMT
<1>2. AssertionsExplained'
  BY FailExplained, NoFailure
<1> QED  BY <1>1, <1>2

(* Process::HeapAllocate, with the block that it may have to grow first.   *)
LEMMA HeapAllocateOK ==
  ASSUME IInv, NEW target \in Nat, NEW size \in Nat, NEW perms \in SUBSET ReadWrite,
         HeapAllocate(target, size, perms)
  PROVE  StepOK
<1> DEFINE first == heap_end = 0
           start == IF first \/ target < heap_start THEN target ELSE heap_start
           end == IF first \/ target + size > heap_end THEN target + size ELSE heap_end
           grown == ~first /\ (start # heap_start \/ end # heap_end)
           table == IF grown
                    THEN RefreshMemoryBlockMappings(vma_map, Moved(page_table, "heap"),
                                                    "heap")
                    ELSE page_table
<1>0. AreasOK(vma_map, page_table) /\ SizesOK /\ AssertionsExplained
  BY IInvParts
<1>1. /\ heap_start' = start /\ heap_end' = end /\ UNCHANGED <<linheap_size, shared>>
      /\ \/ Fail("MapMemoryBlock", size) /\ page_table' = table /\ UNCHANGED vma_map
         \/ page_table' = table /\ UNCHANGED <<vma_map, failed>>
         \/ /\ size = 0 /\ Fail("SplitVMA", size)
            /\ page_table' = table /\ UNCHANGED vma_map
         \/ /\ target - start + size <= end - start
            /\ CanCarve(vma_map, target, size) /\ size > 0
            /\ MapAndReprotect(table, target, "heap", target - start, size, "Private", perms)
            /\ UNCHANGED failed
  BY DEF HeapAllocate, Allocate
<1>2. start \in Nat /\ end \in Nat /\ start <= end /\ target - start \in Nat
  <2>1. heap_start \in Nat /\ heap_end \in Nat /\ heap_start <= heap_end
    BY <1>0 DEF SizesOK
  <2> QED  BY <2>1, SMT
<1>3. "heap" \in Block \ {NULL}
  BY LayoutFits DEF Block
<1>4. Current(vma_map, table)
  BY <1>0, <1>3, RefreshCurrent DEF AreasOK
<1>5. SizesOK'
  BY <1>0, <1>1, <1>2 DEF SizesOK, LinearHeapEnd
<1> HIDE DEF table, start, end, grown, first
<1>7. ASSUME target - start + size <= end - start
      PROVE  AllocationInside(target, "heap", target - start, size, "Private")
  <2>1. end - start \in Int
    BY <1>2, SMT
  <2>2. heap_end' - heap_start' = end - start
    BY <1>1
  <2> QED  BY <1>2, <1>7, <2>1, <2>2, HeapAllocationInside
<1>8. \/ Fail("MapMemoryBlock", size) /\ page_table' = table /\ UNCHANGED vma_map
      \/ page_table' = table /\ UNCHANGED <<vma_map, failed>>
      \/ /\ size = 0 /\ Fail("SplitVMA", size)
         /\ page_table' = table /\ UNCHANGED vma_map
      \/ /\ CanCarve(vma_map, target, size) /\ size > 0
         /\ MapAndReprotect(table, target, "heap", target - start, size, "Private", perms)
         /\ AllocationInside(target, "heap", target - start, size, "Private")
         /\ UNCHANGED failed
  BY <1>1, <1>7
<1>6. AreasOK(vma_map', page_table') /\ Effect /\ AssertionsExplained'
  BY <1>0, <1>2, <1>3, <1>4, <1>8, AllocateOK
<1>9. \/ vma_map' = vma_map /\ heap_used' = heap_used
      \/ Gains(target, size) /\ heap_used' = heap_used + size
  <2>1. \/ vma_map' = vma_map /\ heap_used' = heap_used
        \/ /\ target - start + size <= end - start
           /\ CanCarve(vma_map, target, size) /\ size > 0
           /\ MapAndReprotect(table, target, "heap", target - start, size, "Private", perms)
           /\ heap_used' = heap_used + size
    BY DEF HeapAllocate, Allocate, table, start, end, grown, first
  <2> QED  BY <1>0, <1>2, <1>3, <1>4, <1>7, <2>1, MapAndReprotectOK
<1>10. UsedOK
  <2>1. InHeap(target, size) /\ shared' = shared
    BY DEF HeapAllocate
  <2> QED  BY <1>9, <2>1 DEF UsedOK, UsedStep, SharedSized, HeapKept
<1>11. Extents
  BY <1>0, HeapAllocateExtents
<1> QED  BY <1>5, <1>6, <1>10, <1>11, IInvNext DEF StepOK

(* Process::LinearAllocate, with the linear heap that it may have to grow. *)
LEMMA LinearAllocateOK ==
  ASSUME IInv, NEW address \in Nat, NEW size \in Nat, NEW perms \in SUBSET ReadWrite,
         LinearAllocate(address, size, perms)
  PROVE  StepOK
<1> DEFINE target == IF address = 0 THEN LinearHeapEnd ELSE address
           grows == target = LinearHeapEnd
           table == IF grows
                    THEN RefreshMemoryBlockMappings(vma_map, Moved(page_table, "linear"),
                                                    "linear")
                    ELSE page_table
           length == IF grows THEN linheap_size + size ELSE linheap_size
<1>0. AreasOK(vma_map, page_table) /\ SizesOK /\ AssertionsExplained
  BY IInvParts
<1>1. /\ InLinear(target, size) /\ linheap_size' = length
      /\ UNCHANGED <<heap_start, heap_end, shared>>
      /\ \/ Fail("MapMemoryBlock", size) /\ page_table' = table /\ UNCHANGED vma_map
         \/ page_table' = table /\ UNCHANGED <<vma_map, failed>>
         \/ /\ size = 0 /\ Fail("SplitVMA", size)
            /\ page_table' = table /\ UNCHANGED vma_map
         \/ /\ target - LinearHeapBase + size <= length
            /\ CanCarve(vma_map, target, size) /\ size > 0
            /\ MapAndReprotect(table, target, "linear", target - LinearHeapBase, size,
                               "Continuous", perms)
            /\ UNCHANGED failed
  BY DEF LinearAllocate, Allocate, heapVars
<1>9. SizesOK /\ InLinear(target, size)
  BY <1>0, <1>1
<1>2. target \in Nat /\ target - LinearHeapBase \in Nat
  BY <1>9, LayoutFits, SMTT(30) DEF SizesOK, LinearHeapEnd, InLinear
<1>3. "linear" \in Block \ {NULL}
  BY LayoutFits DEF Block
<1>4. Current(vma_map, table)
  BY <1>0, <1>3, RefreshCurrent DEF AreasOK
<1>5. SizesOK'
  <2>1. linheap_size \in Nat /\ LinearHeapEnd <= LinearHeapLimit
    BY <1>9 DEF SizesOK
  <2>2. length \in Nat
    BY <2>1, SMT
  <2>3. LinearHeapBase + length <= LinearHeapLimit
    <3>1. CASE grows
      <4>1. LinearHeapEnd + size <= LinearHeapLimit
        BY <1>9, <3>1 DEF InLinear
      <4> QED  BY <2>1, <3>1, <4>1, LayoutFits, SMTT(30) DEF LinearHeapEnd
    <3>2. CASE ~grows
      BY <2>1, <3>2 DEF LinearHeapEnd
    <3> QED  BY <3>1, <3>2
  <2> HIDE DEF length
  <2> QED  BY <1>1, <1>9, <2>2, <2>3 DEF SizesOK, LinearHeapEnd
<1>10. HEAP_VADDR_END <= target
  BY <1>2, <1>9, LayoutFits, SMT DEF InLinear
<1>7. ASSUME target - LinearHeapBase + size <= length
      PROVE  AllocationInside(target, "linear", target - LinearHeapBase, size, "Continuous")
  <2>1. linheap_size' \in Nat
    BY <1>5 DEF SizesOK
  <2> QED  BY <1>1, <1>2, <1>7, <2>1, LinearAllocationInside
<1>13. Extents
  <2>1. linheap_size' \in Nat /\ linheap_size <= linheap_size'
    BY <1>0, <1>1, SMTT(30) DEF SizesOK
  <2> QED  BY <1>0, <1>1, <2>1, ExtentsKept
<1> HIDE DEF table, target, grows, length
<1>8. \/ Fail("MapMemoryBlock", size) /\ page_table' = table /\ UNCHANGED vma_map
      \/ page_table' = table /\ UNCHANGED <<vma_map, failed>>
      \/ /\ size = 0 /\ Fail("SplitVMA", size)
         /\ page_table' = table /\ UNCHANGED vma_map
      \/ /\ CanCarve(vma_map, target, size) /\ size > 0
         /\ MapAndReprotect(table, target, "linear", target - LinearHeapBase,
                            size, "Continuous", perms)
         /\ AllocationInside(target, "linear", target - LinearHeapBase, size, "Continuous")
         /\ UNCHANGED failed
  BY <1>1, <1>7
<1>6. /\ AreasOK(vma_map', page_table') /\ Effect /\ AssertionsExplained'
      /\ vma_map' = vma_map \/ Gains(target, size)
  BY <1>0, <1>2, <1>3, <1>4, <1>8, AllocateOK
<1>11. HeapKept
  BY <1>2, <1>6, <1>10, KeptElsewhere
<1>12. UsedOK
  BY <1>1, <1>11, UsedUntouched DEF LinearAllocate, heapVars
<1> QED  BY <1>5, <1>6, <1>12, <1>13, IInvNext DEF StepOK

-----------------------------------------------------------------------------
(* A range that is refused leaves everything as it was.                    *)
LEMMA RangeRefusedOK ==
  ASSUME AreasOK(vma_map, page_table), AssertionsExplained,
         NEW target, NEW size, RangeRefused(target, size)
  PROVE  AreasOK(vma_map', page_table') /\ Effect /\ AssertionsExplained'
<1>1. UNCHANGED <<vma_map, page_table>>
  BY DEF RangeRefused, areaVars
<1>2. AreasOK(vma_map', page_table') /\ Effect
  BY <1>1, SameAreas DEF AreasOK
<1>3. AssertionsExplained'
  BY FailExplained, NoFailure DEF RangeRefused
<1> QED  BY <1>2, <1>3

(* A range with no free area is mapped.                                    *)
LEMMA AcceptedRangeMapped ==
  ASSUME Good(vma_map), NEW target \in Nat, NEW size \in Nat,
         CanCarveRange(vma_map, target, size)
  PROVE  RangeMapped(vma_map, target, target + size)
<1> SUFFICES ASSUME NEW p \in Address, target <= p, p < target + size
             PROVE  View(vma_map, p).block # NULL
  BY DEF RangeMapped
<1> DEFINE v == FindVMA(vma_map, p)
<1>1. v \in vma_map /\ v \in Area /\ p \in Pages(v)
  BY FindVMAFound DEF Good
<1>2. View(vma_map, p).block = v.block
  BY DEF View, PageOf
<1> HIDE DEF v
<1>3. v.base < target + size /\ End(v) > target
  BY <1>1, AreaFields, SMT
<1> QED  BY <1>1, <1>2, <1>3 DEF CanCarveRange, IsFree

(* UnmapRange's last assertion holds: the loop has made the range part of  *)
(* one free area.                                                          *)
LEMMA UnmapOK ==
  ASSUME AreasOK(vma_map, page_table), AssertionsExplained,
         NEW target \in Nat, NEW size \in Nat, Unmap(target, size)
  PROVE  /\ AreasOK(vma_map', page_table') /\ Effect /\ AssertionsExplained'
         /\ Loses(target, size)
         /\ FindVMA(vma_map', target).block = NULL
         /\ End(FindVMA(vma_map', target)) >= target + size
<1> DEFINE done == RangeLoop(vma_map, page_table, target, size, NULL)
           v == FindVMA(done.map, target)
<1>1. /\ vma_map' = done.map /\ page_table' = done.table
      /\ size > 0 /\ target + size <= MAX_ADDRESS /\ CanCarveRange(vma_map, target, size)
      /\ IsFree(v) /\ v.size >= size => failed' = NULL
  BY DEF Unmap, UnmapRange, RangeAccepted
<1>10. RangeMapped(vma_map, target, target + size)
  BY <1>1, AcceptedRangeMapped DEF AreasOK
<1>2. UnmapInv(done, vma_map, target, target + size) /\ done.at >= target + size
  BY <1>1, <1>10, UnmapLoop
<1>3. target \in Address
  BY <1>1, MaxIsNat, SMT DEF Address
<1>4. v \in Area /\ target \in Pages(v)
  BY <1>2, <1>3, FindVMAFound, ZenonT(40) DEF UnmapInv, AreasOK, Good
<1>5. v.block = NULL /\ End(v) = done.at
  BY <1>1, <1>2, SMT DEF UnmapInv
<1>11. v = FindVMA(vma_map', target)
  BY <1>1
<1> HIDE DEF v, done
<1>6. IsFree(v) /\ v.size >= size
  BY <1>2, <1>4, <1>5, AreaFields, SMTT(30) DEF IsFree, UnmapInv
<1>7. AssertionsExplained'
  BY <1>1, <1>6, NoFailure
<1>8. AreasOK(vma_map', page_table')
  BY <1>1, <1>2 DEF UnmapInv
<1>9. Effect
  BY <1>1, <1>2 DEF UnmapInv, Unmapped, Effect
<1>12. Loses(target, size)
  <2>1. ASSUME NEW p \in Address, target <= p, p < target + size
        PROVE  Mapped(vma_map, p) /\ ~Mapped(vma_map', p)
    <3>1. p \in Pages(v)
      BY <1>2, <1>4, <1>5, <2>1, AreaFields, MaxIsNat, SMTT(30) DEF UnmapInv, Address
    <3>2. v \in vma_map' /\ Good(vma_map')
      BY <1>3, <1>8, <1>11, FindVMAFound DEF AreasOK
    <3>3. View(vma_map', p) = PageOf(v, p)
      BY <2>1, <3>1, <3>2, FindVMAUnique DEF View
    <3>4. PageOf(v, p).block = NULL
      BY <1>5 DEF PageOf
    <3> QED  BY <1>10, <2>1, <3>3, <3>4 DEF Mapped, RangeMapped
  <2>2. Unmapped(vma_map, vma_map', target, target + size)
    BY <1>1, <1>2 DEF UnmapInv
  <2> QED  BY <2>1, <2>2 DEF Loses, Unmapped, Mapped
<1> QED  BY <1>12, <1>2, <1>5, <1>7, <1>8, <1>9, <1>11

(* Process::HeapFree.                                                      *)
LEMMA HeapFreeOK ==
  ASSUME IInv, NEW target \in Nat, NEW size \in Nat, HeapFree(target, size)
  PROVE  StepOK
<1>0. AreasOK(vma_map, page_table) /\ SizesOK /\ AssertionsExplained
  BY IInvParts
<1>1. RangeRefused(target, size) \/ Unmap(target, size)
  BY DEF HeapFree
<1>2. AreasOK(vma_map', page_table') /\ Effect /\ AssertionsExplained'
  BY <1>0, <1>1, RangeRefusedOK, UnmapOK
<1>3. SizesOK'
  BY <1>0 DEF HeapFree, SizesOK, LinearHeapEnd
<1>4. \/ vma_map' = vma_map /\ heap_used' = heap_used
      \/ Loses(target, size) /\ heap_used' = heap_used - size
  BY <1>0, UnmapOK DEF HeapFree, RangeRefused, areaVars
<1>5. /\ InHeap(target, size)
      /\ UNCHANGED <<heap_start, heap_end, linheap_size, shared>>
  BY DEF HeapFree
<1>6. UsedOK
  BY <1>4, <1>5 DEF UsedOK, UsedStep, SharedSized, HeapKept
<1>7. Extents
  BY <1>0, <1>5, SameExtents
<1> QED  BY <1>2, <1>3, <1>6, <1>7, IInvNext DEF StepOK

(* The free area that LinearFree cuts the heap at begins below its end.    *)
LEMMA LinearFreeOK ==
  ASSUME IInv, NEW target \in Nat, NEW size \in Nat, LinearFree(target, size)
  PROVE  StepOK
<1>0. AreasOK(vma_map, page_table) /\ SizesOK /\ AssertionsExplained
  BY IInvParts
<1>1. /\ InLinear(target, size) /\ size > 0 /\ target + size <= LinearHeapEnd
      /\ UNCHANGED <<heap_start, heap_end, shared>>
      /\ \/ RangeRefused(target, size) /\ UNCHANGED linheap_size
         \/ /\ Unmap(target, size)
            /\ linheap_size' = FreedLinearSize(target + size, FindVMA(vma_map', target))
  BY DEF LinearFree, heapVars
<1>2. AreasOK(vma_map', page_table') /\ Effect /\ AssertionsExplained'
  BY <1>0, <1>1, RangeRefusedOK, UnmapOK
<1>3. linheap_size' \in Nat /\ linheap_size' <= linheap_size
  <2>1. CASE UNCHANGED linheap_size
    BY <2>1, <1>0, SMTT(30) DEF SizesOK
  <2>2. CASE linheap_size' = FreedLinearSize(target + size, FindVMA(vma_map', target))
    <3> DEFINE v == FindVMA(vma_map', target)
    <3>1. target \in Address
      BY <1>0, <1>1, LayoutFits, SMT DEF SizesOK, LinearHeapEnd, Address
    <3>2. v \in Area /\ target \in Pages(v)
      BY <1>2, <3>1, FindVMAFound DEF AreasOK, Good
    <3> HIDE DEF v
    <3>3. v.base \in Nat /\ v.base <= target
      BY <3>2, AreaFields
    <3>4. linheap_size' = FreedLinearSize(target + size, v)
      BY <2>2 DEF v
    <3> QED  BY <3>3, <3>4, <1>0, <1>1, LayoutFits, SMTT(30) DEF SizesOK, FreedLinearSize,
                LinearHeapEnd
  <2> QED  BY <1>1, <2>1, <2>2
<1>4. SizesOK'
  BY <1>0, <1>1, <1>3, LayoutFits, SMT DEF SizesOK, LinearHeapEnd
<1>5. HeapKept
  <2>1. vma_map' = vma_map \/ Loses(target, size)
    BY <1>0, <1>1, UnmapOK DEF RangeRefused, areaVars
  <2>2. HEAP_VADDR_END <= target
    BY <1>1, LayoutFits, SMT DEF InLinear
  <2> QED  BY <2>1, <2>2, KeptElsewhere
<1>6. UsedOK
  BY <1>1, <1>5, UsedUntouched DEF LinearFree, heapVars
<1>7. Extents
  <2>1. CASE linheap_size' = linheap_size
    BY <1>0, <1>1, <2>1, SameExtents
  <2>2. CASE /\ Unmap(target, size) /\ linheap_size' # linheap_size
             /\ linheap_size' = FreedLinearSize(target + size, FindVMA(vma_map', target))
    <3> DEFINE v == FindVMA(vma_map', target)
    <3>1. /\ Good(vma_map') /\ v.block = NULL /\ End(v) >= target + size
          /\ target + size <= MAX_ADDRESS
      BY <1>0, <2>2, UnmapOK DEF AreasOK, Unmap, RangeAccepted
    <3>2. target \in Address
      BY <1>1, <3>1, MaxIsNat, SMTT(30) DEF Address
    <3>3. v \in vma_map' /\ v \in Area
      BY <3>1, <3>2, FindVMAFound DEF Good
    <3>4. target + size = LinearHeapEnd /\ linheap_size' = v.base - LinearHeapBase
      BY <2>2 DEF FreedLinearSize
    <3> HIDE DEF v
    <3>5. ASSUME NEW p \in Address, LinearHeapBase + linheap_size' <= p, p < LinearHeapEnd
          PROVE  View(vma_map', p).block = NULL
      <4>1. p \in Pages(v)
        BY <3>1, <3>3, <3>4, <3>5, AreaFields, LayoutFits, SMTT(30) DEF Address
      <4>2. FindVMA(vma_map', p) = v
        BY <3>1, <3>3, <3>5, <4>1, FindVMAUnique
      <4> QED  BY <3>1, <4>2 DEF View, PageOf
    <3>6. heap_end - heap_start <= heap_end' - heap_start'
      BY <1>0, <1>1, SMTT(30) DEF SizesOK
    <3> QED  BY <3>5, <3>6 DEF Extents
  <2> QED  BY <1>1, <2>1, <2>2
<1> QED  BY <1>2, <1>4, <1>6, <1>7, IInvNext DEF StepOK

(* MEMOP_PROTECT changes permissions in the range that is asked for.       *)
LEMMA ProtectOK ==
  ASSUME IInv, NEW target \in ProtectAddresses, NEW size \in Sizes, NEW perms \in Permissions,
         Protect(target, size, perms)
  PROVE  StepOK
<1>0. /\ AreasOK(vma_map, page_table) /\ SizesOK /\ AssertionsExplained
      /\ Good(vma_map) /\ target \in Nat /\ size \in Nat /\ perms \in SUBSET ReadWrite
  <2>1. target \in Nat /\ size \in Nat /\ perms \in SUBSET ReadWrite
    BY LayoutFits, SMT DEF Address
  <2> QED
    BY <2>1, IInvParts DEF AreasOK
<1>6. HeapRange \subseteq Address
  BY LayoutFits, SMT DEF HeapRange, Address
<1> DEFINE done == RangeLoop(vma_map, page_table, target, size, perms)
<1>1. ASSUME RangeRefused(target, size)
      PROVE  AreasOK(vma_map', page_table') /\ Effect /\ AssertionsExplained' /\ HeapKept
  BY <1>0, <1>1, RangeRefusedOK DEF RangeRefused, areaVars, HeapKept
<1>2. ASSUME RangeAccepted(target, size), vma_map' = done.map, page_table' = done.table,
             UNCHANGED failed
      PROVE  AreasOK(vma_map', page_table') /\ Effect /\ AssertionsExplained' /\ HeapKept
  <2>1. RangeMapped(vma_map, target, target + size)
    BY <1>0, <1>2, AcceptedRangeMapped DEF RangeAccepted
  <2>2. ReprotectInv(done, vma_map, target, target + size)
    BY <1>0, <1>2, <2>1, ReprotectLoop DEF RangeAccepted
  <2> HIDE DEF done
  <2>3. AreasOK(vma_map', page_table') /\ Reprotected(vma_map, vma_map', target, target + size)
    BY <1>2, <2>2 DEF ReprotectInv
  <2>4. ASSUME NEW p \in Address, target <= p, p < target + size
        PROVE  MayChangePermissions(p)
    <3>1. p \in target .. target + size - 1
      BY <1>0, <2>4, MaxIsNat, SMT DEF Address
    <3> QED  BY <3>1 DEF MayChangePermissions
  <2>5. Effect
    BY <2>3, <2>4 DEF Effect, Reprotected
  <2>6. HeapKept
    BY <1>6, <2>3 DEF HeapKept, Mapped, Reprotected, OnlyPermissions
  <2> QED  BY <1>0, <1>2, <2>3, <2>5, <2>6, NoFailure
<1>3. AreasOK(vma_map', page_table') /\ Effect /\ AssertionsExplained' /\ HeapKept
  BY <1>1, <1>2 DEF Protect, ReprotectRange
<1>4. SizesOK'
  BY <1>0 DEF Protect, SizesOK, LinearHeapEnd, heapVars
<1>5. UsedOK /\ Extents
  BY <1>0, <1>3, UsedUntouched, SameExtents DEF Protect, heapVars
<1> QED  BY <1>3, <1>4, <1>5, IInvNext DEF StepOK

-----------------------------------------------------------------------------
(* SharedMemory::Create that takes its block from the end of the linear    *)
(* heap, which grows by it.                                                *)
LEMMA CreateFromLinearOK ==
  ASSUME IInv, NEW s \in Shared, NEW size \in SharedSizes, NEW perms \in SUBSET ReadWrite,
         CreateFromLinear(s, size, perms)
  PROVE  StepOK
<1>0. AreasOK(vma_map, page_table) /\ SizesOK /\ AssertionsExplained
  BY IInvParts
<1>1. "linear" \in Block \ {NULL}
  BY LayoutFits DEF Block
<1> DEFINE table == RefreshMemoryBlockMappings(vma_map, Moved(page_table, "linear"),
                                               "linear")
           m == [block |-> "linear", offset |-> linheap_size, size |-> size,
                 permissions |-> perms, base_address |-> 0]
<1>2. Current(vma_map, table)
  BY <1>0, <1>1, RefreshCurrent DEF AreasOK
<1>3. m \in SharedMemory
  BY <1>0, <1>1, LayoutFits DEF SizesOK, SharedMemory
<1>8. m.size = size /\ size \in Nat
  BY LayoutFits
<1>4. /\ UNCHANGED <<vma_map, heap_start, heap_end, heap_used>>
      /\ \/ Fail("SharedMemory::Create", size) /\ UNCHANGED <<page_table, linheap_size, shared>>
         \/ /\ UNCHANGED failed /\ LinearHeapEnd + size <= LinearHeapLimit
            /\ shared' = [shared EXCEPT ![s] = m]
            /\ linheap_size' = linheap_size + size /\ page_table' = table
  BY DEF CreateFromLinear, heapVars
<1> HIDE DEF table, m
<1>5. AreasOK(vma_map', page_table') /\ Effect /\ AssertionsExplained'
  <2>1. AreasOK(vma_map', page_table') /\ Effect
    BY <1>0, <1>2, <1>4, SameAreas DEF AreasOK
  <2> QED  BY <1>0, <1>4, <2>1, FailExplained, NoFailure
<1>6. shared' \in [Shared -> {NULL} \cup SharedMemory]
  BY <1>0, <1>3, <1>4 DEF SizesOK
<1>7. SizesOK'
  BY <1>0, <1>4, <1>6, <1>8, LayoutFits, SMTT(30) DEF SizesOK, LinearHeapEnd
<1>9. UsedOK
  BY <1>0, <1>4, <1>8, UsedCreates
<1>10. Extents
  <2>1. linheap_size' \in Nat /\ linheap_size <= linheap_size'
    BY <1>0, <1>4, <1>8, SMTT(30) DEF SizesOK
  <2> QED  BY <1>0, <1>4, <2>1, ExtentsKept, ZenonT(40)
<1> QED  BY <1>5, <1>7, <1>9, <1>10, IInvNext DEF StepOK

(* SharedMemory::Create over memory that the process has mapped.           *)
LEMMA CreateOverMappedOK ==
  ASSUME IInv, NEW s \in Shared, NEW address \in Address, NEW size \in SharedSizes,
         NEW perms \in SUBSET ReadWrite,
         CreateOverMapped(s, address, size, perms)
  PROVE  StepOK
<1>0. AreasOK(vma_map, page_table) /\ SizesOK /\ AssertionsExplained
  BY IInvParts
<1> DEFINE v == FindVMA(vma_map, address)
           m == [block |-> v.block, offset |-> v.offset + address - v.base,
                 size |-> size, permissions |-> perms, base_address |-> address]
<1>1. /\ UNCHANGED <<vma_map, page_table, heap_start, heap_end, heap_used, linheap_size>>
      /\ \/ Fail("SharedMemory::Create", size) /\ UNCHANGED shared
         \/ UNCHANGED failed /\ ~IsFree(v) /\ shared' = [shared EXCEPT ![s] = m]
  BY DEF CreateOverMapped, areaVars, heapVars
<1>2. v \in Area /\ address \in Pages(v)
  BY <1>0, FindVMAFound DEF AreasOK, Good
<1> HIDE DEF v
<1>3. ASSUME ~IsFree(v) PROVE m \in SharedMemory
  <2>1. v.block \in Block \ {NULL}
    BY <1>2, <1>3 DEF IsFree, Area
  <2>2. v.offset + address - v.base \in Nat /\ address \in Nat
    BY <1>2, AreaFields, MaxIsNat, SMT DEF Address
  <2> QED  BY <2>1, <2>2, LayoutFits DEF SharedMemory
<1>7. m.size = size
  OBVIOUS
<1> HIDE DEF m
<1>4. shared' \in [Shared -> {NULL} \cup SharedMemory]
  BY <1>0, <1>1, <1>3 DEF SizesOK
<1>5. SizesOK'
  BY <1>0, <1>1, <1>4 DEF SizesOK, LinearHeapEnd
<1>6. AreasOK(vma_map', page_table') /\ Effect /\ AssertionsExplained'
  <2>1. AreasOK(vma_map', page_table') /\ Effect
    BY <1>0, <1>1, SameAreas DEF AreasOK
  <2> QED  BY <1>0, <1>1, <2>1, FailExplained, NoFailure
<1>8. UsedOK /\ Extents
  BY <1>0, <1>1, <1>7, UsedCreates, SameExtents
<1> QED  BY <1>5, <1>6, <1>8, IInvNext DEF StepOK

(* SharedMemory::Map and Unmap compute an address.                         *)
LEMMA TargetAddressNat ==
  ASSUME SizesOK, NEW s \in Shared, shared[s] # NULL, NEW address \in Nat
  PROVE  /\ shared[s] \in SharedMemory
         /\ TargetAddress(s, address) \in Nat
<1>1. shared[s] \in SharedMemory
  BY DEF SizesOK
<1>2. shared[s].offset \in Nat
  BY <1>1 DEF SharedMemory
<1> QED  BY <1>1, <1>2, LayoutFits, SMT DEF TargetAddress

(* SharedMemory::Map and Unmap, of a range outside the heap.               *)
LEMMA UsedShared ==
  ASSUME SizesOK, NEW s \in Shared, shared[s] # NULL, NEW address \in MapAddresses,
         NEW target, target = TargetAddress(s, address),
         NEW size \in Nat, size = shared[s].size,
         vma_map' = vma_map \/ Gains(target, size) \/ Loses(target, size),
         heap_used' = heap_used, shared' = shared
  PROVE  UsedOK
<1> SUFFICES ASSUME SharedOutsideHeap, SharedSized PROVE UsedOK
  BY DEF UsedOK
<1>1. /\ address \in Nat /\ target \in Nat /\ shared[s].offset \in Nat
      /\ target = address \/ target = LinearHeapBase + shared[s].offset
  BY TargetAddressNat, LayoutFits DEF TargetAddress, SharedMemory
<1>2. size <= HEAP_VADDR /\ (address = 0 \/ HEAP_VADDR_END <= address)
  BY DEF SharedOutsideHeap, SharedSized
<1>3. target + size <= HEAP_VADDR \/ HEAP_VADDR_END <= target
  BY <1>1, <1>2, LayoutFits, SMTT(30)
<1>4. HeapKept
  BY <1>1, <1>3, KeptElsewhere
<1> QED  BY <1>4, UsedUntouched

(* SharedMap's ReprotectRange only reaches pages it has just mapped.       *)
LEMMA SharedMapOK ==
  ASSUME IInv, NEW s \in Shared, NEW address \in MapAddresses, NEW perms \in SUBSET ReadWrite,
         SharedMap(s, address, perms)
  PROVE  StepOK
<1>0. /\ AreasOK(vma_map, page_table) /\ SizesOK /\ AssertionsExplained
      /\ Good(vma_map) /\ Blank(vma_map) /\ FreeMerged(vma_map)
      /\ Current(vma_map, page_table)
  BY IInvParts DEF AreasOK
<1> DEFINE m == shared[s]
           block == m.block
           offset == m.offset
           size == m.size
           target == TargetAddress(s, address)
           mapped == MapMemoryBlock(vma_map, target, block, offset, size, "Shared")
           a == Allocation(target, block, offset, size, "Shared")
           table == UpdatePageTableForVMA(page_table, a)
           done == RangeLoop(mapped, table, target, size, perms)
<1>1. /\ UNCHANGED <<heap_start, heap_end, linheap_size, shared>>
      /\ \/ Fail("MapMemoryBlock", size) /\ UNCHANGED <<vma_map, page_table>>
         \/ UNCHANGED <<vma_map, page_table, failed>>
         \/ size = 0 /\ Fail("SplitVMA", size) /\ UNCHANGED <<vma_map, page_table>>
         \/ /\ CanCarve(vma_map, target, size) /\ size > 0
            /\ vma_map' = done.map /\ page_table' = done.table /\ UNCHANGED failed
  BY DEF SharedMap, heapVars, areaVars, ReprotectRange
<1>2. m \in SharedMemory /\ target \in Nat
  BY <1>0, TargetAddressNat, LayoutFits DEF SharedMap
<1> HIDE DEF target
<1>3. block \in Block \ {NULL} /\ offset \in Nat /\ size \in Nat
  BY <1>2 DEF SharedMemory
<1>8. target = TargetAddress(s, address) /\ size = shared[s].size
  BY DEF target
<1> HIDE DEF block, offset, size, m
<1>4. AssertionsExplained'
  BY <1>0, <1>1, FailExplained, NoFailure
<1>5. ASSUME CanCarve(vma_map, target, size), size > 0,
             vma_map' = done.map, page_table' = done.table
      PROVE  AreasOK(vma_map', page_table') /\ Effect /\ Gains(target, size)
  <2>0. /\ mapped = MapMemoryBlock(vma_map, target, block, offset, size, "Shared")
        /\ a = Allocation(target, block, offset, size, "Shared")
        /\ block \in Block
    BY <1>3
  <2>9. FreeMerged(mapped)
    BY <1>0, <1>2, <1>3, <1>5, MapMemoryBlockFree
  <2> HIDE DEF mapped, a
  <2>1. /\ Good(mapped) /\ target \in Address /\ target + size <= MAX_ADDRESS
        /\ a.block = block
        /\ \A p \in Pages(a) : View(vma_map, p).block = NULL
        /\ \A p : p \in Pages(a) <=> p \in Int /\ target <= p /\ p < target + size
        /\ \A p \in Address : View(mapped, p) =
             IF p \in Pages(a) THEN PageOf(a, p) ELSE View(vma_map, p)
    <3>1. MapsBlock(vma_map, target, size, block, mapped, a)
      BY <1>0, <1>2, <1>3, <1>5, <2>0, MapMemoryBlockGood
    <3> QED  BY <3>1 DEF MapsBlock
  <2>2. Current(mapped, table)
    BY <1>0, <2>1, PointerOfPage DEF Current, UpdatePageTableForVMA
  <2> HIDE DEF table
  <2>3. \A p : PageOf(a, p).block # NULL
    BY <1>3, <2>1 DEF PageOf
  <2>4. Blank(mapped)
    BY <1>0, <2>1, <2>3 DEF Blank
  <2>5. RangeMapped(mapped, target, target + size)
    <3> SUFFICES ASSUME NEW p \in Address, target <= p, p < target + size
                 PROVE  View(mapped, p).block # NULL
      BY DEF RangeMapped
    <3>1. p \in Int
      BY MaxIsNat, SMT DEF Address
    <3>2. p \in Pages(a)
      BY <2>1, <3>1
    <3> QED  BY <2>1, <2>3, <3>2
  <2>6. ReprotectInv(done, mapped, target, target + size)
    BY <1>2, <1>3, <1>5, <2>1, <2>2, <2>4, <2>5, <2>9, ReprotectLoop DEF AreasOK
  <2> HIDE DEF done
  <2>7. AreasOK(vma_map', page_table') /\ Reprotected(mapped, vma_map', target, target + size)
    BY <1>5, <2>6 DEF ReprotectInv
  <2>8. Effect
    <3>3. ASSUME NEW p \in Address, p \in Pages(a)
          PROVE  /\ View(vma_map, p).block = NULL
                 /\ Inside(View(vma_map', p), p, heap_end' - heap_start', linheap_size')
      <4>1. PageOf(a, p).meminfo_state = "Shared"
        BY <2>0 DEF PageOf, Allocation
      <4>2. View(vma_map', p).meminfo_state = "Shared"
        BY <2>1, <2>7, <3>3, <4>1 DEF Reprotected, OnlyPermissions
      <4> QED  BY <2>1, <3>3, <4>2 DEF Inside
    <3> SUFFICES ASSUME NEW p \in Address, p \notin Pages(a)
                 PROVE  View(vma_map', p) = View(vma_map, p)
      BY <3>3 DEF Effect
    <3>1. p \notin Pages(a)
      OBVIOUS
    <3>2. ~(target <= p /\ p < target + size)
      BY <2>1, <3>1, MaxIsNat, SMT DEF Address
    <3> QED  BY <2>1, <2>7, <3>1, <3>2 DEF Reprotected
  <2>10. Gains(target, size)
    <3>1. ASSUME NEW p \in Address
          PROVE  p \in Pages(a) <=> target <= p /\ p < target + size
      BY <2>1, <3>1, MaxIsNat, SMTT(30) DEF Address
    <3>2. ASSUME NEW p \in Address
          PROVE  Mapped(vma_map', p) <=> Mapped(mapped, p)
      BY <2>7, <3>2 DEF Mapped, Reprotected, OnlyPermissions
    <3> QED  BY <2>1, <2>3, <3>1, <3>2, ZenonT(40) DEF Gains, Mapped
  <2> QED  BY <2>7, <2>8, <2>10
<1> HIDE DEF done
<1>6. /\ AreasOK(vma_map', page_table') /\ Effect
      /\ vma_map' = vma_map \/ Gains(target, size)
  BY <1>0, <1>1, <1>5, SameAreas
<1>7. SizesOK'
  BY <1>0, <1>1 DEF SizesOK, LinearHeapEnd
<1>9. UsedOK
  <2>1. shared[s] # NULL /\ heap_used' = heap_used /\ shared' = shared
    BY DEF SharedMap, heapVars
  <2> QED  BY <1>0, <1>3, <1>6, <1>8, <2>1, UsedShared
<1>10. Extents
  BY <1>0, <1>1, SameExtents
<1> QED  BY <1>4, <1>6, <1>7, <1>9, <1>10, IInvNext DEF StepOK

(* SharedMemory::Unmap.                                                    *)
LEMMA SharedUnmapOK ==
  ASSUME IInv, NEW s \in Shared, NEW address \in MapAddresses, SharedUnmap(s, address)
  PROVE  StepOK
<1>0. AreasOK(vma_map, page_table) /\ SizesOK /\ AssertionsExplained
  BY IInvParts
<1> DEFINE size == shared[s].size
           target == TargetAddress(s, address)
<1>1. /\ UNCHANGED <<heap_start, heap_end, linheap_size, shared>>
      /\ RangeRefused(target, size) \/ Unmap(target, size)
  BY DEF SharedUnmap, heapVars
<1>2. size \in Nat /\ target \in Nat
  BY <1>0, TargetAddressNat, LayoutFits DEF SharedUnmap, SharedMemory
<1>5. target = TargetAddress(s, address) /\ size = shared[s].size
  OBVIOUS
<1> HIDE DEF size, target
<1>3. AreasOK(vma_map', page_table') /\ Effect /\ AssertionsExplained'
  BY <1>0, <1>1, <1>2, RangeRefusedOK, UnmapOK
<1>4. SizesOK'
  BY <1>0, <1>1 DEF SizesOK, LinearHeapEnd
<1>6. vma_map' = vma_map \/ Loses(target, size)
  BY <1>0, <1>1, <1>2, UnmapOK DEF RangeRefused, areaVars
<1>7. UsedOK
  <2>1. shared[s] # NULL /\ heap_used' = heap_used /\ shared' = shared
    BY DEF SharedUnmap, heapVars
  <2> QED  BY <1>0, <1>2, <1>5, <1>6, <2>1, UsedShared
<1>8. Extents
  BY <1>0, <1>1, SameExtents
<1> QED  BY <1>3, <1>4, <1>7, <1>8, IInvNext DEF StepOK

(* Every step keeps the inductive invariant and has an allowed effect.     *)
LEMMA NextStepOK == IInv /\ [Next]_vars => StepOK
<1> SUFFICES ASSUME IInv, [Next]_vars PROVE StepOK
  OBVIOUS
<1>0. AreasOK(vma_map, page_table) /\ SizesOK /\ AssertionsExplained
  BY IInvParts
<1>1. CASE ControlMemory
  <2> SUFFICES ASSUME NEW size \in Sizes,
        \/ \E target \in Address, perms \in Permissions : HeapAllocate(target, size, perms)
        \/ \E target \in {0} \cup (LinearHeapBase .. LinearHeapLimit) :
              \E perms \in LinearPermissions : LinearAllocate(target, size, perms)
        \/ \E target \in Address : HeapFree(target, size) \/ LinearFree(target, size)
        \/ \E target \in ProtectAddresses, perms \in Permissions :
              Protect(target, size, perms)
      PROVE StepOK
    BY <1>1 DEF ControlMemory
  <2>1. /\ size \in Nat /\ Address \subseteq Nat /\ ProtectAddresses \subseteq Nat
        /\ {0} \cup (LinearHeapBase .. LinearHeapLimit) \subseteq Nat
        /\ Permissions \subseteq SUBSET ReadWrite
        /\ LinearPermissions \subseteq SUBSET ReadWrite
    BY LayoutFits, SMT DEF Address
  <2>2. CASE \E target \in Address, perms \in Permissions : HeapAllocate(target, size, perms)
    BY <2>1, <2>2, HeapAllocateOK
  <2>3. CASE \E target \in {0} \cup (LinearHeapBase .. LinearHeapLimit) :
                \E perms \in LinearPermissions : LinearAllocate(target, size, perms)
    BY <2>1, <2>3, LinearAllocateOK
  <2>4. CASE \E target \in Address : HeapFree(target, size) \/ LinearFree(target, size)
    BY <2>1, <2>4, HeapFreeOK, LinearFreeOK
  <2>5. CASE \E target \in ProtectAddresses, perms \in Permissions :
               Protect(target, size, perms)
    BY <2>1, <2>5, ProtectOK
  <2> QED  BY <2>2, <2>3, <2>4, <2>5
<1>2. CASE SharedCalls
  <2> SUFFICES ASSUME NEW s \in Shared, NEW perms \in LinearPermissions,
        \/ \E size \in SharedSizes :
              \/ CreateFromLinear(s, size, perms)
              \/ \E address \in Address : CreateOverMapped(s, address, size, perms)
        \/ \E address \in MapAddresses :
              SharedMap(s, address, perms) \/ SharedUnmap(s, address)
      PROVE StepOK
    BY <1>2 DEF SharedCalls
  <2>1. perms \in SUBSET ReadWrite
    BY LayoutFits
  <2>2. CASE \E size \in SharedSizes :
               \/ CreateFromLinear(s, size, perms)
               \/ \E address \in Address : CreateOverMapped(s, address, size, perms)
    BY <2>1, <2>2, CreateFromLinearOK, CreateOverMappedOK
  <2>3. CASE \E address \in MapAddresses :
               SharedMap(s, address, perms) \/ SharedUnmap(s, address)
    BY <2>1, <2>3, SharedMapOK, SharedUnmapOK
  <2> QED  BY <2>2, <2>3
<1>3. CASE UNCHANGED vars
  <2>1. /\ UNCHANGED <<vma_map, page_table, heap_start, heap_end, heap_used, linheap_size>>
        /\ UNCHANGED <<shared, failed>>
    BY <1>3 DEF vars, areaVars, heapVars
  <2>2. AreasOK(vma_map', page_table') /\ Effect /\ HeapKept
    BY <1>0, <2>1, SameAreas DEF AreasOK
  <2>3. SizesOK' /\ AssertionsExplained'
    BY <1>0, <2>1, NoFailure DEF SizesOK, LinearHeapEnd
  <2>4. UsedOK /\ Extents
    BY <1>0, <2>1, <2>2, UsedUntouched, SameExtents
  <2> QED  BY <2>2, <2>3, <2>4, IInvNext DEF StepOK
<1> QED  BY <1>1, <1>2, <1>3 DEF Next

(* The inductive invariant holds of every reachable state.                 *)
LEMMA InductiveInvariant == Spec => []IInv
<1>1. IInv /\ [Next]_vars => IInv'
  BY NextStepOK DEF StepOK
<1> QED  BY InitIInv, <1>1, PTL DEF Spec

-----------------------------------------------------------------------------
(* TypeOK for every layout: no extent of a heap turns negative and no page *)
(* points before its block.                                                *)
THEOREM TypeCorrect == Spec => []TypeOK
<1>1. IInv => TypeOK
  BY DEF IInv
<1> QED  BY <1>1, InductiveInvariant, PTL

(* AreasTile for every layout of the address space and any sequence of     *)
(* calls: splitting, carving, merging and the range loops keep the areas a *)
(* tiling of the managed addresses.                                        *)
THEOREM AreasAlwaysTile == Spec => []AreasTile
<1>1. IInv => AreasTile
  BY DEF IInv
<1> QED  BY <1>1, InductiveInvariant, PTL

(* PageTableCurrent for every layout and any sequence of calls: no         *)
(* operation that moves a block or changes an area leaves a stale or       *)
(* dangling pointer in the page table.                                     *)
THEOREM PageTableAlwaysCurrent == Spec => []PageTableCurrent
<1>1. IInv => PageTableCurrent
  BY DEF IInv
<1> QED  BY <1>1, InductiveInvariant, PTL

(* FreeAreasMerged for every layout: a change to an area takes in the free *)
(* areas on both sides of it, and a split leaves no two of them.           *)
THEOREM FreeAreasAlwaysMerged == Spec => []FreeAreasMerged
<1>1. IInv => FreeAreasMerged
  BY DEF IInv
<1> QED  BY <1>1, InductiveInvariant, PTL

(* AssertionsExplained for every layout: the range loop of UnmapRange ends *)
(* within as many turns as the range has pages, and by then the range lies *)
(* in one free area, as the function asserts.                              *)
THEOREM AssertionsAlwaysExplained == Spec => []AssertionsExplained
<1>1. IInv => AssertionsExplained
  BY DEF IInv
<1> QED  BY <1>1, InductiveInvariant, PTL

(* A page that is mapped before and after a step has not been free.        *)
LEMMA StaysMapped ==
  ASSUME IInv, StepOK, NEW p \in Address, page_table[p] # NULL, page_table'[p] # NULL
  PROVE  /\ page_table[p] = Pointer(View(vma_map, p))
         /\ page_table'[p] = Pointer(View(vma_map', p))
         /\ \/ View(vma_map', p) = View(vma_map, p)
            \/ /\ OnlyPermissions(View(vma_map, p), View(vma_map', p))
               /\ MayChangePermissions(p)
<1>1. Current(vma_map, page_table)
  BY IInvParts DEF AreasOK
<1>2. Current(vma_map', page_table')
  <2>1. IInv' => AreasOK(vma_map, page_table)'
    BY IInvParts, PTL
  <2> QED  BY <2>1 DEF StepOK, AreasOK
<1>3. View(vma_map, p).block # NULL /\ View(vma_map', p).block # NULL
  BY <1>1, <1>2 DEF Current, Pointer
<1> QED  BY <1>1, <1>2, <1>3 DEF StepOK, Effect, Current

(* PlacesStay for every layout: no call makes a page that stays mapped   *)
(* point elsewhere, whatever is split, merged, moved or refreshed.         *)
THEOREM PlacesAlwaysStay == Spec => PlacesStay
<1> DEFINE A == \A p \in Address :
                  page_table[p] # NULL /\ page_table'[p] # NULL
                    => page_table'[p] = page_table[p]
<1>1. IInv /\ [Next]_vars => [A]_vars
  <2> SUFFICES ASSUME IInv, [Next]_vars, NEW p \in Address,
                      page_table[p] # NULL, page_table'[p] # NULL
               PROVE  page_table'[p] = page_table[p]
    OBVIOUS
  <2>1. StepOK
    BY NextStepOK
  <2> QED  BY <2>1, StaysMapped DEF OnlyPermissions, Pointer
<1> HIDE DEF A
<1>2. Spec => [][A]_vars
  BY <1>1, InductiveInvariant, PTL DEF Spec
<1> QED  BY <1>2 DEF PlacesStay, A

(* NeighboursKeepPermissions for every layout: permissions change in the   *)
(* range that is asked for, or by merging with a new allocation.           *)
THEOREM NeighboursAlwaysKeepPermissions == Spec => NeighboursKeepPermissions
<1> DEFINE A == \A p \in Address :
         /\ page_table[p] # NULL /\ page_table'[p] # NULL
         /\ PermissionsOf(vma_map, p) # PermissionsOf(vma_map', p)
         => \/ \E target \in ProtectAddresses, size \in Sizes, perms \in Permissions :
                 p \in target .. target + size - 1 /\ Protect(target, size, perms)
            \/ /\ PermissionsOf(vma_map, p) = ReadWrite
               /\ \E q \in Pages(FindVMA(vma_map', p)) : page_table[q] = NULL
<1>1. IInv /\ [Next]_vars => [A]_vars
  <2> SUFFICES ASSUME IInv, [Next]_vars, NEW p \in Address,
                      page_table[p] # NULL, page_table'[p] # NULL,
                      PermissionsOf(vma_map, p) # PermissionsOf(vma_map', p)
               PROVE  \/ \E target \in ProtectAddresses, size \in Sizes,
                            perms \in Permissions :
                           /\ p \in target .. target + size - 1
                           /\ Protect(target, size, perms)
                      \/ /\ PermissionsOf(vma_map, p) = ReadWrite
                         /\ \E q \in Pages(FindVMA(vma_map', p)) : page_table[q] = NULL
    OBVIOUS
  <2>1. StepOK
    BY NextStepOK
  <2>2. /\ View(vma_map, p).permissions = PermissionsOf(vma_map, p)
        /\ View(vma_map', p).permissions = PermissionsOf(vma_map', p)
    BY DEF View, PageOf, PermissionsOf
  <2>3. MayChangePermissions(p)
    BY <2>1, <2>2, StaysMapped
  <2> QED  BY <2>2, <2>3 DEF MayChangePermissions
<1> HIDE DEF A
<1>2. Spec => [][A]_vars
  BY <1>1, InductiveInvariant, PTL DEF Spec
<1> QED  BY <1>2 DEF NeighboursKeepPermissions, A

(* Every page of the two heaps lies inside its block.  This is inductive   *)
(* beside IInv, as HeapAreasInsideBlock is not: what LinearFree leaves is  *)
(* inside because a page of the linear heap is at the place its address    *)
(* says.                                                                   *)
HeapInv ==
    \A p \in Address : Inside(View(vma_map, p), p, heap_end - heap_start, linheap_size)

(* A page that is kept stays inside, whatever becomes of the extents.      *)
LEMMA KeptInside ==
  ASSUME IInv, IInv', HeapInv, Extents, NEW p \in Address,
         View(vma_map', p).block # NULL,
         OnlyPermissions(View(vma_map, p), View(vma_map', p))
  PROVE  Inside(View(vma_map', p), p, heap_end' - heap_start', linheap_size')
<1> DEFINE x == View(vma_map, p)
           y == View(vma_map', p)
<1>1. Inside(x, p, heap_end - heap_start, linheap_size)
  BY DEF HeapInv
<1>2. /\ heap_start \in Nat /\ heap_end \in Nat /\ linheap_size \in Nat
      /\ heap_start' \in Nat /\ heap_end' \in Nat /\ linheap_size' \in Nat
  BY ZenonT(40) DEF IInv, TypeOK
<1>3. x.index \in Int
  <2>1. FindVMA(vma_map, p) \in Area
    BY FindVMAFound, IInvParts DEF AreasOK, Good
  <2> QED  BY <2>1, AreaFields, LayoutFits, SMTT(30) DEF View, PageOf, Address
<1>4. /\ x.block = y.block /\ x.index = y.index /\ x.meminfo_state = y.meminfo_state
      /\ y.block # NULL
  BY DEF OnlyPermissions
<1>5. ~(LinearHeapBase + linheap_size' <= p /\ p < LinearHeapEnd)
  BY DEF Extents
<1>6. heap_end - heap_start <= heap_end' - heap_start'
  BY DEF Extents
<1> HIDE DEF x, y
<1>7. ASSUME y.meminfo_state = "Private"
      PROVE  y.block = "heap" /\ y.index < heap_end' - heap_start'
  <2>1. x.block = "heap" /\ x.index < heap_end - heap_start
    BY <1>1, <1>4, <1>7 DEF Inside
  <2> QED  BY <1>2, <1>3, <1>4, <1>6, <2>1, SMTT(30)
<1>8. ASSUME y.meminfo_state = "Continuous"
      PROVE  /\ y.block = "linear" /\ y.index = p - LinearHeapBase
             /\ y.index < linheap_size'
  <2>1. x.block = "linear" /\ x.index = p - LinearHeapBase /\ x.index < linheap_size
    BY <1>1, <1>4, <1>8 DEF Inside
  <2> QED  BY <1>2, <1>3, <1>4, <1>5, <2>1, LayoutFits, SMTT(30) DEF LinearHeapEnd, Address
<1>9. Inside(y, p, heap_end' - heap_start', linheap_size')
  BY <1>7, <1>8 DEF Inside
<1> QED  BY <1>9 DEF y

(* HeapInv holds at first and after every step.                            *)
LEMMA HeapInvariant == Spec => []HeapInv
<1>1. Init => HeapInv
  <2> SUFFICES ASSUME Init, NEW p \in Address
               PROVE  View(vma_map, p).meminfo_state \in {"Locked", "Free"}
    BY SMT DEF HeapInv, Inside
  <2>1. Good(vma_map)
    BY InitIInv, IInvParts DEF AreasOK
  <2>2. FindVMA(vma_map, p) \in vma_map
    BY <2>1, FindVMAFound
  <2>3. ASSUME NEW v \in vma_map PROVE v.meminfo_state \in {"Locked", "Free"}
    BY <2>3, SMT DEF Init, StackArea, Allocation, FreeArea
  <2> QED  BY <2>2, <2>3 DEF View, PageOf
<1>2. IInv /\ HeapInv /\ [Next]_vars => HeapInv'
  <2> SUFFICES ASSUME IInv, HeapInv, [Next]_vars PROVE HeapInv'
    OBVIOUS
  <2>1. IInv' /\ Effect /\ Extents
    BY NextStepOK DEF StepOK
  <2>2. Blank(vma_map')
    <3>1. IInv' => AreasOK(vma_map, page_table)'
      BY IInvParts, PTL
    <3> QED  BY <2>1, <3>1 DEF AreasOK
  <2>3. ASSUME NEW p \in Address
        PROVE  Inside(View(vma_map', p), p, heap_end' - heap_start', linheap_size')
    <3>1. CASE View(vma_map', p).block = NULL
      BY <2>2, <3>1, SMT DEF Blank, Inside
    <3>2. CASE /\ View(vma_map', p).block # NULL
               /\ OnlyPermissions(View(vma_map, p), View(vma_map', p))
      BY <2>1, <3>2, KeptInside
    <3>3. \/ OnlyPermissions(View(vma_map, p), View(vma_map', p))
          \/ View(vma_map', p).block = NULL
          \/ Inside(View(vma_map', p), p, heap_end' - heap_start', linheap_size')
      BY <2>1 DEF Effect, OnlyPermissions
    <3> QED  BY <3>1, <3>2, <3>3, ZenonT(40)
  <2> QED  BY <2>3 DEF HeapInv
<1> QED  BY <1>1, <1>2, InductiveInvariant, PTL DEF Spec

(* HeapAreasInsideBlock for every layout and any sequence of calls: no     *)
(* growth, merge or cut leaves an area of the heap or of the linear heap   *)
(* that reaches beyond the memory of its block.                            *)
THEOREM HeapAreasStayInside == Spec => []HeapAreasInsideBlock
<1>1. IInv /\ HeapInv => HeapAreasInsideBlock
  <2> SUFFICES ASSUME IInv, HeapInv, NEW v \in vma_map,
                      v.meminfo_state \in {"Private", "Continuous"}
               PROVE  v.offset + v.size <= BlockSize(v.block)
    BY DEF HeapAreasInsideBlock
  <2> DEFINE p == End(v) - 1
  <2>1. Good(vma_map) /\ v \in Area /\ v.size > 0 /\ End(v) <= MAX_ADDRESS
    BY IInvParts DEF AreasOK, Good, Tiles
  <2>2. v.base \in Nat /\ v.size \in Nat /\ v.offset \in Nat /\ End(v) = v.base + v.size
    BY <2>1, AreaFields, SMTT(30) DEF Area, End
  <2>3. p \in Pages(v) /\ p \in Address
    BY <2>1, <2>2, AreaFields, MaxIsNat, SMTT(30) DEF Address
  <2>4. View(vma_map, p) = PageOf(v, p)
    BY <2>1, <2>3, FindVMAUnique DEF View
  <2>5. Inside(PageOf(v, p), p, heap_end - heap_start, linheap_size)
    BY <2>3, <2>4 DEF HeapInv
  <2>6. ~IsFree(v)
    BY <2>1, SMT DEF IInv, TypeOK
  <2>7. PageOf(v, p).index = v.offset + p - v.base
    BY <2>6 DEF PageOf
  <2>8. heap_start \in Nat /\ heap_end \in Nat /\ linheap_size \in Nat
    BY DEF IInv, TypeOK
  <2>9. \/ v.block = "heap" /\ v.offset + p - v.base < heap_end - heap_start
        \/ v.block = "linear" /\ v.offset + p - v.base < linheap_size
    BY <2>5, <2>7 DEF Inside, PageOf
  <2> QED  BY <2>2, <2>8, <2>9, SMT DEF BlockSize
<1> QED  BY <1>1, InductiveInvariant, HeapInvariant, PTL

-----------------------------------------------------------------------------
(* What HeapUsedExact counts.                                              *)
HeapPages(map) == {p \in HeapRange : Mapped(map, p)}

UsedInv ==
    /\ heap_used \in Int
    /\ heap_used + StackSize = Cardinality(HeapPages(vma_map))
    /\ SharedSized

(* At first the stack is all that is mapped there.                         *)
LEMMA InitHeapPages ==
  ASSUME Init, NEW from, from = HEAP_VADDR_END - StackSize
  PROVE  HeapPages(vma_map) = from .. from + StackSize - 1
<1> DEFINE a == FreeArea(0, StackArea.base)
<1>0. Good(vma_map)
  BY InitIInv, IInvParts DEF AreasOK
<1>1. a \in vma_map /\ StackArea \in vma_map
  BY DEF Init
<1>2. /\ StackArea.base = from /\ StackArea.size = StackSize /\ StackArea.block = "stack"
      /\ a.base = 0 /\ a.size = from /\ a.block = NULL
  BY LayoutFits, SMT DEF StackArea, Allocation, FreeArea
<1>3. a \in Area /\ StackArea \in Area
  BY <1>0, <1>1 DEF Good
<1> HIDE DEF a
<1>4. ASSUME NEW p \in HeapRange
      PROVE  Mapped(vma_map, p) <=> p \in from .. from + StackSize - 1
  <2>1. p \in Address /\ p \in Int
    BY LayoutFits, SMT DEF HeapRange, Address
  <2>2. CASE p \in from .. from + StackSize - 1
    <3>1. p \in Pages(StackArea)
      BY <1>2, <1>3, <2>1, <2>2, AreaFields, LayoutFits, SMTT(30)
    <3>2. FindVMA(vma_map, p) = StackArea
      BY <1>0, <1>1, <2>1, <3>1, FindVMAUnique
    <3> QED  BY <1>2, <2>2, <3>2, LayoutFits DEF Mapped, View, PageOf
  <2>3. CASE p \notin from .. from + StackSize - 1
    <3>1. p \in Pages(a)
      BY <1>2, <1>3, <2>1, <2>3, AreaFields, LayoutFits, SMTT(30) DEF HeapRange
    <3>2. FindVMA(vma_map, p) = a
      BY <1>0, <1>1, <2>1, <3>1, FindVMAUnique
    <3> QED  BY <1>2, <2>3, <3>2, ZenonT(40) DEF Mapped, View, PageOf
  <2> QED  BY <2>2, <2>3
<1>5. from .. from + StackSize - 1 \subseteq HeapRange
  BY LayoutFits, SMT DEF HeapRange
<1> QED  BY <1>4, <1>5 DEF HeapPages

(* Last, the counting, by the theorems about finite sets.                  *)
FS == INSTANCE FiniteSetTheorems

(* The theorems are about the same cardinality.                            *)
LEMMA SameCount ==
  /\ \A S : FS!Cardinality(S) = Cardinality(S)
  /\ \A S : FS!IsFiniteSet(S) <=> IsFiniteSet(S)
BY DEF FS!Cardinality, Cardinality, FS!IsFiniteSet, IsFiniteSet

(* The number of pages of a range, which is finite.                        *)
LEMMA RangeCount ==
  ASSUME NEW from \in Nat, NEW size \in Nat
  PROVE  /\ IsFiniteSet(from .. from + size - 1)
         /\ Cardinality(from .. from + size - 1) = size
<1> DEFINE to == from + size - 1
<1>1. from \in Int /\ to \in Int /\ (IF from > to THEN 0 ELSE to - from + 1) = size
  BY SMTT(30)
<1> HIDE DEF to
<1>2. /\ IsFiniteSet(from .. to)
      /\ Cardinality(from .. to) = IF from > to THEN 0 ELSE to - from + 1
  BY <1>1, SameCount, FS!FS_Interval, ZenonT(40)
<1>3. IsFiniteSet(from .. to) /\ Cardinality(from .. to) = size
  BY <1>1, <1>2
<1> QED  BY <1>3 DEF to

(* The heap's addresses are finitely many.                                 *)
LEMMA HeapPagesFinite ==
  ASSUME NEW map
  PROVE  IsFiniteSet(HeapPages(map)) /\ Cardinality(HeapPages(map)) \in Nat
<1>1. IsFiniteSet(HeapRange)
  <2>1. HEAP_VADDR \in Int /\ HEAP_VADDR_END - 1 \in Int
    BY LayoutFits, SMTT(30)
  <2> QED  BY <2>1, SameCount, FS!FS_Interval, ZenonT(40) DEF HeapRange
<1>2. HeapPages(map) \in SUBSET HeapRange
  BY DEF HeapPages
<1>3. IsFiniteSet(HeapPages(map))
  BY <1>1, <1>2, SameCount, FS!FS_Subset, ZenonT(40)
<1> QED  BY <1>3, SameCount, FS!FS_CardinalityType, ZenonT(40)

(* A range of the heap that was free is mapped.                            *)
LEMMA GainCounts ==
  ASSUME NEW target \in Nat, NEW size \in Nat, InHeap(target, size), Gains(target, size)
  PROVE  Cardinality(HeapPages(vma_map')) = Cardinality(HeapPages(vma_map)) + size
<1> DEFINE R == target .. target + size - 1
           H == HeapPages(vma_map)
<1>1. ASSUME NEW p
      PROVE  /\ p \in R => p \in HeapRange
             /\ p \in HeapRange => p \in Address /\ (p \in R <=> target <= p /\ p < target + size)
  BY LayoutFits, SMTT(30) DEF HeapRange, Address, InHeap
<1>2. IsFiniteSet(R) /\ Cardinality(R) = size /\ IsFiniteSet(H) /\ Cardinality(H) \in Nat
  BY RangeCount, HeapPagesFinite, ZenonT(40)
<1> HIDE DEF R
<1>7. ASSUME NEW p \in HeapRange
      PROVE  /\ p \in R => ~Mapped(vma_map, p) /\ Mapped(vma_map', p)
             /\ p \notin R => (Mapped(vma_map', p) <=> Mapped(vma_map, p))
  <2>1. p \in Address /\ (p \in R <=> target <= p /\ p < target + size)
    BY <1>1, <1>7
  <2>2. /\ target <= p /\ p < target + size => ~Mapped(vma_map, p) /\ Mapped(vma_map', p)
        /\ ~(target <= p /\ p < target + size) =>
             (Mapped(vma_map', p) <=> Mapped(vma_map, p))
    BY <2>1 DEF Gains
  <2> QED  BY <2>1, <2>2
<1>3. HeapPages(vma_map') = H \cup R /\ H \cap R = {}
  BY <1>1, <1>7 DEF HeapPages
<1> HIDE DEF H
<1>4. Cardinality(H \cup R) = Cardinality(H) + Cardinality(R) - Cardinality(H \cap R)
  BY <1>2, SameCount, FS!FS_Union, ZenonT(40)
<1>5. Cardinality(H \cap R) = 0
  BY <1>3, SameCount, FS!FS_EmptySet
<1>6. Cardinality(H \cup R) = Cardinality(H) + size
  BY <1>2, <1>4, <1>5, SMTT(30)
<1> QED  BY <1>3, <1>6, ZenonT(40) DEF H

(* A range of the heap that was mapped is freed.                           *)
LEMMA LossCounts ==
  ASSUME NEW target \in Nat, NEW size \in Nat, InHeap(target, size), Loses(target, size)
  PROVE  Cardinality(HeapPages(vma_map')) = Cardinality(HeapPages(vma_map)) - size
<1> DEFINE R == target .. target + size - 1
           H == HeapPages(vma_map)
<1>1. ASSUME NEW p
      PROVE  /\ p \in R => p \in HeapRange
             /\ p \in HeapRange => p \in Address /\ (p \in R <=> target <= p /\ p < target + size)
  BY LayoutFits, SMTT(30) DEF HeapRange, Address, InHeap
<1>2. Cardinality(R) = size /\ IsFiniteSet(H)
  BY RangeCount, HeapPagesFinite
<1> HIDE DEF R
<1>5. ASSUME NEW p \in HeapRange
      PROVE  /\ p \in R => Mapped(vma_map, p) /\ ~Mapped(vma_map', p)
             /\ p \notin R => (Mapped(vma_map', p) <=> Mapped(vma_map, p))
  <2>1. p \in Address /\ (p \in R <=> target <= p /\ p < target + size)
    BY <1>1, <1>5, ZenonT(40)
  <2>2. /\ target <= p /\ p < target + size => Mapped(vma_map, p) /\ ~Mapped(vma_map', p)
        /\ ~(target <= p /\ p < target + size) =>
             (Mapped(vma_map', p) <=> Mapped(vma_map, p))
    BY <2>1 DEF Loses
  <2> QED  BY <2>1, <2>2
<1>3. HeapPages(vma_map') = H \ R /\ H \cap R = R
  BY <1>1, <1>5 DEF HeapPages
<1> HIDE DEF H
<1>4. Cardinality(H \ R) = Cardinality(H) - Cardinality(H \cap R)
  BY <1>2, SameCount, FS!FS_Difference
<1> QED  BY <1>2, <1>3, <1>4 DEF H

(* At first the count is that of the stack.                                *)
LEMMA InitUsed == Init => UsedInv
<1> SUFFICES ASSUME Init PROVE UsedInv
  OBVIOUS
<1> DEFINE from == HEAP_VADDR_END - StackSize
<1>1. from \in Nat /\ StackSize \in Nat
  BY LayoutFits, SMTT(30)
<1>2. HeapPages(vma_map) = from .. from + StackSize - 1
  BY InitHeapPages
<1> HIDE DEF from
<1>3. Cardinality(HeapPages(vma_map)) = StackSize
  BY <1>1, <1>2, RangeCount
<1>4. heap_used \in Int /\ heap_used + StackSize = StackSize
  BY <1>1, SMTT(30) DEF Init
<1>5. \A s \in Shared : shared[s] = NULL
  BY DEF Init
<1> QED  BY <1>3, <1>4, <1>5 DEF UsedInv, SharedSized

(* A step keeps the count.                                                 *)
LEMMA UsedKept ==
  ASSUME UsedInv, UsedStep
  PROVE  heap_used' \in Int /\ heap_used' + StackSize = Cardinality(HeapPages(vma_map'))
<1>1. /\ heap_used \in Int /\ heap_used + StackSize = Cardinality(HeapPages(vma_map))
      /\ StackSize \in Nat
  BY LayoutFits DEF UsedInv
<1>2. CASE HeapKept /\ heap_used' = heap_used
  <2>1. HeapPages(vma_map') = HeapPages(vma_map)
    BY <1>2 DEF HeapKept, HeapPages
  <2> QED  BY <1>1, <1>2, <2>1, ZenonT(40)
<1>3. ASSUME NEW target \in Nat, NEW size \in Nat, InHeap(target, size),
             \/ Gains(target, size) /\ heap_used' = heap_used + size
             \/ Loses(target, size) /\ heap_used' = heap_used - size
      PROVE  heap_used' \in Int /\ heap_used' + StackSize = Cardinality(HeapPages(vma_map'))
  <2>1. CASE Gains(target, size) /\ heap_used' = heap_used + size
    <3>1. Cardinality(HeapPages(vma_map')) = Cardinality(HeapPages(vma_map)) + size
      BY <1>3, <2>1, GainCounts
    <3> QED  BY <1>1, <2>1, <3>1, SMTT(30)
  <2>2. CASE Loses(target, size) /\ heap_used' = heap_used - size
    <3>1. Cardinality(HeapPages(vma_map')) = Cardinality(HeapPages(vma_map)) - size
      BY <1>3, <2>2, LossCounts
    <3> QED  BY <1>1, <2>2, <3>1, SMTT(30)
  <2> QED  BY <1>3, <2>1, <2>2, ZenonT(40)
<1> QED  BY <1>2, <1>3 DEF UsedStep

(* HeapUsedExact for every layout and any sequence of calls, as long as    *)
(* shared blocks are mapped outside the heap: the count that HeapAllocate  *)
(* and HeapFree keep is that of the pages, because MapMemoryBlock and      *)
(* UnmapRange change the pages of the range that they are asked for, all   *)
(* of them and no other.                                                   *)
THEOREM HeapUsedStaysExact == SharedOutsideHeap => (Spec => []HeapUsedExact)
<1> SUFFICES ASSUME SharedOutsideHeap PROVE Spec => []HeapUsedExact
  OBVIOUS
<1>1. IInv /\ UsedInv /\ [Next]_vars => UsedInv'
  BY NextStepOK, UsedKept DEF UsedInv, StepOK, UsedOK
<1>2. UsedInv => HeapUsedExact
  <2>1. HeapPages(vma_map)
          = {p \in HEAP_VADDR .. HEAP_VADDR_END - 1 : ~IsFree(FindVMA(vma_map, p))}
    BY DEF HeapPages, HeapRange, Mapped, View, PageOf, IsFree
  <2> QED  BY <2>1 DEF UsedInv, HeapUsedExact
<1> QED  BY InitUsed, <1>1, <1>2, InductiveInvariant, PTL DEF Spec
===============================================================================
