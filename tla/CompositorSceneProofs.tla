------------------------ MODULE CompositorSceneProofs ------------------------
(***************************************************************************)
(* What moo's compositor shows and repaints, for every output, every       *)
(* number of surfaces, all pictures and every capacity of the damage lists:*)
(* coverage is exact, and outside the damage the screen is what drawing    *)
(* everything again would show.                                            *)
(***************************************************************************)
EXTENDS CompositorScene, TLAPS, FiniteSetTheorems, SequenceTheorems,
        WellFoundedInduction

-----------------------------------------------------------------------------
(* Numbers.                                                                *)

Numbers == Nat \ {0}

\* The largest of finitely many integers exists.
LEMMA GreatestOf ==
  ASSUME NEW N \in SUBSET Int, IsFiniteSet(N), N # {}
  PROVE  Greatest(N) \in N /\ \A n \in N : n <= Greatest(N)
<1> DEFINE Bad == {T \in SUBSET N : T # {} /\ \A n \in T : \E m \in T : n < m}
           Sizes == {Cardinality(T) : T \in Bad}
           Less == {q \in Nat \X Nat : q[1] < q[2]}
<1>1. \A T \in SUBSET N : IsFiniteSet(T) /\ Cardinality(T) \in Nat
  BY FS_Subset, FS_CardinalityType
<1>2. Bad = {}
  <2> SUFFICES ASSUME Bad # {} PROVE FALSE
    OBVIOUS
  <2>1. Sizes \in SUBSET Nat /\ Sizes # {}
    BY <1>1
  <2>2. IsWellFoundedOn(Less, Nat)
    BY NatLessThanWellFounded DEF OpToRel
  <2> HIDE DEF Less
  <2>3. PICK k \in Sizes : \A j \in Sizes : ~ (<<j, k>> \in Less)
    BY <2>1, <2>2, WFMin
  <2>4. PICK T \in Bad : k = Cardinality(T)
    BY <2>3
  <2>5. PICK n \in T : TRUE
    BY <2>4
  <2> DEFINE U == T \ {n}
  <2>6. /\ U \in SUBSET N /\ Cardinality(U) = Cardinality(T) - 1
        /\ Cardinality(U) \in Nat /\ Cardinality(T) \in Nat
    BY <1>1, <2>5, FS_RemoveElement
  <2>7. U \notin Bad
    <3>1. <<Cardinality(U), k>> \in Less
      BY <2>4, <2>6 DEF Less
    <3> QED
      BY <2>3, <3>1
  <2>8. PICK m \in T : n < m
    BY <2>4, <2>5
  <2>9. U # {}
    BY <2>5, <2>8
  <2>10. PICK g \in U : \A u \in U : ~ (g < u)
    BY <2>6, <2>7, <2>9
  <2>11. n \in Int /\ g \in Int /\ m \in Int /\ m \in U /\ \A u \in U : u \in Int
    BY <2>4, <2>5, <2>8, <2>10
  <2>12. ~ (g < m) /\ n < g
    BY <2>8, <2>10, <2>11
  <2>13. PICK h \in T : g < h
    BY <2>4, <2>10
  <2> QED
    BY <2>10, <2>11, <2>12, <2>13
<1>3. \E n \in N : \A m \in N : ~ (n < m)
  BY <1>2
<1>4. PICK n \in N : \A m \in N : m <= n
  <2>1. PICK n \in N : \A m \in N : ~ (n < m)
    BY <1>3
  <2>2. \A m \in N : m <= n
    BY <2>1
  <2> QED
    BY <2>2
<1> QED
  BY <1>4 DEF Greatest

LEMMA ImageFinite ==
  ASSUME NEW S, IsFiniteSet(S), NEW f
  PROVE  IsFiniteSet({f[x] : x \in S})
<1> DEFINE T == {f[x] : x \in S}
           g == [x \in S |-> f[x]]
<1>1. g \in Surjection(S, T)
  BY DEF Surjection
<1> HIDE DEF T, g
<1>2. IsFiniteSet(T)
  BY <1>1, FS_Surjection
<1> QED
  BY <1>2 DEF T

\* So does the smallest.
LEMMA LeastOf ==
  ASSUME NEW N \in SUBSET Int, IsFiniteSet(N), N # {}
  PROVE  Least(N) \in N /\ \A n \in N : Least(N) <= n
<1> DEFINE f == [n \in N |-> -n]
           M == {f[n] : n \in N}
<1>1. IsFiniteSet(M)
  BY ImageFinite
<1>2. M \in SUBSET Int /\ M # {}
  OBVIOUS
<1>3. Greatest(M) \in M /\ \A m \in M : m <= Greatest(M)
  <2> HIDE DEF M
  <2> QED
    BY <1>1, <1>2, GreatestOf
<1>4. PICK l \in N : Greatest(M) = -l
  BY <1>3
<1>5. \A n \in N : l <= n
  <2> SUFFICES ASSUME NEW n \in N PROVE l <= n
    OBVIOUS
  <2>1. -n \in M
    OBVIOUS
  <2>2. -n <= -l
    BY <1>3, <1>4, <2>1
  <2> QED
    BY <2>2
<1> QED
  BY <1>4, <1>5 DEF Least

LEMMA Quotient ==
  ASSUME NEW a \in Int, NEW b \in Numbers
  PROVE  /\ a \div b \in Int
         /\ b * (a \div b) <= a
         /\ a < b * (a \div b) + b
  BY DEF Numbers

LEMMA Multiples ==
  ASSUME NEW b \in Numbers, NEW j \in Int, NEW k \in Int
  PROVE  j < k <=> b * j < b * k
  BY DEF Numbers

-----------------------------------------------------------------------------
(* Boxes and the list of damage.                                           *)

\* A box on the output, as it is listed.
Listed ==
  {box \in [x0 : 0 .. Width, y0 : 0 .. Height, x1 : 0 .. Width, y1 : 0 .. Height] :
     ~IsEmpty(box)}

AreaOf(list) == UNION {Area(list[i]) : i \in DOMAIN list}

LEMMA DamageIs == Damage = AreaOf(damage)
  BY DEF Damage, AreaOf

LEMMA Output == /\ Width \in Numbers /\ Height \in Numbers
                /\ SurfaceCapacity \in Numbers
                /\ OutputDamageCapacity \in Numbers
                /\ SurfaceDamageCapacity \in Numbers
  BY SceneAssumption DEF Numbers

LEMMA ClipIs ==
  ASSUME NEW box \in Rect
  PROVE  LET clipped == Clip(box, Width, Height)
         IN  /\ ~IsEmpty(clipped) => clipped \in Listed
             /\ \A p \in Pixel : Inside(p[1], p[2], clipped)
                                   <=> Inside(p[1], p[2], box)
             /\ IsEmpty(clipped) => Area(box) = {}
<1> DEFINE clipped == Clip(box, Width, Height)
<1>1. Width \in Nat \ {0} /\ Height \in Nat \ {0}
  BY Output DEF Numbers
<1>2. clipped \in Rect
  BY <1>1 DEF Clip, Rect, Lesser, Greater
<1>3. ~IsEmpty(clipped) => clipped \in Listed
  BY <1>1 DEF Clip, Rect, Lesser, Greater, Listed, IsEmpty
<1>4. \A p \in Pixel : /\ p[1] \in 0 .. Width - 1
                       /\ p[2] \in 0 .. Height - 1
  BY DEF Pixel, Cells
<1>5. \A p \in Pixel : Inside(p[1], p[2], clipped) <=> Inside(p[1], p[2], box)
  BY <1>1, <1>4 DEF Inside, Clip, Rect, Lesser, Greater
<1>6. IsEmpty(clipped) => Area(box) = {}
  <2> SUFFICES ASSUME IsEmpty(clipped), NEW p \in Pixel,
                      Inside(p[1], p[2], box)
               PROVE  FALSE
    BY DEF Area
  <2>1. Inside(p[1], p[2], clipped)
    BY <1>5
  <2> HIDE DEF clipped
  <2> QED
    BY <1>1, <1>2, <1>4, <2>1 DEF Inside, IsEmpty, Rect
<1> QED
  BY <1>3, <1>5, <1>6

\* The box around some boxes has everything that is in one of them.
LEMMA HullIs ==
  ASSUME NEW B \in SUBSET Listed, IsFiniteSet(B), B # {}
  PROVE  Hull(B) \in Listed /\ \A b \in B : Area(b) \subseteq Area(Hull(B))
<1>1. /\ Width \in Nat /\ Height \in Nat
      /\ \A b \in B : /\ b.x0 \in 0 .. Width /\ b.x1 \in 0 .. Width
                      /\ b.y0 \in 0 .. Height /\ b.y1 \in 0 .. Height
                      /\ b.x0 < b.x1 /\ b.y0 < b.y1
  BY Output DEF Listed, IsEmpty, Numbers
<1> DEFINE f0 == [b \in B |-> b.x0]
           g0 == [b \in B |-> b.y0]
           f1 == [b \in B |-> b.x1]
           g1 == [b \in B |-> b.y1]
           hull == Hull(B)
<1>2. /\ {b.x0 : b \in B} = {f0[b] : b \in B}
      /\ {b.y0 : b \in B} = {g0[b] : b \in B}
      /\ {b.x1 : b \in B} = {f1[b] : b \in B}
      /\ {b.y1 : b \in B} = {g1[b] : b \in B}
  OBVIOUS
<1>3. /\ IsFiniteSet({b.x0 : b \in B}) /\ IsFiniteSet({b.y0 : b \in B})
      /\ IsFiniteSet({b.x1 : b \in B}) /\ IsFiniteSet({b.y1 : b \in B})
  <2> HIDE DEF f0, g0, f1, g1
  <2>1. /\ IsFiniteSet({f0[b] : b \in B}) /\ IsFiniteSet({g0[b] : b \in B})
        /\ IsFiniteSet({f1[b] : b \in B}) /\ IsFiniteSet({g1[b] : b \in B})
    BY ImageFinite
  <2> QED
    BY <1>2, <2>1
<1>4. /\ {b.x0 : b \in B} \in SUBSET Int /\ {b.y0 : b \in B} \in SUBSET Int
      /\ {b.x1 : b \in B} \in SUBSET Int /\ {b.y1 : b \in B} \in SUBSET Int
      /\ {b.x0 : b \in B} # {} /\ {b.y0 : b \in B} # {}
      /\ {b.x1 : b \in B} # {} /\ {b.y1 : b \in B} # {}
  BY <1>1
<1>5. /\ \E b \in B : hull.x0 = b.x0
      /\ \A b \in B : hull.x0 <= b.x0
  <2> DEFINE N == {b.x0 : b \in B}
  <2>1. hull.x0 = Least(N)
    BY DEF Hull
  <2>2. IsFiniteSet(N) /\ N \in SUBSET Int /\ N # {}
    BY <1>3, <1>4
  <2>3. Least(N) \in N /\ \A n \in N : Least(N) <= n
    <3> HIDE DEF N
    <3> QED
      BY <2>2, LeastOf
  <2> HIDE DEF hull
  <2> QED
    BY <2>1, <2>3
<1>6. /\ \E b \in B : hull.y0 = b.y0
      /\ \A b \in B : hull.y0 <= b.y0
  <2> DEFINE N == {b.y0 : b \in B}
  <2>1. hull.y0 = Least(N)
    BY DEF Hull
  <2>2. IsFiniteSet(N) /\ N \in SUBSET Int /\ N # {}
    BY <1>3, <1>4
  <2>3. Least(N) \in N /\ \A n \in N : Least(N) <= n
    <3> HIDE DEF N
    <3> QED
      BY <2>2, LeastOf
  <2> HIDE DEF hull
  <2> QED
    BY <2>1, <2>3
<1>7. /\ \E b \in B : hull.x1 = b.x1
      /\ \A b \in B : b.x1 <= hull.x1
  <2> DEFINE N == {b.x1 : b \in B}
  <2>1. hull.x1 = Greatest(N)
    BY DEF Hull
  <2>2. IsFiniteSet(N) /\ N \in SUBSET Int /\ N # {}
    BY <1>3, <1>4
  <2>3. Greatest(N) \in N /\ \A n \in N : n <= Greatest(N)
    <3> HIDE DEF N
    <3> QED
      BY <2>2, GreatestOf
  <2> HIDE DEF hull
  <2> QED
    BY <2>1, <2>3
<1>8. /\ \E b \in B : hull.y1 = b.y1
      /\ \A b \in B : b.y1 <= hull.y1
  <2> DEFINE N == {b.y1 : b \in B}
  <2>1. hull.y1 = Greatest(N)
    BY DEF Hull
  <2>2. IsFiniteSet(N) /\ N \in SUBSET Int /\ N # {}
    BY <1>3, <1>4
  <2>3. Greatest(N) \in N /\ \A n \in N : n <= Greatest(N)
    <3> HIDE DEF N
    <3> QED
      BY <2>2, GreatestOf
  <2> HIDE DEF hull
  <2> QED
    BY <2>1, <2>3
<1>9. hull = [x0 |-> hull.x0, y0 |-> hull.y0, x1 |-> hull.x1, y1 |-> hull.y1]
  BY DEF Hull
<1> HIDE DEF hull
<1>10. hull \in Listed
  <2>1. /\ hull.x0 \in 0 .. Width /\ hull.x1 \in 0 .. Width
        /\ hull.y0 \in 0 .. Height /\ hull.y1 \in 0 .. Height
    BY <1>1, <1>5, <1>6, <1>7, <1>8
  <2>2. hull.x0 < hull.x1 /\ hull.y0 < hull.y1
    BY <1>1, <1>5, <1>6, <1>7, <1>8
  <2> QED
    BY <1>1, <1>9, <2>1, <2>2 DEF Listed, IsEmpty
<1>11. ASSUME NEW b \in B, NEW p \in Pixel, Inside(p[1], p[2], b)
       PROVE  Inside(p[1], p[2], hull)
  <2>1. p[1] \in Int /\ p[2] \in Int
    BY <1>1 DEF Pixel, Cells
  <2>2. /\ hull.x0 \in Int /\ hull.x1 \in Int
        /\ hull.y0 \in Int /\ hull.y1 \in Int
    BY <1>10 DEF Listed
  <2> QED
    BY <1>1, <1>5, <1>6, <1>7, <1>8, <1>11, <2>1, <2>2 DEF Inside
<1> QED
  BY <1>10, <1>11 DEF Area, hull

\* moo_comp_damage_i64 adds the box, however full the list is.
LEMMA DamagedIs ==
  ASSUME NEW list \in Seq(Listed), NEW box \in Rect
  PROVE  /\ Damaged(list, box) \in Seq(Listed)
         /\ AreaOf(list) \subseteq AreaOf(Damaged(list, box))
         /\ Area(box) \subseteq AreaOf(Damaged(list, box))
<1> DEFINE clipped == Clip(box, Width, Height)
           B == {clipped} \cup {list[i] : i \in DOMAIN list}
<1>1. /\ ~IsEmpty(clipped) => clipped \in Listed
      /\ Area(clipped) = Area(box)
      /\ IsEmpty(clipped) => Area(box) = {}
  BY ClipIs DEF Area
<1>2. CASE IsEmpty(clipped)
  <2>1. Damaged(list, box) = list
    BY <1>2 DEF Damaged
  <2> QED
    BY <1>1, <1>2, <2>1
<1>3. CASE ~IsEmpty(clipped) /\ Len(list) < OutputDamageCapacity
  <2>1. Damaged(list, box) = Append(list, clipped)
    BY <1>3 DEF Damaged
  <2>2. clipped \in Listed
    BY <1>1, <1>3
  <2> HIDE DEF clipped
  <2>3. Append(list, clipped) \in Seq(Listed)
    BY <2>2
  <2>4. /\ Len(list) \in Nat /\ DOMAIN list = 1 .. Len(list)
        /\ DOMAIN Append(list, clipped) = 1 .. Len(list) + 1
        /\ \A i \in DOMAIN list : Append(list, clipped)[i] = list[i]
        /\ Append(list, clipped)[Len(list) + 1] = clipped
    BY <2>2
  <2>5. AreaOf(list) \subseteq AreaOf(Append(list, clipped))
    BY <2>4 DEF AreaOf
  <2>6. Area(clipped) \subseteq AreaOf(Append(list, clipped))
    BY <2>4 DEF AreaOf
  <2> QED
    BY <1>1, <2>1, <2>3, <2>5, <2>6
<1>4. CASE ~IsEmpty(clipped) /\ ~ (Len(list) < OutputDamageCapacity)
  <2>1. Damaged(list, box) = <<Hull(B)>>
    BY <1>4 DEF Damaged
  <2>2. clipped \in Listed
    BY <1>1, <1>4
  <2> HIDE DEF clipped
  <2>3. B \in SUBSET Listed /\ B # {}
    BY <2>2
  <2>4. IsFiniteSet(B)
    <3>1. IsFiniteSet(DOMAIN list)
      BY FS_Interval
    <3>2. IsFiniteSet({list[i] : i \in DOMAIN list})
      BY <3>1, ImageFinite
    <3> QED
      BY <3>2, FS_AddElement, FS_Singleton, FS_Union
  <2>5. \A i \in DOMAIN list : list[i] \in B
    OBVIOUS
  <2>6. clipped \in B
    OBVIOUS
  <2> HIDE DEF B
  <2>7. Hull(B) \in Listed /\ \A b \in B : Area(b) \subseteq Area(Hull(B))
    BY <2>3, <2>4, HullIs
  <2>8. AreaOf(<<Hull(B)>>) = Area(Hull(B))
    BY DEF AreaOf
  <2>9. AreaOf(list) \subseteq Area(Hull(B)) /\ Area(clipped) \subseteq Area(Hull(B))
    BY <2>5, <2>6, <2>7 DEF AreaOf
  <2> QED
    BY <1>1, <2>1, <2>7, <2>8, <2>9
<1> QED
  BY <1>2, <1>3, <1>4

\* The lists on the way from damage to DamagedAll(boxes).
Lists(g, boxes, n) ==
  g = [i \in 0 .. n |-> IF i = 0 THEN damage
                        ELSE Damaged(g[i - 1], boxes[i])]

LEMMA ListsExist ==
  ASSUME NEW boxes
  PROVE  \A n \in Nat : \E g : Lists(g, boxes, n)
<1> DEFINE Bad == {n \in Nat : ~ \E g : Lists(g, boxes, n)}
           Less == {q \in Nat \X Nat : q[1] < q[2]}
<1> SUFFICES ASSUME Bad # {} PROVE FALSE
  OBVIOUS
<1>1. IsWellFoundedOn(Less, Nat)
  BY NatLessThanWellFounded DEF OpToRel
<1>2. Bad \in SUBSET Nat
  OBVIOUS
<1> HIDE DEF Less, Bad
<1>3. PICK n \in Bad : \A m \in Bad : ~ (<<m, n>> \in Less)
  BY <1>1, <1>2, WFMin
<1>4. n \in Nat /\ ~ \E g : Lists(g, boxes, n)
  BY DEF Bad
<1>5. n # 0
  <2> DEFINE g == [i \in 0 .. 0 |-> damage]
  <2>1. Lists(g, boxes, 0)
    BY DEF Lists
  <2> QED
    BY <1>4, <2>1
<1>6. PICK g : Lists(g, boxes, n - 1)
  <2>1. n - 1 \in Nat /\ n - 1 < n
    BY <1>4, <1>5
  <2>2. n - 1 \notin Bad
    BY <1>3, <1>4, <2>1 DEF Less
  <2> QED
    BY <2>1, <2>2 DEF Bad
<1> DEFINE h == [i \in 0 .. n |-> IF i = n THEN Damaged(g[n - 1], boxes[n])
                                  ELSE g[i]]
<1>7. Lists(h, boxes, n)
  <2>1. \A i \in 0 .. n - 1 : g[i] = IF i = 0 THEN damage
                                     ELSE Damaged(g[i - 1], boxes[i])
    BY <1>6 DEF Lists
  <2>2. \A i \in 0 .. n : i < n => h[i] = g[i]
    BY <1>4
  <2>3. ASSUME NEW i \in 0 .. n
        PROVE  h[i] = IF i = 0 THEN damage ELSE Damaged(h[i - 1], boxes[i])
    <3>1. CASE i = n
      <4>1. h[i] = Damaged(g[n - 1], boxes[n]) /\ h[n - 1] = g[n - 1]
        BY <1>4, <1>5, <3>1, <2>2
      <4> QED
        BY <1>5, <3>1, <4>1
    <3>2. CASE i = 0
      BY <1>4, <1>5, <2>1, <2>2, <3>2
    <3>3. CASE i # n /\ i # 0
      <4>1. i \in 0 .. n - 1 /\ i < n /\ i - 1 \in 0 .. n /\ i - 1 < n
        BY <1>4, <3>3
      <4>2. h[i] = g[i] /\ h[i - 1] = g[i - 1]
        BY <2>2, <4>1
      <4> QED
        BY <2>1, <3>3, <4>1, <4>2
    <3> QED
      BY <3>1, <3>2, <3>3
  <2>4. h = [i \in 0 .. n |-> h[i]]
    OBVIOUS
  <2> HIDE DEF h
  <2>5. h = [i \in 0 .. n |-> IF i = 0 THEN damage
                              ELSE Damaged(h[i - 1], boxes[i])]
    BY <2>3, <2>4
  <2> QED
    BY <2>5 DEF Lists
<1> QED
  BY <1>4, <1>7

LEMMA DamagedAllIs ==
  ASSUME NEW boxes, Len(boxes) \in Nat, damage \in Seq(Listed),
         \A i \in 1 .. Len(boxes) : boxes[i] \in Rect
  PROVE  /\ DamagedAll(boxes) \in Seq(Listed)
         /\ Damage \subseteq AreaOf(DamagedAll(boxes))
         /\ \A i \in 1 .. Len(boxes) : Area(boxes[i]) \subseteq AreaOf(DamagedAll(boxes))
<1> DEFINE after[i \in 0 .. Len(boxes)] ==
             IF i = 0 THEN damage ELSE Damaged(after[i - 1], boxes[i])
<1>1. Lists(after, boxes, Len(boxes))
  BY ListsExist DEF Lists
<1>2. DamagedAll(boxes) = after[Len(boxes)]
  BY DEF DamagedAll
<1> HIDE DEF after
<1>3. /\ after[0] = damage
      /\ \A i \in 1 .. Len(boxes) : after[i] = Damaged(after[i - 1], boxes[i])
  BY <1>1 DEF Lists
<1> DEFINE Good(k) == /\ after[k] \in Seq(Listed)
                      /\ Damage \subseteq AreaOf(after[k])
                      /\ \A i \in 1 .. k : Area(boxes[i]) \subseteq AreaOf(after[k])
           Bad == {k \in 0 .. Len(boxes) : ~Good(k)}
           Less == {q \in Nat \X Nat : q[1] < q[2]}
<1>4. Good(0)
  BY <1>3, DamageIs
<1>5. ASSUME NEW k \in 1 .. Len(boxes), Good(k - 1)
      PROVE  Good(k)
  <2>1. /\ after[k] \in Seq(Listed)
        /\ AreaOf(after[k - 1]) \subseteq AreaOf(after[k])
        /\ Area(boxes[k]) \subseteq AreaOf(after[k])
    BY <1>3, <1>5, DamagedIs
  <2>2. ASSUME NEW i \in 1 .. k
        PROVE  Area(boxes[i]) \subseteq AreaOf(after[k])
    <3>1. i = k \/ i \in 1 .. k - 1
      OBVIOUS
    <3> QED
      BY <1>5, <2>1, <3>1
  <2> QED
    BY <1>5, <2>1, <2>2
<1> HIDE DEF Good
<1>6. Bad = {}
  <2> SUFFICES ASSUME Bad # {} PROVE FALSE
    OBVIOUS
  <2>1. IsWellFoundedOn(Less, Nat)
    BY NatLessThanWellFounded DEF OpToRel
  <2>2. Bad \in SUBSET Nat
    OBVIOUS
  <2> HIDE DEF Less, Bad
  <2>3. PICK k \in Bad : \A m \in Bad : ~ (<<m, k>> \in Less)
    BY <2>1, <2>2, WFMin
  <2>4. k \in 0 .. Len(boxes) /\ ~Good(k)
    BY DEF Bad
  <2>5. k # 0 /\ k - 1 \in 0 .. Len(boxes) /\ k - 1 < k /\ k \in 1 .. Len(boxes)
    BY <1>4, <2>4
  <2>6. <<k - 1, k>> \in Less
    BY <2>4, <2>5 DEF Less
  <2>7. Good(k - 1)
    BY <2>3, <2>5, <2>6 DEF Bad
  <2> QED
    BY <1>5, <2>4, <2>5, <2>7
<1>7. Good(Len(boxes))
  BY <1>6
<1> QED
  BY <1>2, <1>7 DEF Good

-----------------------------------------------------------------------------
(* The invariant.                                                          *)

SlotType ==
  [x : Int, y : Int, picture : Picture \cup {NoPicture}, scale : Numbers,
   opacity : 0 .. 255, opaque : BOOLEAN]

CursorType ==
  [visible : BOOLEAN, x : Int, y : Int, hotspot : Nat \X Nat,
   picture : CursorPicture \cup {NoPicture}, scale : Numbers]

TypeOK ==
  /\ surfaces \in [Surface -> SlotType]
  /\ cursor \in CursorType
  /\ damage \in Seq(Listed)

\* z_sequence orders the live surfaces.
StackOk ==
  /\ live \subseteq Surface /\ stack \subseteq live \X live
  /\ \A s \in live : <<s, s>> \notin stack
  /\ \A s, t, u \in live : <<s, t>> \in stack /\ <<t, u>> \in stack
                             => <<s, u>> \in stack

\* effective_opaque is what the committed picture, scale and opacity say, and
\* a hidden cursor has no picture.
OpaqueOk ==
  /\ \A s \in Surface : surfaces[s].opaque =>
       EffectivelyOpaque(surfaces[s].picture, surfaces[s].scale,
                         surfaces[s].opacity)
  /\ ~cursor.visible => cursor.picture = NoPicture

SceneInv == TypeOK /\ StackOk /\ OpaqueOk

IsPicture(picture) ==
  \/ picture = NoPicture
  \/ /\ picture.width \in 1 .. MaxInt /\ picture.height \in 1 .. MaxInt
     /\ picture.paint \in [Cells(picture.width, picture.height) -> Paint]

LEMMA MaxIntIs == MaxInt \in Nat
  BY DEF MaxInt

LEMMA Pictures ==
  /\ \A picture \in Picture \cup CursorPicture \cup {NoPicture} :
       /\ IsPicture(picture)
       /\ picture.width \in 0 .. MaxInt /\ picture.height \in 0 .. MaxInt
  /\ NoPicture.width = 0 /\ NoPicture.height = 0
<1>1. NoPicture.width = 0 /\ NoPicture.height = 0
  BY DEF NoPicture
<1>2. \A picture \in Picture \cup CursorPicture :
        /\ IsPicture(picture)
        /\ picture.width \in 0 .. MaxInt /\ picture.height \in 0 .. MaxInt
  <2> SUFFICES ASSUME NEW picture \in Picture \cup CursorPicture
               PROVE  /\ IsPicture(picture)
                      /\ picture.width \in 0 .. MaxInt
                      /\ picture.height \in 0 .. MaxInt
    OBVIOUS
  <2>1. {picture.width, picture.height} \subseteq 1 .. MaxInt
    BY SceneAssumption
  <2>2. picture.paint \in [Cells(picture.width, picture.height) -> Paint]
    BY SceneAssumption
  <2>3. picture.width \in 1 .. MaxInt /\ picture.height \in 1 .. MaxInt
    BY <2>1
  <2> QED
    BY <2>2, <2>3 DEF IsPicture
<1>3. IsPicture(NoPicture)
  BY DEF IsPicture
<1>4. 0 \in 0 .. MaxInt
  BY MaxIntIs
<1> QED
  BY <1>1, <1>2, <1>3, <1>4

LEMMA LogicalBoxIs ==
  ASSUME NEW x \in Int, NEW y \in Int, NEW scale \in Numbers,
         NEW picture \in Picture \cup CursorPicture \cup {NoPicture}
  PROVE  /\ LogicalBox(x, y, picture, scale) \in Rect
         /\ Area(LogicalBox(x, y, NoPicture, scale)) = {}
         /\ \A p \in Pixel : ~Inside(p[1], p[2], LogicalBox(x, y, NoPicture, scale))
<1>1. picture.width \in Int /\ picture.height \in Int
  BY Pictures
<1>2. picture.width \div scale \in Int /\ picture.height \div scale \in Int
  BY <1>1, Quotient
<1>3. LogicalBox(x, y, picture, scale) \in Rect
  <2> DEFINE w == picture.width \div scale
             h == picture.height \div scale
  <2>1. LogicalBox(x, y, picture, scale) = Box(x, y, w, h) /\ w \in Int /\ h \in Int
    BY <1>2 DEF LogicalBox
  <2> HIDE DEF w, h
  <2>2. Box(x, y, w, h) \in Rect
    BY <2>1 DEF Box, Rect
  <2> QED
    BY <2>1, <2>2
<1>4. 0 \div scale = 0
  BY DEF Numbers
<1>5. LogicalBox(x, y, NoPicture, scale) = Box(x, y, 0, 0)
  BY <1>4, Pictures DEF LogicalBox
<1>6. \A p \in Pixel : ~Inside(p[1], p[2], Box(x, y, 0, 0))
  <2>1. \A p \in Pixel : p[1] \in Int
    BY Output DEF Pixel, Cells, Numbers
  <2> QED
    BY <2>1 DEF Inside, Box
<1> QED
  BY <1>3, <1>5, <1>6 DEF Area

LEMMA BoundsIs ==
  ASSUME TypeOK, NEW s \in Surface
  PROVE  Bounds(s) \in Rect
<1>1. surfaces[s] \in SlotType
  BY DEF TypeOK
<1> QED
  BY <1>1, LogicalBoxIs DEF Bounds, SlotType

LEMMA CursorBoxIs ==
  ASSUME TypeOK
  PROVE  CursorBox \in Rect
<1>1. /\ cursor.x \in Int /\ cursor.y \in Int /\ cursor.scale \in Numbers
      /\ cursor.hotspot[1] \in Nat /\ cursor.hotspot[2] \in Nat
      /\ cursor.picture \in CursorPicture \cup {NoPicture}
  BY DEF TypeOK, CursorType
<1>2. /\ cursor.x - cursor.hotspot[1] \in Int
      /\ cursor.y - cursor.hotspot[2] \in Int
  BY <1>1
<1> QED
  BY <1>1, <1>2, LogicalBoxIs DEF CursorBox

-----------------------------------------------------------------------------
(* What a layer leaves at a pixel.                                         *)

\* Nothing outside its box.
LEMMA InkOutside ==
  ASSUME NEW who, NEW box, NEW picture, NEW scale, NEW opacity, NEW p,
         ~Inside(p[1], p[2], box)
  PROVE  LET ink == Ink(who, box, picture, scale, opacity, p)
         IN  ~Seen(ink) /\ ~Hides(ink)
  BY DEF Ink, Seen, Hides, Solid

\* The sample of the picture that is drawn at a pixel of the box.
LEMMA SampleIs ==
  ASSUME NEW x \in Int, NEW y \in Int, NEW scale \in Numbers,
         NEW picture \in Picture \cup CursorPicture \cup {NoPicture},
         NEW p \in Pixel,
         Inside(p[1], p[2], LogicalBox(x, y, picture, scale))
  PROVE  LET q == <<p[1] - x, p[2] - y>>
         IN  /\ q \in Cells(picture.width \div scale, picture.height \div scale)
             /\ scale * q[1] \in Int /\ scale * q[2] \in Int
             /\ <<scale * q[1], scale * q[2]>>
                  \in Cells(picture.width, picture.height)
             /\ picture # NoPicture
<1> DEFINE w == picture.width \div scale
           h == picture.height \div scale
           j == p[1] - x
           k == p[2] - y
<1>1. /\ picture.width \in Int /\ picture.height \in Int
      /\ w \in Int /\ h \in Int
      /\ scale * w <= picture.width /\ scale * h <= picture.height
  BY Pictures, Quotient
<1>2. p[1] \in Int /\ p[2] \in Int
  BY Output DEF Pixel, Cells, Numbers
<1>3. Inside(p[1], p[2], Box(x, y, w, h))
  BY DEF LogicalBox
<1> HIDE DEF w, h
<1>4. j \in Int /\ k \in Int /\ 0 <= j /\ j < w /\ 0 <= k /\ k < h
  BY <1>1, <1>2, <1>3 DEF Inside, Box
<1> HIDE DEF j, k
<1>5. <<j, k>> \in Cells(w, h)
  BY <1>1, <1>4 DEF Cells
<1>6. /\ scale * j \in Int /\ scale * j < scale * w /\ 0 <= scale * j
      /\ scale * k \in Int /\ scale * k < scale * h /\ 0 <= scale * k
      /\ scale * w \in Int /\ scale * h \in Int
  <2>1. /\ scale * j \in Int /\ scale * k \in Int
        /\ scale * w \in Int /\ scale * h \in Int
        /\ 0 <= scale * j /\ 0 <= scale * k
    BY <1>1, <1>4 DEF Numbers
  <2>2. scale * j < scale * w /\ scale * k < scale * h
    BY <1>1, <1>4, Multiples
  <2> QED
    BY <2>1, <2>2
<1>7. <<scale * j, scale * k>> \in Cells(picture.width, picture.height)
  <2>1. /\ scale * j \in 0 .. picture.width - 1
        /\ scale * k \in 0 .. picture.height - 1
    BY <1>1, <1>6
  <2> QED
    BY <2>1 DEF Cells
<1>8. picture # NoPicture
  <2>1. 0 < picture.width
    BY <1>1, <1>6
  <2> QED
    BY <2>1, Pictures
<1> QED
  BY <1>5, <1>6, <1>7, <1>8 DEF j, k, w, h

\* A layer that is validated opaque hides what is below it in all its box.
LEMMA OpaqueHides ==
  ASSUME NEW who, NEW x \in Int, NEW y \in Int, NEW scale \in Numbers,
         NEW picture \in Picture \cup CursorPicture \cup {NoPicture},
         NEW opacity, EffectivelyOpaque(picture, scale, opacity),
         NEW p \in Pixel,
         Inside(p[1], p[2], LogicalBox(x, y, picture, scale))
  PROVE  Hides(Ink(who, LogicalBox(x, y, picture, scale), picture, scale,
                   opacity, p))
<1> DEFINE q == <<p[1] - x, p[2] - y>>
           box == LogicalBox(x, y, picture, scale)
<1>1. q \in Cells(picture.width \div scale, picture.height \div scale)
  BY SampleIs
<1>2. picture.paint[<<scale * q[1], scale * q[2]>>] \in Solid
  <2> HIDE DEF q
  <2> QED
    BY <1>1 DEF EffectivelyOpaque, Samples
<1>3. box.x0 = x /\ box.y0 = y
  BY DEF LogicalBox, Box
<1>4. Ink(who, box, picture, scale, opacity, p).paint \in Solid
  BY <1>2, <1>3 DEF Ink
<1>5. Ink(who, box, picture, scale, opacity, p).opacity = 255
  BY DEF Ink, EffectivelyOpaque
<1> QED
  BY <1>4, <1>5 DEF Hides

-----------------------------------------------------------------------------
(* Coverage.                                                               *)

LEMMA CoversIs ==
  ASSUME TypeOK, StackOk, NEW s
  PROVE  IsFiniteSet(Covers(s)) /\ Covers(s) \subseteq Rect
<1> DEFINE f == [t \in Surface |-> Bounds(t)]
           T == {t \in Above(s) : surfaces[t].opaque}
<1>1. T \in SUBSET Surface
  BY DEF Above, StackOk
<1>2. IsFiniteSet(T)
  <2>1. SurfaceCapacity \in Nat
    BY Output DEF Numbers
  <2>2. IsFiniteSet(Surface)
    BY <2>1, FS_Interval DEF Surface
  <2> QED
    BY <1>1, <2>2, FS_Subset
<1>3. {Bounds(t) : t \in T} = {f[t] : t \in T}
  BY <1>1
<1>4. \A t \in T : Bounds(t) \in Rect
  BY <1>1, BoundsIs
<1> HIDE DEF f, T
<1>5. IsFiniteSet({Bounds(t) : t \in T})
  BY <1>2, <1>3, ImageFinite
<1> DEFINE C == IF /\ cursor.visible
                   /\ EffectivelyOpaque(cursor.picture, cursor.scale, 255)
                  THEN {CursorBox} ELSE {}
<1>6. IsFiniteSet(C) /\ C \subseteq Rect
  BY FS_EmptySet, FS_Singleton, CursorBoxIs
<1> HIDE DEF C
<1>7. Covers(s) = {Bounds(t) : t \in T} \cup C
  BY DEF Covers, C, T
<1> QED
  BY <1>4, <1>5, <1>6, <1>7, FS_Union

LEMMA ReachIs ==
  ASSUME TypeOK, StackOk, NEW s, NEW x \in Int, NEW y \in Int
  PROVE  /\ Reach(s, x, y) \in Int
         /\ \/ Reach(s, x, y) = x
            \/ \E b \in Covers(s) : Inside(x, y, b) /\ Reach(s, x, y) = b.x1
         /\ \A b \in Covers(s) : Inside(x, y, b) => b.x1 <= Reach(s, x, y)
<1> DEFINE B == {b \in Covers(s) : Inside(x, y, b)}
           f == [b \in B |-> b.x1]
           R == {x} \cup {b.x1 : b \in B}
<1>1. IsFiniteSet(B) /\ B \subseteq Rect
  BY CoversIs, FS_Subset
<1>2. {b.x1 : b \in B} = {f[b] : b \in B}
  OBVIOUS
<1>3. IsFiniteSet({b.x1 : b \in B})
  <2> HIDE DEF f, B
  <2> QED
    BY <1>1, <1>2, ImageFinite
<1>4. {b.x1 : b \in B} \subseteq Int
  BY <1>1 DEF Rect
<1>5. IsFiniteSet(R)
  BY <1>3, FS_Singleton, FS_Union
<1>6. R \in SUBSET Int /\ R # {}
  BY <1>4
<1>7. Reach(s, x, y) = Greatest(R)
  BY DEF Reach
<1>8. Greatest(R) \in R /\ \A n \in R : n <= Greatest(R)
  <2> HIDE DEF R
  <2> QED
    BY <1>5, <1>6, GreatestOf
<1> QED
  BY <1>6, <1>7, <1>8

\* The scan of a row from lo on.
Scans(g, s, lo, x1, y) ==
  g = [x \in lo .. x1 |->
         \/ x = x1
         \/ LET best == Lesser(Reach(s, x, y), x1) IN best > x /\ g[best]]

LEMMA LastBad ==
  ASSUME NEW x0 \in Int, NEW x1 \in Int, NEW Bad \in SUBSET (x0 .. x1), Bad # {}
  PROVE  \E z \in Bad : \A m \in z + 1 .. x1 : m \notin Bad
<1>1. IsFiniteSet(Bad)
  BY FS_Interval, FS_Subset
<1>2. Greatest(Bad) \in Bad /\ \A m \in Bad : m <= Greatest(Bad)
  BY <1>1, GreatestOf
<1>3. PICK z \in Bad : \A m \in Bad : m <= z
  BY <1>2
<1>4. \A m \in z + 1 .. x1 : ~ (m <= z)
  OBVIOUS
<1> QED
  BY <1>3, <1>4

LEMMA BestIs ==
  ASSUME TypeOK, StackOk, NEW s, NEW y \in Int, NEW x1 \in Int, NEW x \in Int,
         x <= x1
  PROVE  LET best == Lesser(Reach(s, x, y), x1)
         IN  /\ best \in Int /\ best <= x1
             /\ best > x => \E b \in Covers(s) : Inside(x, y, b) /\ best <= b.x1
             /\ x < x1 /\ (\E b \in Covers(s) : Inside(x, y, b)) => best > x
<1> DEFINE r == Reach(s, x, y)
           best == Lesser(r, x1)
<1>1. /\ r \in Int
      /\ r = x \/ \E b \in Covers(s) : Inside(x, y, b) /\ r = b.x1
      /\ \A b \in Covers(s) : Inside(x, y, b) => b.x1 <= r
  BY ReachIs
<1>2. Covers(s) \subseteq Rect
  BY CoversIs
<1> HIDE DEF r
<1>3. /\ best \in Int /\ best <= x1 /\ best <= r
      /\ best > x => r > x
      /\ r > x /\ x < x1 => best > x
  BY <1>1 DEF Lesser
<1> HIDE DEF best
<1>4. ASSUME best > x
      PROVE  \E b \in Covers(s) : Inside(x, y, b) /\ best <= b.x1
  <2>1. r # x
    BY <1>1, <1>3, <1>4
  <2> QED
    BY <1>1, <1>3, <2>1
<1>5. ASSUME x < x1, NEW b \in Covers(s), Inside(x, y, b)
      PROVE  best > x
  <2>1. b.x1 \in Int /\ x < b.x1 /\ b.x1 <= r
    BY <1>1, <1>2, <1>5 DEF Inside, Rect
  <2> QED
    BY <1>1, <1>3, <1>5, <2>1
<1> QED
  BY <1>3, <1>4, <1>5 DEF best, r

LEMMA ScansExist ==
  ASSUME TypeOK, StackOk, NEW s, NEW y \in Int, NEW x0 \in Int, NEW x1 \in Int,
         x0 <= x1
  PROVE  \E g : Scans(g, s, x0, x1, y)
<1> DEFINE Bad == {lo \in x0 .. x1 : ~ \E g : Scans(g, s, lo, x1, y)}
<1> SUFFICES ASSUME Bad # {} PROVE FALSE
  OBVIOUS
<1>1. Bad \in SUBSET (x0 .. x1)
  OBVIOUS
<1> HIDE DEF Bad
<1>2. PICK z \in Bad : \A m \in z + 1 .. x1 : m \notin Bad
  BY <1>1, LastBad
<1>3. z \in x0 .. x1 /\ ~ \E g : Scans(g, s, z, x1, y)
  BY DEF Bad
<1> DEFINE best(x) == Lesser(Reach(s, x, y), x1)
<1>4. \A x \in z .. x1 : best(x) \in Int /\ best(x) <= x1
  BY <1>3, BestIs
<1> HIDE DEF best
<1>5. z # x1
  <2> DEFINE g == [x \in x1 .. x1 |-> TRUE]
  <2>1. g = [x \in x1 .. x1 |-> \/ x = x1
                                \/ best(x) > x /\ g[best(x)]]
    OBVIOUS
  <2>2. Scans(g, s, x1, x1, y)
    BY <2>1 DEF Scans, best
  <2> QED
    BY <1>3, <2>2
<1>6. PICK g : Scans(g, s, z + 1, x1, y)
  <2>1. z + 1 \in x0 .. x1 /\ z + 1 \in z + 1 .. x1
    BY <1>3, <1>5
  <2>2. z + 1 \notin Bad
    BY <1>2, <2>1
  <2> QED
    BY <2>1, <2>2 DEF Bad
<1> DEFINE h == [x \in z .. x1 |-> IF x = z THEN best(z) > z /\ g[best(z)]
                                   ELSE g[x]]
<1>7. \A x \in z + 1 .. x1 : g[x] = (x = x1 \/ (best(x) > x /\ g[best(x)]))
  BY <1>6 DEF Scans, best
<1>8. \A x \in z + 1 .. x1 : x \in z .. x1 /\ x # z /\ h[x] = g[x]
  BY <1>3
<1>9. ASSUME NEW x \in z .. x1
      PROVE  h[x] = (x = x1 \/ (best(x) > x /\ h[best(x)]))
  <2>1. best(x) > x => best(x) \in z + 1 .. x1
    BY <1>3, <1>4
  <2>2. best(x) > x => h[best(x)] = g[best(x)]
    BY <1>8, <2>1
  <2>3. CASE x = z
    <3>1. h[x] = (best(x) > x /\ g[best(x)])
      BY <1>3, <2>3
    <3> QED
      BY <1>5, <2>2, <2>3, <3>1
  <2>4. CASE x # z
    <3>1. x \in z + 1 .. x1
      BY <1>3, <2>4
    <3>2. h[x] = g[x] /\ g[x] = (x = x1 \/ (best(x) > x /\ g[best(x)]))
      BY <1>7, <1>8, <3>1
    <3> HIDE DEF h
    <3> QED
      BY <2>2, <3>2
  <2> QED
    BY <2>3, <2>4
<1>10. h = [x \in z .. x1 |-> h[x]]
  OBVIOUS
<1> HIDE DEF h
<1>11. Scans(h, s, z, x1, y)
  BY <1>9, <1>10 DEF Scans, best
<1> QED
  BY <1>3, <1>11

UnderCover(s, x, y) == \E b \in Covers(s) : Inside(x, y, b)

\* moo_comp_region_fully_covered finds a way along the row if and only if
\* every pixel of it is under a cover, in whatever order the covers are.
LEMMA RowExact ==
  ASSUME TypeOK, StackOk, NEW s, NEW y \in Int, NEW x0 \in Int, NEW x1 \in Int,
         x0 <= x1
  PROVE  RowCovered(s, x0, x1, y)
           <=> \A x \in x0 .. x1 - 1 : UnderCover(s, x, y)
<1> DEFINE scan[x \in x0 .. x1] ==
             \/ x = x1
             \/ LET best == Lesser(Reach(s, x, y), x1) IN best > x /\ scan[best]
           best(x) == Lesser(Reach(s, x, y), x1)
<1>1. Scans(scan, s, x0, x1, y)
  <2>1. \E g : g = [x \in x0 .. x1 |->
                   \/ x = x1
                   \/ LET b == Lesser(Reach(s, x, y), x1) IN b > x /\ g[b]]
    <3>1. PICK g : Scans(g, s, x0, x1, y)
      BY ScansExist
    <3>2. g = [x \in x0 .. x1 |->
                 \/ x = x1
                 \/ LET b == Lesser(Reach(s, x, y), x1) IN b > x /\ g[b]]
      BY <3>1 DEF Scans
    <3> QED
      BY <3>2
  <2>2. scan = [x \in x0 .. x1 |->
                  \/ x = x1
                  \/ LET b == Lesser(Reach(s, x, y), x1) IN b > x /\ scan[b]]
    BY <2>1
  <2> HIDE DEF scan
  <2> QED
    BY <2>2 DEF Scans
<1>2. RowCovered(s, x0, x1, y) = scan[x0]
  BY DEF RowCovered
<1> HIDE DEF scan
<1>3. \A x \in x0 .. x1 : scan[x] <=> (x = x1 \/ (best(x) > x /\ scan[best(x)]))
  BY <1>1 DEF Scans
<1>4. \A x \in x0 .. x1 :
        /\ best(x) \in Int /\ best(x) <= x1
        /\ best(x) > x => \E b \in Covers(s) : Inside(x, y, b) /\ best(x) <= b.x1
        /\ x < x1 /\ UnderCover(s, x, y) => best(x) > x
  BY BestIs DEF UnderCover
<1>5. Covers(s) \subseteq Rect
  BY CoversIs
<1> HIDE DEF best
<1> DEFINE Good(z) == /\ scan[z] => \A x \in z .. x1 - 1 : UnderCover(s, x, y)
                      /\ (\A x \in z .. x1 - 1 : UnderCover(s, x, y)) => scan[z]
<1>6. ASSUME NEW z \in x0 .. x1, \A m \in z + 1 .. x1 : Good(m)
      PROVE  Good(z)
  <2>1. CASE z = x1
    BY <1>3, <2>1
  <2>2. CASE z # x1
    <3>1. z < x1 /\ best(z) \in Int /\ best(z) <= x1
      BY <1>4, <2>2
    <3>2. best(z) > z => Good(best(z))
      <4>1. best(z) > z => best(z) \in z + 1 .. x1
        BY <3>1
      <4> HIDE DEF Good
      <4> QED
        BY <1>6, <4>1
    <3>3. ASSUME scan[z], NEW x \in z .. x1 - 1
          PROVE  UnderCover(s, x, y)
      <4>1. best(z) > z /\ scan[best(z)]
        BY <1>3, <2>2, <3>3
      <4>2. CASE x < best(z)
        <5>1. PICK b \in Covers(s) : Inside(z, y, b) /\ best(z) <= b.x1
          BY <1>4, <4>1
        <5>2. b \in Rect
          BY <1>5
        <5>3. Inside(x, y, b)
          BY <3>1, <4>2, <5>1, <5>2 DEF Inside, Rect
        <5> QED
          BY <5>3 DEF UnderCover
      <4>3. CASE ~ (x < best(z))
        <5>1. x \in best(z) .. x1 - 1
          BY <3>1, <4>3
        <5> QED
          BY <3>2, <4>1, <5>1
      <4> QED
        BY <4>2, <4>3
    <3>4. ASSUME \A x \in z .. x1 - 1 : UnderCover(s, x, y)
          PROVE  scan[z]
      <4>1. best(z) > z
        BY <1>4, <3>1, <3>4
      <4>2. \A x \in best(z) .. x1 - 1 : UnderCover(s, x, y)
        BY <3>1, <3>4, <4>1
      <4>3. scan[best(z)]
        BY <3>2, <4>1, <4>2
      <4> QED
        BY <1>3, <4>1, <4>3
    <3> QED
      BY <3>3, <3>4
  <2> QED
    BY <2>1, <2>2
<1> DEFINE Bad == {z \in x0 .. x1 : ~Good(z)}
<1>7. Bad = {}
  <2> HIDE DEF Good
  <2> SUFFICES ASSUME Bad # {} PROVE FALSE
    OBVIOUS
  <2>1. Bad \in SUBSET (x0 .. x1)
    OBVIOUS
  <2>2. PICK z \in Bad : \A m \in z + 1 .. x1 : m \notin Bad
    <3> HIDE DEF Bad
    <3> QED
      BY <2>1, LastBad
  <2>3. \A m \in z + 1 .. x1 : m \in x0 .. x1 /\ Good(m)
    BY <2>2
  <2> QED
    BY <1>6, <2>2, <2>3
<1>8. Good(x0)
  <2> HIDE DEF Good
  <2> QED
    BY <1>7
<1> QED
  BY <1>2, <1>8

\* A region is found covered if and only if there is some of it on the output
\* and all of that is under covers.
LEMMA RegionExact ==
  ASSUME TypeOK, StackOk, NEW s, NEW box \in Rect
  PROVE  RegionCovered(s, box)
           <=> /\ Area(box) # {}
               /\ \A p \in Area(box) : UnderCover(s, p[1], p[2])
<1> DEFINE clipped == Clip(box, Width, Height)
<1>1. /\ ~IsEmpty(clipped) => clipped \in Listed
      /\ Area(clipped) = Area(box)
      /\ IsEmpty(clipped) => Area(box) = {}
  BY ClipIs DEF Area
<1>2. RegionCovered(s, box)
        <=> /\ ~IsEmpty(clipped)
            /\ \A y \in clipped.y0 .. clipped.y1 - 1 :
                 RowCovered(s, clipped.x0, clipped.x1, y)
  BY DEF RegionCovered
<1> HIDE DEF clipped
<1>3. CASE IsEmpty(clipped)
  BY <1>1, <1>2, <1>3
<1>4. CASE ~IsEmpty(clipped)
  <2>1. /\ clipped.x0 \in Nat /\ clipped.x1 \in Nat
        /\ clipped.y0 \in Nat /\ clipped.y1 \in Nat
        /\ clipped.x1 <= Width /\ clipped.y1 <= Height
        /\ clipped.x0 < clipped.x1 /\ clipped.y0 < clipped.y1
        /\ Width \in Nat /\ Height \in Nat
    BY <1>1, <1>4, Output DEF Listed, IsEmpty, Numbers
  <2>2. Area(clipped) = (clipped.x0 .. clipped.x1 - 1)
                          \X (clipped.y0 .. clipped.y1 - 1)
    <3>1. ASSUME NEW p \in Area(clipped)
          PROVE  p \in (clipped.x0 .. clipped.x1 - 1)
                         \X (clipped.y0 .. clipped.y1 - 1)
      BY <2>1 DEF Area, Pixel, Cells, Inside
    <3>2. ASSUME NEW x \in clipped.x0 .. clipped.x1 - 1,
                 NEW y \in clipped.y0 .. clipped.y1 - 1
          PROVE  <<x, y>> \in Area(clipped)
      BY <2>1 DEF Area, Pixel, Cells, Inside
    <3> DEFINE X == clipped.x0 .. clipped.x1 - 1
               Y == clipped.y0 .. clipped.y1 - 1
    <3>3. \A p \in Area(clipped) : p \in X \X Y
      BY <3>1
    <3>4. \A x \in X, y \in Y : <<x, y>> \in Area(clipped)
      BY <3>2
    <3> HIDE DEF X, Y
    <3>5. Area(clipped) = X \X Y
      BY <3>3, <3>4
    <3> QED
      BY <3>5 DEF X, Y
  <2>3. \A y \in clipped.y0 .. clipped.y1 - 1 :
          RowCovered(s, clipped.x0, clipped.x1, y)
            <=> \A x \in clipped.x0 .. clipped.x1 - 1 : UnderCover(s, x, y)
    BY <2>1, RowExact
  <2>4. <<clipped.x0, clipped.y0>> \in Area(clipped)
    BY <2>1, <2>2
  <2>5. (\A p \in Area(clipped) : UnderCover(s, p[1], p[2]))
          <=> \A y \in clipped.y0 .. clipped.y1 - 1 :
                \A x \in clipped.x0 .. clipped.x1 - 1 : UnderCover(s, x, y)
    <3> DEFINE X == clipped.x0 .. clipped.x1 - 1
               Y == clipped.y0 .. clipped.y1 - 1
    <3>1. Area(clipped) = X \X Y
      BY <2>2
    <3> HIDE DEF X, Y
    <3>2. ASSUME \A p \in Area(clipped) : UnderCover(s, p[1], p[2]),
                 NEW y \in Y, NEW x \in X
          PROVE  UnderCover(s, x, y)
      <4>1. <<x, y>> \in Area(clipped)
        BY <3>1
      <4>2. UnderCover(s, <<x, y>>[1], <<x, y>>[2])
        BY <3>2, <4>1
      <4> QED
        BY <4>2
    <3>3. ASSUME \A y \in Y : \A x \in X : UnderCover(s, x, y),
                 NEW p \in Area(clipped)
          PROVE  UnderCover(s, p[1], p[2])
      <4>1. p[1] \in X /\ p[2] \in Y
        BY <3>1
      <4> QED
        BY <3>3, <4>1
    <3> QED
      BY <3>2, <3>3 DEF X, Y
  <2> QED
    BY <1>1, <1>2, <1>4, <2>3, <2>4, <2>5
<1> QED
  BY <1>3, <1>4

LEMMA LayersAre ==
  ASSUME StackOk
  PROVE  /\ 0 \notin live
         /\ \A layer \in Layer : Over(layer) \subseteq Layer
         /\ \A s \in live : Over(s) = Above(s) \cup {0} /\ s \notin Over(s)
         /\ Over(0) = {}
<1>1. 0 \notin live
  BY DEF StackOk, Surface
<1>2. \A s \in live : s # 0 /\ s \notin Above(s) /\ Above(s) \subseteq live
  BY <1>1 DEF StackOk, Above
<1> QED
  BY <1>1, <1>2 DEF Over, Layer

\* A cover of s hides s at every pixel it reaches over.
LEMMA CoverHides ==
  ASSUME SceneInv, NEW s \in live, NEW p \in Pixel,
         UnderCover(s, p[1], p[2])
  PROVE  \E t \in Over(s) : Hides(LayerInk(t, p))
<1> USE DEF SceneInv
<1>1. PICK b \in Covers(s) : Inside(p[1], p[2], b)
  BY DEF UnderCover
<1>2. Over(s) = Above(s) \cup {0} /\ 0 \notin live /\ Above(s) \subseteq live
  BY LayersAre DEF Above
<1>3. CASE \E t \in Above(s) : surfaces[t].opaque /\ b = Bounds(t)
  <2>1. PICK t \in Above(s) : surfaces[t].opaque /\ b = Bounds(t)
    BY <1>3
  <2>2. t \in live /\ t \in Surface /\ t # 0
    BY <1>2, <2>1 DEF StackOk
  <2>3. /\ surfaces[t].x \in Int /\ surfaces[t].y \in Int
        /\ surfaces[t].scale \in Numbers
        /\ surfaces[t].picture \in Picture \cup {NoPicture}
        /\ EffectivelyOpaque(surfaces[t].picture, surfaces[t].scale,
                             surfaces[t].opacity)
    BY <2>1, <2>2 DEF TypeOK, SlotType, OpaqueOk
  <2>4. Hides(SurfaceInk(t, p))
    BY <1>1, <2>1, <2>3, OpaqueHides DEF SurfaceInk, Bounds
  <2> QED
    BY <1>2, <2>1, <2>2, <2>4 DEF LayerInk
<1>4. CASE /\ EffectivelyOpaque(cursor.picture, cursor.scale, 255)
           /\ b = CursorBox
  <2>1. /\ cursor.x - cursor.hotspot[1] \in Int
        /\ cursor.y - cursor.hotspot[2] \in Int
        /\ cursor.scale \in Numbers
        /\ cursor.picture \in CursorPicture \cup {NoPicture}
    BY DEF TypeOK, CursorType
  <2>2. Hides(CursorInk(p))
    BY <1>1, <1>4, <2>1, OpaqueHides DEF CursorInk, CursorBox
  <2> QED
    BY <1>2, <2>2 DEF LayerInk
<1>5. \/ \E t \in Above(s) : surfaces[t].opaque /\ b = Bounds(t)
      \/ /\ EffectivelyOpaque(cursor.picture, cursor.scale, 255)
         /\ b = CursorBox
  BY <1>1 DEF Covers
<1> QED
  BY <1>3, <1>4, <1>5

LEMMA ExactCoverage ==
  ASSUME SceneInv
  PROVE  CoverageExact
<1> SUFFICES ASSUME NEW s \in live
             PROVE  /\ RegionCovered(s, Bounds(s))
                         => \A p \in Area(Bounds(s)) : s \notin Visible(p)
                    /\ /\ Area(Bounds(s)) # {}
                       /\ \A p \in Area(Bounds(s)) : \E b \in Covers(s) :
                            Inside(p[1], p[2], b)
                       => RegionCovered(s, Bounds(s))
  BY DEF CoverageExact
<1>1. Bounds(s) \in Rect
  BY BoundsIs DEF SceneInv, StackOk
<1>2. RegionCovered(s, Bounds(s))
        <=> /\ Area(Bounds(s)) # {}
            /\ \A p \in Area(Bounds(s)) : UnderCover(s, p[1], p[2])
  BY <1>1, RegionExact DEF SceneInv
<1>3. ASSUME RegionCovered(s, Bounds(s)), NEW p \in Area(Bounds(s))
      PROVE  s \notin Visible(p)
  <2>1. p \in Pixel /\ UnderCover(s, p[1], p[2])
    BY <1>2, <1>3 DEF Area
  <2>2. \E t \in Over(s) : Hides(LayerInk(t, p))
    BY <2>1, CoverHides
  <2> QED
    BY <2>2 DEF Visible
<1> QED
  BY <1>2, <1>3 DEF UnderCover

-----------------------------------------------------------------------------
(* What stays shown.                                                       *)

\* A layer that leaves nothing at a pixel.
Bare(layer, p) == ~Seen(LayerInk(layer, p)) /\ ~Hides(LayerInk(layer, p))

\* If only layers change that leave nothing at a pixel before and after, the
\* pixel shows the same.
LEMMA SameLayers ==
  ASSUME StackOk, StackOk', NEW p, NEW K,
         \A t : t \notin K => (t \in Layer <=> t \in Layer'),
         \A t \in Layer \ K : LayerInk(t, p)' = LayerInk(t, p),
         \A t \in Layer \cap K : Bare(t, p),
         \A t \in Layer' \cap K : Bare(t, p)',
         \A t, u \in Layer \ K : u \in Over(t) <=> u \in Over(t)'
  PROVE  Shown(p)' = Shown(p)
<1>1. /\ \A t \in Layer : Over(t) \subseteq Layer
      /\ \A t \in Layer' : Over(t)' \subseteq Layer'
  <2>1. \A t \in Layer : Over(t) \subseteq Layer
    BY LayersAre
  <2>2. \A t \in Layer' : Over(t)' \subseteq Layer'
    BY DEF Layer, Over, Above
  <2> QED
    BY <2>1, <2>2
<1>2. \A t \in Visible(p) : t \in Layer \ K
  BY DEF Visible, Bare
<1>3. \A t \in Visible(p)' : t \in Layer' \ K
  BY DEF Visible, Bare
<1>4. ASSUME NEW t \in Layer \ K
      PROVE  t \in Visible(p) <=> t \in Visible(p)'
  <2>1. LayerInk(t, p)' = LayerInk(t, p) /\ t \in Layer'
    BY <1>4
  <2>2. ASSUME NEW u \in Over(t), Hides(LayerInk(u, p))
        PROVE  u \in Over(t)' /\ Hides(LayerInk(u, p))'
    <3>1. u \in Layer
      BY <1>1, <2>2
    <3>2. u \notin K
      BY <2>2, <3>1 DEF Bare
    <3>3. LayerInk(u, p)' = LayerInk(u, p)
      BY <3>1, <3>2
    <3> QED
      BY <2>2, <3>1, <3>2, <3>3 DEF Hides
  <2>3. ASSUME NEW u \in Over(t)', Hides(LayerInk(u, p))'
        PROVE  u \in Over(t) /\ Hides(LayerInk(u, p))
    <3>1. u \in Layer'
      BY <1>1, <2>1, <2>3
    <3>2. u \notin K
      BY <2>3, <3>1 DEF Bare
    <3>3. u \in Layer /\ LayerInk(u, p)' = LayerInk(u, p)
      BY <3>1, <3>2
    <3> QED
      BY <2>3, <3>2, <3>3 DEF Hides
  <2>4. Seen(LayerInk(t, p))' <=> Seen(LayerInk(t, p))
    BY <2>1 DEF Seen
  <2> QED
    BY <2>1, <2>2, <2>3, <2>4 DEF Visible
<1>5. Visible(p)' = Visible(p)
  <2>1. \A t : t \in Visible(p)' <=> t \in Visible(p)
    BY <1>2, <1>3, <1>4
  <2> QED
    BY <2>1
<1>6. \A t \in Visible(p) : LayerInk(t, p)' = LayerInk(t, p)
  BY <1>2
<1>7. \A t, u \in Visible(p) : u \in Over(t) <=> u \in Over(t)'
  BY <1>2
<1>8. {LayerInk(t, p) : t \in Visible(p)}' = {LayerInk(t, p) : t \in Visible(p)}
  BY <1>5, <1>6
<1>9. {pair \in Visible(p) \X Visible(p) : pair[2] \in Over(pair[1])}'
        = {pair \in Visible(p) \X Visible(p) : pair[2] \in Over(pair[1])}
  BY <1>5, <1>7
<1> QED
  BY <1>8, <1>9 DEF Shown

-----------------------------------------------------------------------------
(* The damage a client declares.                                           *)

WholeBuffer == Box(0, 0, MaxInt, MaxInt)

Declared1(list, box) ==
  IF Len(list) = SurfaceDamageCapacity THEN <<WholeBuffer>>
  ELSE Append(list, box)

\* The lists on the way to PendingDamage(declared).
Pendings(g, declared, n) ==
  g = [i \in 0 .. n |-> IF i = 0 THEN <<>>
                        ELSE Declared1(g[i - 1], declared[i])]

LEMMA PendingsExist ==
  ASSUME NEW declared
  PROVE  \A n \in Nat : \E g : Pendings(g, declared, n)
<1> DEFINE Bad == {n \in Nat : ~ \E g : Pendings(g, declared, n)}
           Less == {q \in Nat \X Nat : q[1] < q[2]}
<1> SUFFICES ASSUME Bad # {} PROVE FALSE
  OBVIOUS
<1>1. IsWellFoundedOn(Less, Nat)
  BY NatLessThanWellFounded DEF OpToRel
<1>2. Bad \in SUBSET Nat
  OBVIOUS
<1> HIDE DEF Less, Bad
<1>3. PICK n \in Bad : \A m \in Bad : ~ (<<m, n>> \in Less)
  BY <1>1, <1>2, WFMin
<1>4. n \in Nat /\ ~ \E g : Pendings(g, declared, n)
  BY DEF Bad
<1>5. n # 0
  <2> DEFINE g == [i \in 0 .. 0 |-> <<>>]
  <2>1. Pendings(g, declared, 0)
    BY DEF Pendings
  <2> QED
    BY <1>4, <2>1
<1>6. PICK g : Pendings(g, declared, n - 1)
  <2>1. n - 1 \in Nat /\ n - 1 < n
    BY <1>4, <1>5
  <2>2. n - 1 \notin Bad
    BY <1>3, <1>4, <2>1 DEF Less
  <2> QED
    BY <2>1, <2>2 DEF Bad
<1> DEFINE h == [i \in 0 .. n |-> IF i = n
                                  THEN Declared1(g[n - 1], declared[n])
                                  ELSE g[i]]
<1>7. Pendings(h, declared, n)
  <2>1. \A i \in 0 .. n - 1 : g[i] = IF i = 0 THEN <<>>
                                     ELSE Declared1(g[i - 1], declared[i])
    BY <1>6 DEF Pendings
  <2>2. \A i \in 0 .. n : i < n => h[i] = g[i]
    BY <1>4
  <2>3. ASSUME NEW i \in 0 .. n
        PROVE  h[i] = IF i = 0 THEN <<>>
                      ELSE Declared1(h[i - 1], declared[i])
    <3>1. CASE i = n
      <4>1. h[i] = Declared1(g[n - 1], declared[n]) /\ h[n - 1] = g[n - 1]
        BY <1>4, <1>5, <3>1, <2>2
      <4> QED
        BY <1>5, <3>1, <4>1
    <3>2. CASE i = 0
      BY <1>4, <1>5, <2>1, <2>2, <3>2
    <3>3. CASE i # n /\ i # 0
      <4>1. i \in 0 .. n - 1 /\ i < n /\ i - 1 \in 0 .. n /\ i - 1 < n
        BY <1>4, <3>3
      <4>2. h[i] = g[i] /\ h[i - 1] = g[i - 1]
        BY <2>2, <4>1
      <4> QED
        BY <2>1, <3>3, <4>1, <4>2
    <3> QED
      BY <3>1, <3>2, <3>3
  <2>4. h = [i \in 0 .. n |-> h[i]]
    OBVIOUS
  <2> HIDE DEF h
  <2>5. h = [i \in 0 .. n |-> IF i = 0 THEN <<>>
                              ELSE Declared1(h[i - 1], declared[i])]
    BY <2>3, <2>4
  <2> QED
    BY <2>5 DEF Pendings
<1> QED
  BY <1>4, <1>7

\* A pixel of a buffer is in a pending box if it is in a declared one.
InPending(list, x, y) == \E j \in DOMAIN list : Inside(x, y, list[j])

LEMMA Declared1Is ==
  ASSUME NEW list \in Seq(Rect), NEW box \in Rect
  PROVE  /\ Declared1(list, box) \in Seq(Rect)
         /\ \A x, y \in 0 .. MaxInt - 1 :
              InPending(list, x, y) \/ Inside(x, y, box)
                => InPending(Declared1(list, box), x, y)
<1>1. CASE Len(list) = SurfaceDamageCapacity
  <2>1. Declared1(list, box) = <<WholeBuffer>>
    BY <1>1 DEF Declared1
  <2>2. WholeBuffer \in Rect
    BY MaxIntIs DEF WholeBuffer, Box, Rect
  <2>3. \A x, y \in 0 .. MaxInt - 1 : Inside(x, y, WholeBuffer)
    BY MaxIntIs DEF Inside, WholeBuffer, Box
  <2>4. 1 \in DOMAIN <<WholeBuffer>> /\ <<WholeBuffer>>[1] = WholeBuffer
    OBVIOUS
  <2>5. <<WholeBuffer>> \in Seq(Rect)
    BY <2>2
  <2> QED
    BY <2>1, <2>3, <2>4, <2>5 DEF InPending
<1>2. CASE Len(list) # SurfaceDamageCapacity
  <2>1. Declared1(list, box) = Append(list, box)
    BY <1>2 DEF Declared1
  <2>2. /\ Len(list) \in Nat /\ DOMAIN list = 1 .. Len(list)
        /\ DOMAIN Append(list, box) = 1 .. Len(list) + 1
        /\ \A j \in DOMAIN list : Append(list, box)[j] = list[j]
        /\ Append(list, box)[Len(list) + 1] = box
    OBVIOUS
  <2>3. \A x, y : InPending(list, x, y) => InPending(Append(list, box), x, y)
    BY <2>2 DEF InPending
  <2>4. \A x, y : Inside(x, y, box) => InPending(Append(list, box), x, y)
    BY <2>2 DEF InPending
  <2> QED
    BY <2>1, <2>3, <2>4
<1> QED
  BY <1>1, <1>2

\* moo_comp_surface_damage loses no pixel of the buffer, however many boxes
\* are declared.
LEMMA PendingIs ==
  ASSUME NEW declared \in Seq(Rect)
  PROVE  /\ PendingDamage(declared) \in Seq(Rect)
         /\ declared = <<>> => PendingDamage(declared) = <<>>
         /\ \A x, y \in 0 .. MaxInt - 1 :
              InPending(declared, x, y)
                => InPending(PendingDamage(declared), x, y)
<1> DEFINE all == Box(0, 0, MaxInt, MaxInt)
           list[i \in 0 .. Len(declared)] ==
             IF i = 0 THEN <<>>
             ELSE IF Len(list[i - 1]) = SurfaceDamageCapacity THEN <<all>>
             ELSE Append(list[i - 1], declared[i])
<1>1. Pendings(list, declared, Len(declared))
  <2>1. Len(declared) \in Nat
    OBVIOUS
  <2>2. \E g : g = [i \in 0 .. Len(declared) |->
                      IF i = 0 THEN <<>>
                      ELSE IF Len(g[i - 1]) = SurfaceDamageCapacity THEN <<all>>
                      ELSE Append(g[i - 1], declared[i])]
    BY <2>1, PendingsExist DEF Pendings, Declared1, WholeBuffer
  <2>3. list = [i \in 0 .. Len(declared) |->
                  IF i = 0 THEN <<>>
                  ELSE IF Len(list[i - 1]) = SurfaceDamageCapacity THEN <<all>>
                  ELSE Append(list[i - 1], declared[i])]
    BY <2>2
  <2> HIDE DEF list
  <2> QED
    BY <2>3 DEF Pendings, Declared1, WholeBuffer
<1>2. PendingDamage(declared) = list[Len(declared)]
  BY DEF PendingDamage
<1> HIDE DEF list
<1>3. /\ list[0] = <<>>
      /\ \A i \in 1 .. Len(declared) :
           list[i] = Declared1(list[i - 1], declared[i])
  BY <1>1 DEF Pendings
<1>4. /\ Len(declared) \in Nat /\ DOMAIN declared = 1 .. Len(declared)
      /\ \A i \in 1 .. Len(declared) : declared[i] \in Rect
  OBVIOUS
<1> DEFINE Good(k) == /\ list[k] \in Seq(Rect)
                      /\ \A i \in 1 .. k : \A x, y \in 0 .. MaxInt - 1 :
                           Inside(x, y, declared[i]) => InPending(list[k], x, y)
           Bad == {k \in 0 .. Len(declared) : ~Good(k)}
           Less == {q \in Nat \X Nat : q[1] < q[2]}
<1>5. Good(0)
  BY <1>3
<1>6. ASSUME NEW k \in 1 .. Len(declared), Good(k - 1)
      PROVE  Good(k)
  <2>1. /\ list[k] \in Seq(Rect)
        /\ \A x, y \in 0 .. MaxInt - 1 :
             InPending(list[k - 1], x, y) \/ Inside(x, y, declared[k])
               => InPending(list[k], x, y)
    BY <1>3, <1>4, <1>6, Declared1Is
  <2>2. ASSUME NEW i \in 1 .. k, NEW x \in 0 .. MaxInt - 1,
               NEW y \in 0 .. MaxInt - 1, Inside(x, y, declared[i])
        PROVE  InPending(list[k], x, y)
    <3>1. i = k \/ i \in 1 .. k - 1
      OBVIOUS
    <3> QED
      BY <1>6, <2>1, <2>2, <3>1
  <2> QED
    BY <2>1, <2>2
<1> HIDE DEF Good
<1>7. Bad = {}
  <2> SUFFICES ASSUME Bad # {} PROVE FALSE
    OBVIOUS
  <2>1. IsWellFoundedOn(Less, Nat)
    BY NatLessThanWellFounded DEF OpToRel
  <2>2. Bad \in SUBSET Nat
    OBVIOUS
  <2> HIDE DEF Less, Bad
  <2>3. PICK k \in Bad : \A m \in Bad : ~ (<<m, k>> \in Less)
    BY <2>1, <2>2, WFMin
  <2>4. k \in 0 .. Len(declared) /\ ~Good(k)
    BY DEF Bad
  <2>5. /\ k # 0 /\ k - 1 \in 0 .. Len(declared) /\ k - 1 < k
        /\ k \in 1 .. Len(declared)
    BY <1>4, <1>5, <2>4
  <2>6. <<k - 1, k>> \in Less
    BY <2>4, <2>5 DEF Less
  <2>7. Good(k - 1)
    BY <2>3, <2>5, <2>6 DEF Bad
  <2> QED
    BY <1>6, <2>4, <2>5, <2>7
<1>8. Good(Len(declared))
  BY <1>4, <1>7
<1>9. declared = <<>> => list[Len(declared)] = <<>>
  BY <1>3
<1> QED
  BY <1>2, <1>4, <1>8, <1>9 DEF Good, InPending

\* Rounding outwards keeps the pixel that draws a sample of the box.
LEMMA RoundedOut ==
  ASSUME NEW a \in Int, NEW b \in Int, NEW scale \in Numbers, NEW j \in Int,
         a <= scale * j, scale * j < b
  PROVE  a \div scale <= j /\ j < (b + scale - 1) \div scale
<1> DEFINE q == a \div scale
           r == (b + scale - 1) \div scale
<1>1. scale \in Int /\ b + scale - 1 \in Int
  BY DEF Numbers
<1>2. q \in Int /\ scale * q <= a
  BY Quotient
<1>3. r \in Int /\ b + scale - 1 < scale * r + scale
  BY <1>1, Quotient
<1> HIDE DEF q, r
<1>4. scale * j \in Int /\ scale * q \in Int /\ scale * r \in Int
  BY <1>1, <1>2, <1>3
<1>5. j < q <=> scale * j < scale * q
  BY <1>2, Multiples
<1>6. j < r <=> scale * j < scale * r
  BY <1>3, Multiples
<1>7. ~ (j < q)
  <2>1. ~ (scale * j < scale * q)
    BY <1>2, <1>4
  <2> QED
    BY <1>5, <2>1
<1>8. j < r
  <2>1. scale * j < scale * r
    BY <1>1, <1>3, <1>4
  <2> QED
    BY <1>6, <2>1
<1> QED
  BY <1>2, <1>7, <1>8 DEF q, r

LEMMA OutputBoxIs ==
  ASSUME TypeOK, NEW s \in Surface, NEW scale \in Numbers,
         NEW picture \in Picture \cup {NoPicture}, NEW box \in Rect
  PROVE  /\ OutputBox(s, picture, scale, box) \in Rect
         /\ \A j, k \in Int :
              LET q == <<scale * j, scale * k>> IN
              q \in Cells(picture.width, picture.height)
                /\ Inside(q[1], q[2], box)
              => /\ ~IsEmpty(Clip(box, picture.width, picture.height))
                 /\ Inside(surfaces[s].x + j, surfaces[s].y + k,
                           OutputBox(s, picture, scale, box))
<1> DEFINE in == Clip(box, picture.width, picture.height)
           out == OutputBox(s, picture, scale, box)
           x == surfaces[s].x
           y == surfaces[s].y
<1>1. /\ x \in Int /\ y \in Int
      /\ picture.width \in Int /\ picture.height \in Int
      /\ scale \in Int
  BY Pictures, MaxIntIs DEF TypeOK, SlotType, Numbers
<1>2. in \in Rect
  BY <1>1 DEF Clip, Rect, Lesser, Greater
<1>3. /\ in.x0 \in Int /\ in.y0 \in Int /\ in.x1 \in Int /\ in.y1 \in Int
      /\ in.x1 + scale - 1 \in Int /\ in.y1 + scale - 1 \in Int
  BY <1>1, <1>2 DEF Rect
<1>4. out = [x0 |-> x + (in.x0 \div scale), y0 |-> y + (in.y0 \div scale),
             x1 |-> x + ((in.x1 + scale - 1) \div scale),
             y1 |-> y + ((in.y1 + scale - 1) \div scale)]
  BY DEF OutputBox
<1>5. /\ in.x0 \div scale \in Int /\ in.y0 \div scale \in Int
      /\ (in.x1 + scale - 1) \div scale \in Int
      /\ (in.y1 + scale - 1) \div scale \in Int
  BY <1>3, Quotient
<1>6. ASSUME NEW j \in Int, NEW k \in Int,
             <<scale * j, scale * k>> \in Cells(picture.width, picture.height),
             Inside(scale * j, scale * k, box)
      PROVE  Inside(scale * j, scale * k, in)
  <2>1. /\ scale * j \in 0 .. picture.width - 1
        /\ scale * k \in 0 .. picture.height - 1
    BY <1>6 DEF Cells
  <2>2. box.x0 \in Int /\ box.y0 \in Int /\ box.x1 \in Int /\ box.y1 \in Int
    BY DEF Rect
  <2> QED
    BY <1>1, <1>6, <2>1, <2>2 DEF Inside, Clip, Lesser, Greater
<1> HIDE DEF in, out, x, y
<1>7. ASSUME NEW j \in Int, NEW k \in Int, Inside(scale * j, scale * k, in)
      PROVE  ~IsEmpty(in) /\ Inside(x + j, y + k, out)
  <2>1. scale * j \in Int /\ scale * k \in Int
    BY <1>1
  <2>2. /\ in.x0 <= scale * j /\ scale * j < in.x1
        /\ in.y0 <= scale * k /\ scale * k < in.y1
    BY <1>7 DEF Inside
  <2>3. /\ in.x0 \div scale <= j /\ j < (in.x1 + scale - 1) \div scale
        /\ in.y0 \div scale <= k /\ k < (in.y1 + scale - 1) \div scale
    BY <1>3, <2>2, RoundedOut
  <2>4. ~IsEmpty(in)
    BY <1>3, <2>1, <2>2 DEF IsEmpty
  <2>5. Inside(x + j, y + k, out)
    BY <1>1, <1>4, <1>5, <2>3 DEF Inside
  <2> QED
    BY <2>4, <2>5
<1>8. out \in Rect
  BY <1>1, <1>4, <1>5 DEF Rect
<1> QED
  BY <1>6, <1>7, <1>8 DEF in, out, x, y

-----------------------------------------------------------------------------
(* The operations.  Each keeps the invariant, and is quiet: a pixel that is *)
(* not damaged after it was not before, and shows what it showed.           *)

Quiet == \A p \in Pixel \ Damage' : p \notin Damage /\ Shown(p)' = Shown(p)

LEMMA DamageGrows ==
  ASSUME NEW boxes, Len(boxes) \in Nat, damage \in Seq(Listed),
         \A i \in 1 .. Len(boxes) : boxes[i] \in Rect,
         damage' = DamagedAll(boxes)
  PROVE  /\ damage' \in Seq(Listed)
         /\ Damage \subseteq Damage'
         /\ \A i \in 1 .. Len(boxes) : Area(boxes[i]) \subseteq Damage'
<1>1. Damage' = AreaOf(damage')
  BY DEF Damage, AreaOf
<1> QED
  BY <1>1, DamagedAllIs

\* Outside its box a layer leaves nothing.
LEMMA BareOutside ==
  ASSUME NEW p \in Pixel
  PROVE  /\ \A s \in Surface : p \notin Area(Bounds(s)) => Bare(s, p)
         /\ \A s \in Surface : p \notin Area(Bounds(s)') => Bare(s, p)'
         /\ p \notin Area(CursorBox) => Bare(0, p)
         /\ p \notin Area(CursorBox') => Bare(0, p)'
<1>1. \A s \in Surface : s # 0
  BY DEF Surface
<1>2. \A s \in Surface : p \notin Area(Bounds(s)) => Bare(s, p)
  BY <1>1, InkOutside DEF Bare, LayerInk, SurfaceInk, Area
<1>3. \A s \in Surface : p \notin Area(Bounds(s)') => Bare(s, p)'
  <2> SUFFICES ASSUME NEW s \in Surface, p \notin Area(Bounds(s)')
               PROVE  Bare(s, p)'
    OBVIOUS
  <2>1. ~Inside(p[1], p[2], Bounds(s)')
    BY DEF Area
  <2> DEFINE ink == Ink(s, Bounds(s)', surfaces'[s].picture,
                        surfaces'[s].scale, surfaces'[s].opacity, p)
  <2>2. ~Seen(ink) /\ ~Hides(ink)
    BY <2>1, InkOutside
  <2>3. LayerInk(s, p)' = ink
    BY <1>1 DEF LayerInk, SurfaceInk
  <2> HIDE DEF ink
  <2> QED
    BY <2>2, <2>3 DEF Bare, Seen, Hides
<1>4. p \notin Area(CursorBox) => Bare(0, p)
  BY InkOutside DEF Bare, LayerInk, CursorInk, Area
<1>5. p \notin Area(CursorBox') => Bare(0, p)'
  <2> SUFFICES ASSUME p \notin Area(CursorBox') PROVE Bare(0, p)'
    OBVIOUS
  <2>1. ~Inside(p[1], p[2], CursorBox')
    BY DEF Area
  <2> DEFINE ink == Ink(0, CursorBox', cursor'.picture, cursor'.scale, 255, p)
  <2>2. ~Seen(ink) /\ ~Hides(ink)
    BY <2>1, InkOutside
  <2>3. LayerInk(0, p)' = ink
    BY DEF LayerInk, CursorInk
  <2> HIDE DEF ink
  <2> QED
    BY <2>2, <2>3 DEF Bare, Seen, Hides
<1> QED
  BY <1>2, <1>3, <1>4, <1>5

\* The boxes after a step.
LEMMA BoxesAfter ==
  /\ \A s \in Surface : surfaces'[s] \in SlotType =>
       /\ Bounds(s)' \in Rect
       /\ surfaces'[s].picture = NoPicture => Area(Bounds(s)') = {}
  /\ cursor' \in CursorType =>
       /\ CursorBox' \in Rect
       /\ cursor'.picture = NoPicture => Area(CursorBox') = {}
<1>1. ASSUME NEW s \in Surface, surfaces'[s] \in SlotType
      PROVE  /\ Bounds(s)' \in Rect
             /\ surfaces'[s].picture = NoPicture => Area(Bounds(s)') = {}
  BY <1>1, LogicalBoxIs DEF Bounds, SlotType
<1>2. ASSUME cursor' \in CursorType
      PROVE  /\ CursorBox' \in Rect
             /\ cursor'.picture = NoPicture => Area(CursorBox') = {}
  <2>1. /\ cursor'.scale \in Numbers
        /\ cursor'.picture \in CursorPicture \cup {NoPicture}
        /\ cursor'.x - cursor'.hotspot[1] \in Int
        /\ cursor'.y - cursor'.hotspot[2] \in Int
    BY <1>2 DEF CursorType
  <2> QED
    BY <2>1, LogicalBoxIs DEF CursorBox
<1> QED
  BY <1>1, <1>2

LEMMA CursorShownIs ==
  ASSUME SceneInv
  PROVE  /\ CursorShown \in Rect
         /\ \A p \in Pixel : p \notin Area(CursorShown) => Bare(0, p)
<1>1. NoBox \in Rect
  BY DEF NoBox, Box, Rect
<1>2. CursorBox \in Rect
  BY CursorBoxIs DEF SceneInv
<1>3. ~cursor.visible => Area(CursorBox) = {}
  <2>1. /\ cursor.scale \in Numbers
        /\ cursor.x - cursor.hotspot[1] \in Int
        /\ cursor.y - cursor.hotspot[2] \in Int
    BY DEF SceneInv, TypeOK, CursorType
  <2>2. ~cursor.visible => cursor.picture = NoPicture
    BY DEF SceneInv, OpaqueOk
  <2>3. NoPicture \in Picture \cup CursorPicture \cup {NoPicture}
    OBVIOUS
  <2> QED
    BY <2>1, <2>2, <2>3, LogicalBoxIs DEF CursorBox
<1> QED
  BY <1>1, <1>2, <1>3, BareOutside DEF CursorShown

LEMMA BlankIs == Blank \in SlotType /\ Blank.picture = NoPicture /\ ~Blank.opaque
<1>1. 255 \in 0 .. 255 /\ 1 \in Numbers
  BY DEF Numbers
<1> QED
  BY <1>1 DEF Blank, SlotType

LEMMA InitIs ==
  ASSUME Init
  PROVE  SceneInv /\ Damage = Pixel
<1> USE DEF Init
<1> DEFINE whole == [x0 |-> 0, y0 |-> 0, x1 |-> Width, y1 |-> Height]
<1>1. Width \in Nat \ {0} /\ Height \in Nat \ {0}
  BY Output DEF Numbers
<1>2. whole \in Listed
  BY <1>1 DEF Listed, IsEmpty
<1>3. damage = <<whole>>
  OBVIOUS
<1>4. Area(whole) = Pixel
  <2>1. \A p \in Pixel : p[1] \in 0 .. Width - 1 /\ p[2] \in 0 .. Height - 1
    BY DEF Pixel, Cells
  <2> QED
    BY <1>1, <2>1 DEF Area, Inside
<1> HIDE DEF whole
<1>5. damage \in Seq(Listed) /\ Damage = Pixel
  BY <1>2, <1>3, <1>4 DEF Damage
<1>6. surfaces \in [Surface -> SlotType]
  BY BlankIs
<1>7. cursor \in CursorType
  <2>1. 1 \in Numbers
    BY DEF Numbers
  <2> QED
    BY <2>1 DEF CursorType
<1>8. StackOk
  BY DEF StackOk
<1>9. OpaqueOk
  BY BlankIs DEF OpaqueOk
<1> QED
  BY <1>5, <1>6, <1>7, <1>8, <1>9 DEF SceneInv, TypeOK

LEMMA CreateStep ==
  ASSUME SceneInv, NEW s \in Surface, SurfaceCreate(s)
  PROVE  SceneInv' /\ Quiet
<1> USE DEF SurfaceCreate
<1>1. surfaces' \in [Surface -> SlotType] /\ surfaces'[s] = Blank
      /\ \A t \in Surface : t # s => surfaces'[t] = surfaces[t]
  BY BlankIs DEF SceneInv, TypeOK
<1>2. TypeOK'
  BY <1>1 DEF SceneInv, TypeOK
<1>3. StackOk'
  BY DEF SceneInv, StackOk
<1>4. OpaqueOk'
  BY <1>1, BlankIs DEF SceneInv, OpaqueOk
<1>5. /\ StackOk /\ 0 \notin live /\ live \subseteq Surface /\ s # 0
      /\ s \notin live
  BY LayersAre DEF SceneInv, StackOk, Surface
<1>6. ASSUME NEW p \in Pixel
      PROVE  Shown(p)' = Shown(p)
  <2>1. \A t : t \notin {s} => (t \in Layer <=> t \in Layer')
    BY DEF Layer
  <2>2. \A t \in Layer \ {s} : LayerInk(t, p)' = LayerInk(t, p)
    BY <1>1, <1>5 DEF Layer, LayerInk, SurfaceInk, CursorInk, Bounds, CursorBox
  <2>3. Layer \cap {s} = {}
    BY <1>5 DEF Layer
  <2>4. Bare(s, p)'
    BY <1>1, BlankIs, BoxesAfter, BareOutside
  <2>5. \A t, u \in Layer \ {s} : u \in Over(t) <=> u \in Over(t)'
    BY <1>5 DEF Layer, Over, Above
  <2> QED
    BY <1>3, <1>5, <2>1, <2>2, <2>3, <2>4, <2>5, SameLayers
<1>7. Damage' = Damage
  BY DEF Damage
<1> QED
  BY <1>2, <1>3, <1>4, <1>6, <1>7 DEF SceneInv, Quiet

LEMMA PositionStep ==
  ASSUME SceneInv, NEW s \in Surface, NEW at \in Position, SetPosition(s, at)
  PROVE  SceneInv' /\ Quiet
<1> USE DEF SetPosition
<1>1. at[1] \in Int /\ at[2] \in Int
  BY SceneAssumption
<1>2. /\ surfaces' \in [Surface -> SlotType]
      /\ \A t \in Surface : t # s => surfaces'[t] = surfaces[t]
      /\ \A t \in Surface : /\ surfaces'[t].picture = surfaces[t].picture
                            /\ surfaces'[t].scale = surfaces[t].scale
                            /\ surfaces'[t].opacity = surfaces[t].opacity
                            /\ surfaces'[t].opaque = surfaces[t].opaque
  <2> DEFINE slot == [surfaces[s] EXCEPT !.x = at[1], !.y = at[2]]
  <2>1. surfaces \in [Surface -> SlotType] /\ surfaces[s] \in SlotType
    BY DEF SceneInv, TypeOK
  <2>2. /\ slot \in SlotType
        /\ slot.picture = surfaces[s].picture /\ slot.scale = surfaces[s].scale
        /\ slot.opacity = surfaces[s].opacity
        /\ slot.opaque = surfaces[s].opaque
    BY <1>1, <2>1 DEF SlotType
  <2>3. surfaces' = [surfaces EXCEPT ![s] = slot]
    BY <2>1
  <2> HIDE DEF slot
  <2>4. \A t \in Surface : surfaces'[t] = IF t = s THEN slot ELSE surfaces[t]
    BY <2>1, <2>3
  <2> QED
    BY <2>1, <2>2, <2>3, <2>4
<1>3. Bounds(s) \in Rect /\ Bounds(s)' \in Rect
  BY <1>2, BoundsIs, BoxesAfter DEF SceneInv
<1>4. /\ damage' \in Seq(Listed) /\ Damage \subseteq Damage'
      /\ Area(Bounds(s)) \subseteq Damage' /\ Area(Bounds(s)') \subseteq Damage'
  <2> DEFINE boxes == <<Bounds(s), Bounds(s)'>>
  <2>1. Len(boxes) = 2 /\ boxes[1] = Bounds(s) /\ boxes[2] = Bounds(s)'
    OBVIOUS
  <2>2. \A i \in 1 .. Len(boxes) : boxes[i] \in Rect
    BY <1>3, <2>1
  <2>3. damage' = DamagedAll(boxes) /\ damage \in Seq(Listed)
    BY DEF SceneInv, TypeOK
  <2> HIDE DEF boxes
  <2>4. 1 \in 1 .. Len(boxes) /\ 2 \in 1 .. Len(boxes) /\ Len(boxes) \in Nat
    BY <2>1
  <2> QED
    BY <2>1, <2>2, <2>3, <2>4, DamageGrows
<1>5. TypeOK'
  BY <1>2, <1>4 DEF SceneInv, TypeOK
<1>6. StackOk'
  BY DEF SceneInv, StackOk
<1>7. OpaqueOk'
  BY <1>2 DEF SceneInv, OpaqueOk
<1>8. StackOk /\ 0 \notin live /\ live \subseteq Surface
  BY LayersAre DEF SceneInv, StackOk
<1>9. ASSUME NEW p \in Pixel \ Damage'
      PROVE  Shown(p)' = Shown(p)
  <2>1. \A t : t \notin {s} => (t \in Layer <=> t \in Layer')
    BY DEF Layer
  <2>2. \A t \in Layer \ {s} : LayerInk(t, p)' = LayerInk(t, p)
    BY <1>2, <1>8 DEF Layer, LayerInk, SurfaceInk, CursorInk, Bounds, CursorBox
  <2>3. Bare(s, p) /\ Bare(s, p)'
    BY <1>4, BareOutside
  <2>4. \A t, u \in Layer \ {s} : u \in Over(t) <=> u \in Over(t)'
    BY <1>8 DEF Layer, Over, Above
  <2>5. \A t \in Layer \cap {s} : Bare(t, p)
    BY <2>3
  <2>6. \A t \in Layer' \cap {s} : Bare(t, p)'
    BY <2>3
  <2> QED
    BY <1>6, <1>8, <2>1, <2>2, <2>4, <2>5, <2>6, SameLayers
<1> QED
  BY <1>4, <1>5, <1>6, <1>7, <1>9 DEF SceneInv, Quiet

LEMMA RaiseStep ==
  ASSUME SceneInv, NEW s \in Surface, Raise(s)
  PROVE  SceneInv' /\ Quiet
<1> USE DEF Raise
<1>1. Bounds(s) \in Rect
  BY BoundsIs DEF SceneInv
<1>2. /\ damage' \in Seq(Listed) /\ Damage \subseteq Damage'
      /\ Area(Bounds(s)) \subseteq Damage'
  <2> DEFINE boxes == <<Bounds(s)>>
  <2>1. Len(boxes) = 1 /\ boxes[1] = Bounds(s)
    OBVIOUS
  <2>2. \A i \in 1 .. Len(boxes) : boxes[i] \in Rect
    BY <1>1, <2>1
  <2>3. damage' = DamagedAll(boxes) /\ damage \in Seq(Listed)
    BY DEF SceneInv, TypeOK
  <2> HIDE DEF boxes
  <2>4. 1 \in 1 .. Len(boxes) /\ Len(boxes) \in Nat
    BY <2>1
  <2> QED
    BY <2>1, <2>2, <2>3, <2>4, DamageGrows
<1>3. TypeOK'
  BY <1>2 DEF SceneInv, TypeOK
<1>4. StackOk'
  BY DEF SceneInv, StackOk
<1>5. OpaqueOk'
  BY DEF SceneInv, OpaqueOk
<1>6. StackOk /\ 0 \notin live /\ live \subseteq Surface
  BY LayersAre DEF SceneInv, StackOk
<1>7. ASSUME NEW p \in Pixel \ Damage'
      PROVE  Shown(p)' = Shown(p)
  <2>1. \A t : t \notin {s} => (t \in Layer <=> t \in Layer')
    BY DEF Layer
  <2>2. \A t \in Layer : LayerInk(t, p)' = LayerInk(t, p)
    BY DEF LayerInk, SurfaceInk, CursorInk, Bounds, CursorBox
  <2>3. Bare(s, p) /\ Bare(s, p)'
    <3>1. Bare(s, p)
      BY <1>2, BareOutside
    <3>2. Bare(s, p)' <=> Bare(s, p)
      BY DEF Bare, LayerInk, SurfaceInk, CursorInk, Bounds, CursorBox
    <3> QED
      BY <3>1, <3>2
  <2>4. \A t, u \in Layer \ {s} : u \in Over(t) <=> u \in Over(t)'
    BY <1>6 DEF Layer, Over, Above
  <2>5. \A t \in Layer \cap {s} : Bare(t, p)
    BY <2>3
  <2>6. \A t \in Layer' \cap {s} : Bare(t, p)'
    BY <2>3
  <2>7. \A t \in Layer \ {s} : LayerInk(t, p)' = LayerInk(t, p)
    BY <2>2
  <2> QED
    BY <1>4, <1>6, <2>1, <2>4, <2>5, <2>6, <2>7, SameLayers
<1> QED
  BY <1>2, <1>3, <1>4, <1>5, <1>7 DEF SceneInv, Quiet

\* If only a surface changes that is under a cover at a pixel, the pixel shows
\* the same.
LEMMA CoveredLayer ==
  ASSUME SceneInv, UNCHANGED <<live, stack, cursor>>, NEW s \in live,
         \A t \in Surface : t # s => surfaces'[t] = surfaces[t],
         NEW p \in Pixel, UnderCover(s, p[1], p[2])
  PROVE  Shown(p)' = Shown(p)
<1>1. /\ StackOk /\ 0 \notin live /\ live \subseteq Surface
      /\ Over(s) = Above(s) \cup {0} /\ s \notin Over(s)
      /\ \A l \in Layer : Over(l) \subseteq Layer
  BY LayersAre DEF SceneInv, StackOk
<1>2. PICK t \in Over(s) : Hides(LayerInk(t, p))
  BY CoverHides
<1>3. Layer' = Layer /\ \A l \in Layer : Over(l)' = Over(l)
  BY DEF Layer, Over, Above
<1>4. \A l \in Layer \ {s} : LayerInk(l, p)' = LayerInk(l, p)
  BY <1>1 DEF Layer, LayerInk, SurfaceInk, CursorInk, Bounds, CursorBox
<1>5. t \in Layer \ {s} /\ s \in Layer
  BY <1>1 DEF Layer
<1>6. Hides(LayerInk(t, p))'
  BY <1>2, <1>4, <1>5 DEF Hides
<1>7. s \notin Visible(p)
  BY <1>2 DEF Visible
<1>8. s \notin Visible(p)'
  <2>1. t \in Over(s)'
    BY <1>3, <1>5
  <2> QED
    BY <1>6, <2>1 DEF Visible
<1>9. ASSUME NEW l \in Layer, s \in Over(l)
      PROVE  t \in Over(l)
  <2>1. l # 0 /\ l \in live
    BY <1>9 DEF Over, Layer
  <2>2. s \in Above(l)
    BY <1>1, <1>9, <2>1 DEF Over
  <2>3. CASE t = 0
    BY <2>1, <2>3 DEF Over
  <2>4. CASE t # 0
    <3>1. t \in Above(s)
      BY <1>1, <2>4
    <3>2. t \in Above(l)
      BY <1>1, <2>1, <2>2, <3>1 DEF Above, StackOk
    <3> QED
      BY <2>1, <3>2 DEF Over
  <2> QED
    BY <2>3, <2>4
<1>10. ASSUME NEW l \in Layer \ {s}
       PROVE  l \in Visible(p) <=> l \in Visible(p)'
  <2>1. /\ LayerInk(l, p)' = LayerInk(l, p) /\ Over(l)' = Over(l)
        /\ l \in Layer /\ l \in Layer'
    BY <1>3, <1>4
  <2>2. Seen(LayerInk(l, p))' <=> Seen(LayerInk(l, p))
    BY <2>1 DEF Seen
  <2>3. ASSUME NEW u \in Over(l), u # s
        PROVE  Hides(LayerInk(u, p))' <=> Hides(LayerInk(u, p))
    <3>1. u \in Layer \ {s}
      BY <1>1, <2>1, <2>3
    <3>2. LayerInk(u, p)' = LayerInk(u, p)
      BY <1>4, <3>1
    <3> QED
      BY <3>2 DEF Hides
  <2>4. CASE s \in Over(l)
    <3>1. t \in Over(l) /\ t \in Over(l)'
      BY <1>9, <2>1, <2>4
    <3>2. l \notin Visible(p)
      BY <1>2, <3>1 DEF Visible
    <3>3. l \notin Visible(p)'
      BY <1>6, <3>1 DEF Visible
    <3> QED
      BY <3>2, <3>3
  <2>5. CASE s \notin Over(l)
    <3>1. \A u \in Over(l) : Hides(LayerInk(u, p))' <=> Hides(LayerInk(u, p))
      BY <2>3, <2>5
    <3> QED
      BY <2>1, <2>2, <3>1 DEF Visible
  <2> QED
    BY <2>4, <2>5
<1>11. \A l \in Visible(p) : l \in Layer
  BY DEF Visible
<1>12. \A l \in Visible(p)' : l \in Layer
  BY <1>3 DEF Visible
<1>13. Visible(p)' = Visible(p)
  <2>1. \A l : l \in Visible(p)' <=> l \in Visible(p)
    BY <1>7, <1>8, <1>10, <1>11, <1>12
  <2> QED
    BY <2>1
<1>14. \A l \in Visible(p) : LayerInk(l, p)' = LayerInk(l, p) /\ Over(l)' = Over(l)
  BY <1>3, <1>4, <1>7, <1>11
<1>15. {LayerInk(l, p) : l \in Visible(p)}' = {LayerInk(l, p) : l \in Visible(p)}
  BY <1>13, <1>14
<1>16. {pair \in Visible(p) \X Visible(p) : pair[2] \in Over(pair[1])}'
         = {pair \in Visible(p) \X Visible(p) : pair[2] \in Over(pair[1])}
  BY <1>13, <1>14
<1> QED
  BY <1>15, <1>16 DEF Shown

\* The boxes a commit damages are boxes, and every pixel of the output that
\* draws a declared sample is in one of them or under a cover.
LEMMA UncoveredIs ==
  ASSUME SceneInv, NEW s \in Surface, NEW scale \in Numbers,
         NEW picture \in Picture \cup {NoPicture}, NEW pending \in Seq(Rect)
  PROVE  LET boxes == Uncovered(s, picture, scale, pending)
         IN  /\ Len(boxes) \in Nat
             /\ \A i \in 1 .. Len(boxes) : boxes[i] \in Rect
             /\ \A j, k \in Int :
                  LET q == <<scale * j, scale * k>>
                      p == <<surfaces[s].x + j, surfaces[s].y + k>>
                  IN  q \in Cells(picture.width, picture.height)
                        /\ InPending(pending, q[1], q[2]) /\ p \in Pixel
                      => \/ UnderCover(s, p[1], p[2])
                         \/ \E i \in 1 .. Len(boxes) : p \in Area(boxes[i])
<1> DEFINE boxes == Uncovered(s, picture, scale, pending)
           out(i) == OutputBox(s, picture, scale, pending[i])
           none(i) == IsEmpty(Clip(pending[i], picture.width, picture.height))
<1>1. Len(pending) \in Nat /\ DOMAIN pending = 1 .. Len(pending)
      /\ \A i \in 1 .. Len(pending) : pending[i] \in Rect
  OBVIOUS
<1>2. boxes = [i \in 1 .. Len(pending) |->
                 IF none(i) \/ RegionCovered(s, out(i)) THEN NoBox ELSE out(i)]
  BY <1>1 DEF Uncovered
<1>3. TypeOK /\ StackOk
  BY DEF SceneInv
<1>4. \A i \in 1 .. Len(pending) :
        /\ out(i) \in Rect
        /\ \A j, k \in Int :
              LET q == <<scale * j, scale * k>> IN
              q \in Cells(picture.width, picture.height)
                /\ Inside(q[1], q[2], pending[i])
              => /\ ~none(i)
                 /\ Inside(surfaces[s].x + j, surfaces[s].y + k, out(i))
  BY <1>1, <1>3, OutputBoxIs
<1> HIDE DEF boxes, out, none
<1>5. Len(boxes) = Len(pending)
  BY <1>1, <1>2
<1>6. NoBox \in Rect
  BY DEF NoBox, Box, Rect
<1>7. \A i \in 1 .. Len(boxes) : boxes[i] \in Rect
  BY <1>2, <1>4, <1>5, <1>6
<1>8. ASSUME NEW j \in Int, NEW k \in Int,
             <<scale * j, scale * k>> \in Cells(picture.width, picture.height),
             InPending(pending, scale * j, scale * k),
             <<surfaces[s].x + j, surfaces[s].y + k>> \in Pixel
      PROVE  \/ UnderCover(s, surfaces[s].x + j, surfaces[s].y + k)
             \/ \E i \in 1 .. Len(boxes) :
                  <<surfaces[s].x + j, surfaces[s].y + k>> \in Area(boxes[i])
  <2>1. PICK i \in 1 .. Len(pending) : Inside(scale * j, scale * k, pending[i])
    BY <1>1, <1>8 DEF InPending
  <2>2. /\ out(i) \in Rect /\ ~none(i)
        /\ Inside(surfaces[s].x + j, surfaces[s].y + k, out(i))
    BY <1>4, <1>8, <2>1
  <2>3. <<surfaces[s].x + j, surfaces[s].y + k>> \in Area(out(i))
    BY <1>8, <2>2 DEF Area
  <2>4. CASE RegionCovered(s, out(i))
    <3>1. \A p \in Area(out(i)) : UnderCover(s, p[1], p[2])
      BY <1>3, <2>2, <2>4, RegionExact
    <3>2. UnderCover(s, <<surfaces[s].x + j, surfaces[s].y + k>>[1],
                        <<surfaces[s].x + j, surfaces[s].y + k>>[2])
      BY <2>3, <3>1
    <3> QED
      BY <3>2
  <2>5. CASE ~RegionCovered(s, out(i))
    <3>1. boxes[i] = out(i)
      BY <1>2, <2>2, <2>5
    <3> QED
      BY <1>5, <2>3, <3>1
  <2> QED
    BY <2>4, <2>5
<1> QED
  BY <1>1, <1>5, <1>7, <1>8 DEF boxes

\* What a commit that changes no geometry may change at a pixel is under a
\* cover, or damaged.
LEMMA HonestCommit ==
  ASSUME SceneInv, NEW s \in Surface, NEW scale \in Numbers,
         NEW opacity \in 0 .. 255, NEW picture \in Picture \cup {NoPicture},
         NEW flip \in BOOLEAN, NEW declared \in Seq(Rect),
         ~GeometryChanged(s, picture, scale, opacity),
         Honest(s, picture, flip, declared),
         NEW p \in Pixel,
         LET new == LogicalBox(surfaces[s].x, surfaces[s].y, picture, scale)
             pending == PendingDamage(declared)
             boxes == IF pending # <<>> /\ picture # NoPicture
                        THEN Uncovered(s, picture, scale, pending)
                      ELSE IF flip THEN <<new>>
                      ELSE <<>>
         IN  \A i \in 1 .. Len(boxes) : p \notin Area(boxes[i])
  PROVE  \/ Ink(s, LogicalBox(surfaces[s].x, surfaces[s].y, picture, scale),
                picture, scale, opacity, p) = SurfaceInk(s, p)
         \/ UnderCover(s, p[1], p[2])
<1> DEFINE x == surfaces[s].x
           y == surfaces[s].y
           was == surfaces[s].picture
           w == picture.width \div scale
           h == picture.height \div scale
           box == LogicalBox(x, y, picture, scale)
           pending == PendingDamage(declared)
           boxes == IF pending # <<>> /\ picture # NoPicture
                      THEN Uncovered(s, picture, scale, pending)
                    ELSE IF flip THEN <<box>>
                    ELSE <<>>
           j == p[1] - x
           k == p[2] - y
           q == <<scale * j, scale * k>>
<1>1. /\ surfaces[s] \in SlotType /\ x \in Int /\ y \in Int
      /\ p[1] \in Int /\ p[2] \in Int /\ p = <<p[1], p[2]>>
      /\ j \in Int /\ k \in Int
  BY Output DEF SceneInv, TypeOK, SlotType, Pixel, Cells, Numbers
<1>2. /\ surfaces[s].scale = scale /\ surfaces[s].opacity = opacity
      /\ was.width \div scale = w /\ was.height \div scale = h
  BY DEF GeometryChanged
<1>3. Bounds(s) = box
  BY <1>2 DEF Bounds, LogicalBox
<1>4. box.x0 = x /\ box.y0 = y
  BY DEF LogicalBox, Box
<1>5. \A i \in 1 .. Len(boxes) : p \notin Area(boxes[i])
  OBVIOUS
<1>6. /\ pending \in Seq(Rect)
      /\ declared = <<>> => pending = <<>>
      /\ \A a, b \in 0 .. MaxInt - 1 :
           InPending(declared, a, b) => InPending(pending, a, b)
  BY PendingIs
<1>7. CASE ~Inside(p[1], p[2], box)
  BY <1>2, <1>3, <1>7 DEF SurfaceInk, Ink
<1>8. CASE Inside(p[1], p[2], box) /\ picture.paint[q] = was.paint[q]
  <2>1. Ink(s, box, picture, scale, opacity, p)
          = [who |-> s, opacity |-> opacity, paint |-> picture.paint[q]]
    BY <1>4, <1>8 DEF Ink
  <2>2. SurfaceInk(s, p)
          = [who |-> s, opacity |-> opacity, paint |-> was.paint[q]]
    BY <1>2, <1>3, <1>4, <1>8 DEF SurfaceInk, Ink
  <2> QED
    BY <1>8, <2>1, <2>2
<1>9. CASE Inside(p[1], p[2], box) /\ picture.paint[q] # was.paint[q]
  <2>1. q \in Cells(picture.width, picture.height) /\ picture # NoPicture
    BY <1>1, <1>9, SampleIs
  <2>2. q[1] \in 0 .. MaxInt - 1 /\ q[2] \in 0 .. MaxInt - 1
    <3>1. picture.width \in 0 .. MaxInt /\ picture.height \in 0 .. MaxInt
      BY Pictures
    <3>2. q[1] \in 0 .. picture.width - 1 /\ q[2] \in 0 .. picture.height - 1
      BY <2>1 DEF Cells
    <3> HIDE DEF q
    <3> QED
      BY <3>1, <3>2, MaxIntIs
  <2>3. p \in Area(box)
    BY <1>9 DEF Area
  <2>4. \/ flip /\ declared = <<>>
        \/ \E i \in DOMAIN declared : Inside(q[1], q[2], declared[i])
    <3> HIDE DEF q
    <3> QED
      BY <1>9, <2>1 DEF Honest
  <2>5. CASE flip /\ declared = <<>>
    <3>1. boxes = <<box>>
      BY <1>6, <2>5
    <3>2. Len(boxes) = 1 /\ boxes[1] = box
      BY <3>1
    <3> HIDE DEF boxes
    <3> QED
      BY <1>5, <2>3, <3>2
  <2>6. CASE \E i \in DOMAIN declared : Inside(q[1], q[2], declared[i])
    <3>1. InPending(pending, q[1], q[2])
      BY <1>6, <2>2, <2>6 DEF InPending
    <3>2. pending # <<>>
      BY <3>1 DEF InPending
    <3>3. boxes = Uncovered(s, picture, scale, pending)
      BY <2>1, <3>2
    <3>4. p = <<x + j, y + k>>
      <4>1. x + j = p[1] /\ y + k = p[2]
        BY <1>1
      <4> HIDE DEF j, k, x, y
      <4> QED
        BY <1>1, <4>1
    <3> HIDE DEF boxes, pending, j, k
    <3>5. \/ UnderCover(s, <<x + j, y + k>>[1], <<x + j, y + k>>[2])
          \/ \E i \in 1 .. Len(boxes) : <<x + j, y + k>> \in Area(boxes[i])
      BY <1>1, <1>6, <2>1, <3>1, <3>3, <3>4, UncoveredIs
    <3> QED
      BY <1>5, <3>4, <3>5
  <2> QED
    BY <2>4, <2>5, <2>6
<1> QED
  BY <1>7, <1>8, <1>9

LEMMA CommitStep ==
  ASSUME SceneInv, NEW s \in Surface, NEW scale \in Numbers,
         NEW opacity \in 0 .. 255, NEW picture \in Picture \cup {NoPicture},
         NEW flip \in BOOLEAN, NEW declared \in Seq(Rect),
         SurfaceCommit(s, picture, scale, opacity, flip, declared)
  PROVE  SceneInv' /\ Quiet
<1> DEFINE old == Bounds(s)
           new == LogicalBox(surfaces[s].x, surfaces[s].y, picture, scale)
           pending == PendingDamage(declared)
           geometry == GeometryChanged(s, picture, scale, opacity)
           kept == IF pending # <<>> /\ picture # NoPicture
                     THEN Uncovered(s, picture, scale, pending)
                   ELSE IF flip THEN <<new>>
                   ELSE <<>>
           boxes == IF geometry THEN <<old, new>> ELSE kept
           slot == [surfaces[s] EXCEPT
                      !.picture = picture, !.scale = scale, !.opacity = opacity,
                      !.opaque = EffectivelyOpaque(picture, scale, opacity)]
<1>1. /\ s \in live
      /\ ~geometry => Honest(s, picture, flip, declared)
      /\ UNCHANGED <<live, stack, cursor>>
      /\ damage' = DamagedAll(boxes)
      /\ surfaces' = [surfaces EXCEPT ![s] = slot]
  BY DEF SurfaceCommit, SceneInv, TypeOK
<1>2. /\ surfaces \in [Surface -> SlotType] /\ surfaces[s] \in SlotType
      /\ damage \in Seq(Listed) /\ TypeOK /\ StackOk
      /\ live \subseteq Surface /\ 0 \notin live
  BY LayersAre DEF SceneInv, TypeOK, StackOk
<1>3. /\ slot \in SlotType /\ slot.x = surfaces[s].x /\ slot.y = surfaces[s].y
      /\ slot.picture = picture /\ slot.scale = scale /\ slot.opacity = opacity
      /\ slot.opaque = EffectivelyOpaque(picture, scale, opacity)
  <2>1. EffectivelyOpaque(picture, scale, opacity) \in BOOLEAN
    BY DEF EffectivelyOpaque
  <2> QED
    BY <1>2, <2>1 DEF SlotType
<1> HIDE DEF slot
<1>4. /\ surfaces' \in [Surface -> SlotType] /\ surfaces'[s] = slot
      /\ \A t \in Surface : t # s => surfaces'[t] = surfaces[t]
  BY <1>1, <1>2, <1>3
<1>5. old \in Rect /\ new \in Rect
  BY <1>2, BoundsIs, LogicalBoxIs DEF SlotType
<1>6. Bounds(s)' = new
  BY <1>3, <1>4 DEF Bounds
<1>7. pending \in Seq(Rect)
  BY PendingIs
<1>8. Len(boxes) \in Nat /\ \A i \in 1 .. Len(boxes) : boxes[i] \in Rect
  <2> HIDE DEF old, new, pending, geometry
  <2>1. CASE geometry
    <3>1. boxes = <<old, new>>
      BY <2>1
    <3> HIDE DEF boxes
    <3> QED
      BY <1>5, <3>1
  <2>2. CASE ~geometry /\ pending # <<>> /\ picture # NoPicture
    <3>1. boxes = Uncovered(s, picture, scale, pending)
      BY <2>2
    <3> HIDE DEF boxes
    <3> QED
      BY <1>7, <3>1, UncoveredIs
  <2>3. CASE ~geometry /\ ~ (pending # <<>> /\ picture # NoPicture) /\ flip
    <3>1. boxes = <<new>>
      BY <2>3
    <3> HIDE DEF boxes
    <3> QED
      BY <1>5, <3>1
  <2>4. CASE ~geometry /\ ~ (pending # <<>> /\ picture # NoPicture) /\ ~flip
    <3>1. boxes = <<>>
      BY <2>4
    <3> HIDE DEF boxes
    <3> QED
      BY <3>1
  <2> QED
    BY <2>1, <2>2, <2>3, <2>4
<1>9. /\ damage' \in Seq(Listed) /\ Damage \subseteq Damage'
      /\ \A i \in 1 .. Len(boxes) : Area(boxes[i]) \subseteq Damage'
  <2> HIDE DEF boxes
  <2> QED
    BY <1>1, <1>2, <1>8, DamageGrows
<1>10. TypeOK'
  BY <1>1, <1>2, <1>4, <1>9 DEF TypeOK
<1>11. StackOk'
  BY <1>1, <1>2 DEF StackOk
<1>12. OpaqueOk'
  <2>1. \A t \in Surface : surfaces'[t].opaque =>
          EffectivelyOpaque(surfaces'[t].picture, surfaces'[t].scale,
                            surfaces'[t].opacity)
    BY <1>3, <1>4 DEF SceneInv, OpaqueOk
  <2> QED
    BY <1>1, <2>1 DEF SceneInv, OpaqueOk
<1>13. \A t \in Layer \ {s} : \A p : LayerInk(t, p)' = LayerInk(t, p)
  BY <1>1, <1>2, <1>4 DEF Layer, LayerInk, SurfaceInk, CursorInk, Bounds, CursorBox
<1>14. Layer' = Layer /\ \A t \in Layer : Over(t)' = Over(t)
  BY <1>1 DEF Layer, Over, Above
<1>15. ASSUME geometry, NEW p \in Pixel \ Damage'
       PROVE  Shown(p)' = Shown(p)
  <2>1. Len(boxes) = 2 /\ boxes[1] = old /\ boxes[2] = new
    BY <1>15
  <2>2. p \notin Area(old) /\ p \notin Area(new)
    <3> HIDE DEF boxes, old, new
    <3>1. 1 \in 1 .. Len(boxes) /\ 2 \in 1 .. Len(boxes)
      BY <2>1
    <3> QED
      BY <1>9, <1>15, <2>1, <3>1
  <2>3. Bare(s, p) /\ Bare(s, p)'
    BY <1>6, <2>2, BareOutside
  <2>4. \A t \in Layer \cap {s} : Bare(t, p)
    BY <2>3
  <2>5. \A t \in Layer' \cap {s} : Bare(t, p)'
    BY <2>3
  <2>6. \A t : t \notin {s} => (t \in Layer <=> t \in Layer')
    BY <1>14
  <2>7. \A t \in Layer \ {s} : LayerInk(t, p)' = LayerInk(t, p)
    BY <1>13
  <2>8. \A t, u \in Layer \ {s} : u \in Over(t) <=> u \in Over(t)'
    BY <1>14
  <2> HIDE DEF boxes, kept, old, new, pending, geometry
  <2>9. StackOk /\ StackOk'
    BY <1>2, <1>11
  <2> QED
    BY <2>4, <2>5, <2>6, <2>7, <2>8, <2>9, SameLayers, ZenonT(60)
<1>16. ASSUME ~geometry, NEW p \in Pixel \ Damage'
       PROVE  Shown(p)' = Shown(p)
  <2>1. \A i \in 1 .. Len(kept) : p \notin Area(kept[i])
    <3>1. boxes = kept
      BY <1>16
    <3> HIDE DEF boxes, kept
    <3> QED
      BY <1>9, <1>16, <3>1
  <2>2. \/ Ink(s, new, picture, scale, opacity, p) = SurfaceInk(s, p)
        \/ UnderCover(s, p[1], p[2])
    BY <1>1, <1>16, <2>1, HonestCommit
  <2>3. LayerInk(s, p)' = Ink(s, new, picture, scale, opacity, p)
    BY <1>2, <1>1, <1>3, <1>4, <1>6 DEF LayerInk, SurfaceInk
  <2>4. LayerInk(s, p) = SurfaceInk(s, p)
    BY <1>1, <1>2 DEF LayerInk
  <2>5. CASE UnderCover(s, p[1], p[2])
    BY <1>1, <1>4, <2>5, CoveredLayer
  <2>6. CASE Ink(s, new, picture, scale, opacity, p) = SurfaceInk(s, p)
    <3>1. \A t \in Layer \ {} : LayerInk(t, p)' = LayerInk(t, p)
      <4>1. LayerInk(s, p)' = LayerInk(s, p)
        BY <2>3, <2>4, <2>6
      <4>2. \A t \in Layer \ {s} : LayerInk(t, p)' = LayerInk(t, p)
        BY <1>13
      <4> SUFFICES ASSUME NEW t \in Layer PROVE LayerInk(t, p)' = LayerInk(t, p)
        OBVIOUS
      <4>3. CASE t = s
        BY <4>1, <4>3
      <4>4. CASE t # s
        BY <4>2, <4>4
      <4> QED
        BY <4>3, <4>4
    <3>2. \A t : t \notin {} => (t \in Layer <=> t \in Layer')
      BY <1>14
    <3>3. \A t, u \in Layer \ {} : u \in Over(t) <=> u \in Over(t)'
      BY <1>14
    <3>4. /\ \A t \in Layer \cap {} : Bare(t, p)
          /\ \A t \in Layer' \cap {} : Bare(t, p)'
      OBVIOUS
    <3> QED
      BY <1>2, <1>11, <3>1, <3>2, <3>3, <3>4, SameLayers
  <2> QED
    BY <2>2, <2>5, <2>6
<1> QED
  BY <1>9, <1>10, <1>11, <1>12, <1>15, <1>16 DEF SceneInv, Quiet

LEMMA DestroyedIs ==
  ASSUME SceneInv, NEW D \in SUBSET live, SurfacesDestroyed(D)
  PROVE  /\ surfaces' \in [Surface -> SlotType]
         /\ \A s \in Surface : surfaces'[s].opaque =>
              EffectivelyOpaque(surfaces'[s].picture, surfaces'[s].scale,
                                surfaces'[s].opacity)
         /\ StackOk'
         /\ live' = live \ D
         /\ \A s \in live \ D : surfaces'[s] = surfaces[s]
<1> USE DEF SurfacesDestroyed
<1>1. /\ surfaces' = [s \in Surface |-> IF s \in D THEN Blank ELSE surfaces[s]]
      /\ surfaces \in [Surface -> SlotType] /\ live \subseteq Surface
  BY DEF SceneInv, TypeOK, StackOk
<1>2. surfaces' \in [Surface -> SlotType]
  BY <1>1, BlankIs
<1>3. \A s \in Surface : surfaces'[s].opaque =>
        EffectivelyOpaque(surfaces'[s].picture, surfaces'[s].scale,
                          surfaces'[s].opacity)
  BY <1>1, BlankIs DEF SceneInv, OpaqueOk
<1>4. StackOk'
  BY DEF SceneInv, StackOk
<1> QED
  BY <1>1, <1>2, <1>3, <1>4

\* Destroyed surfaces, and a cursor that goes with them, are not missed where
\* they left nothing.
LEMMA DestroyedLayers ==
  ASSUME SceneInv, NEW D \in SUBSET live, SurfacesDestroyed(D), NEW p,
         \A s \in D : Bare(s, p),
         \/ cursor' = cursor
         \/ Bare(0, p) /\ Bare(0, p)'
  PROVE  Shown(p)' = Shown(p)
<1> DEFINE K == IF cursor' = cursor THEN D ELSE D \cup {0}
<1>1. /\ StackOk /\ StackOk' /\ live' = live \ D
      /\ \A s \in live \ D : surfaces'[s] = surfaces[s]
      /\ 0 \notin live /\ D \subseteq live
  BY DestroyedIs, LayersAre DEF SceneInv
<1>2. D \subseteq K /\ (K = D \/ K = D \cup {0}) /\ (0 \notin K => cursor' = cursor)
      /\ (0 \in K => Bare(0, p) /\ Bare(0, p)')
  BY <1>1
<1> HIDE DEF K
<1>3. \A t : t \notin K => (t \in Layer <=> t \in Layer')
  BY <1>1, <1>2 DEF Layer
<1>4. \A t \in Layer \ K : LayerInk(t, p)' = LayerInk(t, p)
  BY <1>1, <1>2 DEF Layer, LayerInk, SurfaceInk, CursorInk, Bounds, CursorBox
<1>5. \A t \in Layer \cap K : Bare(t, p)
  <2> SUFFICES ASSUME NEW t \in Layer \cap K PROVE Bare(t, p)
    OBVIOUS
  <2>1. CASE t = 0
    BY <1>2, <2>1
  <2>2. CASE t # 0
    BY <1>2, <2>2
  <2> QED
    BY <2>1, <2>2
<1>6. \A t \in Layer' \cap K : Bare(t, p)'
  <2> SUFFICES ASSUME NEW t \in Layer' \cap K PROVE Bare(t, p)'
    OBVIOUS
  <2>1. t = 0
    BY <1>1, <1>2 DEF Layer
  <2> QED
    BY <1>2, <2>1
<1>7. \A t, u \in Layer \ K : u \in Over(t) <=> u \in Over(t)'
  BY <1>1, <1>2 DEF Layer, Over, Above, SurfacesDestroyed
<1> QED
  BY <1>1, <1>3, <1>4, <1>5, <1>6, <1>7, SameLayers

LEMMA DestroyStep ==
  ASSUME SceneInv, NEW s \in Surface, SurfaceDestroy(s)
  PROVE  SceneInv' /\ Quiet
<1> USE DEF SurfaceDestroy
<1>1. /\ surfaces' \in [Surface -> SlotType] /\ StackOk'
      /\ \A t \in Surface : surfaces'[t].opaque =>
           EffectivelyOpaque(surfaces'[t].picture, surfaces'[t].scale,
                             surfaces'[t].opacity)
  BY DestroyedIs
<1>2. Bounds(s) \in Rect
  BY BoundsIs DEF SceneInv
<1>3. /\ damage' \in Seq(Listed) /\ Damage \subseteq Damage'
      /\ Area(Bounds(s)) \subseteq Damage'
  <2> DEFINE boxes == <<Bounds(s)>>
  <2>1. Len(boxes) = 1 /\ boxes[1] = Bounds(s)
    OBVIOUS
  <2>2. \A i \in 1 .. Len(boxes) : boxes[i] \in Rect
    BY <1>2, <2>1
  <2>3. damage' = DamagedAll(boxes) /\ damage \in Seq(Listed)
    BY DEF SceneInv, TypeOK
  <2> HIDE DEF boxes
  <2>4. 1 \in 1 .. Len(boxes) /\ Len(boxes) \in Nat
    BY <2>1
  <2> QED
    BY <2>1, <2>2, <2>3, <2>4, DamageGrows
<1>4. TypeOK' /\ OpaqueOk'
  BY <1>1, <1>3 DEF SceneInv, TypeOK, OpaqueOk
<1>5. ASSUME NEW p \in Pixel \ Damage'
      PROVE  Shown(p)' = Shown(p)
  <2>1. \A t \in {s} : Bare(t, p)
    BY <1>3, BareOutside
  <2> QED
    BY <2>1, DestroyedLayers
<1> QED
  BY <1>1, <1>3, <1>4, <1>5 DEF SceneInv, Quiet

\* The cursor after it is hidden.
LEMMA CursorGoneIs ==
  ASSUME SceneInv, CursorGone
  PROVE  /\ cursor' \in CursorType
         /\ ~cursor'.visible /\ cursor'.picture = NoPicture
         /\ \A p \in Pixel : Bare(0, p)'
<1>1. /\ cursor' \in CursorType
      /\ ~cursor'.visible /\ cursor'.picture = NoPicture
  BY DEF SceneInv, TypeOK, CursorType, CursorGone
<1>2. Area(CursorBox') = {}
  BY <1>1, BoxesAfter
<1> QED
  BY <1>1, <1>2, BareOutside

LEMMA DisconnectStep ==
  ASSUME SceneInv, NEW D \in SUBSET Surface, NEW focus \in BOOLEAN,
         ClientDisconnect(D, focus)
  PROVE  SceneInv' /\ Quiet
<1> DEFINE boxes == [i \in 1 .. SurfaceCapacity + 1 |->
                       IF i = 1 THEN IF focus THEN CursorShown ELSE NoBox
                       ELSE IF i - 1 \in D THEN Bounds(i - 1) ELSE NoBox]
<1>1. /\ D \in SUBSET live /\ SurfacesDestroyed(D)
      /\ IF focus THEN CursorGone ELSE UNCHANGED cursor
      /\ damage' = DamagedAll(boxes)
  BY DEF ClientDisconnect
<1>2. /\ surfaces' \in [Surface -> SlotType] /\ StackOk'
      /\ \A t \in Surface : surfaces'[t].opaque =>
           EffectivelyOpaque(surfaces'[t].picture, surfaces'[t].scale,
                             surfaces'[t].opacity)
  BY <1>1, DestroyedIs
<1>3. /\ NoBox \in Rect /\ CursorShown \in Rect
      /\ \A s \in D : Bounds(s) \in Rect
  BY CursorShownIs, BoundsIs DEF SceneInv, NoBox, Box, Rect
<1>4. SurfaceCapacity + 1 \in Nat /\ SurfaceCapacity \in Nat
  BY Output DEF Numbers
<1>5. Len(boxes) = SurfaceCapacity + 1
  BY <1>4
<1>6. \A i \in 1 .. Len(boxes) : boxes[i] \in Rect
  BY <1>3, <1>4, <1>5
<1>7. 1 \in 1 .. Len(boxes) /\ (focus => boxes[1] = CursorShown)
  BY <1>4, <1>5
<1>8. \A s \in D : s + 1 \in 1 .. Len(boxes) /\ boxes[s + 1] = Bounds(s)
  <2> SUFFICES ASSUME NEW s \in D
               PROVE  s + 1 \in 1 .. Len(boxes) /\ boxes[s + 1] = Bounds(s)
    OBVIOUS
  <2>1. /\ s \in 1 .. SurfaceCapacity /\ s + 1 # 1 /\ (s + 1) - 1 = s
        /\ s + 1 \in 1 .. SurfaceCapacity + 1
    BY <1>4 DEF Surface
  <2>2. boxes[s + 1] = IF (s + 1) - 1 \in D THEN Bounds((s + 1) - 1) ELSE NoBox
    BY <2>1
  <2> QED
    BY <1>5, <2>1, <2>2
<1> HIDE DEF boxes
<1>9. /\ damage' \in Seq(Listed) /\ Damage \subseteq Damage'
      /\ \A i \in 1 .. Len(boxes) : Area(boxes[i]) \subseteq Damage'
  BY <1>1, <1>4, <1>5, <1>6, DamageGrows DEF SceneInv, TypeOK
<1>10. /\ focus => Area(CursorShown) \subseteq Damage'
       /\ \A s \in D : Area(Bounds(s)) \subseteq Damage'
  <2>1. focus => Area(CursorShown) \subseteq Damage'
    BY <1>7, <1>9
  <2>2. ASSUME NEW s \in D
        PROVE  Area(Bounds(s)) \subseteq Damage'
    <3>1. Area(boxes[s + 1]) \subseteq Damage'
      BY <1>8, <1>9
    <3> QED
      BY <1>8, <3>1
  <2> QED
    BY <2>1, <2>2
<1>11. /\ cursor' \in CursorType
       /\ ~cursor'.visible => cursor'.picture = NoPicture
  <2>1. CASE focus
    BY <1>1, <2>1, CursorGoneIs
  <2>2. CASE ~focus
    BY <1>1, <2>2 DEF SceneInv, TypeOK, OpaqueOk
  <2> QED
    BY <2>1, <2>2
<1>12. TypeOK' /\ OpaqueOk'
  BY <1>2, <1>9, <1>11 DEF TypeOK, OpaqueOk
<1>13. ASSUME NEW p \in Pixel \ Damage'
       PROVE  Shown(p)' = Shown(p)
  <2>1. \A s \in D : Bare(s, p)
    BY <1>10, <1>13, BareOutside
  <2>2. cursor' = cursor \/ (Bare(0, p) /\ Bare(0, p)')
    <3>1. CASE ~focus
      BY <1>1, <3>1
    <3>2. CASE focus
      <4>1. Bare(0, p)
        BY <1>10, <1>13, <3>2, CursorShownIs
      <4>2. Bare(0, p)'
        BY <1>1, <3>2, CursorGoneIs
      <4> QED
        BY <4>1, <4>2
    <3> QED
      BY <3>1, <3>2
  <2> QED
    BY <1>1, <2>1, <2>2, DestroyedLayers
<1> QED
  BY <1>2, <1>9, <1>12, <1>13 DEF SceneInv, Quiet

\* A step of the cursor alone, over boxes that hold what it left and leaves.
LEMMA CursorLayer ==
  ASSUME SceneInv, UNCHANGED <<surfaces, live, stack>>, cursor' \in CursorType,
         ~cursor'.visible => cursor'.picture = NoPicture,
         NEW boxes, Len(boxes) \in Nat,
         \A i \in 1 .. Len(boxes) : boxes[i] \in Rect,
         damage' = DamagedAll(boxes),
         \A p \in Pixel : (\A i \in 1 .. Len(boxes) : p \notin Area(boxes[i]))
                            => Bare(0, p) /\ Bare(0, p)'
  PROVE  SceneInv' /\ Quiet
<1>1. /\ damage' \in Seq(Listed) /\ Damage \subseteq Damage'
      /\ \A i \in 1 .. Len(boxes) : Area(boxes[i]) \subseteq Damage'
  BY DamageGrows DEF SceneInv, TypeOK
<1>2. StackOk /\ StackOk' /\ 0 \notin live
  BY LayersAre DEF SceneInv, StackOk
<1>3. TypeOK' /\ OpaqueOk'
  BY <1>1 DEF SceneInv, TypeOK, OpaqueOk
<1>4. ASSUME NEW p \in Pixel \ Damage'
      PROVE  Shown(p)' = Shown(p)
  <2>1. Bare(0, p) /\ Bare(0, p)'
    BY <1>1, <1>4
  <2>2. \A t \in Layer \cap {0} : Bare(t, p)
    BY <2>1
  <2>3. \A t \in Layer' \cap {0} : Bare(t, p)'
    BY <2>1
  <2>4. \A t : t \notin {0} => (t \in Layer <=> t \in Layer')
    BY DEF Layer
  <2>5. \A t \in Layer \ {0} : LayerInk(t, p)' = LayerInk(t, p)
    BY DEF Layer, LayerInk, SurfaceInk, Bounds
  <2>6. \A t, u \in Layer \ {0} : u \in Over(t) <=> u \in Over(t)'
    BY DEF Layer, Over, Above
  <2> QED
    BY <1>2, <2>2, <2>3, <2>4, <2>5, <2>6, SameLayers, ZenonT(60)
<1> QED
  BY <1>1, <1>2, <1>3, <1>4 DEF SceneInv, Quiet

LEMMA HideStep ==
  ASSUME SceneInv, CursorHide
  PROVE  SceneInv' /\ Quiet
<1> DEFINE boxes == <<CursorShown>>
<1>1. Len(boxes) = 1 /\ boxes[1] = CursorShown /\ damage' = DamagedAll(boxes)
  BY DEF CursorHide
<1> HIDE DEF boxes
<1>2. /\ cursor' \in CursorType
      /\ ~cursor'.visible /\ cursor'.picture = NoPicture
      /\ \A p \in Pixel : Bare(0, p)'
  BY CursorGoneIs DEF CursorHide
<1>3. \A i \in 1 .. Len(boxes) : boxes[i] \in Rect
  BY <1>1, CursorShownIs
<1>4. \A p \in Pixel : (\A i \in 1 .. Len(boxes) : p \notin Area(boxes[i]))
                         => Bare(0, p) /\ Bare(0, p)'
  BY <1>1, <1>2, CursorShownIs
<1> QED
  BY <1>1, <1>2, <1>3, <1>4, CursorLayer DEF CursorHide

\* Steps of the cursor that damage what it left and what it reaches.
LEMMA CursorMoves ==
  ASSUME SceneInv, UNCHANGED <<surfaces, live, stack>>, cursor' \in CursorType,
         ~cursor'.visible => cursor'.picture = NoPicture,
         damage' = DamagedAll(<<CursorShown, CursorShown'>>)
  PROVE  SceneInv' /\ Quiet
<1> DEFINE boxes == <<CursorShown, CursorShown'>>
<1>1. /\ Len(boxes) = 2 /\ boxes[1] = CursorShown /\ boxes[2] = CursorShown'
      /\ damage' = DamagedAll(boxes)
  OBVIOUS
<1> HIDE DEF boxes
<1>2. CursorShown' = IF cursor'.visible THEN CursorBox' ELSE NoBox
  BY DEF CursorShown, NoBox, Box
<1>3. NoBox \in Rect
  BY DEF NoBox, Box, Rect
<1>4. /\ CursorBox' \in Rect
      /\ ~cursor'.visible => Area(CursorBox') = {}
  BY BoxesAfter
<1>5. CursorShown' \in Rect
  BY <1>2, <1>3, <1>4
<1>6. \A p \in Pixel : p \notin Area(CursorShown') => Bare(0, p)'
  <2> SUFFICES ASSUME NEW p \in Pixel, p \notin Area(CursorShown')
               PROVE  p \notin Area(CursorBox')
    BY BareOutside
  <2> QED
    BY <1>2, <1>4
<1>7. \A i \in 1 .. Len(boxes) : boxes[i] \in Rect
  BY <1>1, <1>5, CursorShownIs
<1>8. \A p \in Pixel : (\A i \in 1 .. Len(boxes) : p \notin Area(boxes[i]))
                         => Bare(0, p) /\ Bare(0, p)'
  <2>1. 1 \in 1 .. Len(boxes) /\ 2 \in 1 .. Len(boxes)
    BY <1>1
  <2> QED
    BY <1>1, <1>6, <2>1, CursorShownIs
<1> QED
  BY <1>1, <1>7, <1>8, CursorLayer

LEMMA CursorBufferStep ==
  ASSUME SceneInv, NEW picture \in CursorPicture, NEW scale \in Numbers,
         NEW hotspot, CursorSetBuffer(picture, scale, hotspot)
  PROVE  SceneInv' /\ Quiet
<1>1. hotspot \in Nat \X Nat
  <2>1. picture.width \in Int /\ picture.height \in Int
    BY Pictures
  <2>2. picture.width \div scale \in Int /\ picture.height \div scale \in Int
    BY <2>1, Quotient
  <2>3. hotspot \in (0 .. (picture.width \div scale) - 1)
                      \X (0 .. (picture.height \div scale) - 1)
    BY DEF CursorSetBuffer, Cells
  <2> DEFINE w == picture.width \div scale
             h == picture.height \div scale
  <2>4. hotspot \in (0 .. w - 1) \X (0 .. h - 1) /\ w \in Int /\ h \in Int
    BY <2>2, <2>3
  <2> HIDE DEF w, h
  <2> QED
    BY <2>4
<1>2. cursor' \in CursorType /\ cursor'.visible
  BY <1>1 DEF CursorSetBuffer, SceneInv, TypeOK, CursorType
<1> QED
  BY <1>2, CursorMoves DEF CursorSetBuffer

LEMMA PointerStep ==
  ASSUME SceneInv, NEW at \in CursorPosition, PointerPosition(at)
  PROVE  SceneInv' /\ Quiet
<1>1. at[1] \in Int /\ at[2] \in Int
  BY SceneAssumption
<1>2. /\ cursor' \in CursorType /\ cursor'.visible = cursor.visible
      /\ cursor'.picture = cursor.picture
  BY <1>1 DEF PointerPosition, SceneInv, TypeOK, CursorType
<1>3. ~cursor'.visible => cursor'.picture = NoPicture
  BY <1>2 DEF SceneInv, OpaqueOk
<1> QED
  BY <1>2, <1>3, CursorMoves DEF PointerPosition

LEMMA SceneSteps ==
  ASSUME SceneInv, SceneStep
  PROVE  SceneInv' /\ Quiet
<1>1. ASSUME NEW s \in Surface, SurfaceCreate(s)
      PROVE  SceneInv' /\ Quiet
  BY <1>1, CreateStep
<1>2. ASSUME NEW s \in Surface, Raise(s)
      PROVE  SceneInv' /\ Quiet
  BY <1>2, RaiseStep
<1>3. ASSUME NEW s \in Surface, SurfaceDestroy(s)
      PROVE  SceneInv' /\ Quiet
  BY <1>3, DestroyStep
<1>4. ASSUME NEW s \in Surface, NEW at \in Position, SetPosition(s, at)
      PROVE  SceneInv' /\ Quiet
  BY <1>4, PositionStep
<1>5. \A style \in Styles : style[1] \in Numbers /\ style[2] \in 0 .. 255
  BY SceneAssumption DEF Numbers
<1>6. DamageRequests \subseteq Seq(Rect)
  BY SceneAssumption
<1>7. ASSUME NEW s \in Surface, NEW picture \in Picture, NEW style \in Styles,
             NEW flip \in BOOLEAN, NEW declared \in DamageRequests,
             SurfaceCommit(s, picture, style[1], style[2], flip, declared)
      PROVE  SceneInv' /\ Quiet
  <2>1. declared \in Seq(Rect) /\ picture \in Picture \cup {NoPicture}
    BY <1>6
  <2>2. style[1] \in Numbers /\ style[2] \in 0 .. 255
    BY <1>5
  <2> QED
    BY <1>7, <2>1, <2>2, CommitStep
<1>8. ASSUME NEW s \in Surface,
             NEW style \in Styles \cup {<<surfaces[s].scale, surfaces[s].opacity>>},
             NEW declared \in DamageRequests,
             SurfaceCommit(s, NoPicture, style[1], style[2], TRUE, declared)
      PROVE  SceneInv' /\ Quiet
  <2>1. surfaces[s] \in SlotType
    BY DEF SceneInv, TypeOK
  <2>2. surfaces[s].scale \in Numbers /\ surfaces[s].opacity \in 0 .. 255
    BY <2>1 DEF SlotType
  <2>3. style[1] \in Numbers /\ style[2] \in 0 .. 255
    BY <1>5, <2>2
  <2>4. declared \in Seq(Rect) /\ NoPicture \in Picture \cup {NoPicture}
        /\ TRUE \in BOOLEAN
    BY <1>6
  <2> QED
    BY <1>8, <2>3, <2>4, CommitStep
<1>9. ASSUME NEW D \in SUBSET Surface, NEW focus \in BOOLEAN,
             ClientDisconnect(D, focus)
      PROVE  SceneInv' /\ Quiet
  BY <1>9, DisconnectStep
<1>10. ASSUME CursorHide
       PROVE  SceneInv' /\ Quiet
  BY <1>10, HideStep
<1>11. ASSUME NEW picture \in CursorPicture, NEW style \in Styles,
              NEW hotspot \in Cells(picture.width, picture.height),
              CursorSetBuffer(picture, style[1], hotspot)
       PROVE  SceneInv' /\ Quiet
  BY <1>5, <1>11, CursorBufferStep
<1>12. ASSUME NEW at \in CursorPosition, PointerPosition(at)
       PROVE  SceneInv' /\ Quiet
  BY <1>12, PointerStep
<1> QED
  BY <1>1, <1>2, <1>3, <1>4, <1>7, <1>8, <1>9, <1>10, <1>11, <1>12
     DEF SceneStep

\* Drawing and clearing: nothing is damaged, nothing changes.
LEMMA FrameStep ==
  ASSUME SceneInv, UNCHANGED <<surfaces, live, stack, cursor>>,
         damage' = damage \/ damage' = <<>>
  PROVE  SceneInv' /\ \A p \in Pixel : Shown(p)' = Shown(p)
<1>1. damage' \in Seq(Listed)
  <2>1. damage \in Seq(Listed)
    BY DEF SceneInv, TypeOK
  <2>2. CASE damage' = damage
    BY <2>1, <2>2
  <2>3. CASE damage' = <<>>
    <3>1. <<>> \in Seq(Listed)
      OBVIOUS
    <3> QED
      BY <2>3, <3>1
  <2> QED
    BY <2>2, <2>3
<1>2. SceneInv'
  BY <1>1 DEF SceneInv, TypeOK, StackOk, OpaqueOk
<1>3. \A p \in Pixel : Shown(p)' = Shown(p)
  BY DEF Shown, Visible, Layer, LayerInk, SurfaceInk, CursorInk, Over, Above,
         Bounds, CursorBox
<1> QED
  BY <1>2, <1>3

-----------------------------------------------------------------------------
(* The theorems.                                                           *)

\* A pixel of the screen is unknown until it is drawn.
CurrentInv ==
  /\ SceneInv
  /\ screen = [p \in Pixel |-> screen[p]]
  /\ ScreenIsCurrent

LEMMA CurrentInvKept ==
  ASSUME CurrentInv, [Next]_vars
  PROVE  CurrentInv'
<1> USE DEF CurrentInv
<1>1. CASE SceneStep /\ screen' = [p \in Pixel |->
                                     IF p \in Damage' THEN Unknown ELSE screen[p]]
  <2>1. SceneInv' /\ Quiet
    BY <1>1, SceneSteps
  <2>2. ASSUME NEW p \in Pixel \ Damage'
        PROVE  screen'[p] = Shown(p)'
    <3>1. screen'[p] = screen[p]
      BY <1>1, <2>2
    <3>2. p \notin Damage /\ Shown(p)' = Shown(p)
      BY <2>1, <2>2 DEF Quiet
    <3> QED
      BY <2>2, <3>1, <3>2 DEF ScreenIsCurrent
  <2>3. ScreenIsCurrent'
    BY <2>2 DEF ScreenIsCurrent
  <2>4. screen' = [p \in Pixel |-> screen'[p]]
    BY <1>1
  <2> QED
    BY <2>1, <2>3, <2>4
<1>2. CASE BuildFrame
  <2>1. SceneInv' /\ \A p \in Pixel : Shown(p)' = Shown(p)
    BY <1>2, FrameStep DEF BuildFrame
  <2>2. \A p \in Pixel : screen'[p] = Shown(p)
    BY <1>2 DEF BuildFrame, ScreenIsCurrent
  <2>3. ScreenIsCurrent'
    BY <2>1, <2>2 DEF ScreenIsCurrent
  <2>4. screen' = [p \in Pixel |-> screen'[p]]
    BY <1>2 DEF BuildFrame
  <2> QED
    BY <2>1, <2>3, <2>4
<1>3. CASE UNCHANGED vars
  <2>1. SceneInv' /\ \A p \in Pixel : Shown(p)' = Shown(p)
    BY <1>3, FrameStep DEF vars
  <2>2. Damage' = Damage /\ screen' = screen
    BY <1>3 DEF vars, Damage
  <2>3. ScreenIsCurrent'
    BY <2>1, <2>2 DEF ScreenIsCurrent
  <2> QED
    BY <2>1, <2>2, <2>3
<1> QED
  BY <1>1, <1>2, <1>3 DEF Next

LEMMA AlwaysCurrent == Spec => []CurrentInv
<1>1. ASSUME Init
      PROVE  CurrentInv
  BY <1>1, InitIs DEF CurrentInv, ScreenIsCurrent, Init
<1> QED
  BY <1>1, CurrentInvKept, PTL DEF Spec

\* Every slot, the cursor and the damage list are what they should be, the
\* stack is an order on the live surfaces, and effective_opaque is what the
\* committed picture, scale and opacity say.
THEOREM SceneIsConsistent == Spec => []SceneInv
<1>1. CurrentInv => SceneInv
  BY DEF CurrentInv
<1> QED
  BY <1>1, AlwaysCurrent, PTL

\* Of a surface that is reported OCCLUDED because of what is above it no pixel
\* is seen, and the scan of rows finds a cover wherever every pixel is under
\* one: for every number of surfaces, every picture, scale and position.
THEOREM CoverageIsExact == Spec => []CoverageExact
<1>1. SceneInv => CoverageExact
  BY ExactCoverage
<1> QED
  BY <1>1, SceneIsConsistent, PTL

\* Outside the damage the screen shows what drawing everything again would
\* show, whatever the capacities of the damage lists are, although full lists
\* are merged, boxes rounded by the scale and covered boxes dropped.
THEOREM ScreenStaysCurrent == Spec => []ScreenIsCurrent
<1>1. CurrentInv => ScreenIsCurrent
  BY DEF CurrentInv
<1> QED
  BY <1>1, AlwaysCurrent, PTL
=============================================================================
