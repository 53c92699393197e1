------------------------- MODULE TokenLedgerProofs -------------------------
(***************************************************************************)
(* Proofs about TokenLedger and the operators of TokenIds it is built from.*)
(* An invariant stands on the ones before it: Callable (which methods are  *)
(* called), AInv (approvals), BInv (which pools FireFly knows, and which   *)
(* tokens events name), CInv (which creation confirms a pool), DInv (in    *)
(* which pools tokens move, and which moves FireFly was told of) and EInv  *)
(* (types).                                                                *)
(***************************************************************************)
EXTENDS TokenLedger, WellFoundedInduction, FiniteSetTheorems, TLAPS

\* A set of naturals that has a member has a least one: what induction on
\* naturals comes to.
LEMMA LeastOf ==
  ASSUME NEW S \in SUBSET Nat, S # {}
  PROVE  \E m \in S : \A x \in S : m <= x
<1> DEFINE less == {ss \in Nat \X Nat : ss[1] < ss[2]}
<1>0. less = OpToRel(<, Nat)
  BY DEF OpToRel
<1>1. PICK m \in S : \A x \in S : <<x, m>> \notin less
  <2>1. IsWellFoundedOn(less, Nat)
    BY <1>0, NatLessThanWellFounded, Zenon
  <2> HIDE DEF less
  <2> QED
    BY <2>1, WFMin
<1> QED
  <2>1. \A x \in S : ~(x < m)
    BY <1>1
  <2> QED
    BY <2>1

\* One step of Or, with f for the recursive call.
OrStep(f, p) ==
  IF 0 \in {p[1], p[2]} THEN p[1] + p[2]
  ELSE 2 * f[<<p[1] \div 2, p[2] \div 2>>] + (IF 1 \in {p[1] % 2, p[2] % 2} THEN 1 ELSE 0)

Below(n) == {p \in Nat \X Nat : p[1] < n}

\* f is Or on the pairs whose first number is less than n.
OrBelow(n, f) == /\ f \in [Below(n) -> Nat]
                 /\ \A p \in Below(n) : f[p] = OrStep(f, p)

LEMMA HalfIsBelow ==
  ASSUME NEW p \in Nat \X Nat, ~(0 \in {p[1], p[2]})
  PROVE  /\ <<p[1] \div 2, p[2] \div 2>> \in Nat \X Nat
         /\ p[1] \div 2 < p[1]
OBVIOUS

LEMMA OrBelowExists == \A n \in Nat : \E f : OrBelow(n, f)
<1> DEFINE bad == {n \in Nat : ~\E f : OrBelow(n, f)}
<1> SUFFICES ASSUME bad # {} PROVE FALSE
  OBVIOUS
<1>1. PICK n \in bad : \A m \in bad : n <= m
  BY LeastOf
<1>2. CASE n = 0
  <2>1. Below(0) = {}
    BY DEF Below
  <2>2. OrBelow(0, [p \in Below(0) |-> 0])
    BY <2>1 DEF OrBelow
  <2> QED
    BY <1>1, <1>2, <2>2
<1>3. CASE n # 0
  <2>1. n - 1 \in Nat /\ n - 1 \notin bad
    BY <1>1, <1>3
  <2>2. PICK f : OrBelow(n - 1, f)
    BY <2>1
  <2> DEFINE g == [p \in Below(n) |-> IF p \in Below(n - 1) THEN f[p] ELSE OrStep(f, p)]
  <2>3. ASSUME NEW p \in Below(n), ~(0 \in {p[1], p[2]})
        PROVE  <<p[1] \div 2, p[2] \div 2>> \in Below(n - 1)
    BY <1>1, <2>3, HalfIsBelow DEF Below
  <2>4. Below(n - 1) \subseteq Below(n)
    BY <1>1 DEF Below
  <2>5. \A p \in Below(n) : OrStep(f, p) = OrStep(g, p)
    BY <2>3, <2>4 DEF OrStep
  <2>6. \A p \in Below(n) : g[p] = OrStep(f, p)
    BY <2>2 DEF OrBelow
  <2>7. \A p \in Below(n) : OrStep(f, p) \in Nat
    <3> TAKE p \in Below(n)
    <3>1. p[1] \in Nat /\ p[2] \in Nat
      BY DEF Below
    <3>2. ~(0 \in {p[1], p[2]}) => f[<<p[1] \div 2, p[2] \div 2>>] \in Nat
      BY <2>2, <2>3 DEF OrBelow
    <3> QED
      BY <3>1, <3>2 DEF OrStep
  <2> HIDE DEF g
  <2>8. OrBelow(n, g)
    <3>1. g \in [Below(n) -> Nat]
      BY <2>6, <2>7 DEF g
    <3> QED
      BY <2>5, <2>6, <3>1 DEF OrBelow
  <2> QED
    BY <1>1, <2>8
<1> QED
  BY <1>2, <1>3

LEMMA OrBelowAgree ==
  ASSUME NEW m \in Nat, NEW n \in Nat, NEW f, NEW g, OrBelow(m, f), OrBelow(n, g)
  PROVE  \A p \in Below(m) \cap Below(n) : f[p] = g[p]
<1> DEFINE bad == {k \in Nat : \E p \in Below(m) \cap Below(n) : p[1] = k /\ f[p] # g[p]}
<1>1. SUFFICES ASSUME bad # {} PROVE FALSE
  BY DEF Below
<1>2. PICK k \in bad : \A j \in bad : k <= j
  BY <1>1, LeastOf
<1>3. PICK p \in Below(m) \cap Below(n) : p[1] = k /\ f[p] # g[p]
  BY <1>2
<1>4. p \in Nat \X Nat /\ p[1] < m /\ p[1] < n
  BY <1>3 DEF Below
<1>5. f[p] = OrStep(f, p) /\ g[p] = OrStep(g, p)
  BY <1>3 DEF OrBelow
<1>6. ~(0 \in {p[1], p[2]})
  BY <1>3, <1>5 DEF OrStep
<1> DEFINE h == <<p[1] \div 2, p[2] \div 2>>
<1>7. /\ h \in Below(m) \cap Below(n)
      /\ h[1] \in Nat /\ h[1] < k
  BY <1>3, <1>4, <1>6, HalfIsBelow DEF Below
<1>8. h[1] \notin bad
  BY <1>2, <1>7
<1>9. f[h] = g[h]
  BY <1>7, <1>8
<1> QED
  BY <1>3, <1>5, <1>6, <1>9 DEF OrStep

\* The definition of Or is not empty: it is the function it says it is.
LEMMA OrUnfolds ==
  /\ Or \in [Nat \X Nat -> Nat]
  /\ \A p \in Nat \X Nat : Or[p] = OrStep(Or, p)
<1> DEFINE part(n) == CHOOSE f : OrBelow(n, f)
           F == [p \in Nat \X Nat |-> part(p[1] + 1)[p]]
<1>1. \A n \in Nat : OrBelow(n, part(n))
  BY OrBelowExists
<1> HIDE DEF part
<1>2. \A p \in Nat \X Nat : p[1] + 1 \in Nat /\ p \in Below(p[1] + 1)
  BY DEF Below
<1>3. \A p \in Nat \X Nat : F[p] \in Nat /\ F[p] = OrStep(part(p[1] + 1), p)
  BY <1>1, <1>2 DEF OrBelow
<1>4. ASSUME NEW p \in Nat \X Nat
      PROVE  OrStep(part(p[1] + 1), p) = OrStep(F, p)
  <2>1. CASE 0 \in {p[1], p[2]}
    BY <2>1 DEF OrStep
  <2>2. CASE ~(0 \in {p[1], p[2]})
    <3> DEFINE h == <<p[1] \div 2, p[2] \div 2>>
    <3>1. h \in Nat \X Nat /\ h[1] < p[1] /\ h[1] \in Nat
      BY <2>2, HalfIsBelow
    <3>2. h \in Below(p[1] + 1) /\ h \in Below(h[1] + 1) /\ h[1] + 1 \in Nat
      BY <3>1 DEF Below
    <3>3. part(p[1] + 1)[h] = part(h[1] + 1)[h]
      BY <1>1, <1>2, <3>2, OrBelowAgree
    <3>4. F[h] = part(h[1] + 1)[h]
      BY <3>1
    <3> HIDE DEF F
    <3> QED
      BY <2>2, <3>3, <3>4 DEF OrStep
  <2> QED
    BY <2>1, <2>2
<1>5. F = [p \in Nat \X Nat |-> OrStep(F, p)]
  <2>1. \A p \in Nat \X Nat : F[p] = OrStep(F, p)
    BY <1>3, <1>4
  <2>2. F = [p \in Nat \X Nat |-> F[p]]
    OBVIOUS
  <2> HIDE DEF F
  <2> QED
    BY <2>1, <2>2
<1> HIDE DEF F
<1>6. Or = CHOOSE f : f = [p \in Nat \X Nat |-> OrStep(f, p)]
  BY DEF Or, OrStep
<1>7. Or = [p \in Nat \X Nat |-> OrStep(Or, p)]
  BY <1>5, <1>6
<1>8. \A p \in Nat \X Nat : Or[p] = OrStep(Or, p)
  BY <1>7
<1>9. \A p \in Nat \X Nat : Or[p] \in Nat
  <2> DEFINE bad == {k \in Nat : \E p \in Nat \X Nat : p[1] = k /\ Or[p] \notin Nat}
  <2>1. SUFFICES ASSUME bad # {} PROVE FALSE
    OBVIOUS
  <2>2. PICK k \in bad : \A j \in bad : k <= j
    BY <2>1, LeastOf
  <2>3. PICK p \in Nat \X Nat : p[1] = k /\ Or[p] \notin Nat
    BY <2>2
  <2>4. CASE 0 \in {p[1], p[2]}
    <3>1. Or[p] = p[1] + p[2]
      BY <1>8, <2>4 DEF OrStep
    <3>2. p[1] \in Nat /\ p[2] \in Nat
      OBVIOUS
    <3> QED
      BY <2>3, <3>1, <3>2
  <2>5. CASE ~(0 \in {p[1], p[2]})
    <3> DEFINE h == <<p[1] \div 2, p[2] \div 2>>
    <3>1. h \in Nat \X Nat /\ h[1] < k /\ h[1] \in Nat
      BY <2>3, <2>5, HalfIsBelow
    <3>2. h[1] \notin bad
      BY <2>2, <3>1
    <3>3. Or[h] \in Nat
      BY <3>1, <3>2
    <3>4. Or[p] = 2 * Or[h] + (IF 1 \in {p[1] % 2, p[2] % 2} THEN 1 ELSE 0)
      BY <1>8, <2>5 DEF OrStep
    <3> QED
      BY <2>3, <3>3, <3>4
  <2> QED
    BY <2>4, <2>5
<1> QED
  BY <1>7, <1>8, <1>9

LEMMA BitOrZero ==
  ASSUME NEW x \in Nat
  PROVE  BitOr(x, 0) = x /\ BitOr(0, x) = x
<1>1. ASSUME NEW p \in Nat \X Nat, 0 \in {p[1], p[2]}
      PROVE  Or[p] = p[1] + p[2]
  BY <1>1, OrUnfolds DEF OrStep
<1>2. Or[<<x, 0>>] = x + 0 /\ Or[<<0, x>>] = 0 + x
  BY <1>1
<1> QED
  BY <1>2 DEF BitOr

LEMMA BitOrType ==
  ASSUME NEW x \in Nat, NEW y \in Nat
  PROVE  BitOr(x, y) \in Nat
<1>1. <<x, y>> \in Nat \X Nat
  OBVIOUS
<1> QED
  BY <1>1, OrUnfolds DEF BitOr

LEMMA HalfOfPower ==
  ASSUME NEW n, PowerOfTwo(n), n # 1
  PROVE  \E h \in Nat : n = 2 * h /\ PowerOfTwo(h)
<1>1. n \in Nat \ {0}
  BY DEF PowerOfTwo
<1>2. n * 1 = n /\ n \in 1 .. n /\ 1 \in 1 .. n
  BY <1>1
<1>3. n % 2 = 0
  BY <1>1, <1>2 DEF PowerOfTwo
<1> DEFINE h == n \div 2
<1>4. n = 2 * h /\ h \in Nat \ {0}
  BY <1>1, <1>3
<1> HIDE DEF h
<1>5. ASSUME NEW d \in 1 .. h, NEW q \in 1 .. h, d * q = h
      PROVE  d = 1 \/ d % 2 = 0
  <2>1. d \in 1 .. n /\ 2 * q \in 1 .. n
    BY <1>4
  <2>2. d * (2 * q) = n
    BY <1>4, <1>5
  <2> QED
    BY <2>1, <2>2 DEF PowerOfTwo
<1> QED
  BY <1>4, <1>5 DEF PowerOfTwo

\* Numbers with no bit in common are added.
LEMMA BitOrAdds ==
  ASSUME NEW n, PowerOfTwo(n), NEW q \in Nat, NEW y \in 0 .. n - 1
  PROVE  BitOr(n * q, y) = n * q + y
<1> DEFINE bad == {m \in Nat : /\ PowerOfTwo(m)
                               /\ \E r \in Nat : \E z \in 0 .. m - 1 : BitOr(m * r, z) # m * r + z}
<1>1. SUFFICES ASSUME bad # {} PROVE FALSE
  BY DEF PowerOfTwo
<1>2. PICK m \in bad : \A k \in bad : m <= k
  BY <1>1, LeastOf
<1>3. m \in Nat \ {0} /\ PowerOfTwo(m)
  BY <1>2 DEF PowerOfTwo
<1>4. PICK r \in Nat, z \in 0 .. m - 1 : BitOr(m * r, z) # m * r + z
  BY <1>2
<1> DEFINE x == m * r
<1>5. x \in Nat /\ z \in Nat
  BY <1>3
<1>6. x # 0 /\ z # 0
  BY <1>4, <1>5, BitOrZero
<1>7. PICK h \in Nat : m = 2 * h /\ PowerOfTwo(h)
  BY <1>3, <1>6, HalfOfPower
<1>8. h < m /\ h \notin bad
  <2>1. h < m
    BY <1>3, <1>7
  <2> HIDE DEF bad
  <2> QED
    BY <1>2, <1>3, <1>7, <2>1
<1>9. x = 2 * (h * r) /\ h * r \in Nat
  BY <1>7
<1>10. x \div 2 = h * r /\ x % 2 = 0
  <2> HIDE DEF x
  <2> DEFINE w == h * r
  <2>1. x = 2 * w /\ w \in Nat
    BY <1>9
  <2> HIDE DEF w
  <2>2. x \div 2 = w /\ x % 2 = 0
    BY <2>1
  <2> QED
    BY <2>2 DEF w
<1>11. z \div 2 \in 0 .. h - 1 /\ z = 2 * (z \div 2) + (z % 2) /\ z % 2 \in {0, 1}
  <2>1. z < 2 * h
    BY <1>3, <1>7
  <2> QED
    BY <1>5, <1>7, <2>1
<1>12. BitOr(h * r, z \div 2) = h * r + z \div 2
  BY <1>7, <1>8, <1>11
<1>13. BitOr(x, z) = 2 * BitOr(x \div 2, z \div 2) + (z % 2)
  <2> HIDE DEF x
  <2>1. <<x, z>> \in Nat \X Nat /\ <<x, z>>[1] = x /\ <<x, z>>[2] = z
    BY <1>5
  <2>2. Or[<<x, z>>] = OrStep(Or, <<x, z>>)
    BY <2>1, OrUnfolds
  <2>3. OrStep(Or, <<x, z>>) = 2 * Or[<<x \div 2, z \div 2>>] + (IF 1 \in {x % 2, z % 2} THEN 1 ELSE 0)
    BY <1>6, <2>1 DEF OrStep
  <2>4. (IF 1 \in {x % 2, z % 2} THEN 1 ELSE 0) = z % 2
    BY <1>10, <1>11
  <2>5. BitOr(x, z) = Or[<<x, z>>] /\ BitOr(x \div 2, z \div 2) = Or[<<x \div 2, z \div 2>>]
    BY DEF BitOr
  <2> QED
    BY <2>2, <2>3, <2>4, <2>5
<1>14. BitOr(x, z) = 2 * (h * r + z \div 2) + (z % 2)
  BY <1>10, <1>12, <1>13
<1> HIDE DEF x
<1>15. BitOr(x, z) = x + z
  <2> DEFINE w == h * r
  <2>1. w \in Nat /\ x = 2 * w
    BY <1>9
  <2>2. BitOr(x, z) = 2 * (w + z \div 2) + (z % 2)
    BY <1>14
  <2> DEFINE u == z \div 2
             v == z % 2
  <2>3. z = 2 * u + v /\ u \in Nat /\ v \in Nat
    BY <1>5, <1>11
  <2> HIDE DEF w, u, v
  <2>4. BitOr(x, z) = 2 * (w + u) + v
    BY <2>2 DEF u, v
  <2> QED
    BY <2>1, <2>3, <2>4
<1> QED
  BY <1>4, <1>15 DEF x

\* Quotient and remainder
LEMMA DivMod ==
  ASSUME NEW b \in Nat, NEW q \in Nat, NEW r \in Nat, r < b
  PROVE  (b * q + r) \div b = q /\ (b * q + r) % b = r
<1> DEFINE a == b * q + r
           p == a \div b
           s == a % b
<1>1. a \in Nat /\ b > 0
  OBVIOUS
<1> HIDE DEF a
<1>2. p \in Nat /\ s \in 0 .. b - 1 /\ a = b * p + s
  BY <1>1
<1> HIDE DEF p, s
<1>3. b * q + r = b * p + s
  BY <1>2 DEF a
<1>4. ~(p < q)
  <2>1. SUFFICES ASSUME p + 1 <= q PROVE FALSE
    BY <1>2
  <2>2. b * (p + 1) <= b * q
    BY <1>1, <1>2, <2>1
  <2> QED
    BY <1>2, <1>3, <2>2
<1>5. ~(q < p)
  <2>1. SUFFICES ASSUME q + 1 <= p PROVE FALSE
    BY <1>2
  <2>2. b * (q + 1) <= b * p
    BY <1>1, <1>2, <2>1
  <2> QED
    BY <1>2, <1>3, <2>2
<1>6. p = q
  BY <1>2, <1>4, <1>5
<1>7. s = r
  BY <1>2, <1>3, <1>6
<1> QED
  BY <1>6, <1>7 DEF p, s, a

-----------------------------------------------------------------------------
\* The first id of the k-th pool of a contract, counted over both types.
Start(isFungible, k) == (IF isFungible THEN 0 ELSE TypeBit) + IndexSize * k

LEMMA Widths ==
  /\ PowerOfTwo(IndexSize) /\ IndexSize \in Nat /\ IndexSize > 1
  /\ PowerOfTwo(TypeBit) /\ TypeBit \in Nat /\ TypeBit > 0
  /\ \E n \in Nat : TypeBit = IndexSize * n
BY WidthsAssumption DEF PowerOfTwo

LEMMA StartIsAligned ==
  ASSUME NEW isFungible \in BOOLEAN, NEW k \in Nat
  PROVE  /\ Start(isFungible, k) \in Nat
         /\ \E n \in Nat : Start(isFungible, k) = IndexSize * n
<1>1. PICK n \in Nat : TypeBit = IndexSize * n
  BY Widths
<1>2. CASE isFungible
  <2>1. Start(isFungible, k) = IndexSize * k
    BY <1>2, Widths DEF Start
  <2> QED
    BY <2>1, Widths
<1>3. CASE ~isFungible
  <2>1. Start(isFungible, k) = IndexSize * (n + k) /\ n + k \in Nat
    BY <1>1, <1>3, Widths DEF Start
  <2> QED
    BY <2>1, Widths
<1> QED
  BY <1>2, <1>3

\* create of the contract puts the type and the number side by side, and the
\* connector takes them apart again, in either form of the locator.
LEMMA PoolArithmetic ==
  ASSUME NEW isFungible \in BOOLEAN, NEW k \in Nat, k * IndexSize < TypeBit
  PROVE  LET start == Start(isFungible, k)
         IN /\ BitOr(IF isFungible THEN 0 ELSE TypeBit, k * IndexSize) = start
            /\ isFungible <=> start < TypeBit
            /\ UnpackTypeId(start) = FormatLegacyPool(isFungible, start)
            /\ UnpackOldTypeId(start) = [isFungible |-> isFungible, number |-> k]
            /\ ConvertLegacyPoolId(UnpackOldTypeId(start)) = FormatLegacyPool(isFungible, start)
<1> DEFINE start == Start(isFungible, k)
           low == IndexSize * k
<1>1. low \in 0 .. TypeBit - 1 /\ low = k * IndexSize
  BY Widths
<1>2. start = (IF isFungible THEN 0 ELSE TypeBit) + low
  BY DEF Start
<1> HIDE DEF start, low
<1>3. BitOr(IF isFungible THEN 0 ELSE TypeBit, k * IndexSize) = start
  <2>1. BitOr(0, low) = low
    BY <1>1, BitOrZero
  <2>2. BitOr(TypeBit * 1, low) = TypeBit * 1 + low
    BY <1>1, Widths, BitOrAdds
  <2>3. TypeBit * 1 = TypeBit
    BY Widths
  <2> QED
    BY <1>1, <1>2, <2>1, <2>2, <2>3, Widths
<1>4. isFungible <=> start < TypeBit
  BY <1>1, <1>2, Widths
<1>5. UnpackTypeId(start) = FormatLegacyPool(isFungible, start)
  <2>1. PICK n \in Nat : start = IndexSize * n
    BY StartIsAligned DEF start
  <2>2. (IndexSize * n + 0) % IndexSize = 0 /\ IndexSize * n + 0 = IndexSize * n
    BY Widths, DivMod
  <2>3. start % IndexSize = 0 /\ start \in Nat
    BY <2>1, <2>2, Widths, StartIsAligned DEF start
  <2> QED
    BY <1>4, <2>3 DEF UnpackTypeId
<1>6. start % TypeBit = low
  <2>1. (TypeBit * 0 + low) % TypeBit = low /\ (TypeBit * 1 + low) % TypeBit = low
    BY <1>1, Widths, DivMod
  <2>2. TypeBit * 0 + low = low /\ TypeBit * 1 + low = TypeBit + low
    BY <1>1, Widths
  <2> QED
    BY <1>1, <1>2, <2>1, <2>2, Widths
<1>7. low \div IndexSize = k
  <2>1. (IndexSize * k + 0) \div IndexSize = k /\ IndexSize * k + 0 = low
    BY Widths, DivMod DEF low
  <2> QED
    BY <2>1
<1>8. UnpackOldTypeId(start) = [isFungible |-> isFungible, number |-> k]
  BY <1>4, <1>6, <1>7 DEF UnpackOldTypeId
<1>9. ConvertLegacyPoolId(UnpackOldTypeId(start)) = FormatLegacyPool(isFungible, start)
  BY <1>3, <1>8 DEF ConvertLegacyPoolId
<1> QED
  BY <1>3, <1>4, <1>5, <1>8, <1>9 DEF start

\* Pools of a contract that share an id are one pool.
LEMMA PoolsApart ==
  ASSUME NEW f \in BOOLEAN, NEW k \in Nat, k * IndexSize < TypeBit,
         NEW g \in BOOLEAN, NEW j \in Nat, j * IndexSize < TypeBit,
         NEW id \in Nat,
         PoolContainsId(FormatLegacyPool(f, Start(f, k)), id),
         PoolContainsId(FormatLegacyPool(g, Start(g, j)), id)
  PROVE  f = g /\ k = j
<1>1. PICK m \in Nat : Start(f, k) = IndexSize * m
  BY StartIsAligned
<1>2. PICK n \in Nat : Start(g, j) = IndexSize * n
  BY StartIsAligned
<1>3. ASSUME NEW h \in BOOLEAN, NEW p \in Nat,
             PoolContainsId(FormatLegacyPool(h, IndexSize * p), id)
      PROVE  id \div IndexSize = p
  <2> DEFINE s == IndexSize * p
  <2>1. s \in Nat /\ s <= id /\ id <= s + IndexSize - 1
    BY <1>3, Widths DEF PoolContainsId, FormatLegacyPool
  <2>2. id - s \in Nat /\ id - s < IndexSize /\ id = s + (id - s)
    BY <2>1, Widths
  <2>3. PICK r \in Nat : r < IndexSize /\ id = s + r
    BY <2>2
  <2>4. (IndexSize * p + r) \div IndexSize = p
    BY <2>3, Widths, DivMod
  <2> QED
    BY <2>3, <2>4
<1>4. m = n
  BY <1>1, <1>2, <1>3
<1>5. Start(f, k) = Start(g, j)
  BY <1>1, <1>2, <1>4
<1>6. f = g
  BY <1>5, PoolArithmetic
<1>7. IndexSize * k = IndexSize * j
  <2>1. IndexSize * k \in Nat /\ IndexSize * j \in Nat
    BY Widths
  <2> QED
    BY <1>5, <1>6, <2>1, Widths DEF Start
<1>8. (IndexSize * k + 0) \div IndexSize = k /\ (IndexSize * j + 0) \div IndexSize = j
  BY Widths, DivMod
<1>9. IndexSize * k + 0 = IndexSize * j + 0
  BY <1>7
<1> QED
  BY <1>6, <1>8, <1>9

LEMMA StartIsUnique ==
  ASSUME NEW f \in BOOLEAN, NEW k \in Nat, k * IndexSize < TypeBit,
         NEW g \in BOOLEAN, NEW j \in Nat, j * IndexSize < TypeBit,
         Start(f, k) = Start(g, j)
  PROVE  f = g /\ k = j
<1>1. Start(f, k) \in Nat
  BY StartIsAligned
<1>2. PoolContainsId(FormatLegacyPool(f, Start(f, k)), Start(f, k))
  BY <1>1, Widths DEF PoolContainsId, FormatLegacyPool
<1>3. PoolContainsId(FormatLegacyPool(g, Start(g, j)), Start(f, k))
  BY <1>1, Widths DEF PoolContainsId, FormatLegacyPool
<1> QED
  BY <1>1, <1>2, <1>3, PoolsApart

-----------------------------------------------------------------------------
LEMMA MinIsLeast ==
  ASSUME NEW S \in SUBSET Nat, S # {}
  PROVE  Min(S) \in S /\ \A x \in S : Min(S) <= x
<1>1. PICK m \in S : \A x \in S : m <= x
  BY LeastOf
<1> QED
  BY <1>1 DEF Min

\* A set of naturals with an upper bound that has a member has a largest one.
LEMMA MaxIsLargest ==
  ASSUME NEW S \in SUBSET Nat, S # {}, NEW n \in Nat, \A x \in S : x <= n
  PROVE  Max(S) \in S /\ \A x \in S : x <= Max(S)
<1> DEFINE T == {n - x : x \in S}
<1>1. T \in SUBSET Nat /\ T # {}
  <2>1. \A x \in S : n - x \in Nat
    OBVIOUS
  <2>2. T \subseteq Nat
    BY <2>1
  <2>3. PICK x \in S : TRUE
    OBVIOUS
  <2>4. n - x \in T
    BY <2>3
  <2> QED
    BY <2>2, <2>4
<1>2. Min(T) \in T /\ \A y \in T : Min(T) <= y
  BY <1>1, MinIsLeast
<1>3. PICK m \in S : Min(T) = n - m
  BY <1>2
<1>4. \A x \in S : n - m <= n - x
  BY <1>2, <1>3
<1>5. \A x \in S : x <= m
  BY <1>4
<1> QED
  BY <1>5 DEF Max

-----------------------------------------------------------------------------
\* A query that was answered yes was asked of the sample contract, and every
\* call that waits names a method that is there, or one of the older sample's.
Callable ==
  /\ kind \in Kinds
  /\ supportCache \in {"unknown", "yes", "no"}
  /\ supportCache = "yes" => kind = "V2"
  /\ CallsExist

\* The operations of a request.
Operations == {"approval", "burn", "mint", "transfer"}

LEMMA NoMethodIsNone ==
  /\ NoMethod \notin Implemented /\ NoMethod \notin AutoIndexed
  /\ "create" # NoMethod
<1>1. NoMethod \notin Sample \cup OldSample \cup Standard \cup {"mint", "burn"}
  BY DEF NoMethod, Sample, OldSample, Standard
<1> QED
  BY <1>1 DEF NoMethod, Implemented, AutoIndexed

\* Whatever the query came to, a method that is found is of the operation and
\* for the pool, and the contract has it: unless the ABI was a guess, that is,
\* the older sample's on another contract.
LEMMA MethodIsThere ==
  ASSUME NEW operation \in Operations, NEW pool, NEW abi,
         kind \in {"V2", "Old", "oz"},
         \/ abi \in Interfaces(operation)
         \/ abi = OldSample
         \/ abi = Sample /\ kind = "V2",
         MethodFor(abi, pool, operation) # NoMethod
  PROVE  /\ \/ MethodFor(abi, pool, operation) \in Implemented
            \/ kind = "oz" /\ MethodFor(abi, pool, operation) \in OldSample
         /\ Maps(MethodFor(abi, pool, operation), pool)
         /\ MethodFor(abi, pool, operation) \in ToSet(DynamicMethods[operation])
<1> DEFINE methods == DynamicMethods[operation]
           fits == {i \in DOMAIN methods : methods[i] \in abi /\ Maps(methods[i], pool)}
<1>1. fits \in SUBSET Nat
  BY DEF DynamicMethods, Operations
<1>2. fits # {} /\ MethodFor(abi, pool, operation) = methods[Min(fits)]
  BY DEF MethodFor
<1>3. Min(fits) \in fits
  BY <1>1, <1>2, MinIsLeast
<1>4. methods[Min(fits)] \in abi /\ Maps(methods[Min(fits)], pool)
  BY <1>3
<1>5. abi \subseteq Implemented \/ (kind = "oz" /\ abi = OldSample)
  <2>1. CASE abi \in Interfaces(operation)
    BY <2>1 DEF Interfaces
  <2>2. CASE abi = OldSample
    BY <2>2 DEF Implemented, Sample
  <2>3. CASE abi = Sample /\ kind = "V2"
    BY <2>3 DEF Implemented
  <2> QED
    BY <2>1, <2>2, <2>3
<1>6. methods[Min(fits)] \in ToSet(methods)
  BY <1>3 DEF ToSet
<1> HIDE DEF methods, fits
<1>7. \/ methods[Min(fits)] \in Implemented
      \/ kind = "oz" /\ methods[Min(fits)] \in OldSample
  BY <1>4, <1>5
<1> QED
  BY <1>2, <1>4, <1>6, <1>7 DEF methods

LEMMA CallsInvariant == Spec => []Callable
<1>1. Init => Callable
  BY DEF Init, Callable, CallsExist
<1>2. Callable /\ [Next]_vars => Callable'
  <2> SUFFICES ASSUME Callable, [Next]_vars
               PROVE  Callable'
    OBVIOUS
  <2> USE DEF Callable
  <2>0. kind \in {"V2", "Old", "oz"}
    BY ContractsAssumption
  <2>1. ASSUME NEW isFungible \in BOOLEAN, CreatePool(isFungible)
        PROVE  Callable'
    BY <2>0, <2>1 DEF CreatePool, Submit, CallsExist, Implemented, Sample, OldSample
  <2>2. ASSUME NEW locator \in Offered, ActivatePool(locator)
        PROVE  Callable'
    BY <2>0, <2>2 DEF ActivatePool, SupportAnswers, CallsExist, Implemented
  <2>3. ASSUME NEW locator, NEW operation \in Operations, NEW dto, Handle(locator, operation, dto)
        PROVE  Callable'
    <3>1. UNCHANGED kind /\ Implemented' = Implemented
      BY <2>3 DEF Handle, Implemented
    <3>2. /\ supportCache' \in {"unknown", "yes", "no"}
          /\ supportCache' = "yes" => kind = "V2"
      BY <2>3 DEF Handle, SupportAnswers
    <3>3. ASSUME NEW abi, Operate(locator, operation, dto, abi),
                 \/ abi \in Interfaces(operation)
                 \/ abi = OldSample
                 \/ abi = Sample /\ kind = "V2"
          PROVE  CallsExist'
      <4> DEFINE method == MethodFor(abi, UnpackPoolLocator(locator), operation)
      <4>1. method # NoMethod =>
              method \in Implemented \/ (kind = "oz" /\ method \in OldSample)
        BY <2>0, <3>3, MethodIsThere
      <4>2. \/ UNCHANGED submitted
            \/ \E request : request.method = method /\ submitted' = {request}
        BY <3>3 DEF Operate, Submit
      <4> HIDE DEF method
      <4> QED
        BY <3>1, <4>1, <4>2 DEF CallsExist
    <3>4. ASSUME NEW abi \in Interfaces(operation), Operate(locator, operation, dto, abi)
          PROVE  CallsExist'
      BY <3>3, <3>4
    <3>5. ASSUME NEW support \in SupportAnswers, Operate(locator, operation, dto, AbiFor(support))
          PROVE  CallsExist'
      BY <3>3, <3>5 DEF AbiFor, SupportAnswers
    <3> QED
      BY <2>3, <3>1, <3>2, <3>4, <3>5 DEF Handle
  <2>4. ASSUME NEW locator \in Active, Request(locator)
        PROVE  Callable'
    BY <2>3, <2>4 DEF Request, Operations
  <2>5. ASSUME NEW tx \in submitted, Mined(tx)
        PROVE  Callable'
    BY <2>5 DEF Mined, CallsExist, Implemented
  <2>6. ASSUME NEW from, NEW to, NEW ids, BatchTransfer(from, to, ids)
        PROVE  Callable'
    BY <2>6 DEF BatchTransfer, CallsExist, Implemented
  <2>7. ASSUME NEW locator, Deliver(locator)
        PROVE  Callable'
    BY <2>7 DEF Deliver, CallsExist, Implemented
  <2>8. CASE UNCHANGED vars
    BY <2>8 DEF vars, CallsExist, Implemented
  <2> QED
    BY <2>1, <2>2, <2>4, <2>5, <2>6, <2>7, <2>8 DEF Next
<1> QED
  BY <1>1, <1>2, PTL DEF Spec

\* A call that names a method names one of the contract, whatever became of the
\* query for its interface; the older sample's methods are tried on a contract
\* that is not FireFly's only.
THEOREM CallsAreImplemented == Spec => []CallsExist
<1>1. Callable => CallsExist
  BY DEF Callable
<1> QED
  BY <1>1, CallsInvariant, PTL
-----------------------------------------------------------------------------
(* Approvals *)

IsSeq(s) == s \in Seq(ToSet(s))

LEMMA SeqIsSeq ==
  ASSUME NEW S, NEW s \in Seq(S)
  PROVE  IsSeq(s)
<1>1. s \in [1 .. Len(s) -> ToSet(s)] /\ Len(s) \in Nat
  BY DEF ToSet
<1> QED
  BY <1>1 DEF IsSeq

LEMMA Appended ==
  ASSUME NEW s, IsSeq(s), NEW t, IsSeq(t)
  PROVE  /\ IsSeq(s \o t)
         /\ Len(s) \in Nat /\ DOMAIN s = 1 .. Len(s)
         /\ Len(t) \in Nat /\ DOMAIN t = 1 .. Len(t)
         /\ DOMAIN (s \o t) = 1 .. Len(s) + Len(t)
         /\ \A i \in DOMAIN s : (s \o t)[i] = s[i]
         /\ \A i \in DOMAIN t : (s \o t)[Len(s) + i] = t[i]
<1> DEFINE U == ToSet(s) \cup ToSet(t)
<1>1. s \in Seq(U) /\ t \in Seq(U)
  BY DEF IsSeq
<1> HIDE DEF U
<1>2. s \o t \in Seq(U)
  BY <1>1
<1>3. IsSeq(s \o t)
  BY <1>2, SeqIsSeq
<1> QED
  BY <1>1, <1>2, <1>3

LEMMA PlacedFields ==
  ASSUME NEW event, NEW block, NEW log
  PROVE  /\ Placed(event, block, log).block = block
         /\ Placed(event, block, log).log = log
         /\ \A f \in DOMAIN event \ {"block", "log"} : Placed(event, block, log)[f] = event[f]
BY DEF Placed

ApprovalEvent(event) == event.signature = "ApprovalForAll"

\* What a method emits: a sequence, with one approval at most.
LEMMA EmittedEvents ==
  ASSUME NEW tx, tx.method \in AutoIndexed => tx.dto.amount \in Nat
  PROVE  /\ IsSeq(Emitted(tx))
         /\ \A i \in DOMAIN Emitted(tx) : "signature" \in DOMAIN Emitted(tx)[i]
         /\ \A i, j \in DOMAIN Emitted(tx) :
              ApprovalEvent(Emitted(tx)[i]) /\ ApprovalEvent(Emitted(tx)[j]) => i = j
<1> DEFINE Fine(events) ==
             /\ IsSeq(events)
             /\ \A i \in DOMAIN events : "signature" \in DOMAIN events[i]
             /\ \A i, j \in DOMAIN events :
                  ApprovalEvent(events[i]) /\ ApprovalEvent(events[j]) => i = j
<1>1. ASSUME NEW event, "signature" \in DOMAIN event
      PROVE  Fine(<<event>>)
  <2>1. <<event>> \in Seq({event})
    OBVIOUS
  <2>2. IsSeq(<<event>>)
    BY <2>1, SeqIsSeq
  <2>3. DOMAIN <<event>> = {1} /\ <<event>>[1] = event
    OBVIOUS
  <2> QED
    BY <1>1, <2>2, <2>3
<1>2. Fine(<<>>)
  BY DEF IsSeq
<1>3. ASSUME NEW n \in Nat, NEW S, NEW s \in [1 .. n -> S],
             \A i \in 1 .. n : s[i].signature = "TransferSingle" /\ "signature" \in DOMAIN s[i]
      PROVE  Fine(s)
  <2>1. s \in Seq(S)
    OBVIOUS
  <2> QED
    BY <1>3, <2>1, SeqIsSeq DEF ApprovalEvent
<1>4. ASSUME NEW to, NEW from, NEW id, NEW value
      PROVE  Fine(<<Transfer(from, to, id, value)>>)
  BY <1>1 DEF Transfer
<1>5. Fine(<<CreationEvent(NextType(tx.isFungible), tx.isFungible)>>)
  BY <1>1 DEF CreationEvent
<1>6. Fine(<<[signature |-> "ApprovalForAll", account |-> tx.dto.from,
              operator |-> tx.dto.to, approved |-> tx.dto.approved]>>)
  BY <1>1
<1>7. ASSUME tx.method \in AutoIndexed
      PROVE  Fine(Emitted(tx))
  <2> DEFINE Mint(i) == Transfer(Zero, tx.dto.to, BitOr(tx.id, maxIndex[tx.id] + i), 1)
  <2>1. \A i \in 1 .. tx.dto.amount :
          Mint(i).signature = "TransferSingle" /\ "signature" \in DOMAIN Mint(i)
    BY DEF Transfer
  <2> HIDE DEF Mint
  <2>2. Fine([i \in 1 .. tx.dto.amount |-> Mint(i)])
    <3> DEFINE s == [i \in 1 .. tx.dto.amount |-> Mint(i)]
    <3>1. s \in [1 .. tx.dto.amount -> {Mint(i) : i \in 1 .. tx.dto.amount}]
      OBVIOUS
    <3>2. \A i \in 1 .. tx.dto.amount : s[i] = Mint(i)
      OBVIOUS
    <3> HIDE DEF Fine, s
    <3>3. Fine(s)
      BY <1>3, <1>7, <2>1, <3>1, <3>2
    <3> QED
      BY <3>3 DEF s
  <2>3. Fine(Minted(tx))
    BY <1>7, <2>2 DEF Minted, Mint
  <2> HIDE DEF Fine
  <2> QED
    BY <1>2, <1>4, <1>5, <1>6, <2>3 DEF Emitted, Executes, Moved
<1>8. ASSUME tx.method \notin AutoIndexed
      PROVE  Fine(Emitted(tx))
  <2> HIDE DEF Fine
  <2> QED
    BY <1>2, <1>4, <1>5, <1>6, <1>8 DEF Emitted, Executes, Moved, Minted
<1> HIDE DEF Fine
<1>9. Fine(Emitted(tx))
  BY <1>7, <1>8
<1> QED
  BY <1>9 DEF Fine

\* Events come in the order of their places, one approval to a transaction.
Ordered ==
  /\ IsSeq(chain)
  /\ \A i \in DOMAIN chain : chain[i].block \in Nat /\ chain[i].log \in Nat
  /\ \A i, j \in DOMAIN chain : i < j =>
       /\ chain[i].block <= chain[j].block
       /\ chain[i].block = chain[j].block =>
            /\ chain[i].log < chain[j].log
            /\ ~ApprovalEvent(chain[i]) \/ ~ApprovalEvent(chain[j])

LEMMA HeightIsTop ==
  ASSUME Ordered
  PROVE  /\ Height \in Nat
         /\ \A i \in DOMAIN chain : chain[i].block <= Height
<1>1. Len(chain) \in Nat /\ DOMAIN chain = 1 .. Len(chain)
  BY DEF Ordered, IsSeq
<1>2. CASE chain = <<>>
  BY <1>2 DEF Height
<1>3. CASE chain # <<>>
  <2>1. Len(chain) \in DOMAIN chain
    BY <1>1, <1>3 DEF Ordered, IsSeq
  <2>2. Height = chain[Len(chain)].block
    BY <1>3 DEF Height, Last
  <2> QED
    BY <1>1, <2>1, <2>2 DEF Ordered
<1> QED
  BY <1>2, <1>3

\* Old events stay where they are and new ones come after them.
LEMMA MineAppends ==
  ASSUME Ordered, NEW events, IsSeq(events), Mine(events)
  PROVE  /\ IsSeq(chain')
         /\ Len(chain) \in Nat /\ DOMAIN chain = 1 .. Len(chain)
         /\ Len(events) \in Nat /\ DOMAIN events = 1 .. Len(events)
         /\ DOMAIN chain' = 1 .. Len(chain) + Len(events)
         /\ \A i \in DOMAIN chain : chain'[i] = chain[i]
         /\ \A i \in DOMAIN events :
              chain'[Len(chain) + i] = Placed(events[i], Height + 1, i)
<1> DEFINE placed == [i \in DOMAIN events |-> Placed(events[i], Height + 1, i)]
<1>1. DOMAIN events = 1 .. Len(events) /\ Len(events) \in Nat
  BY DEF IsSeq
<1>2. placed \in Seq({placed[i] : i \in DOMAIN events})
  BY <1>1
<1>3. /\ DOMAIN placed = DOMAIN events
      /\ \A i \in DOMAIN events : placed[i] = Placed(events[i], Height + 1, i)
      /\ chain' = chain \o placed
  BY DEF Mine
<1> HIDE DEF placed
<1>4. IsSeq(placed)
  BY <1>2, SeqIsSeq
<1>5. Len(placed) = Len(events)
  BY <1>1, <1>3, <1>4 DEF IsSeq
<1>6. /\ IsSeq(chain \o placed)
      /\ Len(chain) \in Nat /\ DOMAIN chain = 1 .. Len(chain)
      /\ DOMAIN (chain \o placed) = 1 .. Len(chain) + Len(placed)
      /\ \A i \in DOMAIN chain : (chain \o placed)[i] = chain[i]
      /\ \A i \in DOMAIN placed : (chain \o placed)[Len(chain) + i] = placed[i]
  <2>1. IsSeq(chain)
    BY DEF Ordered
  <2> QED
    <3>1. /\ IsSeq(chain \o placed)
          /\ DOMAIN (chain \o placed) = 1 .. Len(chain) + Len(placed)
          /\ \A i \in DOMAIN chain : (chain \o placed)[i] = chain[i]
          /\ Len(chain) \in Nat /\ DOMAIN chain = 1 .. Len(chain)
          /\ DOMAIN placed = 1 .. Len(placed)
      BY <1>4, <2>1, Appended
    <3>2. \A i \in 1 .. Len(placed) : (chain \o placed)[Len(chain) + i] = placed[i]
      BY <1>4, <2>1, <3>1, Appended
    <3> QED
      BY <3>1, <3>2
<1> QED
  BY <1>1, <1>3, <1>5, <1>6

LEMMA MineKeepsOrder ==
  ASSUME Ordered, NEW events, IsSeq(events), Mine(events),
         \A i \in DOMAIN events : "signature" \in DOMAIN events[i],
         \A i, j \in DOMAIN events : ApprovalEvent(events[i]) /\ ApprovalEvent(events[j]) => i = j
  PROVE  Ordered'
<1> DEFINE n == Len(chain)
<1>1. /\ IsSeq(chain')
      /\ n \in Nat /\ DOMAIN chain = 1 .. n
      /\ DOMAIN events = 1 .. Len(events) /\ Len(events) \in Nat
      /\ DOMAIN chain' = 1 .. n + Len(events)
  BY MineAppends
<1>2. \A i \in 1 .. n : chain'[i] = chain[i]
  BY <1>1, MineAppends
<1>3. ASSUME NEW i \in n + 1 .. n + Len(events)
      PROVE  /\ i - n \in DOMAIN events
             /\ chain'[i].block = Height + 1
             /\ chain'[i].log = i - n
             /\ ApprovalEvent(chain'[i]) <=> ApprovalEvent(events[i - n])
  <2>1. i - n \in DOMAIN events /\ i = n + (i - n)
    BY <1>1
  <2>2. chain'[i] = Placed(events[i - n], Height + 1, i - n)
    BY <2>1, MineAppends
  <2> QED
    BY <2>1, <2>2, PlacedFields DEF ApprovalEvent
<1>4. /\ Height \in Nat
      /\ \A i \in 1 .. n : chain[i].block <= Height
  BY <1>1, HeightIsTop
<1>5. \A i \in DOMAIN chain' : i \in 1 .. n \/ i \in n + 1 .. n + Len(events)
  BY <1>1
<1>6. \A i \in DOMAIN chain' : chain'[i].block \in Nat /\ chain'[i].log \in Nat
  BY <1>1, <1>2, <1>3, <1>4, <1>5 DEF Ordered
<1>7. ASSUME NEW i \in DOMAIN chain', NEW j \in DOMAIN chain', i < j
      PROVE  /\ chain'[i].block <= chain'[j].block
             /\ chain'[i].block = chain'[j].block =>
                  /\ chain'[i].log < chain'[j].log
                  /\ ~ApprovalEvent(chain'[i]) \/ ~ApprovalEvent(chain'[j])
  <2>1. CASE j \in 1 .. n
    <3>1. i \in 1 .. n
      BY <1>1, <1>7, <2>1
    <3> QED
      BY <1>1, <1>2, <1>7, <2>1, <3>1 DEF Ordered
  <2>2. CASE i \in 1 .. n /\ j \in n + 1 .. n + Len(events)
    <3>1. chain'[i].block = chain[i].block /\ chain[i].block \in Nat
      BY <1>1, <1>2, <2>2 DEF Ordered
    <3> QED
      BY <1>3, <1>4, <2>2, <3>1
  <2>3. CASE i \in n + 1 .. n + Len(events) /\ j \in n + 1 .. n + Len(events)
    <3>1. i - n # j - n
      BY <1>1, <1>7
    <3> QED
      BY <1>3, <1>4, <1>7, <2>3, <3>1
  <2> QED
    BY <1>5, <2>1, <2>2, <2>3
<1> QED
  BY <1>1, <1>6, <1>7 DEF Ordered

\* The contract mints a number of tokens.
Amounts == \A tx \in submitted : tx.method \in AutoIndexed => tx.dto.amount \in Nat

\* Subscriptions are those of activatePool, and of createPool.
Subscribed ==
  \A sub \in DOMAIN cursor :
    /\ sub = [locator |-> sub.locator, signature |-> sub.signature]
    /\ sub.locator # Base => ApprovalSub(sub.locator) \in DOMAIN cursor
    /\ sub.locator = Base => sub.signature = "TokenPoolCreation"
    /\ cursor[sub] \in 0 .. Len(chain)

\* A pool was told of the approvals behind its subscription,
ApprovalsTold ==
  \A sub \in DOMAIN cursor : sub.signature = "ApprovalForAll" =>
    \A i \in DOMAIN chain : ApprovalEvent(chain[i]) /\ i <= cursor[sub] =>
      TransformApprovalForAllEvent(sub.locator, chain[i]) \subseteq told

\* and of nothing else.
ApprovalsGiven ==
  \A m \in told : m.event = "token-approval" =>
    \E i \in DOMAIN chain : /\ ApprovalEvent(chain[i])
                            /\ m \in TransformApprovalForAllEvent(m.locator, chain[i])

AInv == Ordered /\ Amounts /\ Subscribed /\ ApprovalsTold /\ ApprovalsGiven

\* A step of the contract changes the chain and not what is told.
LEMMA MineKeepsApprovals ==
  ASSUME AInv, NEW events, IsSeq(events), Mine(events), UNCHANGED <<cursor, told>>,
         \A i \in DOMAIN events : "signature" \in DOMAIN events[i],
         \A i, j \in DOMAIN events : ApprovalEvent(events[i]) /\ ApprovalEvent(events[j]) => i = j
  PROVE  Ordered' /\ Subscribed' /\ ApprovalsTold' /\ ApprovalsGiven'
<1> USE DEF AInv
<1>1. Ordered'
  BY MineKeepsOrder
<1>2. /\ Len(chain) \in Nat /\ DOMAIN chain = 1 .. Len(chain)
      /\ Len(events) \in Nat
      /\ DOMAIN chain' = 1 .. Len(chain) + Len(events)
      /\ \A i \in DOMAIN chain : chain'[i] = chain[i]
  BY MineAppends
<1>3. Len(chain') = Len(chain) + Len(events)
  <2>1. Len(chain') \in Nat /\ DOMAIN chain' = 1 .. Len(chain')
    BY <1>1 DEF Ordered, IsSeq
  <2> QED
    BY <1>2, <2>1
<1>4. Subscribed'
  BY <1>2, <1>3 DEF Subscribed
<1>5. ApprovalsTold'
  BY <1>2 DEF ApprovalsTold, Subscribed, ApprovalEvent
<1>6. ApprovalsGiven'
  BY <1>2 DEF ApprovalsGiven, ApprovalEvent
<1> QED
  BY <1>1, <1>4, <1>5, <1>6

\* A subscription starts inside the chain, one to approvals at its beginning.
LEMMA StartsInside ==
  ASSUME Ordered, NEW sub
  PROVE  LET before == {i \in DOMAIN chain : chain[i].block < FromBlock(sub)}
         IN /\ Cardinality(before) \in 0 .. Len(chain)
            /\ sub.signature = "ApprovalForAll" => Cardinality(before) = 0
<1> DEFINE before == {i \in DOMAIN chain : chain[i].block < FromBlock(sub)}
<1>1. Len(chain) \in Nat /\ DOMAIN chain = 1 .. Len(chain)
  BY DEF Ordered, IsSeq
<1>2. IsFiniteSet(1 .. Len(chain)) /\ Cardinality(1 .. Len(chain)) = Len(chain)
  <2>1. IsFiniteSet(1 .. Len(chain))
    BY <1>1, FS_Interval
  <2>2. Cardinality(1 .. Len(chain)) = IF 1 > Len(chain) THEN 0 ELSE Len(chain) - 1 + 1
    BY <1>1, FS_Interval
  <2> QED
    BY <1>1, <2>1, <2>2
<1>3. before \in SUBSET (1 .. Len(chain))
  BY <1>1
<1>4. IsFiniteSet(before) /\ Cardinality(before) <= Len(chain)
  BY <1>2, <1>3, FS_Subset
<1>5. Cardinality(before) \in Nat
  BY <1>4, FS_CardinalityType
<1>6. ASSUME sub.signature = "ApprovalForAll"
      PROVE  before = {}
  BY <1>6 DEF FromBlock, Ordered
<1> QED
  BY <1>1, <1>4, <1>5, <1>6, FS_EmptySet

LEMMA SubscribeKeepsApprovals ==
  ASSUME AInv, NEW subs, Subscribe(subs), UNCHANGED chain, told \subseteq told',
         \A m \in told' \ told : m.event # "token-approval",
         \A sub \in subs :
           /\ sub = [locator |-> sub.locator, signature |-> sub.signature]
           /\ sub.locator # Base => ApprovalSub(sub.locator) \in subs
           /\ sub.locator = Base => sub.signature = "TokenPoolCreation"
  PROVE  Ordered' /\ Subscribed' /\ ApprovalsTold' /\ ApprovalsGiven'
<1> USE DEF AInv
<1>1. Ordered'
  BY DEF Ordered, ApprovalEvent
<1>2. DOMAIN cursor' = DOMAIN cursor \cup subs
  BY DEF Subscribe
<1>3. \A sub \in DOMAIN cursor : cursor'[sub] = cursor[sub]
  BY DEF Subscribe
<1>4. \A sub \in subs \ DOMAIN cursor :
        /\ cursor'[sub] \in 0 .. Len(chain)
        /\ sub.signature = "ApprovalForAll" => cursor'[sub] = 0
  BY StartsInside DEF Subscribe
<1>5. Subscribed'
  BY <1>2, <1>3, <1>4 DEF Subscribed
<1>6. ASSUME NEW sub \in DOMAIN cursor', sub.signature = "ApprovalForAll",
             NEW i \in DOMAIN chain', ApprovalEvent(chain'[i]), i <= cursor'[sub]
      PROVE  TransformApprovalForAllEvent(sub.locator, chain'[i]) \subseteq told'
  <2>1. i \in DOMAIN chain /\ i \in Nat /\ i # 0 /\ chain'[i] = chain[i]
    BY DEF Ordered, IsSeq
  <2>2. sub \in DOMAIN cursor
    BY <1>2, <1>4, <1>6, <2>1
  <2> QED
    BY <1>3, <1>6, <2>1, <2>2 DEF ApprovalsTold
<1>7. ApprovalsTold'
  BY <1>6 DEF ApprovalsTold, ApprovalEvent
<1>8. ApprovalsGiven'
  BY DEF ApprovalsGiven, ApprovalEvent
<1> QED
  BY <1>1, <1>5, <1>7, <1>8

LEMMA OnEventApprovals ==
  ASSUME NEW locator, NEW event
  PROVE  /\ ApprovalEvent(event) => OnEvent(locator, event) = TransformApprovalForAllEvent(locator, event)
         /\ ~ApprovalEvent(event) => \A m \in OnEvent(locator, event) : m.event # "token-approval"
         /\ \A m \in OnEvent(locator, event) : m.locator = locator
<1>1. CASE event.signature = "TokenPoolCreation"
  <2>1. OnEvent(locator, event) = TransformTokenPoolCreationEvent(locator, event)
    BY <1>1, Zenon DEF OnEvent
  <2> QED
    BY <1>1, <2>1 DEF TransformTokenPoolCreationEvent, PoolMessage, ApprovalEvent
<1>2. CASE event.signature = "TransferSingle"
  <2>1. OnEvent(locator, event) = TransformTransferSingleEvent(locator, event)
    BY <1>2, Zenon DEF OnEvent
  <2> QED
    BY <1>2, <2>1 DEF TransformTransferSingleEvent, TransferMessage, TransferName, ApprovalEvent
<1>3. CASE event.signature = "TransferBatch"
  <2>1. OnEvent(locator, event) = TransformTransferBatchEvent(locator, event)
    BY <1>3, Zenon DEF OnEvent
  <2> QED
    BY <1>3, <2>1 DEF TransformTransferBatchEvent, TransferMessage, TransferName, ApprovalEvent
<1>4. CASE event.signature = "ApprovalForAll"
  <2>1. OnEvent(locator, event) = TransformApprovalForAllEvent(locator, event)
    BY <1>4, Zenon DEF OnEvent
  <2> QED
    BY <1>4, <2>1 DEF TransformApprovalForAllEvent, ApprovalEvent
<1>5. CASE event.signature \notin {"TokenPoolCreation", "TransferSingle", "TransferBatch", "ApprovalForAll"}
  <2>1. OnEvent(locator, event) = {}
    BY <1>5, Zenon DEF OnEvent
  <2> QED
    BY <1>5, <2>1 DEF ApprovalEvent
<1> QED
  BY <1>1, <1>2, <1>3, <1>4, <1>5

\* What a delivery does: the next event of the pool's subscriptions is told,
\* and only the subscription to it moves.
LEMMA Delivers ==
  ASSUME Ordered, Subscribed, NEW locator, Deliver(locator)
  PROVE  \E sub \in DOMAIN cursor, i \in DOMAIN chain :
           /\ sub = [locator |-> locator, signature |-> chain[i].signature]
           /\ i > cursor[sub]
           /\ \A k \in Outstanding(sub) : i <= k
           /\ cursor' = [cursor EXCEPT ![sub] = i]
           /\ told' = told \cup OnEvent(locator, chain[i])
           /\ UNCHANGED chain
<1> DEFINE subs == {sub \in DOMAIN cursor : sub.locator = locator}
           due == UNION {Outstanding(sub) : sub \in subs}
<1>1. DOMAIN chain \in SUBSET Nat
  BY DEF Ordered, IsSeq
<1>2. due \in SUBSET Nat /\ due # {}
  BY <1>1 DEF Deliver, Outstanding
<1>3. Min(due) \in due /\ \A k \in due : Min(due) <= k
  BY <1>2, MinIsLeast
<1>4. PICK sub \in subs : Min(due) \in Outstanding(sub)
  BY <1>3
<1>5. /\ cursor' = [cursor EXCEPT ![[locator |-> locator, signature |-> chain[Min(due)].signature]] = Min(due)]
      /\ told' = told \cup OnEvent(locator, chain[Min(due)])
      /\ UNCHANGED chain
  BY DEF Deliver
<1>6. /\ Min(due) \in DOMAIN chain /\ Min(due) > cursor[sub]
      /\ chain[Min(due)].signature = sub.signature
  BY <1>4 DEF Outstanding
<1>7. sub = [locator |-> locator, signature |-> chain[Min(due)].signature]
  BY <1>4, <1>6 DEF Subscribed
<1>8. \A k \in Outstanding(sub) : Min(due) <= k
  BY <1>3, <1>4
<1> HIDE DEF due
<1> QED
  BY <1>4, <1>5, <1>6, <1>7, <1>8

LEMMA DeliverKeepsApprovals ==
  ASSUME AInv, NEW locator, Deliver(locator)
  PROVE  Ordered' /\ Subscribed' /\ ApprovalsTold' /\ ApprovalsGiven'
<1> USE DEF AInv
<1>1. PICK sub \in DOMAIN cursor, i \in DOMAIN chain :
           /\ sub = [locator |-> locator, signature |-> chain[i].signature]
           /\ i > cursor[sub]
           /\ \A k \in Outstanding(sub) : i <= k
           /\ cursor' = [cursor EXCEPT ![sub] = i]
           /\ told' = told \cup OnEvent(locator, chain[i])
           /\ UNCHANGED chain
  BY Delivers
<1>2. Ordered'
  BY <1>1 DEF Ordered, ApprovalEvent
<1>3. /\ Len(chain) \in Nat /\ DOMAIN chain = 1 .. Len(chain)
      /\ DOMAIN cursor' = DOMAIN cursor
      /\ cursor'[sub] = i
      /\ \A s \in DOMAIN cursor \ {sub} : cursor'[s] = cursor[s]
      /\ sub.locator = locator /\ sub.signature = chain[i].signature
  BY <1>1 DEF Ordered, IsSeq
<1>4. Subscribed'
  BY <1>1, <1>3 DEF Subscribed
<1>5. ASSUME NEW s \in DOMAIN cursor, s.signature = "ApprovalForAll",
             NEW k \in DOMAIN chain, ApprovalEvent(chain[k]), k <= cursor'[s]
      PROVE  TransformApprovalForAllEvent(s.locator, chain[k]) \subseteq told'
  <2>1. CASE k <= cursor[s]
    BY <1>1, <1>5, <2>1 DEF ApprovalsTold
  <2>2. CASE ~(k <= cursor[s])
    <3>1. s = sub /\ k <= i
      BY <1>3, <1>5, <2>2
    <3>2. k \in Outstanding(sub)
      BY <1>3, <1>5, <2>2, <3>1 DEF Outstanding, ApprovalEvent, Subscribed
    <3>3. k = i
      BY <1>1, <1>3, <3>1, <3>2
    <3> QED
      BY <1>1, <1>3, <1>5, <3>1, <3>3, OnEventApprovals
  <2> QED
    BY <2>1, <2>2
<1>6. ApprovalsTold'
  BY <1>1, <1>3, <1>5 DEF ApprovalsTold, ApprovalEvent
<1>7. \A m \in OnEvent(locator, chain[i]) : m.event = "token-approval" =>
        ApprovalEvent(chain[i]) /\ m \in TransformApprovalForAllEvent(m.locator, chain[i])
  BY OnEventApprovals
<1>8. ApprovalsGiven'
  BY <1>1, <1>7 DEF ApprovalsGiven, ApprovalEvent
<1> QED
  BY <1>2, <1>4, <1>6, <1>8

\* A request from FireFly
Asked(dto) == dto.amount \in Nat

LEMMA RequestsAreHandled ==
  ASSUME NEW locator \in Active, Request(locator)
  PROVE  \E operation \in Operations : \E dto : Asked(dto) /\ Handle(locator, operation, dto)
BY DEF Request, Operations, Asked, MintDtos, TransferDtos, BurnDtos, ApprovalDtos, Dto

LEMMA HandleKeepsApprovals ==
  ASSUME AInv, NEW locator, NEW operation, NEW dto, Asked(dto), Handle(locator, operation, dto)
  PROVE  AInv'
<1> USE DEF AInv
<1>1. UNCHANGED <<chain, cursor, told>>
  BY DEF Handle
<1>2. ASSUME NEW abi, Operate(locator, operation, dto, abi)
      PROVE  Amounts'
  BY <1>2, NoMethodIsNone DEF Operate, Submit, Amounts, Asked
<1>3. Amounts'
  BY <1>2 DEF Handle
<1>4. Ordered' /\ Subscribed' /\ ApprovalsTold' /\ ApprovalsGiven'
  BY <1>1 DEF Ordered, Subscribed, ApprovalsTold, ApprovalsGiven, ApprovalEvent
<1> QED
  BY <1>3, <1>4

LEMMA ApprovalsInvariant == Spec => []AInv
<1>1. Init => AInv
  <2> SUFFICES ASSUME Init PROVE AInv
    OBVIOUS
  <2>1. DOMAIN chain = {} /\ IsSeq(chain) /\ DOMAIN cursor = {}
    BY DEF Init, IsSeq
  <2> QED
    BY <2>1 DEF Init, AInv, Ordered, Amounts, Subscribed, ApprovalsTold, ApprovalsGiven
<1>2. AInv /\ [Next]_vars => AInv'
  <2> SUFFICES ASSUME AInv, [Next]_vars
               PROVE  AInv'
    OBVIOUS
  <2>1. ASSUME NEW isFungible \in BOOLEAN, CreatePool(isFungible)
        PROVE  AInv'
    <3>1. Ordered' /\ Subscribed' /\ ApprovalsTold' /\ ApprovalsGiven'
      BY <2>1, SubscribeKeepsApprovals DEF CreatePool, PoolSub
    <3>2. Amounts'
      BY <2>1 DEF CreatePool, Submit, Amounts, AutoIndexed
    <3> QED
      BY <3>1, <3>2 DEF AInv
  <2>2. ASSUME NEW locator \in Offered, ActivatePool(locator)
        PROVE  AInv'
    <3>1. Ordered' /\ Subscribed' /\ ApprovalsTold' /\ ApprovalsGiven'
      BY <2>2, SubscribeKeepsApprovals DEF ActivatePool, PoolSub, ApprovalSub, TransferSubs, ActivateAnswer
    <3>2. Amounts'
      BY <2>2 DEF ActivatePool, Amounts, AInv
    <3> QED
      BY <3>1, <3>2 DEF AInv
  <2>3. ASSUME NEW locator \in Active, Request(locator)
        PROVE  AInv'
    BY <2>3, RequestsAreHandled, HandleKeepsApprovals
  <2>4. ASSUME NEW tx \in submitted, Mined(tx)
        PROVE  AInv'
    <3>1. /\ IsSeq(Emitted(tx))
          /\ \A i \in DOMAIN Emitted(tx) : "signature" \in DOMAIN Emitted(tx)[i]
          /\ \A i, j \in DOMAIN Emitted(tx) :
               ApprovalEvent(Emitted(tx)[i]) /\ ApprovalEvent(Emitted(tx)[j]) => i = j
      BY EmittedEvents DEF AInv, Amounts
    <3>2. Ordered' /\ Subscribed' /\ ApprovalsTold' /\ ApprovalsGiven'
      BY <2>4, <3>1, MineKeepsApprovals DEF Mined
    <3>3. Amounts'
      BY <2>4 DEF Mined, Amounts, AInv
    <3> QED
      BY <3>2, <3>3 DEF AInv
  <2>5. ASSUME NEW from, NEW to, NEW ids, BatchTransfer(from, to, ids)
        PROVE  AInv'
    <3> DEFINE event == [signature |-> "TransferBatch", from |-> from, to |-> to, ids |-> ids,
                         values |-> [i \in DOMAIN ids |-> 1]]
    <3>1. event.signature = "TransferBatch" /\ "signature" \in DOMAIN event
      OBVIOUS
    <3>2. Mine(<<event>>) /\ UNCHANGED <<submitted, cursor, told>>
      BY <2>5 DEF BatchTransfer
    <3> HIDE DEF event
    <3>3. DOMAIN <<event>> = {1} /\ <<event>>[1] = event /\ IsSeq(<<event>>)
      <4>1. <<event>> \in Seq({event})
        OBVIOUS
      <4>2. IsSeq(<<event>>)
        BY <4>1, SeqIsSeq
      <4>3. DOMAIN <<event>> = {1} /\ <<event>>[1] = event
        OBVIOUS
      <4> QED
        BY <4>2, <4>3
    <3>4. Ordered' /\ Subscribed' /\ ApprovalsTold' /\ ApprovalsGiven'
      BY <3>1, <3>2, <3>3, MineKeepsApprovals DEF ApprovalEvent
    <3>5. Amounts'
      BY <3>2 DEF Amounts, AInv
    <3> QED
      BY <3>4, <3>5 DEF AInv
  <2>6. ASSUME NEW locator, Deliver(locator)
        PROVE  AInv'
    <3>1. Amounts'
      BY <2>6 DEF Deliver, Amounts, AInv
    <3> QED
      BY <2>6, <3>1, DeliverKeepsApprovals DEF AInv
  <2>7. CASE UNCHANGED vars
    BY <2>7 DEF vars, AInv, Ordered, Amounts, Subscribed, ApprovalsTold, ApprovalsGiven, ApprovalEvent
  <2> QED
    BY <2>1, <2>2, <2>3, <2>4, <2>5, <2>6, <2>7 DEF Next
<1> QED
  BY <1>1, <1>2, PTL DEF Spec

\* An active pool knows every approval of the contract, and the last one
\* decides.
THEOREM ApprovalsKnown == Spec => []ApprovalsAgree
<1>1. ASSUME AInv
      PROVE  ApprovalsAgree
  <2> USE <1>1 DEF AInv
  <2> SUFFICES ASSUME NEW locator \in Active, CaughtUp({ApprovalSub(locator)}),
                      NEW account \in Accounts, NEW operator \in Accounts
               PROVE  LET Given == {m \in told : /\ m.event = "token-approval" /\ m.locator = locator
                                                /\ m.from = account /\ m.to = operator}
                          Later(m, n) == m.id[1] > n.id[1]
                      IN Approved(account, operator)
                           <=> \E m \in Given : m.approved /\ \A n \in Given \ {m} : Later(m, n)
    BY DEF ApprovalsAgree
  <2> DEFINE sub == ApprovalSub(locator)
             start == UnpackPoolLocator(locator).startId
             given == {m \in told : /\ m.event = "token-approval" /\ m.locator = locator
                                    /\ m.from = account /\ m.to = operator}
             made == {i \in DOMAIN chain : /\ chain[i].signature = "ApprovalForAll"
                                           /\ chain[i].account = account
                                           /\ chain[i].operator = operator}
             M(i) == [event |-> "token-approval", id |-> ApprovalId(chain[i], UnpackPoolLocator(locator)),
                      locator |-> locator, from |-> chain[i].account, to |-> chain[i].operator,
                      approved |-> chain[i].approved]
  <2>1. Len(chain) \in Nat /\ DOMAIN chain = 1 .. Len(chain)
    BY DEF Ordered, IsSeq
  <2>2. sub \in DOMAIN cursor /\ sub.signature = "ApprovalForAll" /\ sub.locator = locator
    BY DEF Active, Subscribed, ApprovalSub
  <2>3. \A i \in DOMAIN chain : ApprovalEvent(chain[i]) => i <= cursor[sub]
    BY <2>1, <2>2 DEF CaughtUp, Outstanding, ApprovalEvent, Subscribed
  <2>4. \A i \in DOMAIN chain : TransformApprovalForAllEvent(locator, chain[i]) = {M(i)}
    BY DEF TransformApprovalForAllEvent
  <2>5. \A i \in made : M(i) \in given
    <3>1. \A i \in made : M(i) \in told
      BY <2>2, <2>3, <2>4 DEF ApprovalsTold, ApprovalEvent
    <3> QED
      BY <3>1
  <2>6. \A m \in given : \E i \in made : m = M(i)
    BY <2>4 DEF ApprovalsGiven, ApprovalEvent
  <2>7. \A i \in made : M(i).id[1] = chain[i].block /\ chain[i].block \in Nat
    <3>1. \A b, l, x : (<<b, l>> \o <<x>>)[1] = b
      OBVIOUS
    <3> QED
      BY <3>1 DEF ApprovalId, EventId, Ordered
  <2>8. \A i, j \in made : i < j => chain[i].block < chain[j].block
    BY DEF Ordered, ApprovalEvent
  <2>9. \A i \in made : M(i).approved = chain[i].approved
    OBVIOUS
  <2> HIDE DEF M, given, sub
  <2>10. CASE made = {}
    BY <2>6, <2>10 DEF Approved, given
  <2>11. CASE made # {}
    <3> DEFINE last == Max(made)
    <3>1. last \in made /\ \A i \in made : i <= last
      <4>1. made \in SUBSET Nat /\ \A i \in made : i <= Len(chain)
        BY <2>1
      <4> HIDE DEF made
      <4> QED
        BY <2>1, <2>11, <4>1, MaxIsLargest
    <3>2. Approved(account, operator) <=> chain[last].approved
      BY <2>11 DEF Approved
    <3> HIDE DEF last
    <3>3. \A i \in made \ {last} : i < last
      BY <2>1, <3>1
    <3>4. \A m \in given \ {M(last)} : M(last).id[1] > m.id[1]
      BY <2>6, <2>7, <2>8, <3>1, <3>3
    <3>5. ASSUME NEW m \in given, \A n \in given \ {m} : m.id[1] > n.id[1]
          PROVE  m = M(last)
      <4>1. SUFFICES ASSUME m # M(last) PROVE FALSE
        OBVIOUS
      <4>2. m.id[1] > M(last).id[1] /\ M(last).id[1] > m.id[1]
        BY <2>5, <3>1, <3>4, <3>5, <4>1
      <4>3. M(last).id[1] \in Nat /\ m.id[1] \in Nat
        BY <2>6, <2>7, <3>1
      <4> QED
        BY <4>2, <4>3
    <3> QED
      BY <2>5, <2>9, <3>1, <3>2, <3>4, <3>5 DEF given
  <2> QED
    BY <2>10, <2>11
<1> QED
  BY <1>1, ApprovalsInvariant, PTL
-----------------------------------------------------------------------------
(* Pools *)

\* The pools FireFly may know: those that a contract it is told of has, or
\* that were created.
IsPool(pool) ==
  IF kind = "oz" THEN pool \in Existing
  ELSE \E isFungible \in BOOLEAN, k \in 1 .. MaxBlocks[kind] :
         /\ pool = FormatLegacyPool(isFungible, Start(isFungible, k))
         /\ Start(isFungible, k) \in DOMAIN maxIndex

\* Types are numbered in the order of their creation, one to a block.
Numbered ==
  /\ IsFiniteSet(DOMAIN maxIndex) /\ Cardinality(DOMAIN maxIndex) <= Height
  /\ \A t \in DOMAIN maxIndex :
       /\ maxIndex[t] \in Nat
       /\ \E isFungible \in BOOLEAN, k \in 1 .. Cardinality(DOMAIN maxIndex) : t = Start(isFungible, k)
  /\ submitted # {} => Height < MaxBlocks[kind]

\* The transactions that wait
Calls ==
  /\ \A t, u \in submitted : t = u
  /\ \A tx \in submitted :
       IF tx.operation = "create"
       THEN kind # "oz" /\ tx.method = "create" /\ tx.isFungible \in BOOLEAN
       ELSE tx.method # NoMethod =>
              tx.id \in Nat /\ (tx.method \in AutoIndexed \cap Implemented => tx.id \in DOMAIN maxIndex)

LEMMA CallsKept ==
  ASSUME Calls, UNCHANGED <<kind, maxIndex, submitted>>
  PROVE  Calls'
<1>1. Implemented' = Implemented
  BY DEF Implemented
<1> QED
  BY <1>1 DEF Calls

\* A creation announces a type.
Creates(i, isFungible, k) ==
  /\ Start(isFungible, k) \in DOMAIN maxIndex
  /\ chain[i] = Placed(CreationEvent(Start(isFungible, k), isFungible), chain[i].block, chain[i].log)

Creations ==
  \A i \in DOMAIN chain : chain[i].signature = "TokenPoolCreation" =>
    kind # "oz" /\ \E isFungible \in BOOLEAN, k \in 1 .. MaxBlocks[kind] : Creates(i, isFungible, k)

\* The ids of transfers
EventIds ==
  \A i \in DOMAIN chain :
    /\ chain[i].signature = "TransferSingle" => chain[i].id \in Nat
    /\ chain[i].signature = "TransferBatch" =>
         \A j \in DOMAIN chain[i].ids : chain[i].ids[j] \in Nat

\* FireFly knows pools only, each active one by one locator.
KnownPools ==
  /\ \A l \in Active : IsPool(UnpackPoolLocator(l))
  /\ \A l, m \in Active : UnpackPoolLocator(l) = UnpackPoolLocator(m) => l = m
  /\ \A m \in told : m.event = "token-pool" =>
       \A l \in {m.poolLocator} \cup m.alternateLocators : IsPool(UnpackPoolLocator(l))

\* Messages are about an event, for an active pool.
Sent ==
  \A m \in told : m.event # "token-pool" =>
    m.locator \in Active /\ \E i \in DOMAIN chain : m \in OnEvent(m.locator, chain[i])

BInv == Numbered /\ Calls /\ Creations /\ EventIds /\ KnownPools /\ Sent

\* The pools of a contract that FireFly is told of do not overlap,
Apart ==
  \A p, q \in Existing :
    p.startId <= p.endId /\ (p = q \/ p.endId < q.startId \/ q.endId < p.startId)

\* and start where an index of a token can be put in the low bits.
Aligned ==
  \A p \in Existing :
    p.endId - p.startId < IndexSize /\ \E n \in 0 .. p.startId : p.startId = IndexSize * n

LEMMA PoolFields ==
  ASSUME kind \in Kinds, NEW pool, IsPool(pool)
  PROVE  pool.startId \in Nat /\ pool.endId \in Nat
<1>1. CASE kind = "oz"
  BY <1>1, ContractsAssumption, Widths DEF IsPool, TokenIdSpace
<1>2. CASE kind # "oz"
  <2>1. PICK isFungible \in BOOLEAN, k \in 1 .. MaxBlocks[kind] :
               pool = FormatLegacyPool(isFungible, Start(isFungible, k))
    BY <1>2 DEF IsPool
  <2>2. k \in Nat
    BY ContractsAssumption
  <2> QED
    BY <2>1, <2>2, StartIsAligned, Widths DEF FormatLegacyPool
<1> QED
  BY <1>1, <1>2

LEMMA IsPoolKept ==
  ASSUME UNCHANGED kind, DOMAIN maxIndex \subseteq DOMAIN maxIndex', NEW pool, IsPool(pool)
  PROVE  IsPool(pool)'
BY DEF IsPool

\* A pool's number leaves room for its type.
LEMMA NumberFits ==
  ASSUME kind \in Kinds, NEW k \in Nat, k <= MaxBlocks[kind]
  PROVE  k * IndexSize < TypeBit
<1>1. MaxBlocks[kind] \in Nat /\ MaxBlocks[kind] * IndexSize < TypeBit
  BY ContractsAssumption
<1>2. k * IndexSize <= MaxBlocks[kind] * IndexSize
  BY <1>1, Widths
<1> QED
  BY <1>1, <1>2, Widths

\* What the contract calls the next type.
LEMMA NextTypeIsStart ==
  ASSUME kind \in Kinds, Ordered, Numbered, Height < MaxBlocks[kind], NEW isFungible \in BOOLEAN
  PROVE  LET k == Cardinality(DOMAIN maxIndex) + 1
         IN k \in 1 .. MaxBlocks[kind] /\ NextType(isFungible) = Start(isFungible, k)
<1> DEFINE n == Cardinality(DOMAIN maxIndex)
<1>1. n \in Nat /\ n <= Height /\ Height \in Nat
  BY FS_CardinalityType, HeightIsTop DEF Numbered
<1>2. n + 1 \in Nat /\ n + 1 <= MaxBlocks[kind] /\ n + 1 \in 1 .. MaxBlocks[kind]
  BY <1>1, ContractsAssumption
<1>3. (n + 1) * IndexSize < TypeBit
  BY <1>2, NumberFits
<1>4. BitOr(IF isFungible THEN 0 ELSE TypeBit, (n + 1) * IndexSize) = Start(isFungible, n + 1)
  BY <1>2, <1>3, PoolArithmetic
<1> QED
  BY <1>2, <1>4 DEF NextType

\* The next type is a new one.
LEMMA NextTypeIsNew ==
  ASSUME kind \in Kinds, Ordered, Numbered, Height < MaxBlocks[kind], NEW isFungible \in BOOLEAN
  PROVE  NextType(isFungible) \notin DOMAIN maxIndex
<1> DEFINE n == Cardinality(DOMAIN maxIndex)
<1>1. n + 1 \in 1 .. MaxBlocks[kind] /\ NextType(isFungible) = Start(isFungible, n + 1)
  BY NextTypeIsStart
<1>2. n \in Nat
  BY FS_CardinalityType DEF Numbered
<1>3. ASSUME NEW g \in BOOLEAN, NEW k \in 1 .. n, Start(isFungible, n + 1) = Start(g, k)
      PROVE  FALSE
  <2>1. n + 1 \in Nat /\ n + 1 <= MaxBlocks[kind] /\ k \in Nat /\ k <= MaxBlocks[kind] /\ k # n + 1
    BY <1>1, <1>2, ContractsAssumption
  <2>2. (n + 1) * IndexSize < TypeBit /\ k * IndexSize < TypeBit
    BY <2>1, NumberFits
  <2> HIDE DEF n
  <2> QED
    BY <1>3, <2>1, <2>2, StartIsUnique
<1> QED
  BY <1>1, <1>3 DEF Numbered

\* A block with events is one higher.
LEMMA MineRaises ==
  ASSUME Ordered, NEW events, IsSeq(events), Mine(events), Ordered'
  PROVE  /\ Height' \in Nat /\ Height' >= Height
         /\ DOMAIN events # {} => Height' = Height + 1
<1>1. /\ Len(chain) \in Nat /\ DOMAIN chain = 1 .. Len(chain)
      /\ Len(events) \in Nat /\ DOMAIN events = 1 .. Len(events)
      /\ DOMAIN chain' = 1 .. Len(chain) + Len(events)
      /\ \A i \in DOMAIN chain : chain'[i] = chain[i]
  BY MineAppends
<1>2. \A i \in 1 .. Len(events) : chain'[Len(chain) + i].block = Height + 1
  <2>1. \A i \in DOMAIN events : chain'[Len(chain) + i] = Placed(events[i], Height + 1, i)
    BY MineAppends
  <2> QED
    BY <1>1, <2>1, PlacedFields
<1>3. Height \in Nat
  BY HeightIsTop
<1>4. Len(chain') = Len(chain) + Len(events) /\ chain' \in Seq(ToSet(chain'))
  BY <1>1 DEF Ordered, IsSeq
<1>5. CASE Len(events) = 0
  <2>1. CASE Len(chain) = 0
    <3>1. chain = <<>> /\ chain' = <<>>
      BY <1>1, <1>4, <1>5, <2>1 DEF Ordered, IsSeq
    <3> QED
      BY <1>1, <1>3, <1>5, <3>1 DEF Height
  <2>2. CASE Len(chain) # 0
    <3>1. chain # <<>> /\ chain' # <<>> /\ chain'[Len(chain')] = chain[Len(chain)]
      BY <1>1, <1>4, <1>5, <2>2
    <3> QED
      BY <1>1, <1>3, <1>5, <3>1 DEF Height, Last
  <2> QED
    BY <2>1, <2>2
<1>6. CASE Len(events) > 0
  <2>1. Height' = chain'[Len(chain')].block
    BY <1>1, <1>4, <1>6 DEF Height, Last
  <2> QED
    BY <1>1, <1>2, <1>3, <1>4, <1>6, <2>1
<1> QED
  BY <1>1, <1>5, <1>6

\* What the contract emits for a call
LEMMA EmittedKinds ==
  ASSUME Numbered, Calls, Amounts, CallsExist, NEW tx \in submitted
  PROVE  /\ \A i \in DOMAIN Emitted(tx) : LET e == Emitted(tx)[i] IN
              /\ e.signature \in {"TokenPoolCreation", "TransferSingle", "ApprovalForAll"}
              /\ e.signature = "TokenPoolCreation" =>
                   tx.operation = "create" /\ e = CreationEvent(NextType(tx.isFungible), tx.isFungible)
              /\ e.signature = "TransferSingle" => "id" \in DOMAIN e /\ e.id \in Nat
         /\ tx.operation = "create" =>
              DOMAIN Emitted(tx) = {1} /\ kind # "oz" /\ tx.isFungible \in BOOLEAN
<1> DEFINE creation == CreationEvent(NextType(tx.isFungible), tx.isFungible)
           Good(e) ==
             /\ e.signature \in {"TokenPoolCreation", "TransferSingle", "ApprovalForAll"}
             /\ e.signature = "TokenPoolCreation" => tx.operation = "create" /\ e = creation
             /\ e.signature = "TransferSingle" => "id" \in DOMAIN e /\ e.id \in Nat
           Fine(events) == \A i \in DOMAIN events : Good(events[i])
<1>1. ASSUME NEW e, Good(e)
      PROVE  Fine(<<e>>)
  <2>1. DOMAIN <<e>> = {1} /\ <<e>>[1] = e
    OBVIOUS
  <2> HIDE DEF Good
  <2> QED
    BY <1>1, <2>1
<1>2. Fine(<<>>)
  OBVIOUS
<1>3. ASSUME NEW to, NEW from, NEW id \in Nat, NEW value
      PROVE  Good(Transfer(from, to, id, value))
  BY DEF Transfer
<1>4. CASE tx.operation = "create"
  <2>1. creation.signature = "TokenPoolCreation"
    BY DEF CreationEvent
  <2>2. Good(creation)
    <3> HIDE DEF creation
    <3> QED
      BY <1>4, <2>1
  <2>3. tx.method = "create" /\ kind # "oz" /\ tx.isFungible \in BOOLEAN
    BY <1>4 DEF Calls
  <2>4. tx.method \in Implemented
    BY <2>3, NoMethodIsNone DEF CallsExist
  <2>5. Emitted(tx) = <<creation>>
    BY <1>4, <2>4 DEF Emitted, Executes
  <2> HIDE DEF creation, Good
  <2>6. Fine(Emitted(tx)) /\ DOMAIN Emitted(tx) = {1}
    <3>1. DOMAIN <<creation>> = {1}
      OBVIOUS
    <3>2. Fine(<<creation>>)
      BY <1>1, <2>2
    <3> QED
      BY <2>5, <3>1, <3>2
  <2> QED
    BY <2>3, <2>6 DEF creation, Good
<1>5. CASE tx.operation # "create" /\ tx.method \in Implemented
  <2>1. tx.id \in Nat /\ (tx.method \in AutoIndexed => tx.id \in DOMAIN maxIndex)
    BY <1>5, NoMethodIsNone DEF Calls
  <2>2. Fine(<<Transfer(Zero, tx.dto.to, tx.id, tx.dto.amount)>>) /\ Fine(Moved(tx))
    BY <1>1, <1>3, <2>1 DEF Moved
  <2>3. Good([signature |-> "ApprovalForAll", account |-> tx.dto.from,
              operator |-> tx.dto.to, approved |-> tx.dto.approved])
    OBVIOUS
  <2>4. Fine(<<[signature |-> "ApprovalForAll", account |-> tx.dto.from,
                operator |-> tx.dto.to, approved |-> tx.dto.approved]>>)
    <3> HIDE DEF Good, Fine
    <3> QED
      BY <1>1, <2>3
  <2>5. ASSUME tx.method \in AutoIndexed
        PROVE  Fine([i \in 1 .. tx.dto.amount |->
                       Transfer(Zero, tx.dto.to, BitOr(tx.id, maxIndex[tx.id] + i), 1)])
    <3>1. tx.dto.amount \in Nat /\ maxIndex[tx.id] \in Nat
      BY <2>1, <2>5 DEF Amounts, Numbered
    <3>2. ASSUME NEW i \in 1 .. tx.dto.amount
          PROVE  Good(Transfer(Zero, tx.dto.to, BitOr(tx.id, maxIndex[tx.id] + i), 1))
      <4>1. maxIndex[tx.id] + i \in Nat
        BY <3>1
      <4>2. BitOr(tx.id, maxIndex[tx.id] + i) \in Nat
        BY <2>1, <4>1, BitOrType
      <4> HIDE DEF Good
      <4> QED
        BY <1>3, <4>2
    <3> HIDE DEF Good
    <3> QED
      BY <3>2
  <2> HIDE DEF Fine
  <2>6. Fine(Emitted(tx))
    BY <1>2, <1>5, <2>2, <2>4, <2>5 DEF Emitted, Executes, Minted
  <2> QED
    BY <1>5, <2>6 DEF Fine
<1>6. CASE tx.operation # "create" /\ tx.method \notin Implemented
  <2>1. Emitted(tx) = <<>>
    BY <1>6 DEF Emitted
  <2> HIDE DEF Fine
  <2>2. Fine(Emitted(tx))
    BY <1>2, <2>1
  <2> QED
    BY <1>6, <2>2 DEF Fine
<1> QED
  BY <1>4, <1>5, <1>6

LEMMA MineKeepsPools ==
  ASSUME Ordered, BInv, NEW events, IsSeq(events), Mine(events), UNCHANGED <<kind, cursor, told>>,
         DOMAIN maxIndex \subseteq DOMAIN maxIndex',
         \A i \in DOMAIN events : LET e == events[i] IN
           /\ "signature" \in DOMAIN e
           /\ e.signature = "TokenPoolCreation" =>
                /\ kind # "oz"
                /\ \E isFungible \in BOOLEAN, k \in 1 .. MaxBlocks[kind] :
                     Start(isFungible, k) \in DOMAIN maxIndex' /\ e = CreationEvent(Start(isFungible, k), isFungible)
           /\ e.signature = "TransferSingle" => "id" \in DOMAIN e /\ e.id \in Nat
           /\ e.signature = "TransferBatch" =>
                "ids" \in DOMAIN e /\ \A j \in DOMAIN e.ids : e.ids[j] \in Nat
  PROVE  Creations' /\ EventIds' /\ KnownPools' /\ Sent'
<1> USE DEF BInv
<1> DEFINE n == Len(chain)
<1>1. /\ n \in Nat /\ DOMAIN chain = 1 .. n
      /\ DOMAIN events = 1 .. Len(events) /\ Len(events) \in Nat
      /\ DOMAIN chain' = 1 .. n + Len(events)
      /\ \A i \in DOMAIN chain : chain'[i] = chain[i]
  BY MineAppends
<1>2. ASSUME NEW i \in DOMAIN chain', i \notin DOMAIN chain
      PROVE  i - n \in DOMAIN events /\ chain'[i] = Placed(events[i - n], Height + 1, i - n)
  <2>1. i - n \in DOMAIN events /\ n + (i - n) = i
    BY <1>1, <1>2
  <2>2. \A j \in DOMAIN events : chain'[n + j] = Placed(events[j], Height + 1, j)
    BY MineAppends
  <2> QED
    BY <2>1, <2>2
<1> HIDE DEF n
<1>3. ASSUME NEW i \in DOMAIN chain', i \notin DOMAIN chain
      PROVE  \E e \in {events[j] : j \in DOMAIN events} :
               /\ chain'[i] = Placed(e, chain'[i].block, chain'[i].log)
               /\ chain'[i].signature = e.signature
               /\ e.signature = "TransferSingle" => chain'[i].id = e.id
               /\ e.signature = "TransferBatch" => chain'[i].ids = e.ids
  BY <1>2, <1>3, PlacedFields
<1>4. ASSUME NEW i \in DOMAIN chain', chain'[i].signature = "TokenPoolCreation"
      PROVE  kind # "oz" /\ \E isFungible \in BOOLEAN, k \in 1 .. MaxBlocks[kind] : Creates(i, isFungible, k)'
  <2>1. CASE i \in DOMAIN chain
    BY <1>1, <1>4, <2>1 DEF Creations, Creates, CreationEvent
  <2>2. CASE i \notin DOMAIN chain
    <3>1. PICK e \in {events[j] : j \in DOMAIN events} :
               /\ chain'[i] = Placed(e, chain'[i].block, chain'[i].log)
               /\ chain'[i].signature = e.signature
      BY <1>3, <2>2
    <3>2. PICK isFungible \in BOOLEAN, k \in 1 .. MaxBlocks[kind] :
                Start(isFungible, k) \in DOMAIN maxIndex' /\ e = CreationEvent(Start(isFungible, k), isFungible)
      BY <1>4, <3>1
    <3>3. CreationEvent(Start(isFungible, k), isFungible)' = CreationEvent(Start(isFungible, k), isFungible)
      BY DEF CreationEvent
    <3>4. Creates(i, isFungible, k)'
      BY <3>1, <3>2, <3>3 DEF Creates
    <3> QED
      BY <1>4, <3>1, <3>4
  <2> QED
    BY <2>1, <2>2
<1>5. Creations'
  BY <1>4 DEF Creations
<1>6. EventIds'
  <2>1. ASSUME NEW i \in DOMAIN chain'
        PROVE  /\ chain'[i].signature = "TransferSingle" => chain'[i].id \in Nat
               /\ chain'[i].signature = "TransferBatch" =>
                    \A j \in DOMAIN chain'[i].ids : chain'[i].ids[j] \in Nat
    <3>1. CASE i \in DOMAIN chain
      BY <1>1, <3>1 DEF EventIds
    <3>2. CASE i \notin DOMAIN chain
      BY <1>3, <3>2
    <3> QED
      BY <3>1, <3>2
  <2> QED
    BY <2>1 DEF EventIds
<1>7. KnownPools'
  BY IsPoolKept DEF KnownPools, Active
<1>8. Sent'
  BY <1>1 DEF Sent, Active
<1> QED
  BY <1>5, <1>6, <1>7, <1>8

\* A transaction is mined.
LEMMA MinedKeepsPools ==
  ASSUME kind \in Kinds, CallsExist, Ordered, Ordered', Amounts, BInv, NEW tx \in submitted, Mined(tx)
  PROVE  BInv'
<1> USE DEF BInv
<1> DEFINE n == Cardinality(DOMAIN maxIndex)
<1>1. /\ IsSeq(Emitted(tx)) /\ Mine(Emitted(tx))
      /\ \A i \in DOMAIN Emitted(tx) : "signature" \in DOMAIN Emitted(tx)[i]
      /\ UNCHANGED <<kind, cursor, told>>
  BY EmittedEvents DEF Amounts, Mined
<1>2. submitted' = {}
  BY DEF Mined, Calls
<1>3. ASSUME tx.operation = "create"
      PROVE  /\ n + 1 \in 1 .. MaxBlocks[kind]
             /\ NextType(tx.isFungible) = Start(tx.isFungible, n + 1)
             /\ tx.isFungible \in BOOLEAN /\ kind # "oz"
             /\ DOMAIN maxIndex' = DOMAIN maxIndex \cup {NextType(tx.isFungible)}
             /\ maxIndex' = [t \in DOMAIN maxIndex \cup {NextType(tx.isFungible)} |->
                               IF t \in DOMAIN maxIndex THEN maxIndex[t] ELSE 0]
  BY <1>3, EmittedKinds, NextTypeIsStart DEF Mined, Numbered
<1>4. DOMAIN maxIndex \subseteq DOMAIN maxIndex'
  BY <1>3 DEF Mined
<1>5. \A i \in DOMAIN Emitted(tx) : LET e == Emitted(tx)[i] IN
           /\ e.signature = "TokenPoolCreation" =>
                /\ kind # "oz"
                /\ \E isFungible \in BOOLEAN, k \in 1 .. MaxBlocks[kind] :
                     Start(isFungible, k) \in DOMAIN maxIndex' /\ e = CreationEvent(Start(isFungible, k), isFungible)
           /\ e.signature = "TransferSingle" => "id" \in DOMAIN e /\ e.id \in Nat
           /\ e.signature # "TransferBatch"
  <2>1. \A i \in DOMAIN Emitted(tx) : LET e == Emitted(tx)[i] IN
              /\ e.signature \in {"TokenPoolCreation", "TransferSingle", "ApprovalForAll"}
              /\ e.signature = "TokenPoolCreation" =>
                   tx.operation = "create" /\ e = CreationEvent(NextType(tx.isFungible), tx.isFungible)
              /\ e.signature = "TransferSingle" => "id" \in DOMAIN e /\ e.id \in Nat
    BY EmittedKinds
  <2> HIDE DEF n
  <2> QED
    BY <1>3, <2>1
<1>6. Creations' /\ EventIds' /\ KnownPools' /\ Sent'
  BY <1>1, <1>4, <1>5, MineKeepsPools
<1>7. Calls'
  BY <1>2 DEF Calls
<1>8. Numbered'
  <2>1. Height' >= Height /\ (DOMAIN Emitted(tx) # {} => Height' = Height + 1) /\ Height' \in Nat
    BY <1>1, MineRaises
  <2>2. Height \in Nat /\ n \in Nat /\ n <= Height
    BY HeightIsTop, FS_CardinalityType DEF Numbered
  <2>3. CASE tx.operation = "create"
    <3>1. Height' = Height + 1
      BY <2>1, <2>3, EmittedKinds
    <3>2. /\ IsFiniteSet(DOMAIN maxIndex')
          /\ Cardinality(DOMAIN maxIndex') <= n + 1
          /\ NextType(tx.isFungible) \notin DOMAIN maxIndex => Cardinality(DOMAIN maxIndex') = n + 1
      BY <1>3, <2>2, <2>3, FS_AddElement DEF Numbered
    <3>3. NextType(tx.isFungible) \notin DOMAIN maxIndex
      BY <1>3, <2>3, NextTypeIsNew DEF Numbered
    <3>4. Cardinality(DOMAIN maxIndex') = n + 1
      BY <3>2, <3>3
    <3>5. ASSUME NEW t \in DOMAIN maxIndex'
          PROVE  /\ maxIndex'[t] \in Nat
                 /\ \E g \in BOOLEAN, k \in 1 .. n + 1 : t = Start(g, k)
      <4>1. CASE t \in DOMAIN maxIndex
        BY <1>3, <2>2, <2>3, <4>1 DEF Numbered
      <4>2. CASE t \notin DOMAIN maxIndex
        <5>1. t = Start(tx.isFungible, n + 1) /\ maxIndex'[t] = 0 /\ n + 1 \in 1 .. n + 1
          BY <1>3, <2>2, <2>3, <4>2
        <5> QED
          BY <1>3, <2>3, <5>1
      <4> QED
        BY <4>1, <4>2
    <3> HIDE DEF n
    <3> QED
      BY <1>2, <2>1, <2>2, <3>1, <3>2, <3>4, <3>5 DEF Numbered
  <2>4. CASE tx.operation # "create"
    <3>1. DOMAIN maxIndex' = DOMAIN maxIndex
      BY <2>4 DEF Mined
    <3>2. \A t \in DOMAIN maxIndex : maxIndex'[t] \in Nat
      BY <2>4 DEF Mined, Numbered, Amounts
    <3> QED
      BY <1>2, <2>1, <2>2, <3>1, <3>2 DEF Numbered
  <2> QED
    BY <2>3, <2>4
<1> QED
  BY <1>6, <1>7, <1>8

\* createPool and activatePool
LEMMA Subscribes ==
  ASSUME NEW subs, Subscribe(subs)
  PROVE  /\ DOMAIN cursor' = DOMAIN cursor \cup subs
         /\ \A l : l \in Active' <=> l \in Active \/ (l # Base /\ \E sub \in subs : sub.locator = l)
BY DEF Subscribe, Active

LEMMA CreatePoolKeepsPools ==
  ASSUME BInv, NEW isFungible \in BOOLEAN, CreatePool(isFungible)
  PROVE  BInv'
<1> USE DEF BInv
<1>1. /\ Active' = Active /\ kind # "oz"
      /\ submitted' = {[operation |-> "create", method |-> "create", isFungible |-> isFungible]}
      /\ Height < MaxBlocks[kind]
      /\ UNCHANGED <<kind, maxIndex, chain, told>>
  <2> DEFINE subs == {PoolSub(Base)}
  <2>1. \A sub \in subs : sub.locator = Base
    BY DEF PoolSub
  <2>2. Subscribe(subs)
    BY DEF CreatePool
  <2> HIDE DEF subs
  <2>3. \A l : l \in Active' <=> l \in Active
    BY <2>1, <2>2, Subscribes
  <2> QED
    BY <2>3 DEF CreatePool, Submit
<1>2. Numbered'
  BY <1>1 DEF Numbered, Height
<1>3. Calls'
  BY <1>1 DEF Calls, AutoIndexed
<1>4. Creations' /\ EventIds'
  BY <1>1 DEF Creations, Creates, CreationEvent, EventIds
<1>5. KnownPools' /\ Sent'
  BY <1>1, IsPoolKept DEF KnownPools, Sent
<1> QED
  BY <1>2, <1>3, <1>4, <1>5

\* What the listener makes of a transfer, and which token it names
LEMMA TransfersAreToldOf ==
  ASSUME NEW locator, NEW event,
         NEW m \in OnEvent(locator, event), m.event \notin {"token-pool", "token-approval"}
  PROVE  \E id : /\ \/ event.signature = "TransferSingle" /\ id = event.id
                    \/ event.signature = "TransferBatch" /\ id \in {event.ids[j] : j \in DOMAIN event.ids}
                 /\ PoolContainsId(UnpackPoolLocator(locator), id)
                 /\ m.tokenIndex = IF UnpackPoolLocator(locator).isFungible THEN NoIndex
                                   ELSE ComputeTokenIndex(UnpackPoolLocator(locator), id)
<1>1. CASE event.signature = "TokenPoolCreation"
  <2>1. OnEvent(locator, event) = TransformTokenPoolCreationEvent(locator, event)
    BY <1>1, Zenon DEF OnEvent
  <2> QED
    BY <2>1 DEF TransformTokenPoolCreationEvent, PoolMessage
<1>2. CASE event.signature = "TransferSingle"
  <2>1. OnEvent(locator, event) = TransformTransferSingleEvent(locator, event)
    BY <1>2, Zenon DEF OnEvent
  <2> QED
    BY <1>2, <2>1 DEF TransformTransferSingleEvent, TransferMessage, OfPool
<1>3. CASE event.signature = "TransferBatch"
  <2>1. OnEvent(locator, event) = TransformTransferBatchEvent(locator, event)
    BY <1>3, Zenon DEF OnEvent
  <2>2. PICK i \in DOMAIN event.ids : /\ OfPool(locator, BatchMove(event, i))
                                      /\ m = TransferMessage(locator, BatchMove(event, i), BatchId(event, i))
    BY <2>1 DEF TransformTransferBatchEvent
  <2>3. BatchMove(event, i).id = event.ids[i]
    BY DEF BatchMove
  <2> QED
    BY <1>3, <2>2, <2>3 DEF TransferMessage, OfPool
<1>4. CASE event.signature = "ApprovalForAll"
  <2>1. OnEvent(locator, event) = TransformApprovalForAllEvent(locator, event)
    BY <1>4, Zenon DEF OnEvent
  <2> QED
    BY <2>1 DEF TransformApprovalForAllEvent
<1>5. CASE event.signature \notin {"TokenPoolCreation", "TransferSingle", "TransferBatch", "ApprovalForAll"}
  <2>1. OnEvent(locator, event) = {}
    BY <1>5, Zenon DEF OnEvent
  <2> QED
    BY <2>1
<1> QED
  BY <1>1, <1>2, <1>3, <1>4, <1>5

\* The indexes that FireFly was told are of tokens of the pool.
LEMMA IndexesAreOfThePool ==
  ASSUME kind \in Kinds, BInv, NEW locator \in Active, NEW index \in KnownIndexes(locator)
  PROVE  LET pool == UnpackPoolLocator(locator)
         IN IF pool.isFungible THEN index = NoIndex
            ELSE index \in Nat /\ index <= pool.endId - pool.startId
<1> DEFINE pool == UnpackPoolLocator(locator)
<1>1. PICK m \in told : /\ m.locator = locator /\ m.tokenIndex = index
                        /\ m.event \notin {"token-pool", "token-approval"}
  BY DEF KnownIndexes, Messages
<1>2. PICK i \in DOMAIN chain : m \in OnEvent(locator, chain[i])
  BY <1>1 DEF BInv, Sent
<1>3. PICK id : /\ \/ chain[i].signature = "TransferSingle" /\ id = chain[i].id
                   \/ chain[i].signature = "TransferBatch" /\ id \in {chain[i].ids[j] : j \in DOMAIN chain[i].ids}
                /\ PoolContainsId(pool, id)
                /\ m.tokenIndex = IF pool.isFungible THEN NoIndex ELSE ComputeTokenIndex(pool, id)
  BY <1>1, <1>2, TransfersAreToldOf
<1>4. id \in Nat
  BY <1>3 DEF BInv, EventIds
<1>5. pool.startId \in Nat /\ pool.endId \in Nat
  BY PoolFields DEF BInv, KnownPools
<1> HIDE DEF pool
<1> QED
  BY <1>1, <1>3, <1>4, <1>5 DEF PoolContainsId, ComputeTokenIndex, pool

\* A request for a pool, with an index as FireFly may give it
HasIndex(dto) == dto.tokenIndex = NoIndex \/ dto.tokenIndex \in Nat

LEMMA HandleKeepsPools ==
  ASSUME kind \in Kinds, BInv, NEW locator \in Active, NEW operation \in Operations,
         NEW dto, HasIndex(dto), Handle(locator, operation, dto)
  PROVE  BInv'
<1> USE DEF BInv
<1> DEFINE pool == UnpackPoolLocator(locator)
<1>1. UNCHANGED <<kind, maxIndex, chain, cursor, told>>
  BY DEF Handle
<1>2. IsPool(pool) /\ pool.startId \in Nat
  BY PoolFields DEF KnownPools
<1>3. ASSUME NEW method
      PROVE  /\ IdParam(method, pool, dto) \in Nat
             /\ dto.tokenIndex = NoIndex => IdParam(method, pool, dto) = pool.startId
  <2>1. 0 \in Nat /\ BitOr(pool.startId, 0) = pool.startId
    BY <1>2, BitOrZero
  <2>2. dto.tokenIndex \in Nat => BitOr(pool.startId, dto.tokenIndex) \in Nat
    BY <1>2, BitOrType
  <2> HIDE DEF pool
  <2> QED
    BY <1>2, <2>1, <2>2 DEF IdParam, ComputeTokenId, HasIndex
<1>4. kind # "oz" => pool.startId \in DOMAIN maxIndex
  BY <1>2 DEF IsPool, FormatLegacyPool
<1>5. ASSUME NEW method, method \in AutoIndexed \cap Implemented
      PROVE  kind # "oz"
  BY <1>5 DEF Implemented, AutoIndexed, Standard
<1> HIDE DEF pool
<1>6. ASSUME NEW abi, Operate(locator, operation, dto, abi)
      PROVE  Numbered' /\ Calls'
  <2> DEFINE method == MethodFor(abi, pool, operation)
  <2>1. CASE UNCHANGED submitted
    BY <1>1, <2>1, CallsKept DEF Numbered, Height
  <2>2. Implemented' = Implemented /\ operation # "create"
    BY <1>1 DEF Implemented, Operations
  <2>3. CASE ~UNCHANGED submitted /\ method = NoMethod
    <3>1. /\ Height < MaxBlocks[kind]
          /\ submitted' = {[operation |-> operation, method |-> NoMethod]}
      BY <1>6, <2>3 DEF Operate, Submit, pool
    <3>2. Calls'
      BY <1>1, <2>2, <3>1 DEF Calls
    <3>3. Numbered'
      BY <1>1, <3>1 DEF Numbered, Height
    <3> QED
      BY <3>2, <3>3
  <2>4. CASE ~UNCHANGED submitted /\ method # NoMethod
    <3>1. /\ Verified(method, pool, dto)
          /\ Height < MaxBlocks[kind]
          /\ submitted' = {[operation |-> operation, method |-> method, locator |-> locator,
                            dto |-> dto, id |-> IdParam(method, pool, dto)]}
      BY <1>6, <2>4 DEF Operate, Submit, pool
    <3> HIDE DEF method
    <3>2. IdParam(method, pool, dto) \in Nat
      BY <1>3
    <3>3. method \in AutoIndexed \cap Implemented => IdParam(method, pool, dto) \in DOMAIN maxIndex
      BY <1>3, <1>4, <1>5, <3>1 DEF Verified
    <3>4. Calls'
      BY <1>1, <2>2, <3>1, <3>2, <3>3 DEF Calls
    <3>5. Numbered'
      BY <1>1, <3>1 DEF Numbered, Height
    <3> QED
      BY <3>4, <3>5
  <2> QED
    BY <2>1, <2>3, <2>4
<1>7. Numbered' /\ Calls'
  BY <1>6 DEF Handle
<1>8. Creations' /\ EventIds'
  BY <1>1 DEF Creations, Creates, CreationEvent, EventIds
<1>9. KnownPools' /\ Sent'
  BY <1>1, IsPoolKept DEF KnownPools, Sent, Active
<1> QED
  BY <1>7, <1>8, <1>9

LEMMA RequestsHaveIndexes ==
  ASSUME kind \in Kinds, BInv, NEW locator \in Active, Request(locator)
  PROVE  \E operation \in Operations : \E dto : HasIndex(dto) /\ Handle(locator, operation, dto)
<1>1. \A index \in KnownIndexes(locator) : index = NoIndex \/ index \in Nat
  BY IndexesAreOfThePool
<1> QED
  BY <1>1 DEF Request, Operations, HasIndex, MintDtos, TransferDtos, BurnDtos, ApprovalDtos, Dto

\* Tokens that are moved
LEMMA MovedIds ==
  ASSUME EventIds, NEW m \in AllMoves
  PROVE  m.id \in Nat
<1>1. PICK i \in DOMAIN chain : \E j \in DOMAIN Moves(chain[i]) : m.id = Moves(chain[i])[j].id
  BY DEF AllMoves, Movement
<1>2. CASE chain[i].signature = "TransferSingle"
  <2>1. Moves(chain[i]) = <<chain[i]>>
    BY <1>2 DEF Moves
  <2>2. DOMAIN <<chain[i]>> = {1} /\ <<chain[i]>>[1] = chain[i]
    OBVIOUS
  <2> QED
    BY <1>1, <1>2, <2>1, <2>2 DEF EventIds
<1>3. CASE chain[i].signature = "TransferBatch"
  <2>1. Moves(chain[i]) = [k \in DOMAIN chain[i].ids |-> BatchMove(chain[i], k)]
    BY <1>3 DEF Moves
  <2> QED
    BY <1>1, <1>3, <2>1 DEF EventIds, BatchMove
<1>4. CASE chain[i].signature \notin {"TransferSingle", "TransferBatch"}
  <2>1. Moves(chain[i]) = <<>>
    BY <1>4 DEF Moves
  <2> QED
    BY <1>1, <2>1
<1> QED
  BY <1>2, <1>3, <1>4

LEMMA BatchTransferKeepsPools ==
  ASSUME Ordered, Ordered', BInv, NEW from, NEW to, NEW ids \in Held(from) \X Held(from),
         BatchTransfer(from, to, ids)
  PROVE  BInv'
<1> USE DEF BInv
<1> DEFINE event == [signature |-> "TransferBatch", from |-> from, to |-> to, ids |-> ids,
                     values |-> [i \in DOMAIN ids |-> 1]]
<1>1. DOMAIN ids = {1, 2} /\ ids[1] \in Nat /\ ids[2] \in Nat
  <2>1. \A id \in Held(from) : id \in Nat
    BY MovedIds DEF Held
  <2> QED
    BY <2>1
<1>2. /\ "signature" \in DOMAIN event /\ event.signature = "TransferBatch"
      /\ "ids" \in DOMAIN event /\ event.ids = ids
  OBVIOUS
<1>3. /\ Mine(<<event>>) /\ UNCHANGED <<kind, maxIndex, submitted, cursor, told>>
      /\ submitted = {}
  BY DEF BatchTransfer
<1> HIDE DEF event
<1>4. DOMAIN <<event>> = {1} /\ <<event>>[1] = event /\ IsSeq(<<event>>)
  <2>1. <<event>> \in Seq({event})
    OBVIOUS
  <2>2. IsSeq(<<event>>)
    BY <2>1, SeqIsSeq
  <2>3. DOMAIN <<event>> = {1} /\ <<event>>[1] = event
    OBVIOUS
  <2> QED
    BY <2>2, <2>3
<1>5. Creations' /\ EventIds' /\ KnownPools' /\ Sent'
  <2> DEFINE events == <<event>>
  <2>1. \A i \in DOMAIN events : LET e == events[i] IN
           /\ "signature" \in DOMAIN e
           /\ e.signature = "TransferBatch"
           /\ "ids" \in DOMAIN e /\ \A j \in DOMAIN e.ids : e.ids[j] \in Nat
    BY <1>1, <1>2, <1>4
  <2>2. IsSeq(events) /\ Mine(events)
    BY <1>3, <1>4
  <2> HIDE DEF events
  <2> QED
    BY <1>3, <2>1, <2>2, MineKeepsPools
<1>6. Calls'
  BY <1>3 DEF Calls
<1>7. Numbered'
  <2>1. Height' >= Height /\ Height' \in Nat
    BY <1>3, <1>4, MineRaises
  <2>2. Height \in Nat /\ Cardinality(DOMAIN maxIndex) \in Nat
    BY HeightIsTop, FS_CardinalityType DEF Numbered
  <2> QED
    BY <1>3, <2>1, <2>2 DEF Numbered
<1> QED
  BY <1>5, <1>6, <1>7

\* Only a creation makes a message about a pool.
LEMMA PoolMessages ==
  ASSUME NEW locator, NEW event, NEW m \in OnEvent(locator, event)
  PROVE  /\ m.event = "token-pool" <=> event.signature = "TokenPoolCreation"
         /\ m.event = "token-pool" => m \in TransformTokenPoolCreationEvent(locator, event)
<1>1. CASE event.signature = "TokenPoolCreation"
  <2>1. OnEvent(locator, event) = TransformTokenPoolCreationEvent(locator, event)
    BY <1>1, Zenon DEF OnEvent
  <2> QED
    BY <1>1, <2>1 DEF TransformTokenPoolCreationEvent, PoolMessage
<1>2. CASE event.signature = "TransferSingle"
  <2>1. OnEvent(locator, event) = TransformTransferSingleEvent(locator, event)
    BY <1>2, Zenon DEF OnEvent
  <2> QED
    BY <1>2, <2>1 DEF TransformTransferSingleEvent, TransferMessage, TransferName
<1>3. CASE event.signature = "TransferBatch"
  <2>1. OnEvent(locator, event) = TransformTransferBatchEvent(locator, event)
    BY <1>3, Zenon DEF OnEvent
  <2> QED
    BY <1>3, <2>1 DEF TransformTransferBatchEvent, TransferMessage, TransferName
<1>4. CASE event.signature = "ApprovalForAll"
  <2>1. OnEvent(locator, event) = TransformApprovalForAllEvent(locator, event)
    BY <1>4, Zenon DEF OnEvent
  <2> QED
    BY <1>4, <2>1 DEF TransformApprovalForAllEvent
<1>5. CASE event.signature \notin {"TokenPoolCreation", "TransferSingle", "TransferBatch", "ApprovalForAll"}
  <2>1. OnEvent(locator, event) = {}
    BY <1>5, Zenon DEF OnEvent
  <2> QED
    BY <2>1
<1> QED
  BY <1>1, <1>2, <1>3, <1>4, <1>5

StartOf(event) == IF IsOlder(event) THEN event.typeId ELSE event.startId

\* A creation announces a pool by its type or by its range.
LEMMA CreationNamesPool ==
  ASSUME kind \in Kinds, Creations, NEW i \in DOMAIN chain, chain[i].signature = "TokenPoolCreation"
  PROVE  /\ kind # "oz"
         /\ IsPool(Announced(chain[i]))
         /\ StartOf(chain[i]) \in DOMAIN maxIndex
         /\ \A pool : CreatesPool(chain[i], pool) => pool.startId = StartOf(chain[i])
         /\ CreatesPool(chain[i], Announced(chain[i]))
         /\ ConvertLegacyPoolId(UnpackOldTypeId(StartOf(chain[i]))) = Announced(chain[i])
<1> DEFINE event == chain[i]
<1>1. kind # "oz" /\ \E isFungible \in BOOLEAN, k \in 1 .. MaxBlocks[kind] : Creates(i, isFungible, k)
  BY DEF Creations
<1>2. PICK isFungible \in BOOLEAN, k \in 1 .. MaxBlocks[kind] : Creates(i, isFungible, k)
  BY <1>1
<1> DEFINE start == Start(isFungible, k)
           pool == FormatLegacyPool(isFungible, start)
<1>3. k \in Nat /\ k * IndexSize < TypeBit
  BY NumberFits, ContractsAssumption
<1>4. /\ UnpackTypeId(start) = pool
      /\ ConvertLegacyPoolId(UnpackOldTypeId(start)) = pool
  BY <1>3, PoolArithmetic
<1>5. start \in DOMAIN maxIndex
  BY <1>2 DEF Creates
<1>6. IsPool(pool)
  BY <1>1, <1>5 DEF IsPool
<1>7. pool.startId = start
  BY DEF FormatLegacyPool
<1>8. event = Placed(CreationEvent(start, isFungible), event.block, event.log)
  BY <1>2 DEF Creates
<1> HIDE DEF start, event
<1>9. /\ Announced(event) = pool /\ StartOf(event) = start
      /\ \A p : CreatesPool(event, p) => p.startId = start
      /\ CreatesPool(event, pool)
  <2>1. CASE kind = "Old"
    <3>1. "typeId" \in DOMAIN event /\ event.typeId = start
      BY <1>8, <2>1 DEF CreationEvent, Placed
    <3> HIDE DEF pool
    <3> QED
      BY <1>4, <1>7, <3>1 DEF Announced, StartOf, CreatesPool, IsOlder
  <2>2. CASE kind # "Old"
    <3>1. /\ "typeId" \notin DOMAIN event
          /\ event.isFungible = isFungible /\ event.startId = start /\ event.endId = pool.endId
      BY <1>8, <2>2 DEF CreationEvent, Placed
    <3>2. Announced(event) = [isFungible |-> isFungible, startId |-> start, endId |-> pool.endId]
      BY <3>1 DEF Announced, IsOlder
    <3>3. pool = [isFungible |-> isFungible, startId |-> start, endId |-> pool.endId]
      BY DEF FormatLegacyPool
    <3> HIDE DEF pool
    <3> QED
      BY <1>7, <3>1, <3>2, <3>3 DEF StartOf, CreatesPool, IsOlder
  <2> QED
    BY <2>1, <2>2
<1> HIDE DEF pool
<1> QED
  BY <1>1, <1>4, <1>5, <1>6, <1>9 DEF event

\* What FireFly may activate is a pool, by its range or by a locator it was told.
LEMMA OfferedPools ==
  ASSUME kind \in Kinds, Creations, KnownPools, NEW locator \in Offered
  PROVE  IsPool(UnpackPoolLocator(locator))
<1>1. CASE locator \notin Ranged
  BY <1>1 DEF Offered, KnownPools
<1>2. CASE locator \in Ranged
  <2>1. PICK range \in Ranges : locator = PackPoolLocator(range, 0)
    BY <1>2 DEF Ranged
  <2>2. UnpackPoolLocator(locator) = range
    BY <2>1 DEF UnpackPoolLocator, PackPoolLocator
  <2>3. CASE kind = "oz"
    BY <2>2, <2>3 DEF Ranges, IsPool
  <2>4. CASE kind # "oz"
    <3>1. PICK i \in DOMAIN chain : /\ chain[i].signature = "TokenPoolCreation"
                                    /\ range = Announced(chain[i])
      BY <2>4 DEF Ranges
    <3> QED
      BY <2>2, <3>1, CreationNamesPool
  <2> QED
    BY <2>3, <2>4
<1> QED
  BY <1>1, <1>2

LEMMA ActivatePoolKeepsPools ==
  ASSUME kind \in Kinds, BInv, NEW locator \in Offered, ActivatePool(locator)
  PROVE  BInv'
<1> USE DEF BInv
<1>1. /\ Active' = Active \cup {locator}
      /\ told' = told \cup {ActivateAnswer(l) : l \in {locator} \cap Ranged}
      /\ UNCHANGED <<kind, maxIndex, chain, submitted>>
      /\ \A a \in Active : UnpackPoolLocator(a) # UnpackPoolLocator(locator)
  <2> DEFINE subs == {PoolSub(locator), ApprovalSub(locator)} \cup TransferSubs(locator)
  <2>1. PoolSub(locator) \in subs /\ PoolSub(locator).locator = locator
    BY DEF PoolSub
  <2>2. \A sub \in subs : sub.locator = locator
    BY DEF PoolSub, ApprovalSub, TransferSubs
  <2>3. Subscribe(subs)
    BY DEF ActivatePool
  <2> HIDE DEF subs
  <2>4. \A l : l \in Active' <=> l \in Active \/ (l # Base /\ \E sub \in subs : sub.locator = l)
    BY <2>3, Subscribes
  <2>5. locator # Base
    BY DEF ActivatePool
  <2> QED
    BY <2>1, <2>2, <2>4, <2>5 DEF ActivatePool
<1>2. IsPool(UnpackPoolLocator(locator))
  BY OfferedPools
<1>3. Numbered' /\ Calls'
  BY <1>1, CallsKept DEF Numbered, Height
<1>4. Creations' /\ EventIds'
  BY <1>1 DEF Creations, Creates, CreationEvent, EventIds
<1>5. \A m \in {ActivateAnswer(l) : l \in {locator} \cap Ranged} :
        m.event = "token-pool" /\ m.poolLocator = locator /\ m.alternateLocators = {}
  BY DEF ActivateAnswer
<1>6. \A pool : IsPool(pool) => IsPool(pool)'
  BY <1>1, IsPoolKept
<1>7. KnownPools'
  BY <1>1, <1>2, <1>5, <1>6 DEF KnownPools
<1>8. Sent'
  BY <1>1, <1>5 DEF Sent
<1> QED
  BY <1>3, <1>4, <1>7, <1>8

\* The locators that the base subscription tells of are of that pool.
LEMMA BaseTellsOfPools ==
  ASSUME kind \in Kinds, Creations, NEW i \in DOMAIN chain,
         NEW m \in OnEvent(Base, chain[i]), m.event = "token-pool",
         NEW l \in {m.poolLocator} \cup m.alternateLocators
  PROVE  UnpackPoolLocator(l) = Announced(chain[i]) /\ l.block = chain[i].block
<1> DEFINE event == chain[i]
           pool == Announced(event)
           start == StartOf(event)
<1>1. /\ chain[i].signature = "TokenPoolCreation"
      /\ m \in TransformTokenPoolCreationEvent(Base, event)
  BY PoolMessages
<1>2. ConvertLegacyPoolId(UnpackOldTypeId(start)) = pool
  BY <1>1, CreationNamesPool
<1> HIDE DEF event
<1>3. m = PoolMessage(event, Base, PackPoolLocator(pool, event.block),
            {PackOldPoolLocator(UnpackOldTypeId(t), event.block) :
               t \in {event[f] : f \in {"typeId"} \cap DOMAIN event}})
  BY <1>1 DEF TransformTokenPoolCreationEvent
<1>4. "typeId" \in DOMAIN event => event.typeId = start
  BY DEF StartOf, IsOlder
<1> HIDE DEF pool, start
<1>5. m.poolLocator = PackPoolLocator(pool, event.block)
  BY <1>3 DEF PoolMessage
<1>6. \A a \in m.alternateLocators : a = PackOldPoolLocator(UnpackOldTypeId(start), event.block)
  BY <1>3, <1>4 DEF PoolMessage
<1>7. /\ UnpackPoolLocator(PackPoolLocator(pool, event.block)) = pool
      /\ PackPoolLocator(pool, event.block).block = event.block
  BY DEF UnpackPoolLocator, PackPoolLocator
<1>8. /\ UnpackPoolLocator(PackOldPoolLocator(UnpackOldTypeId(start), event.block)) = pool
      /\ PackOldPoolLocator(UnpackOldTypeId(start), event.block).block = event.block
  BY <1>2 DEF UnpackPoolLocator, PackOldPoolLocator
<1> QED
  BY <1>5, <1>6, <1>7, <1>8 DEF pool, event

LEMMA CreationsArePools ==
  ASSUME kind \in Kinds, Creations, NEW i \in DOMAIN chain, NEW locator,
         locator # Base => IsPool(UnpackPoolLocator(locator)),
         NEW m \in OnEvent(locator, chain[i]), m.event = "token-pool",
         NEW l \in {m.poolLocator} \cup m.alternateLocators
  PROVE  IsPool(UnpackPoolLocator(l))
<1>1. chain[i].signature = "TokenPoolCreation" /\ m \in TransformTokenPoolCreationEvent(locator, chain[i])
  BY PoolMessages
<1>2. CASE locator # Base
  <2>1. m.poolLocator = locator /\ m.alternateLocators = {}
    BY <1>1, <1>2 DEF TransformTokenPoolCreationEvent, PoolMessage
  <2> QED
    BY <1>2, <2>1
<1>3. CASE locator = Base
  BY <1>1, <1>3, BaseTellsOfPools, CreationNamesPool
<1> QED
  BY <1>2, <1>3

LEMMA DeliverKeepsPools ==
  ASSUME kind \in Kinds, Ordered, Subscribed, BInv, NEW locator, Deliver(locator)
  PROVE  BInv'
<1> USE DEF BInv
<1>1. PICK sub \in DOMAIN cursor, i \in DOMAIN chain :
           /\ sub = [locator |-> locator, signature |-> chain[i].signature]
           /\ cursor' = [cursor EXCEPT ![sub] = i]
           /\ told' = told \cup OnEvent(locator, chain[i])
  BY Delivers
<1>2. UNCHANGED <<kind, maxIndex, chain, submitted>> /\ Active' = Active
  BY <1>1 DEF Deliver, Active
<1>3. locator # Base => locator \in Active
  BY <1>1 DEF Active
<1>4. locator = Base => chain[i].signature = "TokenPoolCreation"
  BY <1>1 DEF Subscribed
<1>5. Numbered' /\ Calls'
  BY <1>2, CallsKept DEF Numbered, Height
<1>6. Creations' /\ EventIds'
  BY <1>2 DEF Creations, Creates, CreationEvent, EventIds
<1>7. \A pool : IsPool(pool) => IsPool(pool)'
  BY <1>2, IsPoolKept
<1>8. ASSUME NEW m \in told', m.event = "token-pool",
             NEW l \in {m.poolLocator} \cup m.alternateLocators
      PROVE  IsPool(UnpackPoolLocator(l))
  <2>1. CASE m \in told
    BY <1>8, <2>1 DEF KnownPools
  <2>2. CASE m \in OnEvent(locator, chain[i])
    <3>1. locator # Base => IsPool(UnpackPoolLocator(locator))
      BY <1>3 DEF KnownPools
    <3> QED
      BY <1>8, <2>2, <3>1, CreationsArePools
  <2> QED
    BY <1>1, <2>1, <2>2
<1>9. KnownPools'
  <2>1. \A l \in Active' : IsPool(UnpackPoolLocator(l))'
    BY <1>2, <1>7 DEF KnownPools
  <2>2. \A l, m \in Active' : UnpackPoolLocator(l) = UnpackPoolLocator(m) => l = m
    BY <1>2 DEF KnownPools
  <2>3. \A m \in told' : m.event = "token-pool" =>
          \A l \in {m.poolLocator} \cup m.alternateLocators : IsPool(UnpackPoolLocator(l))'
    BY <1>7, <1>8
  <2> QED
    BY <2>1, <2>2, <2>3 DEF KnownPools
<1>10. Sent'
  <2>1. ASSUME NEW m \in OnEvent(locator, chain[i]), m.event # "token-pool"
        PROVE  m.locator \in Active /\ m \in OnEvent(m.locator, chain[i])
    <3>1. m.locator = locator
      BY <2>1, OnEventApprovals
    <3>2. locator # Base
      <4>1. SUFFICES ASSUME locator = Base PROVE FALSE
        OBVIOUS
      <4>2. OnEvent(locator, chain[i]) = TransformTokenPoolCreationEvent(locator, chain[i])
        BY <1>4, <4>1, Zenon DEF OnEvent
      <4> QED
        BY <2>1, <4>2 DEF TransformTokenPoolCreationEvent, PoolMessage
    <3> QED
      BY <1>3, <2>1, <3>1, <3>2
  <2> QED
    BY <1>1, <1>2, <2>1 DEF Sent
<1> QED
  BY <1>5, <1>6, <1>9, <1>10

LEMMA PoolsInvariant == Spec => []BInv
<1>1. Init => BInv
  <2> SUFFICES ASSUME Init PROVE BInv
    OBVIOUS
  <2>1. DOMAIN maxIndex = {} /\ DOMAIN chain = {} /\ Active = {} /\ Height = 0
    BY DEF Init, Active, Height
  <2>2. IsFiniteSet({}) /\ Cardinality({}) = 0
    BY FS_EmptySet
  <2> QED
    BY <2>1, <2>2 DEF Init, BInv, Numbered, Calls, Creations, EventIds, KnownPools, Sent
<1>2. Callable /\ AInv /\ AInv' /\ BInv /\ [Next]_vars => BInv'
  <2> SUFFICES ASSUME Callable, AInv, AInv', BInv, [Next]_vars
               PROVE  BInv'
    OBVIOUS
  <2> USE DEF AInv, Callable
  <2>1. ASSUME NEW isFungible \in BOOLEAN, CreatePool(isFungible)
        PROVE  BInv'
    BY <2>1, CreatePoolKeepsPools
  <2>2. ASSUME NEW locator \in Offered, ActivatePool(locator)
        PROVE  BInv'
    BY <2>2, ActivatePoolKeepsPools
  <2>3. ASSUME NEW locator \in Active, Request(locator)
        PROVE  BInv'
    BY <2>3, RequestsHaveIndexes, HandleKeepsPools
  <2>4. ASSUME NEW tx \in submitted, Mined(tx)
        PROVE  BInv'
    BY <2>4, MinedKeepsPools
  <2>5. ASSUME NEW from, NEW to, NEW ids \in Held(from) \X Held(from), BatchTransfer(from, to, ids)
        PROVE  BInv'
    BY <2>5, BatchTransferKeepsPools
  <2>6. ASSUME NEW locator, Deliver(locator)
        PROVE  BInv'
    BY <2>6, DeliverKeepsPools
  <2>7. CASE UNCHANGED vars
    <3>1. Calls'
      BY <2>7, CallsKept DEF vars, BInv
    <3> QED
      BY <2>7, <3>1 DEF vars, BInv, Numbered, Creations, Creates, CreationEvent, EventIds,
                KnownPools, IsPool, Sent, Active, Height
  <2> QED
    BY <2>1, <2>2, <2>3, <2>4, <2>5, <2>6, <2>7 DEF Next
<1> QED
  BY <1>1, <1>2, ApprovalsInvariant, CallsInvariant, PTL DEF Spec
-----------------------------------------------------------------------------
(* Ids of messages *)

\* An id is of one pool.
LEMMA OnePoolOfAnId ==
  ASSUME Apart, kind \in Kinds, NEW p, IsPool(p), NEW q, IsPool(q), NEW id \in Nat,
         PoolContainsId(p, id), PoolContainsId(q, id)
  PROVE  p = q
<1>1. CASE kind = "oz"
  <2>1. p \in Existing /\ q \in Existing
    BY <1>1 DEF IsPool
  <2>2. /\ p.startId \in Nat /\ p.endId \in Nat
        /\ q.startId \in Nat /\ q.endId \in Nat
    BY PoolFields
  <2> QED
    BY <2>1, <2>2 DEF Apart, PoolContainsId
<1>2. CASE kind # "oz"
  <2>1. PICK f \in BOOLEAN, k \in 1 .. MaxBlocks[kind] : p = FormatLegacyPool(f, Start(f, k))
    BY <1>2 DEF IsPool
  <2>2. PICK g \in BOOLEAN, j \in 1 .. MaxBlocks[kind] : q = FormatLegacyPool(g, Start(g, j))
    BY <1>2 DEF IsPool
  <2>3. /\ k \in Nat /\ k * IndexSize < TypeBit
        /\ j \in Nat /\ j * IndexSize < TypeBit
    BY NumberFits, ContractsAssumption
  <2> QED
    BY <2>1, <2>2, <2>3, PoolsApart
<1> QED
  BY <1>1, <1>2

LEMMA OnePoolOfAStart ==
  ASSUME Apart, kind \in Kinds, NEW p, IsPool(p), NEW q, IsPool(q), p.startId = q.startId
  PROVE  p = q
<1>1. ASSUME NEW pool, IsPool(pool)
      PROVE  pool.startId \in Nat /\ PoolContainsId(pool, pool.startId)
  <2>1. pool.startId \in Nat /\ pool.endId \in Nat
    BY <1>1, PoolFields
  <2>2. CASE kind = "oz"
    BY <1>1, <2>1, <2>2 DEF IsPool, Apart, PoolContainsId
  <2>3. CASE kind # "oz"
    <3>1. PICK f \in BOOLEAN, k \in 1 .. MaxBlocks[kind] : pool = FormatLegacyPool(f, Start(f, k))
      BY <1>1, <2>3 DEF IsPool
    <3>2. Start(f, k) \in Nat
      BY StartIsAligned, ContractsAssumption
    <3> QED
      BY <2>1, <3>1, <3>2, Widths DEF FormatLegacyPool, PoolContainsId
  <2> QED
    BY <2>1, <2>2, <2>3
<1> QED
  BY <1>1, OnePoolOfAnId

\* The three forms of an id
LEMMA IdForms ==
  ASSUME NEW locator, NEW event, NEW m \in OnEvent(locator, event), m.event # "token-pool"
  PROVE  LET pool == UnpackPoolLocator(locator)
         IN /\ m.id[1] = event.block /\ m.id[2] = event.log
            /\ \/ /\ event.signature = "TransferSingle" /\ PoolContainsId(pool, event.id)
                  /\ m = TransferMessage(locator, event, EventId(event))
               \/ /\ event.signature = "TransferBatch"
                  /\ \E k \in DOMAIN event.ids :
                       /\ PoolContainsId(pool, event.ids[k])
                       /\ m.id[3] = k
                       /\ m = TransferMessage(locator, BatchMove(event, k), BatchId(event, k))
               \/ /\ event.signature = "ApprovalForAll"
                  /\ m.id[3] = pool.startId
                  /\ m \in TransformApprovalForAllEvent(locator, event)
<1>0. \A b, l, x : LET id == <<b, l>> \o <<x>> IN id[1] = b /\ id[2] = l /\ id[3] = x
  OBVIOUS
<1>1. CASE event.signature = "TokenPoolCreation"
  <2>1. OnEvent(locator, event) = TransformTokenPoolCreationEvent(locator, event)
    BY <1>1, Zenon DEF OnEvent
  <2> QED
    BY <2>1 DEF TransformTokenPoolCreationEvent, PoolMessage
<1>2. CASE event.signature = "TransferSingle"
  <2>1. OnEvent(locator, event) = TransformTransferSingleEvent(locator, event)
    BY <1>2, Zenon DEF OnEvent
  <2>2. OfPool(locator, event) /\ m = TransferMessage(locator, event, EventId(event))
    BY <2>1 DEF TransformTransferSingleEvent
  <2>3. m.id = <<event.block, event.log>>
    BY <2>2 DEF TransferMessage, EventId
  <2> QED
    BY <1>2, <2>2, <2>3 DEF OfPool
<1>3. CASE event.signature = "TransferBatch"
  <2>1. OnEvent(locator, event) = TransformTransferBatchEvent(locator, event)
    BY <1>3, Zenon DEF OnEvent
  <2>2. PICK k \in DOMAIN event.ids : /\ OfPool(locator, BatchMove(event, k))
                                      /\ m = TransferMessage(locator, BatchMove(event, k), BatchId(event, k))
    BY <2>1 DEF TransformTransferBatchEvent
  <2>3. BatchMove(event, k).id = event.ids[k]
    BY DEF BatchMove
  <2>4. m.id = BatchId(event, k)
    BY <2>2 DEF TransferMessage
  <2>5. m.id[1] = event.block /\ m.id[2] = event.log /\ m.id[3] = k
    BY <1>0, <2>4 DEF BatchId, EventId
  <2> QED
    BY <1>3, <2>2, <2>3, <2>5 DEF OfPool
<1>4. CASE event.signature = "ApprovalForAll"
  <2>1. OnEvent(locator, event) = TransformApprovalForAllEvent(locator, event)
    BY <1>4, Zenon DEF OnEvent
  <2>2. m.id = ApprovalId(event, UnpackPoolLocator(locator))
    BY <2>1 DEF TransformApprovalForAllEvent
  <2>3. /\ m.id[1] = event.block /\ m.id[2] = event.log
        /\ m.id[3] = UnpackPoolLocator(locator).startId
    BY <1>0, <2>2 DEF ApprovalId, EventId
  <2> QED
    BY <1>4, <2>1, <2>3
<1>5. CASE event.signature \notin {"TokenPoolCreation", "TransferSingle", "TransferBatch", "ApprovalForAll"}
  <2>1. OnEvent(locator, event) = {}
    BY <1>5, Zenon DEF OnEvent
  <2> QED
    BY <2>1
<1> QED
  BY <1>1, <1>2, <1>3, <1>4, <1>5

\* Different transfers have different ids, and so have different approvals,
\* also the one approval that every pool hears of: the place of the event in
\* the chain, the place in the batch, and the start of the pool tell them apart.
THEOREM IdsIdentify == Apart /\ Spec => []IdsUnique
<1>1. ASSUME Apart, Callable, AInv, BInv
      PROVE  IdsUnique
  <2> USE <1>1 DEF Callable, AInv, BInv
  <2> SUFFICES ASSUME NEW m \in told, NEW n \in told,
                      m.event # "token-pool", n.event # "token-pool", m.id = n.id
               PROVE  m = n
    BY DEF IdsUnique
  <2> DEFINE p == UnpackPoolLocator(m.locator)
             q == UnpackPoolLocator(n.locator)
  <2>1. PICK i \in DOMAIN chain : m \in OnEvent(m.locator, chain[i])
    BY DEF Sent
  <2>2. PICK j \in DOMAIN chain : n \in OnEvent(n.locator, chain[j])
    BY DEF Sent
  <2>3. /\ m.locator \in Active /\ n.locator \in Active
        /\ IsPool(p) /\ IsPool(q) /\ (p = q => m.locator = n.locator)
    BY DEF Sent, KnownPools
  <2>4. ASSUME NEW locator, NEW event, NEW t \in OnEvent(locator, event), t.event # "token-pool"
        PROVE  t.id[1] = event.block /\ t.id[2] = event.log
    BY <2>4, IdForms
  <2>5. i = j
    <3>1. chain[i].block = chain[j].block /\ chain[i].log = chain[j].log
      BY <2>1, <2>2, <2>4
    <3>2. i \in Nat /\ j \in Nat /\ chain[i].log \in Nat /\ chain[j].log \in Nat
      BY DEF Ordered, IsSeq
    <3> QED
      BY <3>1, <3>2 DEF Ordered
  <2> HIDE DEF p, q
  <2>6. CASE chain[i].signature = "TransferSingle"
    <3>1. /\ PoolContainsId(p, chain[i].id) /\ PoolContainsId(q, chain[i].id)
          /\ m = TransferMessage(m.locator, chain[i], EventId(chain[i]))
          /\ n = TransferMessage(n.locator, chain[i], EventId(chain[i]))
      BY <2>1, <2>2, <2>5, <2>6, IdForms DEF p, q
    <3>2. chain[i].id \in Nat
      BY <2>6 DEF EventIds
    <3>3. m.locator = n.locator
      BY <2>3, <3>1, <3>2, OnePoolOfAnId
    <3> QED
      BY <3>1, <3>3
  <2>7. CASE chain[i].signature = "TransferBatch"
    <3>1. PICK k \in DOMAIN chain[i].ids :
               /\ PoolContainsId(p, chain[i].ids[k])
               /\ m.id[3] = k
               /\ m = TransferMessage(m.locator, BatchMove(chain[i], k), BatchId(chain[i], k))
      BY <2>1, <2>7, IdForms DEF p
    <3>2. PICK l \in DOMAIN chain[i].ids :
               /\ PoolContainsId(q, chain[i].ids[l])
               /\ n.id[3] = l
               /\ n = TransferMessage(n.locator, BatchMove(chain[i], l), BatchId(chain[i], l))
      BY <2>2, <2>5, <2>7, IdForms DEF q
    <3>3. k = l
      BY <3>1, <3>2
    <3>4. chain[i].ids[k] \in Nat
      BY <2>7 DEF EventIds
    <3>5. m.locator = n.locator
      BY <2>3, <3>1, <3>2, <3>3, <3>4, OnePoolOfAnId
    <3> QED
      BY <3>1, <3>2, <3>3, <3>5
  <2>8. CASE chain[i].signature = "ApprovalForAll"
    <3>1. /\ m.id[3] = p.startId
          /\ m \in TransformApprovalForAllEvent(m.locator, chain[i])
      BY <2>1, <2>8, IdForms DEF p
    <3>2. /\ n.id[3] = q.startId
          /\ n \in TransformApprovalForAllEvent(n.locator, chain[i])
      BY <2>2, <2>5, <2>8, IdForms DEF q
    <3>3. p.startId = q.startId
      BY <3>1, <3>2
    <3>4. m.locator = n.locator
      BY <2>3, <3>3, OnePoolOfAStart
    <3> QED
      BY <3>1, <3>2, <3>4 DEF TransformApprovalForAllEvent
  <2> QED
    BY <2>1, <2>6, <2>7, <2>8, IdForms
<1>2. Apart' <=> Apart
  BY DEF Apart
<1> QED
  BY <1>1, <1>2, CallsInvariant, ApprovalsInvariant, PoolsInvariant, PTL

-----------------------------------------------------------------------------
(* Indexes *)

\* Pools leave the low bits of their ids to the index.
LEMMA PoolsAreAligned ==
  ASSUME Aligned, kind \in Kinds, NEW pool, IsPool(pool)
  PROVE  /\ pool.endId - pool.startId < IndexSize
         /\ \E q \in Nat : pool.startId = IndexSize * q
<1>1. CASE kind = "oz"
  <2>1. pool \in Existing /\ pool.startId \in Nat
    BY <1>1, PoolFields DEF IsPool
  <2> QED
    BY <2>1 DEF Aligned
<1>2. CASE kind # "oz"
  <2>1. PICK f \in BOOLEAN, k \in 1 .. MaxBlocks[kind] : pool = FormatLegacyPool(f, Start(f, k))
    BY <1>2 DEF IsPool
  <2>2. Start(f, k) \in Nat /\ \E n \in Nat : Start(f, k) = IndexSize * n
    BY StartIsAligned, ContractsAssumption
  <2> QED
    BY <2>1, <2>2, Widths DEF FormatLegacyPool
<1> QED
  BY <1>1, <1>2

\* The index of a request is of a token of the pool; a mint of a fungible
\* pool may have one all the same.
Fits(locator, operation, dto) ==
  \/ dto.tokenIndex = NoIndex
  \/ dto.tokenIndex \in 0 .. IndexSize - 1
     /\ (UnpackPoolLocator(locator).isFungible => operation = "mint")

LEMMA RequestsFit ==
  ASSUME Aligned, kind \in Kinds, BInv, NEW locator \in Active, Request(locator)
  PROVE  \E operation \in Operations : \E dto :
           Fits(locator, operation, dto) /\ Handle(locator, operation, dto)
<1> DEFINE pool == UnpackPoolLocator(locator)
<1>1. pool.startId \in Nat /\ pool.endId \in Nat /\ pool.endId - pool.startId < IndexSize
  BY PoolFields, PoolsAreAligned DEF BInv, KnownPools
<1>2. \A index \in KnownIndexes(locator) :
        index = NoIndex \/ (index \in 0 .. IndexSize - 1 /\ ~pool.isFungible)
  <2>1. \A index \in KnownIndexes(locator) :
          IF pool.isFungible THEN index = NoIndex
          ELSE index \in Nat /\ index <= pool.endId - pool.startId
    BY IndexesAreOfThePool
  <2> HIDE DEF pool
  <2> QED
    BY <1>1, <2>1, Widths
<1>3. 0 \in 0 .. IndexSize - 1 /\ 1 \in 0 .. IndexSize - 1
  BY Widths
<1>4. ASSUME NEW dto \in MintDtos(pool), Handle(locator, "mint", dto)
      PROVE  Fits(locator, "mint", dto)
  BY <1>3, <1>4 DEF MintDtos, Dto, Fits
<1>5. ASSUME NEW dto \in TransferDtos(locator) \cup BurnDtos(locator), NEW operation
      PROVE  Fits(locator, operation, dto)
  BY <1>2, <1>5 DEF TransferDtos, BurnDtos, Dto, Fits
<1>6. ASSUME NEW dto \in ApprovalDtos, NEW operation
      PROVE  Fits(locator, operation, dto)
  BY <1>6 DEF ApprovalDtos, Fits
<1> QED
  BY <1>4, <1>5, <1>6 DEF Request, Operations

\* The id of a call is the pool's start and the index side by side.
Offset(pool, dto) ==
  pool.startId + (IF pool.isFungible \/ dto.tokenIndex = NoIndex THEN 0 ELSE dto.tokenIndex)

LEMMA IdParamIsOffset ==
  ASSUME Aligned, kind \in Kinds, NEW locator, IsPool(UnpackPoolLocator(locator)),
         NEW operation \in Operations, NEW dto, Fits(locator, operation, dto), NEW method,
         Maps(method, UnpackPoolLocator(locator)), method \in ToSet(DynamicMethods[operation])
  PROVE  IdParam(method, UnpackPoolLocator(locator), dto) = Offset(UnpackPoolLocator(locator), dto)
<1> DEFINE pool == UnpackPoolLocator(locator)
<1>1. PICK q \in Nat : pool.startId = IndexSize * q
  BY PoolsAreAligned
<1>2. pool.startId \in Nat
  BY PoolFields
<1>3. \A index \in 0 .. IndexSize - 1 : BitOr(pool.startId, index) = pool.startId + index
  BY <1>1, Widths, BitOrAdds
<1>4. 0 \in 0 .. IndexSize - 1
  BY Widths
<1>5. operation = "mint" /\ pool.isFungible => method \in {"mintFungible", "mint"}
  BY DEF Maps, AutoIndexed, DynamicMethods, ToSet
<1>6. dto.tokenIndex = NoIndex \/ (dto.tokenIndex \in 0 .. IndexSize - 1 /\ (pool.isFungible => operation = "mint"))
  BY DEF Fits
<1> HIDE DEF pool
<1>7. method \in {"mintFungible", "mint"} /\ ~pool.isFungible => method = "mint"
  BY DEF Maps, pool
<1> QED
  BY <1>2, <1>3, <1>4, <1>5, <1>6 DEF IdParam, ComputeTokenId, Offset, pool

THEOREM IndexesAreOffsets == Aligned /\ Spec => []IndexIsOffset
<1>1. Init => IndexIsOffset
  BY DEF Init, IndexIsOffset
<1>2. Aligned /\ Callable /\ BInv /\ IndexIsOffset /\ [Next]_vars => IndexIsOffset'
  <2> SUFFICES ASSUME Aligned, Callable, BInv, IndexIsOffset, [Next]_vars
               PROVE  IndexIsOffset'
    OBVIOUS
  <2> USE DEF Callable
  <2>0. kind \in {"V2", "Old", "oz"}
    BY ContractsAssumption
  <2>1. ASSUME submitted' \subseteq submitted
        PROVE  IndexIsOffset'
    BY <2>1 DEF IndexIsOffset
  <2>2. ASSUME NEW locator \in Active, NEW operation \in Operations, NEW dto,
               Fits(locator, operation, dto), Handle(locator, operation, dto)
        PROVE  IndexIsOffset'
    <3> DEFINE pool == UnpackPoolLocator(locator)
    <3>1. IsPool(pool)
      BY DEF BInv, KnownPools
    <3>2. ASSUME NEW abi, Operate(locator, operation, dto, abi),
                 \/ abi \in Interfaces(operation)
                 \/ abi = OldSample
                 \/ abi = Sample /\ kind = "V2"
          PROVE  IndexIsOffset'
      <4> DEFINE method == MethodFor(abi, pool, operation)
                 request == [operation |-> operation, method |-> method, locator |-> locator,
                             dto |-> dto, id |-> IdParam(method, pool, dto)]
                 nothing == [operation |-> operation, method |-> NoMethod]
      <4>1. \/ UNCHANGED submitted
            \/ submitted' = {nothing}
            \/ method # NoMethod /\ submitted' = {request}
        BY <3>2 DEF Operate, Submit
      <4>2. CASE submitted' = {nothing}
        BY <4>2 DEF IndexIsOffset
      <4>3. CASE method # NoMethod /\ submitted' = {request}
        <5>1. Maps(method, pool) /\ method \in ToSet(DynamicMethods[operation])
          BY <2>0, <3>2, <4>3, MethodIsThere
        <5> HIDE DEF method
        <5>2. IdParam(method, pool, dto) = Offset(pool, dto)
          BY <2>2, <3>1, <5>1, IdParamIsOffset
        <5> QED
          BY <4>3, <5>2 DEF IndexIsOffset, Offset
      <4> QED
        BY <2>1, <4>1, <4>2, <4>3
    <3>3. ASSUME NEW abi \in Interfaces(operation), Operate(locator, operation, dto, abi)
          PROVE  IndexIsOffset'
      BY <3>2, <3>3
    <3>4. ASSUME NEW support \in SupportAnswers, Operate(locator, operation, dto, AbiFor(support))
          PROVE  IndexIsOffset'
      BY <3>2, <3>4 DEF AbiFor, SupportAnswers
    <3> QED
      BY <2>2, <3>3, <3>4 DEF Handle
  <2>3. ASSUME NEW locator \in Active, Request(locator)
        PROVE  IndexIsOffset'
    BY <2>2, <2>3, RequestsFit
  <2>4. ASSUME NEW isFungible \in BOOLEAN, CreatePool(isFungible)
        PROVE  IndexIsOffset'
    BY <2>4 DEF CreatePool, Submit, IndexIsOffset
  <2>5. ASSUME NEW tx \in submitted, Mined(tx)
        PROVE  IndexIsOffset'
    BY <2>1, <2>5 DEF Mined
  <2>6. ASSUME ~\E isFungible \in BOOLEAN : CreatePool(isFungible),
               ~\E locator \in Active : Request(locator),
               ~\E tx \in submitted : Mined(tx)
        PROVE  IndexIsOffset'
    BY <2>1, <2>6 DEF Next, ActivatePool, BatchTransfer, Deliver, vars
  <2> QED
    BY <2>3, <2>4, <2>5, <2>6
<1>3. Aligned' <=> Aligned
  BY DEF Aligned
<1> QED
  BY <1>1, <1>2, <1>3, CallsInvariant, PoolsInvariant, PTL DEF Spec
-----------------------------------------------------------------------------
(* Confirmations *)

Creation(i) == chain[i].signature = "TokenPoolCreation"

\* The event i announces the pool of l, which has the block of that event or
\* none.
Announces(i, l) ==
  /\ Creation(i) /\ l.block \in {0, chain[i].block}
  /\ Announced(chain[i]) = UnpackPoolLocator(l)
  /\ CreatesPool(chain[i], UnpackPoolLocator(l))

\* A pool is created once.
CreatedOnce ==
  \A i, j \in DOMAIN chain :
    Creation(i) /\ Creation(j) /\ StartOf(chain[i]) = StartOf(chain[j]) => i = j

\* A locator is of an announced pool, unless the contract announces none.
Located ==
  \A l \in Active \cup Offered :
    IF kind = "oz" THEN l \in Ranged ELSE \E i \in DOMAIN chain : Announces(i, l)

RangesAnnounced ==
  kind # "oz" => \A l \in Ranged : \E i \in DOMAIN chain : Announces(i, l)

\* The messages that confirm a pool, and those of them that come of events
Confirmations(l) == {m \in told : m.event = "token-pool" /\ m.locator = l}
Heard(l) == Confirmations(l) \ {ActivateAnswer(l)}

\* An active pool is confirmed once its own creation is behind its
\* subscription, and not before, unless with its activation; always with that
\* if the contract announces none.
Confirmed ==
  /\ \A m \in told : m.event = "token-pool" => m.locator \in Active \cup {Base}
  /\ \A l \in Active :
       /\ PoolSub(l) \in DOMAIN cursor
       /\ IF kind = "oz" THEN Confirmations(l) = {ActivateAnswer(l)}
          ELSE \E i \in DOMAIN chain :
                 /\ Announces(i, l)
                 /\ Heard(l) = IF i <= cursor[PoolSub(l)]
                               THEN {PoolMessage(chain[i], l, l, {})} ELSE {}

CInv == CreatedOnce /\ Located /\ Confirmed

LEMMA RangesAreAnnounced ==
  ASSUME kind \in Kinds, Creations
  PROVE  RangesAnnounced
<1> SUFFICES ASSUME kind # "oz", NEW l \in Ranged
             PROVE  \E i \in DOMAIN chain : Announces(i, l)
  BY DEF RangesAnnounced
<1>1. PICK i \in DOMAIN chain : Creation(i) /\ l = PackPoolLocator(Announced(chain[i]), 0)
  BY DEF Ranged, Ranges, Creation
<1>2. UnpackPoolLocator(l) = Announced(chain[i]) /\ l.block = 0
  BY <1>1 DEF PackPoolLocator, UnpackPoolLocator
<1>3. CreatesPool(chain[i], Announced(chain[i]))
  BY <1>1, CreationNamesPool DEF Creation
<1> QED
  BY <1>1, <1>2, <1>3 DEF Announces

\* A subscription from a block on, or an earlier one, starts before the events
\* of the block.
LEMMA StartsBefore ==
  ASSUME Ordered, NEW i \in DOMAIN chain, NEW block \in {0, chain[i].block}
  PROVE  LET before == {j \in DOMAIN chain : chain[j].block < block}
         IN Cardinality(before) \in Nat /\ Cardinality(before) < i
<1> DEFINE before == {j \in DOMAIN chain : chain[j].block < block}
<1>1. Len(chain) \in Nat /\ DOMAIN chain = 1 .. Len(chain) /\ i \in Nat /\ i >= 1
  BY DEF Ordered, IsSeq
<1> DEFINE n == i - 1
<1>2. before \in SUBSET (1 .. n) /\ n \in Nat
  BY <1>1 DEF Ordered
<1> HIDE DEF n, before
<1>3. IsFiniteSet(1 .. n) /\ Cardinality(1 .. n) = n
  <2>1. IsFiniteSet(1 .. n)
    BY <1>2, FS_Interval
  <2>2. Cardinality(1 .. n) = IF 1 > n THEN 0 ELSE n - 1 + 1
    BY <1>2, FS_Interval
  <2> QED
    BY <1>2, <2>1, <2>2
<1>4. IsFiniteSet(before) /\ Cardinality(before) <= n
  BY <1>2, <1>3, FS_Subset
<1>5. Cardinality(before) \in Nat
  BY <1>4, FS_CardinalityType
<1> QED
  BY <1>1, <1>4, <1>5 DEF n, before

\* While nobody is told anything and no subscription moves, the chain may grow.
LEMMA ChainKeepsConfirmations ==
  ASSUME Ordered, CInv, DOMAIN chain \subseteq DOMAIN chain', \A i \in DOMAIN chain : chain'[i] = chain[i],
         UNCHANGED <<kind, told>>, Active' = Active, RangesAnnounced',
         \A l \in Active : PoolSub(l) \in DOMAIN cursor' /\ cursor'[PoolSub(l)] = cursor[PoolSub(l)]
  PROVE  Located' /\ Confirmed'
<1> USE DEF CInv
<1>1. /\ Offered' \subseteq Offered \cup Ranged'
      /\ kind = "oz" => Ranged' = Ranged
  <2>1. kind = "oz" => Ranges' = Ranges
    BY DEF Ranges
  <2>2. kind = "oz" => Ranged' = Ranged
    BY <2>1 DEF Ranged
  <2> QED
    BY <2>2 DEF Offered
<1>2. \A i \in DOMAIN chain : i \in DOMAIN chain' /\ \A l : Announces(i, l) => Announces(i, l)'
  BY DEF Announces, Creation
<1>3. Located'
  <2>1. CASE kind = "oz"
    <3>1. Offered' \subseteq Offered
      BY <1>1, <2>1 DEF Offered
    <3> QED
      BY <1>1, <2>1, <3>1 DEF Located
  <2>2. CASE kind # "oz"
    <3>1. ASSUME NEW l \in Active' \cup Offered'
          PROVE  \E i \in DOMAIN chain' : Announces(i, l)'
      <4>1. CASE l \in Ranged'
        BY <2>2, <4>1 DEF RangesAnnounced
      <4>2. CASE l \in Active \cup Offered
        BY <1>2, <2>2, <4>2 DEF Located
      <4> QED
        BY <1>1, <3>1, <4>1, <4>2
    <3> QED
      BY <2>2, <3>1 DEF Located
  <2> QED
    BY <2>1, <2>2
<1>4. ASSUME NEW l \in Active
      PROVE  /\ Confirmations(l)' = Confirmations(l) /\ ActivateAnswer(l)' = ActivateAnswer(l)
             /\ Heard(l)' = Heard(l)
  BY DEF Confirmations, ActivateAnswer, Heard
<1>5. Confirmed'
  <2>1. ASSUME NEW l \in Active'
        PROVE  IF kind' = "oz" THEN Confirmations(l)' = {ActivateAnswer(l)'}
               ELSE \E i \in DOMAIN chain' :
                      /\ Announces(i, l)'
                      /\ Heard(l)' = IF i <= cursor'[PoolSub(l)]
                                     THEN {PoolMessage(chain'[i], l, l, {})} ELSE {}
    <3>1. CASE kind = "oz"
      BY <1>4, <2>1, <3>1 DEF Confirmed
    <3>2. CASE kind # "oz"
      <4>1. PICK i \in DOMAIN chain :
               /\ Announces(i, l)
               /\ Heard(l) = IF i <= cursor[PoolSub(l)]
                             THEN {PoolMessage(chain[i], l, l, {})} ELSE {}
        BY <2>1, <3>2 DEF Confirmed
      <4>2. i \in DOMAIN chain' /\ chain'[i] = chain[i] /\ Announces(i, l)'
        BY <1>2, <4>1
      <4>3. Heard(l)' = IF i <= cursor'[PoolSub(l)]
                        THEN {PoolMessage(chain'[i], l, l, {})} ELSE {}
        BY <1>4, <2>1, <4>1, <4>2
      <4> QED
        BY <3>2, <4>2, <4>3
    <3> QED
      BY <3>1, <3>2
  <2>2. \A l \in Active' : PoolSub(l) \in DOMAIN cursor'
    BY DEF Confirmed
  <2>3. \A m \in told' : m.event = "token-pool" => m.locator \in Active' \cup {Base}
    BY DEF Confirmed
  <2> QED
    BY <2>1, <2>2, <2>3 DEF Confirmed, PoolSub
<1> QED
  BY <1>3, <1>5

\* Each creation is of a new type, and comes alone.
LEMMA MineKeepsCreations ==
  ASSUME kind \in Kinds, Ordered, Creations, CreatedOnce, NEW events, IsSeq(events), Mine(events),
         \A i \in DOMAIN events : LET e == events[i] IN
           /\ "signature" \in DOMAIN e
           /\ e.signature = "TokenPoolCreation" =>
                /\ DOMAIN events = {1}
                /\ \E type \in (DOMAIN maxIndex') \ DOMAIN maxIndex, isFungible \in BOOLEAN :
                     e = CreationEvent(type, isFungible)
  PROVE  CreatedOnce'
<1> DEFINE n == Len(chain)
<1>1. /\ n \in Nat /\ DOMAIN chain = 1 .. n
      /\ DOMAIN events = 1 .. Len(events) /\ Len(events) \in Nat
      /\ DOMAIN chain' = 1 .. n + Len(events)
      /\ \A i \in DOMAIN chain : chain'[i] = chain[i]
  BY MineAppends
<1>2. ASSUME NEW i \in DOMAIN chain', i \notin DOMAIN chain
      PROVE  i - n \in DOMAIN events /\ chain'[i] = Placed(events[i - n], Height + 1, i - n)
  <2>1. i - n \in DOMAIN events /\ n + (i - n) = i
    BY <1>1, <1>2
  <2>2. \A j \in DOMAIN events : chain'[n + j] = Placed(events[j], Height + 1, j)
    BY MineAppends
  <2> QED
    BY <2>1, <2>2
<1> HIDE DEF n
<1>3. ASSUME NEW i \in DOMAIN chain', i \notin DOMAIN chain, Creation(i)'
      PROVE  i - n = 1 /\ StartOf(chain'[i]) \notin DOMAIN maxIndex
  <2>1. i - n \in DOMAIN events /\ chain'[i] = Placed(events[i - n], Height + 1, i - n)
    BY <1>2, <1>3
  <2>2. events[i - n].signature = "TokenPoolCreation"
    BY <1>3, <2>1, PlacedFields DEF Creation
  <2>3. PICK type \in (DOMAIN maxIndex') \ DOMAIN maxIndex, isFungible \in BOOLEAN :
               events[i - n] = CreationEvent(type, isFungible)
    BY <2>1, <2>2
  <2>4. StartOf(Placed(CreationEvent(type, isFungible), Height + 1, i - n)) = type
    <3>1. CASE kind = "Old"
      BY <3>1 DEF CreationEvent, Placed, StartOf, IsOlder
    <3>2. CASE kind # "Old"
      BY <3>2 DEF CreationEvent, Placed, StartOf, IsOlder
    <3> QED
      BY <3>1, <3>2
  <2> QED
    BY <2>1, <2>2, <2>3, <2>4
<1>4. ASSUME NEW i \in DOMAIN chain, Creation(i)
      PROVE  StartOf(chain[i]) \in DOMAIN maxIndex
  BY <1>4, CreationNamesPool DEF Creation
<1>5. ASSUME NEW i \in DOMAIN chain', NEW j \in DOMAIN chain', Creation(i)', Creation(j)',
             StartOf(chain'[i]) = StartOf(chain'[j])
      PROVE  i = j
  <2>1. \A k \in DOMAIN chain : Creation(k)' => Creation(k)
    BY <1>1 DEF Creation
  <2>2. CASE i \in DOMAIN chain /\ j \in DOMAIN chain
    BY <1>1, <1>5, <2>1, <2>2 DEF CreatedOnce
  <2>3. CASE i \notin DOMAIN chain /\ j \notin DOMAIN chain
    BY <1>1, <1>3, <1>5, <2>3
  <2>4. CASE i \in DOMAIN chain /\ j \notin DOMAIN chain
    BY <1>1, <1>3, <1>4, <1>5, <2>1, <2>4
  <2>5. CASE i \notin DOMAIN chain /\ j \in DOMAIN chain
    BY <1>1, <1>3, <1>4, <1>5, <2>1, <2>5
  <2> QED
    BY <2>2, <2>3, <2>4, <2>5
<1> QED
  BY <1>5 DEF CreatedOnce

\* What an answer to activatePool is
LEMMA Answers ==
  ASSUME NEW l
  PROVE  LET m == ActivateAnswer(l)
         IN /\ m.event = "token-pool" /\ m.id = <<>> /\ m.info = UnpackPoolLocator(l)
            /\ m.locator = l /\ m.poolLocator = l /\ m.alternateLocators = {}
BY DEF ActivateAnswer

\* The answer is not one of the messages that come of events.
LEMMA AnswersDiffer ==
  ASSUME NEW l, NEW event
  PROVE  PoolMessage(event, l, l, {}) # ActivateAnswer(l)
<1>1. PoolMessage(event, l, l, {}).id = <<event.block, event.log>>
  BY DEF PoolMessage, EventId
<1>2. <<event.block, event.log>> # <<>>
  OBVIOUS
<1> QED
  BY <1>1, <1>2, Answers

LEMMA ActivatePoolKeepsConfirmations ==
  ASSUME Ordered, CInv, NEW locator \in Offered, ActivatePool(locator)
  PROVE  CInv'
<1> USE DEF CInv
<1> DEFINE subs == {PoolSub(locator), ApprovalSub(locator)} \cup TransferSubs(locator)
           answers == {ActivateAnswer(l) : l \in {locator} \cap Ranged}
<1>1. /\ Subscribe(subs)
      /\ locator # Base
      /\ told' = told \cup answers
      /\ UNCHANGED <<kind, maxIndex, chain, submitted>>
      /\ \A a \in Active : UnpackPoolLocator(a) # UnpackPoolLocator(locator)
  BY DEF ActivatePool
<1>0. /\ answers \subseteq {ActivateAnswer(locator)}
      /\ locator \in Ranged => answers = {ActivateAnswer(locator)}
  OBVIOUS
<1> HIDE DEF answers
<1>2. PoolSub(locator) \in subs
  OBVIOUS
<1>3. \A sub \in subs : sub.locator = locator
  BY DEF PoolSub, ApprovalSub, TransferSubs
<1> HIDE DEF subs
<1>4. /\ DOMAIN cursor' = DOMAIN cursor \cup subs
      /\ Active' = Active \cup {locator}
  <2>1. /\ DOMAIN cursor' = DOMAIN cursor \cup subs
        /\ \A l : l \in Active' <=> l \in Active \/ (l # Base /\ \E sub \in subs : sub.locator = l)
    BY <1>1, Subscribes
  <2> QED
    BY <1>1, <1>2, <1>3, <2>1
<1>5. CreatedOnce'
  BY <1>1 DEF CreatedOnce, Creation
<1>6. \A i, l : Announces(i, l) <=> Announces(i, l)'
  BY <1>1 DEF Announces, Creation
<1>7. Ranged' = Ranged /\ Offered' \subseteq Offered
  <2>1. Ranges' = Ranges
    BY <1>1 DEF Ranges
  <2>2. Ranged' = Ranged
    BY <2>1 DEF Ranged
  <2>3. \A m \in answers : m.poolLocator = locator /\ m.alternateLocators = {}
    BY <1>0, Answers
  <2> QED
    BY <1>1, <2>2, <2>3 DEF Offered
<1>8. Located'
  BY <1>1, <1>4, <1>6, <1>7 DEF Located
<1>9. locator \notin Active
  BY <1>1
<1>10. PoolSub(locator) \notin DOMAIN cursor
  BY <1>1, <1>9 DEF Active, PoolSub
<1>11. Confirmations(locator) = {}
  BY <1>1, <1>9 DEF Confirmations, Confirmed
<1>12. /\ Confirmations(locator)' = answers
       /\ Heard(locator)' = {}
  <2>1. \A m \in answers : m.event = "token-pool" /\ m.locator = locator
    BY <1>0, Answers
  <2>2. Confirmations(locator)' = answers
    BY <1>1, <1>11, <2>1 DEF Confirmations
  <2>3. ActivateAnswer(locator)' = ActivateAnswer(locator)
    BY DEF ActivateAnswer
  <2> QED
    BY <1>0, <2>2, <2>3 DEF Heard
<1>13. ASSUME NEW l \in Active
       PROVE  /\ Confirmations(l)' = Confirmations(l) /\ Heard(l)' = Heard(l)
              /\ cursor'[PoolSub(l)] = cursor[PoolSub(l)] /\ PoolSub(l) \in DOMAIN cursor'
              /\ ActivateAnswer(l)' = ActivateAnswer(l)
  <2>1. l # locator
    BY <1>9
  <2>2. Confirmations(l)' = Confirmations(l)
    BY <1>0, <1>1, <2>1, Answers DEF Confirmations
  <2>3. PoolSub(l) \in DOMAIN cursor
    BY DEF Confirmed
  <2>4. cursor'[PoolSub(l)] = cursor[PoolSub(l)]
    BY <1>1, <2>3 DEF Subscribe
  <2> QED
    BY <1>1, <1>4, <2>2, <2>3, <2>4 DEF ActivateAnswer, Heard
<1>14. ASSUME NEW i \in DOMAIN chain, Announces(i, locator)
       PROVE  cursor'[PoolSub(locator)] \in Nat /\ cursor'[PoolSub(locator)] < i
  <2>1. FromBlock(PoolSub(locator)) \in {0, chain[i].block}
    BY <1>1, <1>14 DEF FromBlock, PoolSub, Announces
  <2>2. cursor'[PoolSub(locator)] =
          Cardinality({j \in DOMAIN chain : chain[j].block < FromBlock(PoolSub(locator))})
    BY <1>1, <1>2, <1>10 DEF Subscribe
  <2> QED
    BY <2>1, <2>2, StartsBefore
<1>15. ASSUME NEW l \in Active'
       PROVE  /\ PoolSub(l)' \in DOMAIN cursor'
              /\ IF kind' = "oz" THEN Confirmations(l)' = {ActivateAnswer(l)'}
                 ELSE \E i \in DOMAIN chain' :
                        /\ Announces(i, l)'
                        /\ Heard(l)' = IF i <= cursor'[PoolSub(l)']
                                       THEN {PoolMessage(chain'[i], l, l, {})} ELSE {}
  <2>0. PoolSub(l)' = PoolSub(l)
    BY DEF PoolSub
  <2>1. CASE l \in Active /\ kind = "oz"
    BY <1>1, <1>13, <2>0, <2>1 DEF Confirmed
  <2>2. CASE l \in Active /\ kind # "oz"
    <3>1. PICK i \in DOMAIN chain :
             /\ Announces(i, l)
             /\ Heard(l) = IF i <= cursor[PoolSub(l)]
                           THEN {PoolMessage(chain[i], l, l, {})} ELSE {}
      BY <2>2 DEF Confirmed
    <3>2. i \in DOMAIN chain' /\ Announces(i, l)' /\ chain'[i] = chain[i]
      BY <1>1, <1>6, <3>1
    <3>3. Heard(l)' = IF i <= cursor'[PoolSub(l)]
                      THEN {PoolMessage(chain'[i], l, l, {})} ELSE {}
      BY <1>13, <2>2, <3>1, <3>2
    <3> QED
      BY <1>1, <1>13, <2>0, <2>2, <3>2, <3>3
  <2>3. CASE l = locator /\ kind = "oz"
    <3>1. ActivateAnswer(l)' = ActivateAnswer(l)
      BY <1>1 DEF ActivateAnswer
    <3>2. answers = {ActivateAnswer(l)}
      BY <1>0, <2>3 DEF Located
    <3> QED
      BY <1>1, <1>2, <1>4, <1>12, <2>0, <2>3, <3>1, <3>2
  <2>4. CASE l = locator /\ kind # "oz"
    <3>1. PICK i \in DOMAIN chain : Announces(i, l)
      BY <2>4 DEF Located
    <3>2. i \in DOMAIN chain' /\ Announces(i, l)' /\ i \in Nat
      BY <1>1, <1>6, <3>1 DEF Ordered, IsSeq
    <3>3. ~(i <= cursor'[PoolSub(l)])
      BY <1>14, <2>4, <3>1, <3>2
    <3>4. Heard(l)' = {}
      BY <1>12, <2>4
    <3> QED
      BY <1>1, <1>2, <1>4, <2>0, <2>4, <3>2, <3>3, <3>4
  <2> QED
    BY <1>4, <2>1, <2>2, <2>3, <2>4
<1>16. \A m \in told' : m.event = "token-pool" => m.locator \in Active' \cup {Base}
  BY <1>0, <1>1, <1>4, Answers DEF Confirmed
<1>17. Confirmed'
  BY <1>15, <1>16 DEF Confirmed
<1> QED
  BY <1>5, <1>8, <1>17

LEMMA DeliverKeepsConfirmations ==
  ASSUME kind \in Kinds, Ordered, Subscribed, Creations, CInv, NEW locator, Deliver(locator)
  PROVE  CInv'
<1> USE DEF CInv
<1>1. PICK sub \in DOMAIN cursor, j \in DOMAIN chain :
           /\ sub = [locator |-> locator, signature |-> chain[j].signature]
           /\ j > cursor[sub]
           /\ \A k \in Outstanding(sub) : j <= k
           /\ cursor' = [cursor EXCEPT ![sub] = j]
           /\ told' = told \cup OnEvent(locator, chain[j])
  BY Delivers
<1>2. UNCHANGED <<kind, maxIndex, chain, submitted>> /\ Active' = Active /\ DOMAIN cursor' = DOMAIN cursor
  BY <1>1 DEF Deliver, Active
<1>3. locator # Base => locator \in Active
  BY <1>1 DEF Active
<1>4. \A m \in OnEvent(locator, chain[j]) : m.locator = locator
  BY OnEventApprovals
<1>5. CreatedOnce'
  BY <1>2 DEF CreatedOnce, Creation
<1>6. \A i, l : Announces(i, l) <=> Announces(i, l)'
  BY <1>2 DEF Announces, Creation
<1>7. ASSUME NEW m \in OnEvent(locator, chain[j]), m.event = "token-pool", kind # "oz",
             NEW l \in {m.poolLocator} \cup m.alternateLocators
      PROVE  \E i \in DOMAIN chain : Announces(i, l)
  <2>1. Creation(j) /\ m \in TransformTokenPoolCreationEvent(locator, chain[j])
    BY <1>7, PoolMessages DEF Creation
  <2>2. CASE locator = Base
    <3>1. UnpackPoolLocator(l) = Announced(chain[j]) /\ l.block = chain[j].block
      BY <1>7, <2>2, BaseTellsOfPools
    <3>2. CreatesPool(chain[j], Announced(chain[j]))
      BY <2>1, CreationNamesPool DEF Creation
    <3> QED
      BY <2>1, <3>1, <3>2 DEF Announces
  <2>3. CASE locator # Base
    <3>1. m.poolLocator = locator /\ m.alternateLocators = {}
      BY <2>1, <2>3 DEF TransformTokenPoolCreationEvent, PoolMessage
    <3>2. l = locator
      BY <3>1
    <3> QED
      BY <1>3, <1>7, <2>3, <3>2 DEF Located
  <2> QED
    BY <2>2, <2>3
<1>8. Located'
  <2>0. Ranged' = Ranged
    <3>1. Ranges' = Ranges
      BY <1>2 DEF Ranges
    <3> QED
      BY <3>1 DEF Ranged
  <2>1. CASE kind = "oz"
    <3>1. ~Creation(j)
      BY <2>1 DEF Creations, Creation
    <3>2. \A m \in OnEvent(locator, chain[j]) : m.event # "token-pool"
      BY <3>1, PoolMessages DEF Creation
    <3>3. Offered' = Offered
      BY <1>1, <2>0, <3>2 DEF Offered
    <3> QED
      BY <1>2, <2>0, <2>1, <3>3 DEF Located
  <2>2. CASE kind # "oz"
    <3>1. ASSUME NEW l \in Active' \cup Offered'
          PROVE  \E i \in DOMAIN chain' : Announces(i, l)'
      <4>1. CASE l \in Active \cup Offered
        BY <1>2, <1>6, <2>2, <4>1 DEF Located
      <4>2. CASE l \notin Active \cup Offered
        <5>1. PICK m \in told' : m.event = "token-pool" /\ l \in {m.poolLocator} \cup m.alternateLocators
          BY <1>2, <2>0, <3>1, <4>2 DEF Offered
        <5>2. m \notin told
          BY <4>2, <5>1 DEF Offered
        <5> QED
          BY <1>1, <1>2, <1>6, <1>7, <2>2, <5>1, <5>2
      <4> QED
        BY <4>1, <4>2
    <3> QED
      BY <1>2, <2>2, <3>1 DEF Located
  <2> QED
    BY <2>1, <2>2
<1>9. \A m \in told' : m.event = "token-pool" => m.locator \in Active' \cup {Base}
  BY <1>1, <1>2, <1>3, <1>4 DEF Confirmed
<1>10. /\ cursor'[sub] = j
       /\ \A s \in DOMAIN cursor \ {sub} : cursor'[s] = cursor[s]
  BY <1>1
\* Nothing changes for a pool whose creations are not at stake.
<1>11. ASSUME NEW l \in Active, l # locator \/ ~Creation(j)
       PROVE  /\ Confirmations(l)' = Confirmations(l) /\ Heard(l)' = Heard(l)
              /\ cursor'[PoolSub(l)] = cursor[PoolSub(l)]
  <2>1. \A m \in OnEvent(locator, chain[j]) : ~(m.event = "token-pool" /\ m.locator = l)
    BY <1>4, <1>11, PoolMessages DEF Creation
  <2>2. Confirmations(l)' = Confirmations(l)
    BY <1>1, <2>1 DEF Confirmations
  <2>3. PoolSub(l) # sub
    BY <1>1, <1>11 DEF PoolSub, Creation
  <2>4. Heard(l)' = Heard(l)
    BY <2>2 DEF Heard, ActivateAnswer
  <2> QED
    BY <1>10, <2>2, <2>3, <2>4 DEF Confirmed
<1>12. ASSUME Creation(j), locator \in Active, NEW i \in DOMAIN chain, Announces(i, locator),
              Heard(locator) = IF i <= cursor[PoolSub(locator)]
                               THEN {PoolMessage(chain[i], locator, locator, {})} ELSE {}
       PROVE  Heard(locator)' = IF i <= cursor'[PoolSub(locator)]
                                THEN {PoolMessage(chain[i], locator, locator, {})} ELSE {}
  <2>1. sub = PoolSub(locator) /\ locator # Base
    BY <1>1, <1>12 DEF PoolSub, Creation, Active
  <2>2. cursor'[PoolSub(locator)] = j /\ j > cursor[PoolSub(locator)]
    BY <1>1, <1>10, <2>1
  <2>3. i \in Nat /\ j \in Nat /\ cursor[PoolSub(locator)] \in Nat
    BY <2>1 DEF Ordered, IsSeq, Subscribed
  <2>4. CreatesPool(chain[j], UnpackPoolLocator(locator)) <=> i = j
    <3>1. CreatesPool(chain[i], UnpackPoolLocator(locator)) /\ Creation(i)
      BY <1>12 DEF Announces
    <3>2. ASSUME CreatesPool(chain[j], UnpackPoolLocator(locator))
          PROVE  i = j
      <4>1. StartOf(chain[i]) = StartOf(chain[j])
        BY <1>12, <3>1, <3>2, CreationNamesPool DEF Creation
      <4> QED
        BY <1>12, <3>1, <4>1 DEF CreatedOnce
    <3> QED
      BY <3>1, <3>2
  <2>5. OnEvent(locator, chain[j]) = TransformTokenPoolCreationEvent(locator, chain[j])
    BY <1>12, Zenon DEF OnEvent, Creation
  <2>6. OnEvent(locator, chain[j]) = IF i = j THEN {PoolMessage(chain[j], locator, locator, {})} ELSE {}
    BY <2>1, <2>4, <2>5 DEF TransformTokenPoolCreationEvent
  <2>7. \A m \in OnEvent(locator, chain[j]) : m.event = "token-pool" /\ m.locator = locator
    BY <1>4, <1>12, PoolMessages DEF Creation
  <2>8. Heard(locator)' = Heard(locator) \cup OnEvent(locator, chain[j])
    <3>1. Confirmations(locator)' = Confirmations(locator) \cup OnEvent(locator, chain[j])
      BY <1>1, <2>7 DEF Confirmations
    <3>2. ActivateAnswer(locator)' = ActivateAnswer(locator)
      BY DEF ActivateAnswer
    <3>3. ActivateAnswer(locator) \notin OnEvent(locator, chain[j])
      BY <2>6, AnswersDiffer
    <3> QED
      BY <3>1, <3>2, <3>3 DEF Heard
  <2>9. CASE i = j
    BY <1>12, <2>2, <2>3, <2>6, <2>8, <2>9
  <2>10. CASE i # j
    <3>1. Heard(locator)' = Heard(locator)
      BY <2>6, <2>8, <2>10
    <3>2. i <= cursor[PoolSub(locator)] => i <= j
      BY <2>2, <2>3
    <3>3. ~(i <= cursor[PoolSub(locator)]) => ~(i <= j)
      <4>1. SUFFICES ASSUME ~(i <= cursor[PoolSub(locator)]) PROVE ~(i <= j)
        OBVIOUS
      <4>2. i \in Outstanding(sub)
        BY <1>12, <2>1, <2>3, <4>1 DEF Outstanding, Announces, Creation, PoolSub
      <4> QED
        BY <1>1, <2>3, <2>10, <4>2
    <3> QED
      BY <1>12, <2>2, <3>1, <3>2, <3>3
  <2> QED
    BY <2>9, <2>10
<1>13. ASSUME NEW l \in Active'
       PROVE  /\ PoolSub(l)' \in DOMAIN cursor'
              /\ IF kind' = "oz" THEN Confirmations(l)' = {ActivateAnswer(l)'}
                 ELSE \E i \in DOMAIN chain' :
                        /\ Announces(i, l)'
                        /\ Heard(l)' = IF i <= cursor'[PoolSub(l)']
                                       THEN {PoolMessage(chain'[i], l, l, {})} ELSE {}
  <2>0. PoolSub(l)' = PoolSub(l) /\ ActivateAnswer(l)' = ActivateAnswer(l) /\ l \in Active
    BY <1>2 DEF PoolSub, ActivateAnswer
  <2>1. CASE kind = "oz"
    <3>1. ~Creation(j)
      BY <2>1 DEF Creations, Creation
    <3> QED
      BY <1>2, <1>11, <2>0, <2>1, <3>1 DEF Confirmed
  <2>2. CASE kind # "oz"
    <3>1. PICK i \in DOMAIN chain :
             /\ Announces(i, l)
             /\ Heard(l) = IF i <= cursor[PoolSub(l)]
                           THEN {PoolMessage(chain[i], l, l, {})} ELSE {}
      BY <2>0, <2>2 DEF Confirmed
    <3>2. i \in DOMAIN chain' /\ Announces(i, l)' /\ chain'[i] = chain[i]
      BY <1>2, <1>6, <3>1
    <3>3. Heard(l)' = IF i <= cursor'[PoolSub(l)]
                      THEN {PoolMessage(chain[i], l, l, {})} ELSE {}
      <4>1. CASE l # locator \/ ~Creation(j)
        BY <1>11, <2>0, <3>1, <4>1
      <4>2. CASE l = locator /\ Creation(j)
        BY <1>12, <2>0, <3>1, <4>2
      <4> QED
        BY <4>1, <4>2
    <3>4. PoolSub(l) \in DOMAIN cursor
      BY <2>0 DEF Confirmed
    <3> QED
      BY <1>2, <2>0, <2>2, <3>2, <3>3, <3>4
  <2> QED
    BY <2>1, <2>2
<1>14. Confirmed'
  BY <1>9, <1>13 DEF Confirmed
<1> QED
  BY <1>5, <1>8, <1>14

LEMMA ConfirmationsInvariant == Spec => []CInv
<1>1. Init => CInv
  <2> SUFFICES ASSUME Init PROVE CInv
    OBVIOUS
  <2>1. DOMAIN chain = {} /\ Active = {} /\ Offered = Ranged
    BY DEF Init, Active, Offered
  <2>2. kind # "oz" => Ranges = {}
    BY <2>1 DEF Ranges
  <2>3. kind # "oz" => Ranged = {}
    BY <2>2 DEF Ranged
  <2> QED
    BY <2>1, <2>3 DEF Init, CInv, CreatedOnce, Located, Confirmed
<1>2. Callable /\ BInv => RangesAnnounced
  BY RangesAreAnnounced DEF Callable, BInv
<1>3. Callable /\ AInv /\ AInv' /\ BInv /\ RangesAnnounced' /\ CInv /\ [Next]_vars => CInv'
  <2> SUFFICES ASSUME Callable, AInv, AInv', BInv, RangesAnnounced', CInv, [Next]_vars
               PROVE  CInv'
    OBVIOUS
  <2> USE DEF AInv, BInv, Callable
  \* The chain is as it was: nothing is created.
  <2>1. ASSUME UNCHANGED <<kind, chain, told>>, Active' = Active, DOMAIN cursor \subseteq DOMAIN cursor',
               \A l \in Active : cursor'[PoolSub(l)] = cursor[PoolSub(l)]
        PROVE  CInv'
    <3>1. \A l \in Active : PoolSub(l) \in DOMAIN cursor'
      BY <2>1 DEF CInv, Confirmed
    <3>2. Located' /\ Confirmed'
      BY <2>1, <3>1, ChainKeepsConfirmations
    <3>3. CreatedOnce'
      BY <2>1 DEF CInv, CreatedOnce, Creation
    <3> QED
      BY <3>2, <3>3 DEF CInv
  <2>2. ASSUME NEW isFungible \in BOOLEAN, CreatePool(isFungible)
        PROVE  CInv'
    <3> DEFINE subs == {PoolSub(Base)}
    <3>1. Subscribe(subs) /\ UNCHANGED <<kind, chain, told>>
      BY <2>2 DEF CreatePool
    <3>2. \A sub \in subs : sub.locator = Base
      BY DEF PoolSub
    <3> HIDE DEF subs
    <3>3. Active' = Active /\ DOMAIN cursor' = DOMAIN cursor \cup subs
      BY <3>1, <3>2, Subscribes
    <3>4. \A l \in Active : cursor'[PoolSub(l)] = cursor[PoolSub(l)]
      BY <3>1 DEF Subscribe, CInv, Confirmed
    <3> QED
      BY <2>1, <3>1, <3>3, <3>4
  <2>3. ASSUME NEW locator \in Offered, ActivatePool(locator)
        PROVE  CInv'
    BY <2>3, ActivatePoolKeepsConfirmations
  <2>4. ASSUME NEW locator \in Active, Request(locator)
        PROVE  CInv'
    <3>1. UNCHANGED <<kind, chain, cursor, told>>
      BY <2>4 DEF Request, Handle
    <3> QED
      BY <2>1, <3>1 DEF Active
  <2>5. ASSUME NEW events, IsSeq(events), Mine(events), UNCHANGED <<kind, cursor, told>>,
               \A i \in DOMAIN events : LET e == events[i] IN
                 /\ "signature" \in DOMAIN e
                 /\ e.signature = "TokenPoolCreation" =>
                      /\ DOMAIN events = {1}
                      /\ \E type \in (DOMAIN maxIndex') \ DOMAIN maxIndex, isFungible \in BOOLEAN :
                           e = CreationEvent(type, isFungible)
        PROVE  CInv'
    <3>1. CreatedOnce'
      BY <2>5, MineKeepsCreations DEF CInv
    <3>2. DOMAIN chain \subseteq DOMAIN chain' /\ \A i \in DOMAIN chain : chain'[i] = chain[i]
      BY <2>5, MineAppends
    <3>3. Located' /\ Confirmed'
      BY <2>5, <3>2, ChainKeepsConfirmations DEF CInv, Confirmed, Active
    <3> QED
      BY <3>1, <3>3 DEF CInv
  <2>6. ASSUME NEW tx \in submitted, Mined(tx)
        PROVE  CInv'
    <3>1. /\ IsSeq(Emitted(tx)) /\ Mine(Emitted(tx))
          /\ \A i \in DOMAIN Emitted(tx) : "signature" \in DOMAIN Emitted(tx)[i]
          /\ UNCHANGED <<kind, cursor, told>>
      BY <2>6, EmittedEvents DEF Amounts, Mined
    <3>2. \A i \in DOMAIN Emitted(tx) : Emitted(tx)[i].signature = "TokenPoolCreation" =>
            /\ tx.operation = "create"
            /\ Emitted(tx)[i] = CreationEvent(NextType(tx.isFungible), tx.isFungible)
      BY EmittedKinds
    <3>3. ASSUME tx.operation = "create"
          PROVE  /\ DOMAIN Emitted(tx) = {1} /\ tx.isFungible \in BOOLEAN
                 /\ NextType(tx.isFungible) \in (DOMAIN maxIndex') \ DOMAIN maxIndex
      <4>1. DOMAIN Emitted(tx) = {1} /\ tx.isFungible \in BOOLEAN
        BY <3>3, EmittedKinds
      <4>2. NextType(tx.isFungible) \notin DOMAIN maxIndex
        BY <4>1, NextTypeIsNew DEF Numbered
      <4>3. DOMAIN maxIndex' = DOMAIN maxIndex \cup {NextType(tx.isFungible)}
        BY <2>6, <3>3 DEF Mined
      <4> QED
        BY <4>1, <4>2, <4>3
    <3> QED
      BY <2>5, <3>1, <3>2, <3>3
  <2>7. ASSUME NEW from, NEW to, NEW ids, BatchTransfer(from, to, ids)
        PROVE  CInv'
    <3> DEFINE event == [signature |-> "TransferBatch", from |-> from, to |-> to, ids |-> ids,
                         values |-> [i \in DOMAIN ids |-> 1]]
    <3>1. event.signature = "TransferBatch" /\ "signature" \in DOMAIN event
      OBVIOUS
    <3>2. Mine(<<event>>) /\ UNCHANGED <<kind, cursor, told>>
      BY <2>7 DEF BatchTransfer
    <3> HIDE DEF event
    <3>3. DOMAIN <<event>> = {1} /\ <<event>>[1] = event
      OBVIOUS
    <3>4. IsSeq(<<event>>)
      <4>1. <<event>> \in Seq({event})
        OBVIOUS
      <4> QED
        BY <4>1, SeqIsSeq
    <3> DEFINE events == <<event>>
    <3>5. \A i \in DOMAIN events : events[i].signature = "TransferBatch" /\ "signature" \in DOMAIN events[i]
      BY <3>1, <3>3
    <3>6. IsSeq(events) /\ Mine(events)
      BY <3>2, <3>4
    <3> HIDE DEF events
    <3> QED
      BY <2>5, <3>2, <3>5, <3>6
  <2>8. ASSUME NEW locator, Deliver(locator)
        PROVE  CInv'
    BY <2>8, DeliverKeepsConfirmations
  <2>9. CASE UNCHANGED vars
    <3>1. UNCHANGED <<kind, chain, cursor, told>>
      BY <2>9 DEF vars
    <3> QED
      BY <2>1, <3>1 DEF Active
  <2> QED
    BY <2>2, <2>3, <2>4, <2>6, <2>7, <2>8, <2>9 DEF Next
<1> QED
  BY <1>1, <1>2, <1>3, CallsInvariant, ApprovalsInvariant, PoolsInvariant, PTL DEF Spec

\* An active pool is confirmed with its range: by the event of its own creation
\* once that is behind its subscription, by no other event, and by the answer, if
\* the contract announces no pools.
THEOREM PoolsAreConfirmed == Spec => []PoolConfirmed
<1>1. Callable /\ AInv /\ BInv /\ CInv => PoolConfirmed
  <2> SUFFICES ASSUME Callable, AInv, BInv, CInv,
                      NEW locator \in Active, CaughtUp({PoolSub(locator)})
               PROVE  LET pool == UnpackPoolLocator(locator)
                          Made == {i \in DOMAIN chain : /\ chain[i].signature = "TokenPoolCreation"
                                                        /\ Announced(chain[i]) = pool}
                      IN /\ Confirmations(locator) # {}
                         /\ \A m \in Confirmations(locator) : m.info = pool
                         /\ {m.id : m \in Confirmations(locator)} \ {<<>>}
                              = {EventId(chain[i]) : i \in Made}
    BY DEF PoolConfirmed, Confirmations
  <2> USE DEF Callable, AInv, BInv, CInv
  <2> DEFINE pool == UnpackPoolLocator(locator)
             Made == {i \in DOMAIN chain : /\ chain[i].signature = "TokenPoolCreation"
                                           /\ Announced(chain[i]) = pool}
  <2> SUFFICES /\ Confirmations(locator) # {}
               /\ \A m \in Confirmations(locator) : m.info = pool
               /\ {m.id : m \in Confirmations(locator)} \ {<<>>} = {EventId(chain[i]) : i \in Made}
    OBVIOUS
  <2>0. ActivateAnswer(locator).id = <<>> /\ ActivateAnswer(locator).info = pool
    BY Answers
  <2>1. CASE kind = "oz"
    <3>1. Confirmations(locator) = {ActivateAnswer(locator)}
      BY <2>1 DEF Confirmed
    <3>2. Made = {}
      BY <2>1 DEF Creations
    <3> HIDE DEF Made, pool
    <3>3. {m.id : m \in Confirmations(locator)} \ {<<>>} = {}
      BY <2>0, <3>1
    <3>4. {EventId(chain[i]) : i \in Made} = {}
      BY <3>2
    <3> QED
      BY <2>0, <3>1, <3>3, <3>4
  <2>2. CASE kind # "oz"
    <3>1. PICK i \in DOMAIN chain :
             /\ Announces(i, locator)
             /\ Heard(locator) = IF i <= cursor[PoolSub(locator)]
                                 THEN {PoolMessage(chain[i], locator, locator, {})} ELSE {}
      BY <2>2 DEF Confirmed
    <3>2. i <= cursor[PoolSub(locator)]
      <4>1. i \in Nat /\ PoolSub(locator) \in DOMAIN cursor /\ cursor[PoolSub(locator)] \in Nat
        BY DEF Ordered, IsSeq, Confirmed, Subscribed
      <4>2. i \notin Outstanding(PoolSub(locator))
        BY DEF CaughtUp
      <4> QED
        BY <3>1, <4>1, <4>2 DEF Outstanding, Announces, Creation, PoolSub
    <3> DEFINE message == PoolMessage(chain[i], locator, locator, {})
    <3>3. Heard(locator) = {message}
      BY <3>1, <3>2
    <3>4. message.id = EventId(chain[i]) /\ message.info = pool /\ EventId(chain[i]) # <<>>
      BY DEF PoolMessage, EventId
    <3>5. Made = {i}
      <4>1. i \in Made
        BY <3>1 DEF Announces, Creation
      <4>2. ASSUME NEW j \in Made
            PROVE  j = i
        <5>1. Creation(i) /\ Creation(j) /\ Announced(chain[j]) = Announced(chain[i])
          BY <3>1, <4>2 DEF Announces, Creation
        <5>2. /\ StartOf(chain[i]) = Announced(chain[i]).startId
              /\ StartOf(chain[j]) = Announced(chain[j]).startId
          BY <5>1, <4>2, CreationNamesPool DEF Creation
        <5> QED
          BY <4>2, <5>1, <5>2 DEF CreatedOnce
      <4> QED
        BY <4>1, <4>2
    <3> HIDE DEF message, Made, pool
    <3>6. message \in Confirmations(locator)
          /\ Confirmations(locator) \subseteq {message, ActivateAnswer(locator)}
      BY <3>3 DEF Heard
    <3>7. {m.id : m \in Confirmations(locator)} \ {<<>>} = {EventId(chain[i])}
      BY <2>0, <3>4, <3>6
    <3>8. {EventId(chain[j]) : j \in Made} = {EventId(chain[i])}
      BY <3>5
    <3> QED
      BY <2>0, <3>4, <3>6, <3>7, <3>8
  <2> QED
    BY <2>1, <2>2
<1> QED
  BY <1>1, CallsInvariant, ApprovalsInvariant, PoolsInvariant, ConfirmationsInvariant, PTL

-----------------------------------------------------------------------------
(***************************************************************************)
(* What FireFly is told adds up to what the contract holds: every movement *)
(* of a token of an active pool is told, by one message.                   *)
(***************************************************************************)

\* The movements that wait, and have a method, move something, a mint two
\* tokens at most; and only a mint lets the contract choose the index.
Amounted ==
  \A tx \in submitted :
    /\ tx.operation \in Operations \cup {"create"}
    /\ tx.operation \in {"burn", "mint", "transfer"} /\ tx.method # NoMethod =>
         tx.dto.amount \in 1 .. 2
    /\ tx.method \in AutoIndexed => tx.operation = "mint"

\* The pool of a mint was created, and with as many ids as indexes if the
\* contract chooses one.
MintsInPools ==
  \A tx \in submitted : kind # "oz" /\ tx.operation = "mint" /\ tx.method # NoMethod =>
    \E c \in DOMAIN chain :
      /\ Creation(c) /\ Announced(chain[c]).startId = tx.id
      /\ tx.method \in AutoIndexed => ~Announced(chain[c]).isFungible

\* There is an index for the tokens of every mint to come.
Room == \A t \in DOMAIN maxIndex : maxIndex[t] \in Nat /\ maxIndex[t] + 2 <= 2 * Height

\* A batch is finite, and amounts are naturals.
Amounting(event) ==
  /\ event.signature = "TransferSingle" => event.value \in Nat
  /\ event.signature = "TransferBatch" =>
       IsFiniteSet(DOMAIN event.ids) /\ \A j \in DOMAIN event.ids : event.values[j] \in Nat

MovesAmount == \A i \in DOMAIN chain : Amounting(chain[i])

\* The tokens that an event moves
IdsOf(event) ==
  IF event.signature = "TransferSingle" THEN {event.id}
  ELSE IF event.signature = "TransferBatch" THEN {event.ids[j] : j \in DOMAIN event.ids}
  ELSE {}

\* The id is of a pool that was created before the block.
CreatedBefore(id, block) ==
  \E c \in DOMAIN chain : /\ Creation(c) /\ chain[c].block < block
                          /\ PoolContainsId(Announced(chain[c]), id)

\* Tokens move in the pools that the contract created, after the creation.
MovesInPools ==
  kind # "oz" => \A i \in DOMAIN chain :
    \A id \in IdsOf(chain[i]) : CreatedBefore(id, chain[i].block)

\* An active pool hears of transfers,
TransfersSubscribed == \A l \in Active : TransferSubs(l) \subseteq DOMAIN cursor

\* and was told of those behind its subscriptions.
Transfers == {"TransferSingle", "TransferBatch"}

TransfersTold ==
  \A sub \in DOMAIN cursor : sub.signature \in Transfers =>
    \A i \in DOMAIN chain : chain[i].signature = sub.signature /\ i <= cursor[sub] =>
      OnEvent(sub.locator, chain[i]) \subseteq told

DInv == /\ Amounted /\ MintsInPools /\ Room
        /\ MovesAmount /\ MovesInPools
        /\ TransfersSubscribed /\ TransfersTold

\* The movements of an event
LEMMA MovesOf ==
  ASSUME NEW event
  PROVE  /\ event.signature = "TransferSingle" =>
              DOMAIN Moves(event) = {1} /\ Moves(event)[1] = event
         /\ event.signature = "TransferBatch" =>
              /\ DOMAIN Moves(event) = DOMAIN event.ids
              /\ \A j \in DOMAIN event.ids : Moves(event)[j] = BatchMove(event, j)
         /\ event.signature \notin Transfers => DOMAIN Moves(event) = {}
<1>1. ASSUME event.signature = "TransferSingle"
      PROVE  DOMAIN Moves(event) = {1} /\ Moves(event)[1] = event
  <2>1. Moves(event) = <<event>>
    BY <1>1 DEF Moves
  <2>2. DOMAIN <<event>> = {1} /\ <<event>>[1] = event
    OBVIOUS
  <2> QED
    BY <2>1, <2>2
<1>2. ASSUME event.signature = "TransferBatch"
      PROVE  /\ DOMAIN Moves(event) = DOMAIN event.ids
             /\ \A j \in DOMAIN event.ids : Moves(event)[j] = BatchMove(event, j)
  <2>1. Moves(event) = [k \in DOMAIN event.ids |-> BatchMove(event, k)]
    BY <1>2 DEF Moves
  <2> QED
    BY <2>1
<1>3. ASSUME event.signature \notin Transfers
      PROVE  DOMAIN Moves(event) = {}
  <2>1. Moves(event) = <<>>
    BY <1>3 DEF Moves, Transfers
  <2>2. DOMAIN <<>> = {}
    OBVIOUS
  <2> QED
    BY <2>1, <2>2
<1> QED
  BY <1>1, <1>2, <1>3

\* A movement is of a token of its event.
LEMMA MovementFields ==
  ASSUME NEW i \in DOMAIN chain, NEW j \in DOMAIN Moves(chain[i])
  PROVE  /\ chain[i].signature \in Transfers
         /\ Movement(i, j).id \in IdsOf(chain[i])
         /\ Amounting(chain[i]) => Movement(i, j).amount \in Nat
<1> DEFINE event == chain[i]
<1>1. event.signature \in Transfers
  BY MovesOf
<1>2. /\ Movement(i, j).id = Moves(event)[j].id
      /\ Movement(i, j).amount = Moves(event)[j].value
  BY DEF Movement
<1>3. CASE event.signature = "TransferSingle"
  BY <1>1, <1>2, <1>3, MovesOf DEF IdsOf, Amounting
<1>4. CASE event.signature = "TransferBatch"
  <2>1. j \in DOMAIN event.ids /\ Moves(event)[j] = BatchMove(event, j)
    BY <1>4, MovesOf
  <2>2. BatchMove(event, j).id = event.ids[j] /\ BatchMove(event, j).value = event.values[j]
    BY DEF BatchMove
  <2> QED
    BY <1>1, <1>2, <1>4, <2>1, <2>2 DEF IdsOf, Amounting
<1> QED
  BY <1>1, <1>3, <1>4 DEF Transfers

\* The contract's steps move tokens in pools that it created.
LEMMA MineKeepsMoves ==
  ASSUME Ordered, Ordered', Subscribed, MovesAmount, MovesInPools, TransfersTold,
         NEW events, IsSeq(events), Mine(events), UNCHANGED <<kind, cursor, told>>,
         \A i \in DOMAIN events : LET e == events[i] IN
           /\ "signature" \in DOMAIN e
           /\ e.signature = "TransferSingle" => {"id", "value"} \subseteq DOMAIN e
           /\ e.signature = "TransferBatch" => {"ids", "values"} \subseteq DOMAIN e
           /\ Amounting(e)
           /\ kind # "oz" => \A id \in IdsOf(e) : CreatedBefore(id, Height + 1)
  PROVE  MovesAmount' /\ MovesInPools' /\ TransfersTold'
<1> DEFINE n == Len(chain)
<1>1. /\ n \in Nat /\ DOMAIN chain = 1 .. n
      /\ DOMAIN events = 1 .. Len(events) /\ Len(events) \in Nat
      /\ DOMAIN chain' = 1 .. n + Len(events)
      /\ \A i \in DOMAIN chain : chain'[i] = chain[i]
      /\ \A j \in DOMAIN events : chain'[n + j] = Placed(events[j], Height + 1, j)
  BY MineAppends
<1> HIDE DEF n
<1>2. ASSUME NEW i \in DOMAIN chain', i \notin DOMAIN chain
      PROVE  \E e \in {events[j] : j \in DOMAIN events} :
               /\ chain'[i].block = Height + 1
               /\ chain'[i].signature = e.signature
               /\ e.signature = "TransferSingle" => chain'[i].id = e.id /\ chain'[i].value = e.value
               /\ e.signature = "TransferBatch" => chain'[i].ids = e.ids /\ chain'[i].values = e.values
               /\ Amounting(e)
               /\ kind # "oz" => \A id \in IdsOf(e) : CreatedBefore(id, Height + 1)
  <2>1. i - n \in DOMAIN events /\ n + (i - n) = i
    BY <1>1, <1>2
  <2>2. PICK j \in DOMAIN events : chain'[i] = Placed(events[j], Height + 1, j)
    BY <1>1, <2>1
  <2> QED
    BY <2>2, PlacedFields
<1>3. MovesAmount'
  <2>1. ASSUME NEW i \in DOMAIN chain'
        PROVE  Amounting(chain'[i])
    <3>1. CASE i \in DOMAIN chain
      BY <1>1, <3>1 DEF MovesAmount
    <3>2. CASE i \notin DOMAIN chain
      BY <1>2, <3>2 DEF Amounting
    <3> QED
      BY <3>1, <3>2
  <2> QED
    BY <2>1 DEF MovesAmount, Amounting
<1>4. ASSUME kind # "oz", NEW i \in DOMAIN chain', NEW id \in IdsOf(chain'[i])
      PROVE  \E c \in DOMAIN chain : /\ chain[c].signature = "TokenPoolCreation"
                                     /\ chain[c].block < chain'[i].block
                                     /\ PoolContainsId(Announced(chain[c]), id)
  <2>1. CASE i \in DOMAIN chain
    BY <1>1, <1>4, <2>1 DEF MovesInPools, CreatedBefore, Creation
  <2>2. CASE i \notin DOMAIN chain
    <3>1. PICK e \in {events[j] : j \in DOMAIN events} :
               /\ chain'[i].block = Height + 1
               /\ chain'[i].signature = e.signature
               /\ e.signature = "TransferSingle" => chain'[i].id = e.id /\ chain'[i].value = e.value
               /\ e.signature = "TransferBatch" => chain'[i].ids = e.ids /\ chain'[i].values = e.values
               /\ \A x \in IdsOf(e) : CreatedBefore(x, Height + 1)
      BY <1>2, <1>4, <2>2
    <3>2. id \in IdsOf(e)
      BY <1>4, <3>1 DEF IdsOf
    <3> QED
      BY <3>1, <3>2 DEF CreatedBefore, Creation
  <2> QED
    BY <2>1, <2>2
<1>5. MovesInPools'
  <2>1. ASSUME kind # "oz", NEW i \in DOMAIN chain', NEW id \in IdsOf(chain'[i])
        PROVE  \E c \in DOMAIN chain' : /\ chain'[c].signature = "TokenPoolCreation"
                                        /\ chain'[c].block < chain'[i].block
                                        /\ PoolContainsId(Announced(chain'[c]), id)
    <3>1. DOMAIN chain \subseteq DOMAIN chain'
      BY <1>1
    <3> QED
      BY <1>1, <1>4, <2>1, <3>1
  <2> QED
    BY <2>1 DEF MovesInPools, CreatedBefore, Creation, IdsOf
<1>6. TransfersTold'
  <2>1. ASSUME NEW sub \in DOMAIN cursor, sub.signature \in Transfers, NEW i \in DOMAIN chain',
               chain'[i].signature = sub.signature, i <= cursor[sub]
        PROVE  OnEvent(sub.locator, chain'[i]) \subseteq told
    <3>1. cursor[sub] \in 0 .. n
      BY DEF Subscribed, n
    <3>2. i \in DOMAIN chain /\ chain'[i] = chain[i]
      BY <1>1, <2>1, <3>1
    <3> QED
      BY <2>1, <3>2 DEF TransfersTold
  <2> QED
    BY <2>1 DEF TransfersTold
<1> QED
  BY <1>3, <1>5, <1>6

\* Who has a token has it by a movement.
LEMMA HeldWasMoved ==
  ASSUME NEW account, NEW id, NEW amount \in Nat, amount > 0, Balance(account, id) >= amount
  PROVE  \E i \in DOMAIN chain : id \in IdsOf(chain[i])
<1> DEFINE moves == {m \in AllMoves : m.id = id}
<1>1. CASE moves = {}
  <2>1. {m \in moves : m.to = account} = {} /\ {m \in moves : m.from = account} = {}
    BY <1>1
  <2>2. Cardinality(Units({})) = 0
    <3>1. Units({}) = {}
      BY DEF Units
    <3> QED
      BY <3>1, FS_EmptySet
  <2> HIDE DEF moves
  <2>3. Net(moves, account) = Cardinality(Units({})) - Cardinality(Units({}))
    BY <2>1, Zenon DEF Net
  <2>4. Balance(account, id) = 0
    BY <2>2, <2>3 DEF Balance, moves
  <2> QED
    BY <2>4
<1>2. CASE moves # {}
  <2>1. PICK i \in DOMAIN chain : \E j \in DOMAIN Moves(chain[i]) : Movement(i, j).id = id
    BY <1>2 DEF AllMoves
  <2> QED
    BY <2>1, MovementFields
<1> QED
  BY <1>1, <1>2

\* A mint is of tokens in its pool, the indexes that the contract chooses
\* included: they do not carry into the next pool.
LEMMA MintFits ==
  ASSUME kind \in Kinds, Ordered, Numbered, Creations, Amounted, MintsInPools, Room,
         NEW tx \in submitted, kind # "oz", tx.operation = "mint", tx.method # NoMethod
  PROVE  \E c \in DOMAIN chain :
           /\ Creation(c)
           /\ PoolContainsId(Announced(chain[c]), tx.id)
           /\ tx.method \in AutoIndexed /\ tx.id \in DOMAIN maxIndex =>
                \A i \in 1 .. tx.dto.amount :
                  PoolContainsId(Announced(chain[c]), BitOr(tx.id, maxIndex[tx.id] + i))
<1>1. PICK c \in DOMAIN chain :
        /\ Creation(c) /\ Announced(chain[c]).startId = tx.id
        /\ tx.method \in AutoIndexed => ~Announced(chain[c]).isFungible
  BY DEF MintsInPools
<1>2. IsPool(Announced(chain[c]))
  BY <1>1, CreationNamesPool DEF Creation
<1>3. PICK f \in BOOLEAN, k \in 1 .. MaxBlocks[kind] : Announced(chain[c]) = FormatLegacyPool(f, Start(f, k))
  BY <1>2 DEF IsPool
<1>4. MaxBlocks[kind] \in Nat /\ 2 * MaxBlocks[kind] <= IndexSize
  BY ContractsAssumption
<1>5. k \in Nat /\ Start(f, k) \in Nat /\ \E n \in Nat : Start(f, k) = IndexSize * n
  BY <1>4, StartIsAligned
<1>6. /\ tx.id = Start(f, k)
      /\ Announced(chain[c]).startId = tx.id
      /\ Announced(chain[c]).endId = tx.id + (IF f THEN 1 ELSE IndexSize) - 1
      /\ Announced(chain[c]).isFungible = f
  BY <1>1, <1>3 DEF FormatLegacyPool
<1>7. PoolContainsId(Announced(chain[c]), tx.id)
  BY <1>5, <1>6, Widths DEF PoolContainsId
<1>8. ASSUME tx.method \in AutoIndexed, tx.id \in DOMAIN maxIndex, NEW i \in 1 .. tx.dto.amount
      PROVE  PoolContainsId(Announced(chain[c]), BitOr(tx.id, maxIndex[tx.id] + i))
  <2>1. maxIndex[tx.id] \in Nat /\ maxIndex[tx.id] + 2 <= 2 * Height /\ tx.dto.amount \in 1 .. 2
    BY <1>8 DEF Room, Amounted
  <2>2. Height \in Nat /\ Height < MaxBlocks[kind]
    BY HeightIsTop DEF Numbered
  <2>3. maxIndex[tx.id] + i \in 0 .. IndexSize - 1
    BY <1>4, <1>8, <2>1, <2>2, Widths
  <2>4. PICK n \in Nat : tx.id = IndexSize * n
    BY <1>5, <1>6
  <2>5. BitOr(tx.id, maxIndex[tx.id] + i) = tx.id + (maxIndex[tx.id] + i)
    BY <2>3, <2>4, BitOrAdds, Widths
  <2>6. ~f
    BY <1>1, <1>6, <1>8
  <2> QED
    BY <1>5, <1>6, <2>3, <2>5, <2>6, Widths DEF PoolContainsId
<1> QED
  BY <1>1, <1>7, <1>8

\* What a transaction emits moves tokens of the contract's pools.
LEMMA EmittedMoves ==
  ASSUME kind \in Kinds, Ordered, BInv, DInv, NEW tx \in submitted
  PROVE  /\ \A i \in DOMAIN Emitted(tx) : LET e == Emitted(tx)[i] IN
              e.signature = "TransferSingle" =>
                /\ {"id", "value"} \subseteq DOMAIN e
                /\ e.value \in Nat
                /\ kind # "oz" => CreatedBefore(e.id, Height + 1)
         /\ tx.method \in AutoIndexed \cap Implemented => DOMAIN Emitted(tx) # {}
<1> USE DEF BInv, DInv
<1> DEFINE Good(e) == e.signature = "TransferSingle" =>
             /\ {"id", "value"} \subseteq DOMAIN e
             /\ e.value \in Nat
             /\ kind # "oz" => CreatedBefore(e.id, Height + 1)
           Fine(events) == \A i \in DOMAIN events : Good(events[i])
<1>1. ASSUME NEW e, Good(e)
      PROVE  Fine(<<e>>)
  <2>1. DOMAIN <<e>> = {1} /\ <<e>>[1] = e
    OBVIOUS
  <2> HIDE DEF Good
  <2> QED
    BY <1>1, <2>1
<1>2. Fine(<<>>)
  OBVIOUS
<1>3. ASSUME NEW to, NEW from, NEW id, NEW value \in Nat, kind # "oz" => CreatedBefore(id, Height + 1)
      PROVE  Good(Transfer(from, to, id, value))
  BY <1>3 DEF Transfer
<1>4. ASSUME NEW event, event.signature # "TransferSingle"
      PROVE  Fine(<<event>>)
  BY <1>1, <1>4
<1>5. Height \in Nat /\ \A c \in DOMAIN chain : chain[c].block \in Nat /\ chain[c].block < Height + 1
  BY HeightIsTop DEF Ordered
<1>6. CASE tx.operation = "create"
  <2>1. CreationEvent(NextType(tx.isFungible), tx.isFungible).signature # "TransferSingle"
    BY DEF CreationEvent
  <2>2. tx.method \notin AutoIndexed
    BY <1>6 DEF Calls, AutoIndexed
  <2> HIDE DEF Fine
  <2>3. Fine(Emitted(tx))
    BY <1>2, <1>4, <1>6, <2>1 DEF Emitted, Executes
  <2> QED
    BY <2>2, <2>3 DEF Fine
<1>7. CASE tx.operation = "mint" /\ tx.method \in Implemented
  <2>0. tx.method # NoMethod
    BY <1>7, NoMethodIsNone
  <2>1. tx.dto.amount \in 1 .. 2
    BY <1>7, <2>0 DEF Amounted
  <2>2. ASSUME kind # "oz"
        PROVE  /\ CreatedBefore(tx.id, Height + 1)
               /\ tx.method \in AutoIndexed => \A i \in 1 .. tx.dto.amount :
                    CreatedBefore(BitOr(tx.id, maxIndex[tx.id] + i), Height + 1)
    <3>1. tx.method \in AutoIndexed => tx.id \in DOMAIN maxIndex
      BY <1>7, <2>0 DEF Calls
    <3> QED
      BY <1>5, <1>7, <2>0, <2>2, <3>1, MintFits DEF CreatedBefore
  <2>3. Fine(<<Transfer(Zero, tx.dto.to, tx.id, tx.dto.amount)>>)
    BY <1>1, <1>3, <2>1, <2>2
  <2>4. ASSUME tx.method \in AutoIndexed
        PROVE  Fine([i \in 1 .. tx.dto.amount |->
                       Transfer(Zero, tx.dto.to, BitOr(tx.id, maxIndex[tx.id] + i), 1)])
    <3> HIDE DEF Good
    <3>1. ASSUME NEW i \in 1 .. tx.dto.amount
          PROVE  Good(Transfer(Zero, tx.dto.to, BitOr(tx.id, maxIndex[tx.id] + i), 1))
      BY <1>3, <2>2, <2>4
    <3> QED
      BY <3>1
  <2>5. tx.method \in AutoIndexed => Minted(tx) = [i \in 1 .. tx.dto.amount |->
                       Transfer(Zero, tx.dto.to, BitOr(tx.id, maxIndex[tx.id] + i), 1)]
    BY DEF Minted
  <2>6. tx.method \notin AutoIndexed => Minted(tx) = <<Transfer(Zero, tx.dto.to, tx.id, tx.dto.amount)>>
    BY DEF Minted
  <2>7. Emitted(tx) = IF tx.method \in Implemented THEN Minted(tx) ELSE <<>>
    BY <1>7 DEF Emitted, Executes
  <2>8. tx.method \in AutoIndexed \cap Implemented => DOMAIN Emitted(tx) # {}
    <3>1. 1 \in 1 .. tx.dto.amount
      BY <2>1
    <3>2. DOMAIN [i \in 1 .. tx.dto.amount |->
                    Transfer(Zero, tx.dto.to, BitOr(tx.id, maxIndex[tx.id] + i), 1)] = 1 .. tx.dto.amount
      OBVIOUS
    <3> QED
      BY <2>5, <2>7, <3>1, <3>2
  <2> HIDE DEF Fine
  <2>9. Fine(Emitted(tx))
    BY <1>2, <2>3, <2>4, <2>5, <2>6, <2>7
  <2> QED
    BY <2>8, <2>9 DEF Fine
<1>8. CASE tx.operation = "approval"
  <2>1. Fine(<<[signature |-> "ApprovalForAll", account |-> tx.dto.from,
                operator |-> tx.dto.to, approved |-> tx.dto.approved]>>)
    <3> DEFINE event == [signature |-> "ApprovalForAll", account |-> tx.dto.from,
                         operator |-> tx.dto.to, approved |-> tx.dto.approved]
    <3>1. event.signature # "TransferSingle"
      OBVIOUS
    <3> HIDE DEF event, Fine
    <3>2. Fine(<<event>>)
      BY <1>4, <3>1
    <3> QED
      BY <3>2 DEF event
  <2>2. tx.method \notin AutoIndexed
    BY <1>8 DEF Amounted
  <2> HIDE DEF Fine
  <2>3. Fine(Emitted(tx))
    BY <1>2, <1>8, <2>1 DEF Emitted, Executes
  <2> QED
    BY <2>2, <2>3 DEF Fine
<1>9. CASE tx.operation \in {"burn", "transfer"} /\ tx.method \in Implemented
  <2>1. tx.dto.amount \in 1 .. 2
    BY <1>9, NoMethodIsNone DEF Amounted
  <2>2. ASSUME Balance(tx.dto.from, tx.id) >= tx.dto.amount
        PROVE  Fine(Moved(tx))
    <3>1. kind # "oz" => CreatedBefore(tx.id, Height + 1)
      <4>1. PICK i \in DOMAIN chain : tx.id \in IdsOf(chain[i])
        BY <2>1, <2>2, HeldWasMoved
      <4> QED
        BY <1>5, <4>1 DEF MovesInPools, CreatedBefore
    <3>2. Good(Transfer(tx.dto.from, tx.dto.to, tx.id, tx.dto.amount))
      BY <1>3, <2>1, <3>1
    <3> HIDE DEF Good, Fine
    <3> QED
      BY <1>1, <3>2 DEF Moved
  <2>3. tx.method \notin AutoIndexed
    BY <1>9 DEF Amounted
  <2> HIDE DEF Fine
  <2>4. Fine(Emitted(tx))
    BY <1>2, <1>9, <2>2 DEF Emitted, Executes
  <2> QED
    BY <2>3, <2>4 DEF Fine
<1>10. CASE tx.method \notin Implemented
  <2>1. Emitted(tx) = <<>>
    BY <1>10 DEF Emitted
  <2> HIDE DEF Fine
  <2>2. Fine(Emitted(tx))
    BY <1>2, <2>1
  <2> QED
    BY <1>10, <2>2 DEF Fine
<1> QED
  BY <1>6, <1>7, <1>8, <1>9, <1>10 DEF Amounted, Operations

LEMMA MinedKeepsMoves ==
  ASSUME kind \in Kinds, CallsExist, Ordered, Ordered', Subscribed, Amounts, BInv, DInv,
         NEW tx \in submitted, Mined(tx)
  PROVE  DInv'
<1>1. /\ IsSeq(Emitted(tx)) /\ Mine(Emitted(tx))
      /\ \A i \in DOMAIN Emitted(tx) : "signature" \in DOMAIN Emitted(tx)[i]
      /\ UNCHANGED <<kind, cursor, told>>
  BY EmittedEvents DEF Amounts, Mined
<1>2. submitted' = {}
  BY DEF Mined, BInv, Calls
<1>3. \A i \in DOMAIN Emitted(tx) : LET e == Emitted(tx)[i] IN
        /\ e.signature # "TransferBatch"
        /\ e.signature = "TransferSingle" =>
             /\ {"id", "value"} \subseteq DOMAIN e
             /\ e.value \in Nat
             /\ kind # "oz" => CreatedBefore(e.id, Height + 1)
  <2>1. \A i \in DOMAIN Emitted(tx) :
          Emitted(tx)[i].signature \in {"TokenPoolCreation", "TransferSingle", "ApprovalForAll"}
    BY EmittedKinds DEF BInv
  <2>2. \A i \in DOMAIN Emitted(tx) : LET e == Emitted(tx)[i] IN
          e.signature = "TransferSingle" =>
             /\ {"id", "value"} \subseteq DOMAIN e
             /\ e.value \in Nat
             /\ kind # "oz" => CreatedBefore(e.id, Height + 1)
    BY EmittedMoves
  <2> QED
    BY <2>1, <2>2
<1>4. MovesAmount' /\ MovesInPools' /\ TransfersTold'
  <2>1. \A i \in DOMAIN Emitted(tx) : LET e == Emitted(tx)[i] IN
           /\ "signature" \in DOMAIN e
           /\ e.signature = "TransferSingle" => {"id", "value"} \subseteq DOMAIN e
           /\ e.signature = "TransferBatch" => {"ids", "values"} \subseteq DOMAIN e
           /\ Amounting(e)
           /\ kind # "oz" => \A id \in IdsOf(e) : CreatedBefore(id, Height + 1)
    BY <1>1, <1>3 DEF Amounting, IdsOf
  <2> QED
    BY <1>1, <2>1, MineKeepsMoves DEF DInv
<1>5. Amounted' /\ MintsInPools'
  BY <1>2 DEF Amounted, MintsInPools
<1>6. Room'
  <2>1. Height' >= Height /\ (DOMAIN Emitted(tx) # {} => Height' = Height + 1) /\ Height' \in Nat
    BY <1>1, MineRaises
  <2>2. Height \in Nat /\ Room
    BY HeightIsTop DEF DInv
  <2>3. CASE tx.operation = "create"
    <3>1. Height' = Height + 1
      BY <2>1, <2>3, EmittedKinds DEF BInv
    <3>2. maxIndex' = [t \in DOMAIN maxIndex \cup {NextType(tx.isFungible)} |->
                         IF t \in DOMAIN maxIndex THEN maxIndex[t] ELSE 0]
      BY <2>3 DEF Mined
    <3> QED
      BY <2>2, <3>1, <3>2 DEF Room
  <2>4. CASE tx.operation # "create" /\ tx.method \in AutoIndexed \cap Implemented
    <3>1. Height' = Height + 1
      BY <2>1, <2>4, EmittedMoves
    <3>2. tx.dto.amount \in 1 .. 2
      BY <2>4, NoMethodIsNone DEF DInv, Amounted
    <3>3. maxIndex' = [maxIndex EXCEPT ![tx.id] = @ + tx.dto.amount]
      BY <2>4 DEF Mined
    <3>4. ASSUME NEW t \in DOMAIN maxIndex'
          PROVE  maxIndex'[t] \in Nat /\ maxIndex'[t] + 2 <= 2 * Height'
      <4>1. t \in DOMAIN maxIndex /\ maxIndex[t] \in Nat /\ maxIndex[t] + 2 <= 2 * Height
        BY <2>2, <3>3 DEF Room
      <4>2. maxIndex'[t] = maxIndex[t] \/ maxIndex'[t] = maxIndex[t] + tx.dto.amount
        BY <3>3, <4>1
      <4> QED
        BY <2>2, <3>1, <3>2, <4>1, <4>2
    <3> QED
      BY <3>4 DEF Room
  <2>5. CASE tx.operation # "create" /\ tx.method \notin AutoIndexed \cap Implemented
    <3>1. maxIndex' = maxIndex
      BY <2>5 DEF Mined
    <3> QED
      BY <2>1, <2>2, <3>1 DEF Room
  <2> QED
    BY <2>3, <2>4, <2>5
<1>7. TransfersSubscribed'
  BY <1>1 DEF DInv, TransfersSubscribed, Active, TransferSubs
<1> QED
  BY <1>4, <1>5, <1>6, <1>7 DEF DInv

LEMMA BatchTransferKeepsMoves ==
  ASSUME kind \in Kinds, Ordered, Ordered', Subscribed, BInv, DInv,
         NEW from, NEW to, NEW ids \in Held(from) \X Held(from), BatchTransfer(from, to, ids)
  PROVE  DInv'
<1> DEFINE event == [signature |-> "TransferBatch", from |-> from, to |-> to, ids |-> ids,
                     values |-> [i \in DOMAIN ids |-> 1]]
<1>1. DOMAIN ids = {1, 2} /\ ids[1] \in Held(from) /\ ids[2] \in Held(from)
  OBVIOUS
<1>2. Height \in Nat /\ \A c \in DOMAIN chain : chain[c].block \in Nat /\ chain[c].block < Height + 1
  BY HeightIsTop DEF Ordered
<1>3. ASSUME kind # "oz", NEW id \in Held(from)
      PROVE  CreatedBefore(id, Height + 1)
  <2>1. PICK i \in DOMAIN chain : \E j \in DOMAIN Moves(chain[i]) : id = Movement(i, j).id
    BY DEF Held, AllMoves
  <2>2. id \in IdsOf(chain[i])
    BY <2>1, MovementFields
  <2> QED
    BY <1>2, <1>3, <2>2 DEF DInv, MovesInPools, CreatedBefore
<1>4. IsFiniteSet(DOMAIN ids)
  <2>1. IsFiniteSet({} \cup {1}) /\ IsFiniteSet(({} \cup {1}) \cup {2})
    BY FS_EmptySet, FS_AddElement
  <2>2. ({} \cup {1}) \cup {2} = {1, 2}
    OBVIOUS
  <2> QED
    BY <1>1, <2>1, <2>2
<1>5. /\ {"signature", "ids", "values"} \subseteq DOMAIN event
      /\ event.signature = "TransferBatch" /\ event.ids = ids
      /\ \A j \in DOMAIN ids : event.values[j] \in Nat
  OBVIOUS
<1>6. /\ Mine(<<event>>) /\ UNCHANGED <<kind, maxIndex, submitted, cursor, told>>
      /\ submitted = {}
  BY DEF BatchTransfer
<1> HIDE DEF event
<1>7. DOMAIN <<event>> = {1} /\ <<event>>[1] = event
  OBVIOUS
<1>8. IsSeq(<<event>>)
  <2>1. <<event>> \in Seq({event})
    OBVIOUS
  <2> QED
    BY <2>1, SeqIsSeq
<1>9. MovesAmount' /\ MovesInPools' /\ TransfersTold'
  <2> DEFINE events == <<event>>
  <2>1. \A i \in DOMAIN events : LET e == events[i] IN
           /\ "signature" \in DOMAIN e
           /\ e.signature = "TransferSingle" => {"id", "value"} \subseteq DOMAIN e
           /\ e.signature = "TransferBatch" => {"ids", "values"} \subseteq DOMAIN e
           /\ Amounting(e)
           /\ kind # "oz" => \A id \in IdsOf(e) : CreatedBefore(id, Height + 1)
    <3>1. Amounting(event)
      BY <1>4, <1>5 DEF Amounting
    <3>2. IdsOf(event) = {event.ids[j] : j \in DOMAIN event.ids}
      BY <1>5 DEF IdsOf
    <3>3. kind # "oz" => \A id \in IdsOf(event) : CreatedBefore(id, Height + 1)
      BY <1>1, <1>3, <1>5, <3>2
    <3> QED
      BY <1>5, <1>7, <3>1, <3>3
  <2>2. IsSeq(events) /\ Mine(events)
    BY <1>6, <1>8
  <2> HIDE DEF events
  <2> QED
    BY <1>6, <2>1, <2>2, MineKeepsMoves DEF DInv
<1>10. Amounted' /\ MintsInPools'
  BY <1>6 DEF Amounted, MintsInPools
<1>11. Room'
  <2>1. Height' >= Height /\ Height' \in Nat
    BY <1>6, <1>8, MineRaises
  <2> QED
    BY <1>2, <1>6, <2>1 DEF DInv, Room
<1>12. TransfersSubscribed'
  BY <1>6 DEF DInv, TransfersSubscribed, Active, TransferSubs
<1> QED
  BY <1>9, <1>10, <1>11, <1>12 DEF DInv

\* What is behind a subscription when it starts is older than its block.
LEMMA BehindTheStart ==
  ASSUME Ordered, NEW block \in Nat, NEW i \in DOMAIN chain,
         i <= Cardinality({j \in DOMAIN chain : chain[j].block < block})
  PROVE  chain[i].block < block
<1> SUFFICES ASSUME ~(chain[i].block < block)
             PROVE  FALSE
  OBVIOUS
<1> DEFINE before(b) == {j \in DOMAIN chain : chain[j].block < b}
<1>1. i \in Nat /\ DOMAIN chain = 1 .. Len(chain) /\ Len(chain) \in Nat
  BY DEF Ordered, IsSeq
<1>2. before(block) \subseteq before(chain[i].block)
  BY DEF Ordered
<1>3. Cardinality(before(chain[i].block)) \in Nat /\ Cardinality(before(chain[i].block)) < i
  BY StartsBefore
<1>4. IsFiniteSet(DOMAIN chain)
  BY <1>1, FS_Interval
<1>5. IsFiniteSet(before(block)) /\ IsFiniteSet(before(chain[i].block))
  BY <1>4, FS_Subset
<1> HIDE DEF before
<1>6. Cardinality(before(block)) <= Cardinality(before(chain[i].block))
  BY <1>2, <1>5, FS_Subset
<1>7. Cardinality(before(block)) \in Nat
  BY <1>5, FS_CardinalityType
<1>8. i <= Cardinality(before(block))
  BY DEF before
<1> QED
  BY <1>1, <1>3, <1>6, <1>7, <1>8

\* No token of a pool moved before the block that a subscription to it
\* starts from.
LEMMA NothingBefore ==
  ASSUME kind \in Kinds, Ordered, BInv, CInv, DInv, NEW locator \in Offered,
         NEW i \in DOMAIN chain, chain[i].signature \in Transfers, chain[i].block < locator.block
  PROVE  OnEvent(locator, chain[i]) = {}
<1> USE DEF BInv, CInv, DInv
<1> SUFFICES ASSUME NEW m \in OnEvent(locator, chain[i])
             PROVE  FALSE
  OBVIOUS
<1>1. chain[i].block \in Nat
  BY DEF Ordered
<1>2. CASE kind = "oz"
  <2>1. locator.block = 0
    BY <1>2 DEF Located, Ranged, PackPoolLocator
  <2> QED
    BY <1>1, <2>1
<1>3. CASE kind # "oz"
  <2> DEFINE pool == UnpackPoolLocator(locator)
  <2>1. m.event \notin {"token-pool", "token-approval"}
    BY PoolMessages, OnEventApprovals DEF Transfers, ApprovalEvent
  <2>2. PICK id : /\ \/ chain[i].signature = "TransferSingle" /\ id = chain[i].id
                     \/ chain[i].signature = "TransferBatch" /\ id \in {chain[i].ids[j] : j \in DOMAIN chain[i].ids}
                  /\ PoolContainsId(pool, id)
    BY <2>1, TransfersAreToldOf
  <2>3. id \in IdsOf(chain[i]) /\ id \in Nat
    BY <2>2 DEF IdsOf, EventIds
  <2>4. PICK c \in DOMAIN chain : /\ Creation(c) /\ chain[c].block < chain[i].block
                                  /\ PoolContainsId(Announced(chain[c]), id)
    BY <1>3, <2>3 DEF MovesInPools, CreatedBefore
  <2>5. PICK d \in DOMAIN chain : Announces(d, locator)
    BY <1>3 DEF Located
  <2>6. IsPool(Announced(chain[c])) /\ IsPool(pool)
    BY <2>4, CreationNamesPool, OfferedPools DEF Creation
  <2> HIDE DEF pool
  <2>7. Announced(chain[c]) = pool
    <3>1. PICK f \in BOOLEAN, k \in 1 .. MaxBlocks[kind] :
             Announced(chain[c]) = FormatLegacyPool(f, Start(f, k))
      BY <1>3, <2>6 DEF IsPool
    <3>2. PICK g \in BOOLEAN, j \in 1 .. MaxBlocks[kind] : pool = FormatLegacyPool(g, Start(g, j))
      BY <1>3, <2>6 DEF IsPool
    <3>3. /\ k \in Nat /\ k * IndexSize < TypeBit
          /\ j \in Nat /\ j * IndexSize < TypeBit
      BY NumberFits, ContractsAssumption
    <3> QED
      BY <2>2, <2>3, <2>4, <3>1, <3>2, <3>3, PoolsApart
  <2>8. StartOf(chain[c]) = pool.startId
    BY <2>4, <2>7, CreationNamesPool DEF Creation
  <2>9. Announced(chain[d]) = pool /\ locator.block \in {0, chain[d].block} /\ Creation(d)
    BY <2>5 DEF Announces, pool
  <2>10. StartOf(chain[d]) = pool.startId
    BY <2>9, CreationNamesPool DEF Creation
  <2>11. c = d
    BY <2>4, <2>8, <2>9, <2>10 DEF CreatedOnce
  <2>12. chain[c].block \in Nat
    BY DEF Ordered
  <2> QED
    BY <1>1, <2>4, <2>9, <2>11, <2>12
<1> QED
  BY <1>2, <1>3

LEMMA ActivatePoolKeepsMoves ==
  ASSUME kind \in Kinds, Ordered, Subscribed, BInv, CInv, DInv,
         NEW locator \in Offered, ActivatePool(locator)
  PROVE  DInv'
<1> DEFINE subs == {PoolSub(locator), ApprovalSub(locator)} \cup TransferSubs(locator)
<1>1. /\ Subscribe(subs)
      /\ locator # Base
      /\ told \subseteq told'
      /\ UNCHANGED <<kind, maxIndex, chain, submitted>>
      /\ \A a \in Active : UnpackPoolLocator(a) # UnpackPoolLocator(locator)
  BY DEF ActivatePool
<1>2. TransferSubs(locator) \subseteq subs /\ PoolSub(locator) \in subs
  OBVIOUS
<1>3. \A sub \in subs : sub.locator = locator
  BY DEF PoolSub, ApprovalSub, TransferSubs
<1> HIDE DEF subs
<1>4. /\ DOMAIN cursor' = DOMAIN cursor \cup subs
      /\ Active' = Active \cup {locator}
  <2>1. /\ DOMAIN cursor' = DOMAIN cursor \cup subs
        /\ \A l : l \in Active' <=> l \in Active \/ (l # Base /\ \E sub \in subs : sub.locator = l)
    BY <1>1, Subscribes
  <2> QED
    BY <1>1, <1>2, <1>3, <2>1
<1>5. Amounted' /\ MintsInPools' /\ Room' /\ MovesAmount' /\ MovesInPools'
  BY <1>1 DEF DInv, Amounted, MintsInPools, Creation, Room, Height, MovesAmount, Amounting,
              MovesInPools, IdsOf, CreatedBefore
<1>6. TransfersSubscribed'
  BY <1>2, <1>4 DEF DInv, TransfersSubscribed, TransferSubs
<1>7. ASSUME NEW sub \in DOMAIN cursor', sub.signature \in Transfers, NEW i \in DOMAIN chain,
             chain[i].signature = sub.signature, i <= cursor'[sub]
      PROVE  OnEvent(sub.locator, chain[i]) \subseteq told'
  <2>1. CASE sub \in DOMAIN cursor
    <3>1. cursor'[sub] = cursor[sub]
      BY <1>1, <2>1 DEF Subscribe
    <3> QED
      BY <1>1, <1>7, <2>1, <3>1 DEF DInv, TransfersTold
  <2>2. CASE sub \notin DOMAIN cursor
    <3>1. sub.locator = locator
      BY <1>3, <1>4, <2>2
    <3>2. cursor'[sub] = Cardinality({j \in DOMAIN chain : chain[j].block < FromBlock(sub)})
      BY <1>1, <1>4, <2>2 DEF Subscribe
    <3>3. FromBlock(sub) = locator.block
      BY <1>1, <1>7, <3>1 DEF FromBlock, Transfers
    <3>4. locator.block \in Nat
      <4>1. CASE kind = "oz"
        BY <4>1 DEF CInv, Located, Ranged, PackPoolLocator
      <4>2. CASE kind # "oz"
        BY <4>2 DEF CInv, Located, Announces, Ordered
      <4> QED
        BY <4>1, <4>2
    <3>5. chain[i].block < locator.block
      BY <1>7, <3>2, <3>3, <3>4, BehindTheStart
    <3> QED
      BY <1>7, <3>1, <3>5, NothingBefore
  <2> QED
    BY <2>1, <2>2
<1>8. TransfersTold'
  BY <1>1, <1>7 DEF TransfersTold
<1> QED
  BY <1>5, <1>6, <1>8 DEF DInv

LEMMA CreatePoolKeepsMoves ==
  ASSUME DInv, NEW isFungible \in BOOLEAN, CreatePool(isFungible)
  PROVE  DInv'
<1> DEFINE subs == {PoolSub(Base)}
<1>1. /\ Subscribe(subs)
      /\ submitted' = {[operation |-> "create", method |-> "create", isFungible |-> isFungible]}
      /\ UNCHANGED <<kind, maxIndex, chain, told>>
  BY DEF CreatePool, Submit
<1>2. \A sub \in subs : sub.locator = Base /\ sub.signature \notin Transfers
  BY DEF PoolSub, Transfers
<1> HIDE DEF subs
<1>3. /\ DOMAIN cursor' = DOMAIN cursor \cup subs
      /\ \A l : l \in Active' <=> l \in Active
  BY <1>1, <1>2, Subscribes
<1>4. \A sub \in DOMAIN cursor : cursor'[sub] = cursor[sub]
  BY <1>1 DEF Subscribe
<1>5. Amounted' /\ MintsInPools'
  BY <1>1 DEF Amounted, MintsInPools, AutoIndexed
<1>6. Room' /\ MovesAmount' /\ MovesInPools'
  BY <1>1 DEF DInv, Creation, Room, Height, MovesAmount, Amounting, MovesInPools, IdsOf, CreatedBefore
<1>7. TransfersSubscribed'
  BY <1>3 DEF DInv, TransfersSubscribed, TransferSubs
<1>8. TransfersTold'
  <2>1. ASSUME NEW sub \in DOMAIN cursor', sub.signature \in Transfers
        PROVE  sub \in DOMAIN cursor /\ cursor'[sub] = cursor[sub]
    BY <1>2, <1>3, <1>4, <2>1
  <2> QED
    BY <1>1, <2>1 DEF DInv, TransfersTold
<1> QED
  BY <1>5, <1>6, <1>7, <1>8 DEF DInv

LEMMA DeliverKeepsMoves ==
  ASSUME Ordered, Subscribed, DInv, NEW locator, Deliver(locator)
  PROVE  DInv'
<1>1. PICK sub \in DOMAIN cursor, j \in DOMAIN chain :
           /\ sub = [locator |-> locator, signature |-> chain[j].signature]
           /\ j > cursor[sub]
           /\ \A k \in Outstanding(sub) : j <= k
           /\ cursor' = [cursor EXCEPT ![sub] = j]
           /\ told' = told \cup OnEvent(locator, chain[j])
  BY Delivers
<1>2. UNCHANGED <<kind, maxIndex, chain, submitted>> /\ Active' = Active /\ DOMAIN cursor' = DOMAIN cursor
  BY <1>1 DEF Deliver, Active
<1>3. Amounted' /\ MintsInPools' /\ Room' /\ MovesAmount' /\ MovesInPools'
  <2>1. UNCHANGED <<kind, maxIndex, chain, submitted>>
    BY <1>2
  <2>2. Amounted' /\ MintsInPools' /\ Room'
    BY <2>1 DEF DInv, Amounted, MintsInPools, Creation, Room, Height
  <2>3. MovesAmount' /\ MovesInPools'
    BY <2>1 DEF DInv, MovesAmount, Amounting, MovesInPools, IdsOf, CreatedBefore, Creation
  <2> QED
    BY <2>2, <2>3
<1>4. TransfersSubscribed'
  BY <1>2 DEF DInv, TransfersSubscribed, TransferSubs
<1>5. ASSUME NEW s \in DOMAIN cursor, s.signature \in Transfers, NEW i \in DOMAIN chain,
             chain[i].signature = s.signature, i <= cursor'[s]
      PROVE  OnEvent(s.locator, chain[i]) \subseteq told'
  <2>1. CASE i <= cursor[s]
    BY <1>1, <1>5, <2>1 DEF DInv, TransfersTold
  <2>2. CASE ~(i <= cursor[s])
    <3>1. s = sub /\ cursor'[s] = j
      BY <1>1, <1>5, <2>2
    <3>2. i \in Nat /\ j \in Nat /\ cursor[s] \in Nat
      BY DEF Ordered, IsSeq, Subscribed
    <3>3. i \in Outstanding(sub)
      BY <1>5, <2>2, <3>1, <3>2 DEF Outstanding
    <3>4. i = j
      BY <1>1, <1>5, <3>1, <3>2, <3>3
    <3>5. s.locator = locator
      BY <1>1, <3>1
    <3> QED
      BY <1>1, <3>4, <3>5
  <2> QED
    BY <2>1, <2>2
<1>6. TransfersTold'
  BY <1>2, <1>5 DEF TransfersTold
<1> QED
  BY <1>3, <1>4, <1>6 DEF DInv

\* A request moves one token or two, if it moves any.
Movable(operation, dto) == operation \in {"burn", "mint", "transfer"} => dto.amount \in 1 .. 2

LEMMA RequestsMove ==
  ASSUME NEW locator \in Active, Request(locator)
  PROVE  \E operation \in Operations : \E dto :
           Movable(operation, dto) /\ Handle(locator, operation, dto)
BY DEF Request, Operations, Movable, MintDtos, TransferDtos, BurnDtos, ApprovalDtos, Dto

LEMMA HandleKeepsMoves ==
  ASSUME kind \in Kinds, Callable, BInv, CInv, DInv, NEW locator \in Active, NEW operation \in Operations,
         NEW dto, Movable(operation, dto), Handle(locator, operation, dto)
  PROVE  DInv'
<1> USE DEF Callable, BInv, CInv
<1> DEFINE pool == UnpackPoolLocator(locator)
<1>1. UNCHANGED <<kind, maxIndex, chain, cursor, told>>
  BY DEF Handle
<1>2. IsPool(pool) /\ pool.startId \in Nat /\ ComputeTokenId(pool, 0) = pool.startId
  <2>1. IsPool(pool) /\ pool.startId \in Nat
    BY PoolFields DEF KnownPools
  <2> HIDE DEF pool
  <2>2. ComputeTokenId(pool, 0) = pool.startId
    BY <2>1, BitOrZero DEF ComputeTokenId
  <2> QED
    BY <2>1, <2>2
<1>3. kind # "oz" => \E c \in DOMAIN chain : Creation(c) /\ Announced(chain[c]) = pool
  BY DEF Located, Announces
<1>4. kind \in {"V2", "Old", "oz"}
  BY ContractsAssumption
<1>5. ASSUME NEW abi, Operate(locator, operation, dto, abi),
             \/ abi \in Interfaces(operation)
             \/ abi = OldSample
             \/ abi = Sample /\ kind = "V2"
      PROVE  Amounted' /\ MintsInPools'
  <2> DEFINE method == MethodFor(abi, pool, operation)
             request == [operation |-> operation, method |-> method, locator |-> locator,
                         dto |-> dto, id |-> IdParam(method, pool, dto)]
             nothing == [operation |-> operation, method |-> NoMethod]
  <2>1. method # NoMethod =>
          /\ Maps(method, pool) /\ method \in ToSet(DynamicMethods[operation])
          /\ kind # "oz" => method \in Implemented
    BY <1>4, <1>5, MethodIsThere
  <2>2. \/ UNCHANGED submitted
        \/ submitted' = {nothing}
        \/ method # NoMethod /\ submitted' = {request} /\ Verified(method, pool, dto)
    BY <1>5 DEF Operate, Submit
  <2> HIDE DEF method
  <2>3. CASE UNCHANGED submitted
    BY <1>1, <2>3 DEF DInv, Amounted, MintsInPools, Creation
  <2>4. CASE submitted' = {nothing}
    BY <1>1, <2>4, NoMethodIsNone DEF Amounted, MintsInPools
  <2>5. CASE method # NoMethod /\ submitted' = {request} /\ Verified(method, pool, dto)
    <3>1. method \in AutoIndexed => operation = "mint"
      BY <2>1, <2>5 DEF DynamicMethods, AutoIndexed, ToSet, Operations
    <3>2. ASSUME kind # "oz", operation = "mint"
          PROVE  /\ IdParam(method, pool, dto) = pool.startId
                 /\ method \in AutoIndexed => ~pool.isFungible
      <4>1. method \in {"mintFungible"} \cup AutoIndexed
        BY <1>4, <2>1, <2>5, <3>2 DEF DynamicMethods, AutoIndexed, ToSet, Implemented, Sample, OldSample, Standard
      <4>2. /\ method = "mintFungible" => pool.isFungible
            /\ method \in AutoIndexed => ~pool.isFungible /\ dto.tokenIndex = NoIndex
        BY <2>1, <2>5 DEF Maps, Verified
      <4> HIDE DEF pool
      <4> QED
        BY <1>2, <4>1, <4>2 DEF IdParam
    <3> HIDE DEF pool
    <3>3. Amounted'
      BY <2>5, <3>1 DEF Amounted, Movable
    <3>4. MintsInPools'
      <4>1. ASSUME NEW tx \in submitted', kind # "oz", tx.operation = "mint"
            PROVE  \E c \in DOMAIN chain :
                     /\ Creation(c) /\ Announced(chain[c]).startId = tx.id
                     /\ tx.method \in AutoIndexed => ~Announced(chain[c]).isFungible
        <5>1. tx.id = pool.startId /\ (tx.method \in AutoIndexed => ~pool.isFungible)
          BY <2>5, <3>2, <4>1
        <5> QED
          BY <1>3, <4>1, <5>1
      <4> QED
        BY <1>1, <4>1 DEF MintsInPools, Creation
    <3> QED
      BY <3>3, <3>4
  <2> QED
    BY <2>2, <2>3, <2>4, <2>5
<1>6. ASSUME NEW abi \in Interfaces(operation), Operate(locator, operation, dto, abi)
      PROVE  Amounted' /\ MintsInPools'
  BY <1>5, <1>6
<1>7. ASSUME NEW support \in SupportAnswers, Operate(locator, operation, dto, AbiFor(support))
      PROVE  Amounted' /\ MintsInPools'
  BY <1>5, <1>7 DEF AbiFor, SupportAnswers
<1>8. Amounted' /\ MintsInPools'
  BY <1>6, <1>7 DEF Handle
<1>9. Room' /\ MovesAmount' /\ MovesInPools'
  BY <1>1 DEF DInv, Room, Height, MovesAmount, Amounting, MovesInPools, IdsOf, CreatedBefore, Creation
<1>10. TransfersSubscribed' /\ TransfersTold'
  BY <1>1 DEF DInv, TransfersSubscribed, TransferSubs, Active, TransfersTold
<1> QED
  BY <1>8, <1>9, <1>10 DEF DInv

LEMMA MovesInvariant == Spec => []DInv
<1>1. Init => DInv
  <2> SUFFICES ASSUME Init PROVE DInv
    OBVIOUS
  <2>1. DOMAIN maxIndex = {} /\ DOMAIN chain = {} /\ Active = {} /\ DOMAIN cursor = {} /\ submitted = {}
    BY DEF Init, Active
  <2> QED
    BY <2>1 DEF DInv, Amounted, MintsInPools, Room, MovesAmount, MovesInPools,
                TransfersSubscribed, TransfersTold
<1>2. Callable /\ AInv /\ AInv' /\ BInv /\ CInv /\ DInv /\ [Next]_vars => DInv'
  <2> SUFFICES ASSUME Callable, AInv, AInv', BInv, CInv, DInv, [Next]_vars
               PROVE  DInv'
    OBVIOUS
  <2>0. kind \in Kinds /\ CallsExist /\ Ordered /\ Ordered' /\ Amounts /\ Subscribed
    BY DEF Callable, AInv
  <2>1. ASSUME NEW isFungible \in BOOLEAN, CreatePool(isFungible)
        PROVE  DInv'
    BY <2>1, CreatePoolKeepsMoves
  <2>2. ASSUME NEW locator \in Offered, ActivatePool(locator)
        PROVE  DInv'
    BY <2>0, <2>2, ActivatePoolKeepsMoves
  <2>3. ASSUME NEW locator \in Active, Request(locator)
        PROVE  DInv'
    BY <2>0, <2>3, RequestsMove, HandleKeepsMoves
  <2>4. ASSUME NEW tx \in submitted, Mined(tx)
        PROVE  DInv'
    BY <2>0, <2>4, MinedKeepsMoves
  <2>5. ASSUME NEW from, NEW to, NEW ids \in Held(from) \X Held(from), BatchTransfer(from, to, ids)
        PROVE  DInv'
    BY <2>0, <2>5, BatchTransferKeepsMoves
  <2>6. ASSUME NEW locator, Deliver(locator)
        PROVE  DInv'
    BY <2>0, <2>6, DeliverKeepsMoves
  <2>7. CASE UNCHANGED vars
    <3>1. UNCHANGED <<kind, maxIndex, chain, submitted, cursor, told>>
      BY <2>7 DEF vars
    <3>2. Amounted' /\ MintsInPools' /\ Room'
      BY <3>1 DEF DInv, Amounted, MintsInPools, Creation, Room, Height
    <3>3. MovesAmount' /\ MovesInPools'
      BY <3>1 DEF DInv, MovesAmount, Amounting, MovesInPools, IdsOf, CreatedBefore, Creation
    <3>4. TransfersSubscribed' /\ TransfersTold'
      BY <3>1 DEF DInv, TransfersSubscribed, TransferSubs, Active, TransfersTold
    <3> QED
      BY <3>2, <3>3, <3>4 DEF DInv
  <2> QED
    BY <2>1, <2>2, <2>3, <2>4, <2>5, <2>6, <2>7 DEF Next
<1> QED
  BY <1>1, <1>2, CallsInvariant, ApprovalsInvariant, PoolsInvariant, ConfirmationsInvariant, PTL DEF Spec

-----------------------------------------------------------------------------
(* Units: what is counted on both sides *)

LEMMA ImageIsFinite ==
  ASSUME NEW S, IsFiniteSet(S), NEW f
  PROVE  IsFiniteSet({f[x] : x \in S})
<1> DEFINE T == {f[x] : x \in S}
           g == [x \in S |-> f[x]]
<1>1. g \in Surjection(S, T)
  BY DEF Surjection
<1> HIDE DEF g, T
<1>2. IsFiniteSet(T)
  BY <1>1, FS_Surjection
<1> QED
  BY <1>2 DEF T

\* A unit is one of the pieces of a movement.
LEMMA UnitsOf ==
  ASSUME NEW S
  PROVE  \A u : u \in Units(S) <=> \E m \in S : \E n \in 1 .. m.amount : u = <<m, n>>
BY DEF Units

LEMMA UnitsAreFinite ==
  ASSUME NEW S, IsFiniteSet(S), \A m \in S : m.amount \in Nat
  PROVE  IsFiniteSet(Units(S))
<1> DEFINE f == [m \in S |-> {m} \X (1 .. m.amount)]
           T == {f[m] : m \in S}
<1>1. Units(S) = UNION T
  BY DEF Units
<1>2. ASSUME NEW m \in S
      PROVE  IsFiniteSet({m} \X (1 .. m.amount))
  <2>1. IsFiniteSet({} \cup {m})
    BY FS_EmptySet, FS_AddElement
  <2>2. {} \cup {m} = {m}
    OBVIOUS
  <2>3. IsFiniteSet(1 .. m.amount)
    BY FS_Interval
  <2> QED
    BY <2>1, <2>2, <2>3, FS_Product
<1>3. \A U \in T : IsFiniteSet(U)
  BY <1>2
<1> HIDE DEF f
<1>4. IsFiniteSet(T)
  BY ImageIsFinite
<1> HIDE DEF T
<1> QED
  BY <1>1, <1>3, <1>4, FS_UNION

\* Two sets that correspond, each movement to one of the same amount, have
\* the same number of units.
LEMMA UnitsMatch ==
  ASSUME NEW S, NEW T, IsFiniteSet(S), NEW f \in Bijection(S, T),
         \A m \in S : m.amount \in Nat /\ f[m].amount = m.amount
  PROVE  Cardinality(Units(S)) = Cardinality(Units(T))
<1> DEFINE g == [u \in Units(S) |-> <<f[u[1]], u[2]>>]
<1>1. /\ \A m \in S : f[m] \in T
      /\ \A m, n \in S : f[m] = f[n] => m = n
      /\ \A t \in T : \E m \in S : f[m] = t
  BY DEF Bijection, Injection, Surjection, IsInjective
<1>2. \A m \in S : \A n \in 1 .. m.amount : <<m, n>> \in Units(S) /\ g[<<m, n>>] = <<f[m], n>>
  BY UnitsOf
<1>3. \A u \in Units(S) : \E m \in S : \E n \in 1 .. m.amount : u = <<m, n>> /\ g[u] = <<f[m], n>>
  BY UnitsOf
<1>4. DOMAIN g = Units(S) /\ g = [u \in Units(S) |-> g[u]]
  OBVIOUS
<1> HIDE DEF g
<1>5. \A u \in Units(S) : g[u] \in Units(T)
  <2>1. ASSUME NEW u \in Units(S)
        PROVE  g[u] \in Units(T)
    <3>1. PICK m \in S : \E n \in 1 .. m.amount : g[u] = <<f[m], n>>
      BY <1>3
    <3>2. f[m] \in T /\ f[m].amount = m.amount
      BY <1>1
    <3> QED
      BY <3>1, <3>2, UnitsOf
  <2> QED
    BY <2>1
<1>6. \A u, v \in Units(S) : g[u] = g[v] => u = v
  BY <1>1, <1>3
<1>7. \A t \in Units(T) : \E u \in Units(S) : g[u] = t
  <2>1. ASSUME NEW t \in Units(T)
        PROVE  \E u \in Units(S) : g[u] = t
    <3>1. PICK x \in T : \E n \in 1 .. x.amount : t = <<x, n>>
      BY UnitsOf
    <3>2. PICK m \in S : f[m] = x
      BY <1>1
    <3>3. m.amount = x.amount
      BY <3>2
    <3> QED
      BY <1>2, <3>1, <3>2, <3>3
  <2> QED
    BY <2>1
<1>8. g \in Bijection(Units(S), Units(T))
  BY <1>4, <1>5, <1>6, <1>7 DEF Bijection, Injection, Surjection, IsInjective
<1>9. ExistsBijection(Units(S), Units(T))
  BY <1>8 DEF ExistsBijection
<1>10. IsFiniteSet(Units(S))
  BY UnitsAreFinite
<1> QED
  BY <1>9, <1>10, FS_Bijection

LEMMA MovesAreFinite ==
  ASSUME Ordered, MovesAmount
  PROVE  IsFiniteSet(AllMoves)
<1> DEFINE moves(i) == {Movement(i, j) : j \in DOMAIN Moves(chain[i])}
           f == [i \in DOMAIN chain |-> moves(i)]
           T == {f[i] : i \in DOMAIN chain}
<1>1. AllMoves = UNION T
  BY DEF AllMoves
<1>2. ASSUME NEW i \in DOMAIN chain
      PROVE  IsFiniteSet(moves(i))
  <2>1. IsFiniteSet({}) /\ IsFiniteSet({} \cup {1}) /\ {} \cup {1} = {1}
    BY FS_EmptySet, FS_AddElement
  <2>2. IsFiniteSet(DOMAIN Moves(chain[i]))
    BY <2>1, MovesOf DEF MovesAmount, Amounting, Transfers
  <2> DEFINE g == [j \in DOMAIN Moves(chain[i]) |-> Movement(i, j)]
             U == {g[j] : j \in DOMAIN Moves(chain[i])}
  <2>3. moves(i) = U
    OBVIOUS
  <2> HIDE DEF g
  <2>4. IsFiniteSet(U)
    BY <2>2, ImageIsFinite
  <2> QED
    BY <2>3, <2>4
<1>3. \A U \in T : IsFiniteSet(U)
  BY <1>2
<1>4. IsFiniteSet(DOMAIN chain)
  <2>1. DOMAIN chain = 1 .. Len(chain) /\ Len(chain) \in Nat
    BY DEF Ordered, IsSeq
  <2> QED
    BY <2>1, FS_Interval
<1> HIDE DEF f
<1>5. IsFiniteSet(T)
  BY <1>4, ImageIsFinite
<1> HIDE DEF T
<1> QED
  BY <1>1, <1>3, <1>5, FS_UNION

-----------------------------------------------------------------------------
(* The books *)

\* What a pool is told of one movement
MessageOf(locator, i, j) ==
  TransferMessage(locator, Moves(chain[i])[j],
    IF chain[i].signature = "TransferSingle" THEN EventId(chain[i]) ELSE BatchId(chain[i], j))

\* The id of a message has the place of its event, and in a batch its own.
LEMMA MessageIds ==
  ASSUME NEW locator, NEW i \in DOMAIN chain, NEW j \in DOMAIN Moves(chain[i])
  PROVE  /\ MessageOf(locator, i, j).id[1] = chain[i].block
         /\ MessageOf(locator, i, j).id[2] = chain[i].log
         /\ chain[i].signature = "TransferBatch" => MessageOf(locator, i, j).id[3] = j
<1> DEFINE id == IF chain[i].signature = "TransferSingle" THEN EventId(chain[i]) ELSE BatchId(chain[i], j)
           b == chain[i].block
           l == chain[i].log
           batchId == <<b, l>> \o <<j>>
<1>1. batchId[1] = b /\ batchId[2] = l /\ batchId[3] = j
  OBVIOUS
<1>2. EventId(chain[i])[1] = b /\ EventId(chain[i])[2] = l /\ BatchId(chain[i], j) = batchId
  BY DEF EventId, BatchId
<1> HIDE DEF batchId
<1>3. id[1] = b /\ id[2] = l /\ (chain[i].signature = "TransferBatch" => id[3] = j)
  BY <1>1, <1>2
<1>4. MessageOf(locator, i, j).id = id
  BY DEF MessageOf, TransferMessage
<1> HIDE DEF id
<1> QED
  BY <1>3, <1>4

LEMMA MessageFields ==
  ASSUME NEW locator, NEW i \in DOMAIN chain, NEW j \in DOMAIN Moves(chain[i])
  PROVE  LET m == MessageOf(locator, i, j)
             move == Movement(i, j)
             pool == UnpackPoolLocator(locator)
         IN /\ m.from = move.from /\ m.to = move.to /\ m.amount = move.amount
            /\ m.locator = locator
            /\ m.event \in {"token-mint", "token-burn", "token-transfer"}
            /\ m.tokenIndex = IF pool.isFungible THEN NoIndex ELSE move.id - pool.startId
<1> DEFINE move == Movement(i, j)
<1>1. /\ Moves(chain[i])[j].from = move.from /\ Moves(chain[i])[j].to = move.to
      /\ Moves(chain[i])[j].id = move.id /\ Moves(chain[i])[j].value = move.amount
  BY DEF Movement
<1> HIDE DEF move
<1> QED
  BY <1>1 DEF MessageOf, TransferMessage, TransferName, ComputeTokenIndex, move

\* A message is of one movement.
LEMMA OneMoveOfAMessage ==
  ASSUME Ordered, NEW locator,
         NEW i \in DOMAIN chain, NEW j \in DOMAIN Moves(chain[i]),
         NEW k \in DOMAIN chain, NEW n \in DOMAIN Moves(chain[k]),
         MessageOf(locator, i, j) = MessageOf(locator, k, n)
  PROVE  i = k /\ j = n
<1>1. chain[i].block = chain[k].block /\ chain[i].log = chain[k].log
  <2>1. /\ MessageOf(locator, i, j).id[1] = chain[i].block /\ MessageOf(locator, i, j).id[2] = chain[i].log
        /\ MessageOf(locator, k, n).id[1] = chain[k].block /\ MessageOf(locator, k, n).id[2] = chain[k].log
    BY MessageIds
  <2> QED
    BY <2>1
<1>2. i \in Nat /\ k \in Nat /\ chain[i].log \in Nat /\ chain[k].log \in Nat
  BY DEF Ordered, IsSeq
<1>3. ~(i < k) /\ ~(k < i)
  BY <1>1, <1>2 DEF Ordered
<1>4. i = k
  BY <1>2, <1>3
<1>5. CASE chain[i].signature = "TransferBatch"
  <2>1. MessageOf(locator, i, j).id[3] = j /\ MessageOf(locator, k, n).id[3] = n
    BY <1>4, <1>5, MessageIds
  <2> QED
    BY <1>4, <2>1
<1>6. CASE chain[i].signature # "TransferBatch"
  <2>1. chain[i].signature = "TransferSingle"
    BY <1>6, MovementFields DEF Transfers
  <2> QED
    BY <1>4, <2>1, MovesOf
<1> QED
  BY <1>4, <1>5, <1>6

\* A pool that caught up was told of the movements in it,
LEMMA MovesAreTold ==
  ASSUME Ordered, Subscribed, DInv, NEW locator \in Active, CaughtUp(TransferSubs(locator)),
         NEW i \in DOMAIN chain, NEW j \in DOMAIN Moves(chain[i]),
         OfPool(locator, Moves(chain[i])[j])
  PROVE  MessageOf(locator, i, j) \in Messages(locator)
<1> DEFINE sub == [locator |-> locator, signature |-> chain[i].signature]
<1>1. chain[i].signature \in Transfers
  BY MovementFields
<1>2. sub \in TransferSubs(locator)
  BY <1>1 DEF TransferSubs, Transfers
<1>3. sub \in DOMAIN cursor /\ Outstanding(sub) = {}
  BY <1>2 DEF DInv, TransfersSubscribed, CaughtUp
<1>4. i \in Nat /\ cursor[sub] \in Nat
  BY <1>3 DEF Ordered, IsSeq, Subscribed
<1>5. i <= cursor[sub]
  BY <1>3, <1>4 DEF Outstanding
<1>6. OnEvent(locator, chain[i]) \subseteq told
  BY <1>1, <1>3, <1>5 DEF DInv, TransfersTold
<1>7. MessageOf(locator, i, j) \in OnEvent(locator, chain[i])
  <2>1. CASE chain[i].signature = "TransferSingle"
    <3>1. OnEvent(locator, chain[i]) = TransformTransferSingleEvent(locator, chain[i])
      BY <2>1, Zenon DEF OnEvent
    <3>2. Moves(chain[i])[j] = chain[i]
      BY <2>1, MovesOf
    <3> QED
      BY <2>1, <3>1, <3>2 DEF TransformTransferSingleEvent, MessageOf
  <2>2. CASE chain[i].signature = "TransferBatch"
    <3>1. OnEvent(locator, chain[i]) = TransformTransferBatchEvent(locator, chain[i])
      BY <2>2, Zenon DEF OnEvent
    <3>2. j \in DOMAIN chain[i].ids /\ Moves(chain[i])[j] = BatchMove(chain[i], j)
      BY <2>2, MovesOf
    <3> QED
      BY <2>2, <3>1, <3>2 DEF TransformTransferBatchEvent, MessageOf
  <2> QED
    BY <1>1, <2>1, <2>2 DEF Transfers
<1> QED
  BY <1>6, <1>7, MessageFields DEF Messages

\* and of nothing else.
LEMMA MessagesAreMoves ==
  ASSUME Sent, NEW locator, NEW m \in Messages(locator)
  PROVE  \E i \in DOMAIN chain : \E j \in DOMAIN Moves(chain[i]) :
           /\ m = MessageOf(locator, i, j)
           /\ PoolContainsId(UnpackPoolLocator(locator), Movement(i, j).id)
<1>1. /\ m \in told /\ m.locator = locator
      /\ m.event # "token-pool" /\ m.event # "token-approval"
  BY DEF Messages
<1>2. PICK i \in DOMAIN chain : m \in OnEvent(locator, chain[i])
  BY <1>1 DEF Sent
<1> DEFINE event == chain[i]
           pool == UnpackPoolLocator(locator)
<1>3. \/ /\ event.signature = "TransferSingle" /\ PoolContainsId(pool, event.id)
         /\ m = TransferMessage(locator, event, EventId(event))
      \/ /\ event.signature = "TransferBatch"
         /\ \E k \in DOMAIN event.ids :
              /\ PoolContainsId(pool, event.ids[k])
              /\ m = TransferMessage(locator, BatchMove(event, k), BatchId(event, k))
      \/ m \in TransformApprovalForAllEvent(locator, event)
  BY <1>1, <1>2, IdForms
<1>4. m \notin TransformApprovalForAllEvent(locator, event)
  BY <1>1 DEF TransformApprovalForAllEvent
<1>5. CASE /\ event.signature = "TransferSingle" /\ PoolContainsId(pool, event.id)
           /\ m = TransferMessage(locator, event, EventId(event))
  <2>1. 1 \in DOMAIN Moves(event) /\ Moves(event)[1] = event
    BY <1>5, MovesOf
  <2>2. Movement(i, 1).id = event.id
    BY <2>1 DEF Movement
  <2> QED
    BY <1>5, <2>1, <2>2 DEF MessageOf
<1>6. CASE /\ event.signature = "TransferBatch"
           /\ \E k \in DOMAIN event.ids :
                /\ PoolContainsId(pool, event.ids[k])
                /\ m = TransferMessage(locator, BatchMove(event, k), BatchId(event, k))
  <2>1. PICK k \in DOMAIN event.ids :
                /\ PoolContainsId(pool, event.ids[k])
                /\ m = TransferMessage(locator, BatchMove(event, k), BatchId(event, k))
    BY <1>6
  <2>2. k \in DOMAIN Moves(event) /\ Moves(event)[k] = BatchMove(event, k)
    BY <1>6, MovesOf
  <2>3. Movement(i, k).id = event.ids[k]
    BY <2>2 DEF Movement, BatchMove
  <2> QED
    BY <1>6, <2>1, <2>2, <2>3 DEF MessageOf
<1> QED
  BY <1>3, <1>4, <1>5, <1>6

\* Some movements, and some messages that are of just these, come to the
\* same number of units.
LEMMA BooksMatch ==
  ASSUME Ordered, MovesAmount, Sent, NEW locator,
         NEW S \in SUBSET AllMoves, NEW T \in SUBSET Messages(locator),
         \A i \in DOMAIN chain : \A j \in DOMAIN Moves(chain[i]) :
           /\ Movement(i, j) \in S => MessageOf(locator, i, j) \in T
           /\ PoolContainsId(UnpackPoolLocator(locator), Movement(i, j).id)
              /\ MessageOf(locator, i, j) \in T => Movement(i, j) \in S
  PROVE  Cardinality(Units(S)) = Cardinality(Units(T))
<1> DEFINE f == [m \in S |-> MessageOf(locator, m.at[1], m.at[2])]
<1>1. ASSUME NEW i \in DOMAIN chain, NEW j \in DOMAIN Moves(chain[i]), Movement(i, j) \in S
      PROVE  f[Movement(i, j)] = MessageOf(locator, i, j)
  <2>1. Movement(i, j).at = <<i, j>>
    BY DEF Movement
  <2>2. Movement(i, j).at[1] = i /\ Movement(i, j).at[2] = j
    BY <2>1
  <2> QED
    BY <1>1, <2>2
<1>2. ASSUME NEW m \in S
      PROVE  \E i \in DOMAIN chain : \E j \in DOMAIN Moves(chain[i]) :
               m = Movement(i, j) /\ f[m] = MessageOf(locator, i, j)
  <2>1. PICK i \in DOMAIN chain : \E j \in DOMAIN Moves(chain[i]) : m = Movement(i, j)
    BY DEF AllMoves
  <2> HIDE DEF f
  <2> QED
    BY <1>1, <2>1
<1>3. f \in [S -> T]
  <2>1. \A m \in S : MessageOf(locator, m.at[1], m.at[2]) \in T
    BY <1>2
  <2> QED
    BY <2>1
<1> HIDE DEF f
<1>4. ASSUME NEW m \in S, NEW n \in S, f[m] = f[n]
      PROVE  m = n
  <2>1. PICK i \in DOMAIN chain : \E j \in DOMAIN Moves(chain[i]) :
               m = Movement(i, j) /\ f[m] = MessageOf(locator, i, j)
    BY <1>2
  <2>2. PICK k \in DOMAIN chain : \E j \in DOMAIN Moves(chain[k]) :
               n = Movement(k, j) /\ f[n] = MessageOf(locator, k, j)
    BY <1>2
  <2> QED
    BY <1>4, <2>1, <2>2, OneMoveOfAMessage
<1>5. ASSUME NEW t \in T
      PROVE  \E m \in S : f[m] = t
  <2>1. PICK i \in DOMAIN chain : \E j \in DOMAIN Moves(chain[i]) :
           /\ t = MessageOf(locator, i, j)
           /\ PoolContainsId(UnpackPoolLocator(locator), Movement(i, j).id)
    BY MessagesAreMoves
  <2> QED
    BY <1>1, <2>1
<1>6. f \in Bijection(S, T)
  BY <1>3, <1>4, <1>5 DEF Bijection, Injection, Surjection, IsInjective
<1>7. IsFiniteSet(S)
  BY MovesAreFinite, FS_Subset
<1>8. ASSUME NEW m \in S
      PROVE  m.amount \in Nat /\ f[m].amount = m.amount
  <2>1. PICK i \in DOMAIN chain : \E j \in DOMAIN Moves(chain[i]) :
               m = Movement(i, j) /\ f[m] = MessageOf(locator, i, j)
    BY <1>2
  <2> QED
    BY <2>1, MovementFields, MessageFields DEF MovesAmount
<1> QED
  BY <1>6, <1>7, <1>8, UnitsMatch

\* A fungible pool that FireFly is told of is a single id, as a created one is.
Singular == \A p \in Existing : p.isFungible => p.startId = p.endId

LEMMA FungibleIsOneId ==
  ASSUME Singular, kind \in Kinds, NEW pool, IsPool(pool), pool.isFungible
  PROVE  pool.startId = pool.endId
<1>1. CASE kind = "oz"
  BY <1>1 DEF Singular, IsPool
<1>2. CASE kind # "oz"
  <2>1. PICK f \in BOOLEAN, k \in 1 .. MaxBlocks[kind] : pool = FormatLegacyPool(f, Start(f, k))
    BY <1>2 DEF IsPool
  <2>2. MaxBlocks[kind] \in Nat
    BY ContractsAssumption
  <2>3. k \in Nat /\ Start(f, k) \in Nat
    BY <2>2, StartIsAligned
  <2> DEFINE start == Start(f, k)
  <2>4. /\ pool.isFungible = f /\ pool.startId = start
        /\ pool.endId = start + (IF f THEN 1 ELSE IndexSize) - 1
    BY <2>1 DEF FormatLegacyPool
  <2>5. start \in Nat
    BY <2>3
  <2> HIDE DEF start
  <2>6. f
    BY <2>4
  <2> QED
    BY <2>4, <2>5, <2>6
<1> QED
  BY <1>1, <1>2

\* Of the tokens of a pool, an index names one.
LEMMA IndexNamesId ==
  ASSUME Singular, kind \in Kinds, NEW pool, IsPool(pool),
         NEW x \in Nat, PoolContainsId(pool, x), NEW y \in Nat, PoolContainsId(pool, y),
         (IF pool.isFungible THEN NoIndex ELSE x - pool.startId)
           = (IF pool.isFungible THEN NoIndex ELSE y - pool.startId)
  PROVE  x = y
<1>1. pool.startId \in Nat /\ pool.endId \in Nat
  BY PoolFields
<1>2. CASE pool.isFungible
  <2>1. pool.startId = pool.endId
    BY <1>2, FungibleIsOneId
  <2> QED
    BY <1>1, <2>1 DEF PoolContainsId
<1>3. CASE ~pool.isFungible
  BY <1>1, <1>3
<1> QED
  BY <1>2, <1>3

\* What a pool that caught up was told of a token comes to what is held.
LEMMA ToldIsBalance ==
  ASSUME Singular, kind \in Kinds, AInv, BInv, DInv,
         NEW locator \in Active, CaughtUp(TransferSubs(locator)),
         NEW id \in Nat, PoolContainsId(UnpackPoolLocator(locator), id), NEW account \in Accounts
  PROVE  LET pool == UnpackPoolLocator(locator)
         IN Told(locator, account, IF pool.isFungible THEN NoIndex ELSE id - pool.startId)
              = Balance(account, id)
<1> DEFINE pool == UnpackPoolLocator(locator)
           index == IF pool.isFungible THEN NoIndex ELSE id - pool.startId
           moves == {m \in AllMoves : m.id = id}
           messages == {m \in Messages(locator) : m.tokenIndex = index}
<1>1. Ordered /\ Subscribed /\ MovesAmount /\ Sent /\ EventIds /\ IsPool(pool)
  BY DEF AInv, BInv, DInv, KnownPools
<1>2. account # Zero
  BY NamesAssumption
\* One movement, and what is told of it.
<1>3. ASSUME NEW i \in DOMAIN chain, NEW j \in DOMAIN Moves(chain[i])
      PROVE  LET move == Movement(i, j)
                 m == MessageOf(locator, i, j)
             IN /\ move \in AllMoves /\ move.id \in Nat
                /\ m.from = move.from /\ m.to = move.to
                /\ move \in moves /\ (move.from = account \/ move.to = account) => m \in messages
                /\ PoolContainsId(pool, move.id) /\ m \in messages => move \in moves
  <2> DEFINE move == Movement(i, j)
             m == MessageOf(locator, i, j)
  <2>1. move \in AllMoves
    BY DEF AllMoves
  <2>2. move.id \in Nat
    BY <1>1, <2>1, MovedIds
  <2>3. /\ m.from = move.from /\ m.to = move.to
        /\ m.tokenIndex = IF pool.isFungible THEN NoIndex ELSE move.id - pool.startId
    BY MessageFields
  <2>4. /\ move.id = Moves(chain[i])[j].id
        /\ move.from = Moves(chain[i])[j].from /\ move.to = Moves(chain[i])[j].to
    BY DEF Movement
  <2> HIDE DEF move, m
  <2>5. ASSUME move.id = id, move.from = account \/ move.to = account
        PROVE  m \in messages
    <3>1. OfPool(locator, Moves(chain[i])[j])
      BY <1>2, <2>4, <2>5 DEF OfPool
    <3>2. m \in Messages(locator)
      BY <1>1, <3>1, MovesAreTold DEF m
    <3> QED
      BY <2>3, <2>5, <3>2
  <2>6. ASSUME PoolContainsId(pool, move.id), m \in messages
        PROVE  move \in moves
    <3>1. m.tokenIndex = index
      BY <2>6
    <3> HIDE DEF pool
    <3>2. (IF pool.isFungible THEN NoIndex ELSE move.id - pool.startId)
            = (IF pool.isFungible THEN NoIndex ELSE id - pool.startId)
      BY <2>3, <3>1
    <3>3. PoolContainsId(pool, id)
      BY DEF pool
    <3>4. move.id = id
      BY <1>1, <2>2, <2>6, <3>2, <3>3, IndexNamesId
    <3> QED
      BY <2>1, <3>4
  <2>7. move \in moves => move.id = id
    OBVIOUS
  <2> HIDE DEF moves, messages
  <2> QED
    BY <2>1, <2>2, <2>3, <2>5, <2>6, <2>7 DEF move, m
<1>4. moves \in SUBSET AllMoves /\ messages \in SUBSET Messages(locator)
  OBVIOUS
<1>5. Balance(account, id) = Net(moves, account) /\ Told(locator, account, index) = Net(messages, account)
  BY DEF Balance, Told
<1> HIDE DEF moves, messages
<1>6. Cardinality(Units({m \in moves : m.to = account}))
        = Cardinality(Units({m \in messages : m.to = account}))
  <2> DEFINE S == {m \in moves : m.to = account}
             T == {m \in messages : m.to = account}
  <2>1. S \in SUBSET AllMoves /\ T \in SUBSET Messages(locator)
    BY <1>4
  <2>2. \A i \in DOMAIN chain : \A j \in DOMAIN Moves(chain[i]) :
           /\ Movement(i, j) \in S => MessageOf(locator, i, j) \in T
           /\ PoolContainsId(pool, Movement(i, j).id) /\ MessageOf(locator, i, j) \in T => Movement(i, j) \in S
    BY <1>3
  <2> HIDE DEF S, T
  <2>3. Cardinality(Units(S)) = Cardinality(Units(T))
    BY <1>1, <2>1, <2>2, BooksMatch
  <2> QED
    BY <2>3 DEF S, T
<1>7. Cardinality(Units({m \in moves : m.from = account}))
        = Cardinality(Units({m \in messages : m.from = account}))
  <2> DEFINE S == {m \in moves : m.from = account}
             T == {m \in messages : m.from = account}
  <2>1. S \in SUBSET AllMoves /\ T \in SUBSET Messages(locator)
    BY <1>4
  <2>2. \A i \in DOMAIN chain : \A j \in DOMAIN Moves(chain[i]) :
           /\ Movement(i, j) \in S => MessageOf(locator, i, j) \in T
           /\ PoolContainsId(pool, Movement(i, j).id) /\ MessageOf(locator, i, j) \in T => Movement(i, j) \in S
    BY <1>3
  <2> HIDE DEF S, T
  <2>3. Cardinality(Units(S)) = Cardinality(Units(T))
    BY <1>1, <2>1, <2>2, BooksMatch
  <2> QED
    BY <2>3 DEF S, T
<1>8. Net(moves, account) = Net(messages, account)
  BY <1>6, <1>7, Zenon DEF Net
<1> QED
  BY <1>5, <1>8

\* The messages of a pool are about tokens of it that moved.
LEMMA KnownTokens ==
  ASSUME kind \in Kinds, BInv, NEW locator \in Active, NEW index \in KnownIndexes(locator)
  PROVE  LET pool == UnpackPoolLocator(locator)
         IN \E id \in {m.id : m \in AllMoves} \cap pool.startId .. pool.endId :
              index = IF pool.isFungible THEN NoIndex ELSE id - pool.startId
<1> DEFINE pool == UnpackPoolLocator(locator)
<1>1. PICK m \in Messages(locator) : m.tokenIndex = index
  BY DEF KnownIndexes
<1>2. PICK i \in DOMAIN chain : \E j \in DOMAIN Moves(chain[i]) :
           /\ m = MessageOf(locator, i, j)
           /\ PoolContainsId(pool, Movement(i, j).id)
  BY MessagesAreMoves DEF BInv
<1>3. PICK j \in DOMAIN Moves(chain[i]) :
           /\ m = MessageOf(locator, i, j)
           /\ PoolContainsId(pool, Movement(i, j).id)
  BY <1>2
<1>4. Movement(i, j) \in AllMoves
  BY DEF AllMoves
<1>5. Movement(i, j).id \in Nat
  BY <1>4, MovedIds DEF BInv
<1>6. pool.startId \in Nat /\ pool.endId \in Nat
  BY PoolFields DEF BInv, KnownPools
<1>7. m.tokenIndex = IF pool.isFungible THEN NoIndex ELSE Movement(i, j).id - pool.startId
  BY <1>3, MessageFields
<1> HIDE DEF pool
<1>8. Movement(i, j).id \in pool.startId .. pool.endId
  BY <1>3, <1>5, <1>6 DEF PoolContainsId
<1> QED
  BY <1>1, <1>4, <1>7, <1>8 DEF pool

\* The books agree: once the transfers of an active pool are delivered, what
\* the messages of the pool add up to is what the contract holds, for every
\* account and every token of the pool, and nothing of another pool is in
\* them (transformTransferSingleEvent, transformTransferBatchEvent, and the
\* block that activatePool subscribes from).
THEOREM BooksAgree == Singular /\ Spec => []LedgerAgrees
<1>1. Singular /\ Callable /\ AInv /\ BInv /\ DInv => LedgerAgrees
  <2> SUFFICES ASSUME Singular, Callable, AInv, BInv, DInv,
                      NEW locator \in Active, CaughtUp(TransferSubs(locator))
               PROVE  LET pool  == UnpackPoolLocator(locator)
                          Ids   == {m.id : m \in AllMoves} \cap pool.startId .. pool.endId
                          Index == [id \in Ids |-> IF pool.isFungible THEN NoIndex ELSE id - pool.startId]
                      IN /\ KnownIndexes(locator) \subseteq {Index[id] : id \in Ids}
                         /\ \A id \in Ids, account \in Accounts :
                              Told(locator, account, Index[id]) = Balance(account, id)
    BY DEF LedgerAgrees
  <2> DEFINE pool  == UnpackPoolLocator(locator)
             Ids   == {m.id : m \in AllMoves} \cap pool.startId .. pool.endId
             Index == [id \in Ids |-> IF pool.isFungible THEN NoIndex ELSE id - pool.startId]
  <2>1. kind \in Kinds /\ pool.startId \in Nat /\ pool.endId \in Nat
    BY PoolFields DEF Callable, BInv, KnownPools
  <2>2. KnownIndexes(locator) \subseteq {Index[id] : id \in Ids}
    BY <2>1, KnownTokens
  <2>3. ASSUME NEW id \in Ids, NEW account \in Accounts
        PROVE  Told(locator, account, Index[id]) = Balance(account, id)
    <3>1. id \in Nat /\ PoolContainsId(pool, id)
      BY <2>1 DEF PoolContainsId
    <3>2. Index[id] = IF pool.isFungible THEN NoIndex ELSE id - pool.startId
      OBVIOUS
    <3> HIDE DEF Ids, Index
    <3>3. Told(locator, account, IF pool.isFungible THEN NoIndex ELSE id - pool.startId)
            = Balance(account, id)
      BY <2>1, <3>1, ToldIsBalance
    <3> QED
      BY <3>2, <3>3
  <2> QED
    BY <2>2, <2>3
<1>2. Singular' <=> Singular
  BY DEF Singular
<1> QED
  BY <1>1, <1>2, CallsInvariant, ApprovalsInvariant, PoolsInvariant, MovesInvariant, PTL

\* GET /balance answers with the balance of the token that messages name by
\* the same index: computeTokenId undoes computeTokenIndex.
THEOREM BalancesAreAnswered == Singular /\ Aligned /\ Spec => []BalanceAnswered
<1>1. Singular /\ Aligned /\ Callable /\ AInv /\ BInv /\ DInv => BalanceAnswered
  <2> SUFFICES ASSUME Singular, Aligned, Callable, AInv, BInv, DInv,
                      NEW locator \in Active, CaughtUp(TransferSubs(locator)),
                      NEW account \in Accounts, NEW index \in KnownIndexes(locator)
               PROVE  BalanceQuery(locator, account, index) = Told(locator, account, index)
    BY DEF BalanceAnswered
  <2> DEFINE pool == UnpackPoolLocator(locator)
  <2>1. kind \in Kinds /\ IsPool(pool) /\ pool.startId \in Nat /\ pool.endId \in Nat
    BY PoolFields DEF Callable, BInv, KnownPools
  <2>2. PICK id \in {m.id : m \in AllMoves} \cap pool.startId .. pool.endId :
              index = IF pool.isFungible THEN NoIndex ELSE id - pool.startId
    BY <2>1, KnownTokens
  <2>3. id \in Nat /\ PoolContainsId(pool, id)
    BY <2>1, <2>2 DEF PoolContainsId
  <2>4. Told(locator, account, index) = Balance(account, id)
    BY <2>1, <2>2, <2>3, ToldIsBalance
  <2>5. ComputeTokenId(pool, IF index = NoIndex THEN 0 ELSE index) = id
    <3>1. PICK q \in Nat : pool.startId = IndexSize * q
      BY <2>1, PoolsAreAligned
    <3>2. pool.endId - pool.startId < IndexSize
      BY <2>1, PoolsAreAligned
    <3>3. \A y \in 0 .. IndexSize - 1 : BitOr(pool.startId, y) = pool.startId + y
      BY <3>1, Widths, BitOrAdds
    <3>4. CASE pool.isFungible
      <4>1. pool.startId = pool.endId
        BY <2>1, <3>4, FungibleIsOneId
      <4>2. id = pool.startId /\ index = NoIndex
        BY <2>1, <2>2, <3>4, <4>1
      <4>3. 0 \in 0 .. IndexSize - 1
        BY Widths
      <4>4. BitOr(pool.startId, 0) = pool.startId
        BY <2>1, <3>3, <4>3
      <4> QED
        BY <4>2, <4>4 DEF ComputeTokenId
    <3>5. CASE ~pool.isFungible
      <4>1. index = id - pool.startId
        BY <2>2, <3>5
      <4>2. index \in 0 .. IndexSize - 1 /\ index \in Nat
        BY <2>1, <2>2, <3>2, <4>1, Widths
      <4>3. index # NoIndex
        BY <4>2, NamesAssumption
      <4>4. BitOr(pool.startId, index) = id
        BY <2>1, <2>2, <3>3, <4>1, <4>2
      <4> QED
        BY <4>3, <4>4 DEF ComputeTokenId
    <3> QED
      BY <3>4, <3>5
  <2> QED
    BY <2>4, <2>5 DEF BalanceQuery
<1>2. (Singular' <=> Singular) /\ (Aligned' <=> Aligned)
  BY DEF Singular, Aligned
<1> QED
  BY <1>1, <1>2, CallsInvariant, ApprovalsInvariant, PoolsInvariant, MovesInvariant, PTL

-----------------------------------------------------------------------------
(* Types *)

\* The bits of x | y are no higher than those of x and y.
LEMMA BitOrFits ==
  ASSUME NEW n, PowerOfTwo(n), NEW x \in 0 .. 2 * n - 1, NEW y \in 0 .. 2 * n - 1
  PROVE  BitOr(x, y) \in 0 .. 2 * n - 1
<1> DEFINE bad == {m \in Nat : /\ PowerOfTwo(m)
                               /\ \E a, b \in 0 .. 2 * m - 1 : BitOr(a, b) \notin 0 .. 2 * m - 1}
<1>1. SUFFICES ASSUME bad # {} PROVE FALSE
  BY DEF PowerOfTwo
<1>2. PICK m \in bad : \A k \in bad : m <= k
  BY <1>1, LeastOf
<1>3. m \in Nat \ {0} /\ PowerOfTwo(m)
  BY <1>2 DEF PowerOfTwo
<1>4. PICK a \in 0 .. 2 * m - 1, b \in 0 .. 2 * m - 1 : BitOr(a, b) \notin 0 .. 2 * m - 1
  BY <1>2
<1>5. a \in Nat /\ b \in Nat
  BY <1>3
<1>6. a # 0 /\ b # 0
  BY <1>4, <1>5, BitOrZero
<1>7. BitOr(a, b) = 2 * BitOr(a \div 2, b \div 2) + (IF 1 \in {a % 2, b % 2} THEN 1 ELSE 0)
  <2>1. <<a, b>> \in Nat \X Nat /\ <<a, b>>[1] = a /\ <<a, b>>[2] = b
    BY <1>5
  <2>2. Or[<<a, b>>] = OrStep(Or, <<a, b>>)
    BY <2>1, OrUnfolds
  <2>3. OrStep(Or, <<a, b>>) = 2 * Or[<<a \div 2, b \div 2>>] + (IF 1 \in {a % 2, b % 2} THEN 1 ELSE 0)
    BY <1>6, <2>1 DEF OrStep
  <2> QED
    BY <2>2, <2>3 DEF BitOr
<1>8. BitOr(a \div 2, b \div 2) \in 0 .. m - 1
  <2>1. CASE m = 1
    <3>1. a \div 2 = 0 /\ b \div 2 = 0
      BY <1>3, <1>5, <2>1
    <3> QED
      BY <2>1, <3>1, BitOrZero
  <2>2. CASE m # 1
    <3>1. PICK h \in Nat : m = 2 * h /\ PowerOfTwo(h)
      BY <1>3, <2>2, HalfOfPower
    <3>2. h < m /\ h \notin bad
      <4>1. h < m
        BY <1>3, <3>1
      <4> HIDE DEF bad
      <4> QED
        BY <1>2, <1>3, <3>1, <4>1
    <3>3. a \div 2 \in 0 .. 2 * h - 1 /\ b \div 2 \in 0 .. 2 * h - 1
      BY <1>3, <1>5, <3>1
    <3> QED
      BY <3>1, <3>2, <3>3
  <2> QED
    BY <2>1, <2>2
<1>9. BitOr(a, b) \in 0 .. 2 * m - 1
  <2> DEFINE half == BitOr(a \div 2, b \div 2)
             bit == IF 1 \in {a % 2, b % 2} THEN 1 ELSE 0
  <2>1. BitOr(a, b) = 2 * half + bit /\ half \in 0 .. m - 1 /\ bit \in 0 .. 1
    BY <1>7, <1>8
  <2> HIDE DEF half, bit
  <2> QED
    BY <1>3, <2>1
<1> QED
  BY <1>4, <1>9

\* Ids made of ids and small numbers are ids.
LEMMA IdsFit ==
  ASSUME NEW x \in TokenIdSpace, NEW y \in TokenIdSpace
  PROVE  BitOr(x, y) \in TokenIdSpace
BY BitOrFits, Widths DEF TokenIdSpace

\* A pool of the sample contract ends before the ids do.
LEMMA SamplePoolTyped ==
  ASSUME NEW f \in BOOLEAN, NEW k \in Nat, k * IndexSize < TypeBit
  PROVE  FormatLegacyPool(f, Start(f, k)) \in Pool
<1>1. PICK n \in Nat : TypeBit = IndexSize * n
  BY Widths
<1>2. IndexSize * k + IndexSize <= TypeBit
  <2>1. k < n
    <3>1. SUFFICES ASSUME n <= k PROVE FALSE
      BY <1>1
    <3>2. IndexSize * n <= IndexSize * k
      BY <1>1, <3>1, Widths
    <3> QED
      BY <1>1, <3>2, Widths
  <2>2. IndexSize * (k + 1) <= IndexSize * n
    BY <1>1, <2>1, Widths
  <2> QED
    BY <1>1, <2>2, Widths
<1> DEFINE p == IndexSize * k
<1>3. p \in Nat /\ p + IndexSize <= TypeBit /\ Start(f, k) = (IF f THEN 0 ELSE TypeBit) + p
  BY <1>2, Widths DEF Start
<1> HIDE DEF p
<1>4. Start(f, k) \in TokenIdSpace /\ Start(f, k) + (IF f THEN 1 ELSE IndexSize) - 1 \in TokenIdSpace
  BY <1>3, Widths DEF TokenIdSpace
<1> QED
  BY <1>4 DEF FormatLegacyPool, Pool

LEMMA PoolTyped ==
  ASSUME kind \in Kinds, NEW pool, IsPool(pool)
  PROVE  pool \in Pool
<1>1. CASE kind = "oz"
  BY <1>1, ContractsAssumption DEF IsPool, Pool
<1>2. CASE kind # "oz"
  <2>1. PICK f \in BOOLEAN, k \in 1 .. MaxBlocks[kind] : pool = FormatLegacyPool(f, Start(f, k))
    BY <1>2 DEF IsPool
  <2>2. k \in Nat /\ k * IndexSize < TypeBit
    BY NumberFits, ContractsAssumption
  <2> QED
    BY <2>1, <2>2, SamplePoolTyped
<1> QED
  BY <1>1, <1>2

\* Places in the chain are within its bound, and its events are typed.
TypedEvents == /\ chain \in Seq(Event)
               /\ \A i \in DOMAIN chain : chain[i].block \in 1 .. MaxBlocks[kind]

TypedCalls == \A tx \in submitted : tx.operation # "create" /\ tx.method # NoMethod =>
                /\ tx.id \in TokenIdSpace
                /\ tx.dto \in IF tx.operation = "approval" THEN ApprovalDto ELSE TransferDto

TypedLocators == Active \subseteq Locator

TypedMessages == told \subseteq TokenPoolEvent \cup TokenTransferEvent \cup TokenApprovalEvent

EInv == TypedEvents /\ TypedCalls /\ TypedLocators /\ TypedMessages

LEMMA HeightFits ==
  ASSUME kind \in Kinds, Ordered, TypedEvents
  PROVE  Height \in Nat /\ Height <= MaxBlocks[kind]
<1>1. Len(chain) \in Nat /\ DOMAIN chain = 1 .. Len(chain)
  BY DEF Ordered, IsSeq
<1>2. MaxBlocks[kind] \in Nat
  BY ContractsAssumption
<1>3. CASE chain = <<>>
  BY <1>2, <1>3 DEF Height
<1>4. CASE chain # <<>>
  <2>1. Len(chain) \in DOMAIN chain
    BY <1>1, <1>4 DEF Ordered, IsSeq
  <2>2. Height = chain[Len(chain)].block
    BY <1>4 DEF Height, Last
  <2> QED
    BY <1>2, <2>1, <2>2 DEF TypedEvents
<1> QED
  BY <1>3, <1>4

\* Types and indexes fit.
LEMMA IndexesFit ==
  ASSUME kind \in Kinds, Ordered, TypedEvents, Numbered, Room, NEW t \in DOMAIN maxIndex
  PROVE  t \in TokenIdSpace /\ maxIndex[t] \in 0 .. IndexSize - 2
<1>1. Height \in Nat /\ Height <= MaxBlocks[kind] /\ MaxBlocks[kind] \in Nat
      /\ 2 * MaxBlocks[kind] <= IndexSize
  BY HeightFits, ContractsAssumption
<1>2. maxIndex[t] \in 0 .. IndexSize - 2
  BY <1>1, Widths DEF Room
<1>3. PICK f \in BOOLEAN, k \in 1 .. Cardinality(DOMAIN maxIndex) : t = Start(f, k)
  BY DEF Numbered
<1>4. Cardinality(DOMAIN maxIndex) \in Nat
  BY FS_CardinalityType DEF Numbered
<1>5. k \in Nat /\ k <= MaxBlocks[kind]
  BY <1>1, <1>4 DEF Numbered
<1>6. k * IndexSize < TypeBit
  BY <1>5, NumberFits
<1> DEFINE p == IndexSize * k
<1>7. p \in Nat /\ p < TypeBit /\ t = (IF f THEN 0 ELSE TypeBit) + p
  BY <1>3, <1>5, <1>6, Widths DEF Start
<1> HIDE DEF p
<1> QED
  BY <1>2, <1>7, Widths DEF TokenIdSpace

-----------------------------------------------------------------------------
\* What a place in the chain makes of the events of the contract
LEMMA PlacedTransfer ==
  ASSUME NEW b \in Nat, NEW l \in Nat, NEW from \in Holders, NEW to \in Holders,
         NEW id \in TokenIdSpace, NEW value \in Nat
  PROVE  Placed(Transfer(from, to, id, value), b, l) \in Event
<1> DEFINE e == [block |-> b, log |-> l, signature |-> "TransferSingle",
                 from |-> from, to |-> to, id |-> id, value |-> value]
<1>1. Placed(Transfer(from, to, id, value), b, l) = e
  BY DEF Placed, Transfer
<1>2. e \in [block : Nat, log : Nat, signature : {"TransferSingle"},
             from : Holders, to : Holders, id : TokenIdSpace, value : Nat]
  OBVIOUS
<1> HIDE DEF e
<1> QED
  BY <1>1, <1>2 DEF Event

LEMMA PlacedApproval ==
  ASSUME NEW b \in Nat, NEW l \in Nat, NEW account \in Accounts, NEW operator \in Accounts,
         NEW approved \in BOOLEAN
  PROVE  Placed([signature |-> "ApprovalForAll", account |-> account,
                 operator |-> operator, approved |-> approved], b, l) \in Event
<1> DEFINE e == [block |-> b, log |-> l, signature |-> "ApprovalForAll",
                 account |-> account, operator |-> operator, approved |-> approved]
<1>1. Placed([signature |-> "ApprovalForAll", account |-> account,
              operator |-> operator, approved |-> approved], b, l) = e
  BY DEF Placed
<1>2. e \in [block : Nat, log : Nat, signature : {"ApprovalForAll"},
             account : Accounts, operator : Accounts, approved : BOOLEAN]
  OBVIOUS
<1> HIDE DEF e
<1> QED
  BY <1>1, <1>2 DEF Event

LEMMA PlacedCreation ==
  ASSUME kind \in Kinds, NEW b \in Nat, NEW l \in Nat, NEW f \in BOOLEAN,
         NEW type, FormatLegacyPool(f, type) \in Pool
  PROVE  Placed(CreationEvent(type, f), b, l) \in Event
<1> DEFINE end == FormatLegacyPool(f, type).endId
<1>1. type \in TokenIdSpace /\ end \in TokenIdSpace
  BY DEF FormatLegacyPool, Pool
<1> HIDE DEF end
<1>2. CASE kind = "Old"
  <2> DEFINE e == [block |-> b, log |-> l, signature |-> "TokenPoolCreation", typeId |-> type]
  <2>1. CreationEvent(type, f) = [signature |-> "TokenPoolCreation", typeId |-> type]
    BY <1>2 DEF CreationEvent
  <2>2. Placed([signature |-> "TokenPoolCreation", typeId |-> type], b, l) = e
    BY DEF Placed
  <2>3. e \in [block : Nat, log : Nat, signature : {"TokenPoolCreation"}, typeId : TokenIdSpace]
    BY <1>1
  <2> HIDE DEF e
  <2> QED
    BY <2>1, <2>2, <2>3 DEF Event
<1>3. CASE kind # "Old"
  <2> DEFINE e == [block |-> b, log |-> l, signature |-> "TokenPoolCreation",
                   isFungible |-> f, startId |-> type, endId |-> end]
  <2>1. CreationEvent(type, f) = [signature |-> "TokenPoolCreation", isFungible |-> f,
                                  startId |-> type, endId |-> end]
    BY <1>3 DEF CreationEvent, end
  <2>2. Placed([signature |-> "TokenPoolCreation", isFungible |-> f,
                startId |-> type, endId |-> end], b, l) = e
    BY DEF Placed
  <2>3. e \in [block : Nat, log : Nat, signature : {"TokenPoolCreation"},
               isFungible : BOOLEAN, startId : TokenIdSpace, endId : TokenIdSpace]
    BY <1>1
  <2> HIDE DEF e
  <2> QED
    BY <2>1, <2>2, <2>3 DEF Event
<1> QED
  BY <1>2, <1>3

LEMMA PlacedBatch ==
  ASSUME NEW b \in Nat, NEW l \in Nat, NEW from \in Accounts, NEW to \in Accounts,
         NEW ids \in TokenIdSpace \X TokenIdSpace
  PROVE  Placed([signature |-> "TransferBatch", from |-> from, to |-> to, ids |-> ids,
                 values |-> [i \in DOMAIN ids |-> 1]], b, l) \in Event
<1>1. ids = <<ids[1], ids[2]>> /\ ids[1] \in TokenIdSpace /\ ids[2] \in TokenIdSpace
  OBVIOUS
<1>2. \A x, y \in TokenIdSpace : <<x, y>> \in Seq(TokenIdSpace) /\ DOMAIN <<x, y>> = 1 .. 2
  OBVIOUS
<1>3. ids \in Seq(TokenIdSpace) /\ DOMAIN ids = 1 .. 2
  BY <1>1, <1>2
<1> DEFINE ones == [i \in DOMAIN ids |-> 1]
<1>4. ones \in Seq(Nat)
  <2>1. ones = [i \in 1 .. 2 |-> 1]
    BY <1>3
  <2>2. [i \in 1 .. 2 |-> 1] \in [1 .. 2 -> Nat]
    OBVIOUS
  <2>3. \A n \in Nat : \A s \in [1 .. n -> Nat] : s \in Seq(Nat)
    OBVIOUS
  <2> HIDE DEF ones
  <2> QED
    BY <2>1, <2>2, <2>3
<1> HIDE DEF ones
<1> DEFINE e == [block |-> b, log |-> l, signature |-> "TransferBatch",
                 from |-> from, to |-> to, ids |-> ids, values |-> ones]
<1>5. Placed([signature |-> "TransferBatch", from |-> from, to |-> to, ids |-> ids,
              values |-> ones], b, l) = e
  BY DEF Placed
<1>6. e \in [block : Nat, log : Nat, signature : {"TransferBatch"},
             from : Accounts, to : Accounts, ids : Seq(TokenIdSpace), values : Seq(Nat)]
  BY <1>3, <1>4
<1> HIDE DEF e
<1>7. e \in Event
  BY <1>6 DEF Event
<1> QED
  BY <1>5, <1>7 DEF ones

\* What a transaction emits is typed at any place.
LEMMA EmittedTyped ==
  ASSUME kind \in Kinds, CallsExist, Ordered, BInv, DInv, EInv, NEW tx \in submitted
  PROVE  \A i \in DOMAIN Emitted(tx) : \A b, l \in Nat : Placed(Emitted(tx)[i], b, l) \in Event
<1> USE DEF BInv, DInv, EInv
<1> DEFINE Good(e) == \A b, l \in Nat : Placed(e, b, l) \in Event
           Fine(events) == \A i \in DOMAIN events : Good(events[i])
<1>1. ASSUME NEW e, Good(e)
      PROVE  Fine(<<e>>)
  <2>1. DOMAIN <<e>> = {1} /\ <<e>>[1] = e
    OBVIOUS
  <2> HIDE DEF Good
  <2> QED
    BY <1>1, <2>1
<1>2. Fine(<<>>)
  OBVIOUS
<1>3. ASSUME NEW from \in Holders, NEW to \in Holders, NEW id \in TokenIdSpace, NEW value \in Nat
      PROVE  Good(Transfer(from, to, id, value))
  BY PlacedTransfer
<1>4. CASE tx.operation = "create"
  <2> DEFINE creation == CreationEvent(NextType(tx.isFungible), tx.isFungible)
  <2>1. tx.isFungible \in BOOLEAN
    BY <1>4 DEF Calls
  <2>2. PICK k \in 1 .. MaxBlocks[kind] : NextType(tx.isFungible) = Start(tx.isFungible, k)
    BY <2>1, NextTypeIsStart DEF Numbered
  <2>3. k \in Nat /\ k * IndexSize < TypeBit
    BY NumberFits, ContractsAssumption
  <2>4. FormatLegacyPool(tx.isFungible, NextType(tx.isFungible)) \in Pool
    BY <2>1, <2>2, <2>3, SamplePoolTyped
  <2>5. Good(creation)
    BY <2>1, <2>4, PlacedCreation
  <2>6. Emitted(tx) = <<creation>>
    BY <1>4, NoMethodIsNone DEF Emitted, Executes, CallsExist, Calls
  <2> HIDE DEF Good, Fine, creation
  <2>7. Fine(Emitted(tx))
    BY <1>1, <2>5, <2>6
  <2> QED
    BY <2>7 DEF Fine, Good
<1>5. CASE tx.operation = "approval" /\ tx.method \in Implemented
  <2> DEFINE event == [signature |-> "ApprovalForAll", account |-> tx.dto.from,
                       operator |-> tx.dto.to, approved |-> tx.dto.approved]
  <2>1. tx.dto.from \in Accounts /\ tx.dto.to \in Accounts /\ tx.dto.approved \in BOOLEAN
    BY <1>5, NoMethodIsNone DEF TypedCalls, ApprovalDto
  <2>2. Good(event)
    BY <2>1, PlacedApproval
  <2>3. Emitted(tx) = <<event>>
    BY <1>5 DEF Emitted, Executes
  <2> HIDE DEF Good, Fine, event
  <2>4. Fine(Emitted(tx))
    BY <1>1, <2>2, <2>3
  <2> QED
    BY <2>4 DEF Fine, Good
<1>6. CASE tx.operation \notin {"create", "approval"} /\ tx.method \in Implemented
  <2>1. /\ tx.id \in TokenIdSpace
        /\ tx.dto.from \in Holders /\ tx.dto.to \in Holders /\ tx.dto.amount \in Nat
    BY <1>6, NoMethodIsNone DEF TypedCalls, TransferDto
  <2>2. Zero \in Holders
    BY DEF Holders
  <2>3. Good(Transfer(Zero, tx.dto.to, tx.id, tx.dto.amount))
        /\ Good(Transfer(tx.dto.from, tx.dto.to, tx.id, tx.dto.amount))
    <3> HIDE DEF Good
    <3> QED
      BY <1>3, <2>1, <2>2
  <2>4. ASSUME tx.method \in AutoIndexed
        PROVE  Fine([i \in 1 .. tx.dto.amount |->
                       Transfer(Zero, tx.dto.to, BitOr(tx.id, maxIndex[tx.id] + i), 1)])
    <3>1. tx.id \in DOMAIN maxIndex
      BY <1>6, <2>4, NoMethodIsNone DEF Calls
    <3>2. maxIndex[tx.id] \in 0 .. IndexSize - 2
      BY <3>1, IndexesFit
    <3>3. tx.dto.amount \in 1 .. 2
      BY <1>6, <2>4, NoMethodIsNone DEF Amounted
    <3>4. IndexSize <= TypeBit
      <4>1. PICK n \in Nat : TypeBit = IndexSize * n
        BY Widths
      <4>2. n >= 1
        BY <4>1, Widths
      <4>3. IndexSize * 1 <= IndexSize * n
        BY <4>1, <4>2, Widths
      <4> QED
        BY <4>1, <4>3, Widths
    <3>5. ASSUME NEW i \in 1 .. tx.dto.amount
          PROVE  Good(Transfer(Zero, tx.dto.to, BitOr(tx.id, maxIndex[tx.id] + i), 1))
      <4>1. maxIndex[tx.id] + i \in TokenIdSpace
        BY <3>2, <3>3, <3>4, Widths DEF TokenIdSpace
      <4>2. BitOr(tx.id, maxIndex[tx.id] + i) \in TokenIdSpace
        BY <2>1, <4>1, IdsFit
      <4> HIDE DEF Good
      <4> QED
        BY <1>3, <2>1, <2>2, <4>2
    <3> HIDE DEF Good
    <3> QED
      BY <3>5
  <2> HIDE DEF Good, Fine
  <2>5. Fine(Minted(tx)) /\ Fine(Moved(tx))
    BY <1>1, <2>3, <2>4 DEF Minted, Moved
  <2>6. Emitted(tx) \in {<<>>, Minted(tx), Moved(tx)}
    BY <1>6 DEF Emitted, Executes
  <2>7. Fine(Emitted(tx))
    BY <1>2, <2>5, <2>6
  <2> QED
    BY <2>7 DEF Fine, Good
<1>7. CASE tx.method \notin Implemented
  <2>1. Emitted(tx) = <<>>
    BY <1>7 DEF Emitted
  <2> QED
    BY <2>1
<1> QED
  BY <1>4, <1>5, <1>6, <1>7

LEMMA MineKeepsEvents ==
  ASSUME kind \in Kinds, Ordered, TypedEvents, Height < MaxBlocks[kind], UNCHANGED kind,
         NEW events, IsSeq(events), Mine(events),
         \A i \in DOMAIN events : \A b, l \in Nat : Placed(events[i], b, l) \in Event
  PROVE  TypedEvents'
<1>1. /\ IsSeq(chain')
      /\ Len(chain) \in Nat /\ DOMAIN chain = 1 .. Len(chain)
      /\ Len(events) \in Nat /\ DOMAIN events = 1 .. Len(events)
      /\ DOMAIN chain' = 1 .. Len(chain) + Len(events)
      /\ \A i \in DOMAIN chain : chain'[i] = chain[i]
      /\ \A i \in DOMAIN events : chain'[Len(chain) + i] = Placed(events[i], Height + 1, i)
  BY MineAppends
<1>2. Height \in Nat /\ Height + 1 \in Nat /\ Height + 1 \in 1 .. MaxBlocks[kind]
  BY HeightIsTop, ContractsAssumption
<1>3. ASSUME NEW i \in DOMAIN chain'
      PROVE  chain'[i] \in Event /\ chain'[i].block \in 1 .. MaxBlocks[kind]
  <2>1. CASE i \in DOMAIN chain
    BY <1>1, <2>1 DEF TypedEvents
  <2>2. CASE i \notin DOMAIN chain
    <3>1. PICK n \in DOMAIN events : i = Len(chain) + n
      <4>1. i - Len(chain) \in 1 .. Len(events) /\ i = Len(chain) + (i - Len(chain))
        BY <1>1, <2>2
      <4> QED
        BY <1>1, <4>1
    <3>2. chain'[i] = Placed(events[n], Height + 1, n) /\ n \in Nat
      BY <1>1, <3>1
    <3>3. chain'[i].block = Height + 1
      BY <3>2, PlacedFields
    <3> QED
      BY <1>2, <3>2, <3>3
  <2> QED
    BY <2>1, <2>2
<1>4. chain' \in Seq(Event)
  <2>1. Len(chain') \in Nat /\ DOMAIN chain' = 1 .. Len(chain') /\ chain' = [i \in 1 .. Len(chain') |-> chain'[i]]
    BY <1>1 DEF IsSeq
  <2>2. chain' \in [1 .. Len(chain') -> Event]
    BY <1>3, <2>1
  <2>3. \A n \in Nat : \A s \in [1 .. n -> Event] : s \in Seq(Event)
    OBVIOUS
  <2> QED
    BY <2>1, <2>2, <2>3
<1> QED
  BY <1>3, <1>4 DEF TypedEvents

LEMMA MinedKeepsTypes ==
  ASSUME kind \in Kinds, CallsExist, Ordered, Amounts, BInv, DInv, EInv, NEW tx \in submitted, Mined(tx)
  PROVE  EInv'
<1>1. /\ IsSeq(Emitted(tx)) /\ Mine(Emitted(tx))
      /\ submitted' \subseteq submitted /\ UNCHANGED <<kind, cursor, told>>
  BY EmittedEvents DEF Amounts, Mined
<1>2. Height < MaxBlocks[kind]
  BY DEF BInv, Numbered
<1>3. TypedEvents'
  BY <1>1, <1>2, EmittedTyped, MineKeepsEvents DEF EInv
<1>4. TypedCalls'
  BY <1>1 DEF EInv, TypedCalls
<1>5. TypedLocators' /\ TypedMessages'
  BY <1>1 DEF EInv, TypedLocators, TypedMessages, Active
<1> QED
  BY <1>3, <1>4, <1>5 DEF EInv

\* Tokens that are moved in a batch were moved before.
LEMMA HeldTyped ==
  ASSUME EInv, NEW account, NEW id \in Held(account)
  PROVE  id \in TokenIdSpace
<1>1. PICK i \in DOMAIN chain : \E j \in DOMAIN Moves(chain[i]) : id = Movement(i, j).id
  BY DEF Held, AllMoves
<1>2. id \in IdsOf(chain[i])
  BY <1>1, MovementFields
<1>3. chain[i] \in Event
  BY DEF EInv, TypedEvents
<1> DEFINE event == chain[i]
<1> HIDE DEF event
<1>4. event \in Event /\ id \in IdsOf(event)
  BY <1>2, <1>3 DEF event
<1>5. CASE event.signature = "TransferSingle"
  BY <1>4, <1>5 DEF Event, IdsOf
<1>6. CASE event.signature = "TransferBatch"
  <2>1. event.ids \in Seq(TokenIdSpace)
    BY <1>4, <1>6 DEF Event
  <2> QED
    BY <1>4, <1>6, <2>1 DEF IdsOf
<1> QED
  BY <1>4, <1>5, <1>6 DEF IdsOf

LEMMA BatchTransferKeepsTypes ==
  ASSUME kind \in Kinds, Ordered, EInv, NEW from \in Accounts, NEW to \in Accounts,
         NEW ids \in Held(from) \X Held(from), BatchTransfer(from, to, ids)
  PROVE  EInv'
<1> DEFINE event == [signature |-> "TransferBatch", from |-> from, to |-> to, ids |-> ids,
                     values |-> [i \in DOMAIN ids |-> 1]]
           events == <<event>>
<1>1. ids \in TokenIdSpace \X TokenIdSpace
  <2>1. Held(from) \subseteq TokenIdSpace
    BY HeldTyped
  <2> QED
    BY <2>1
<1>2. \A b, l \in Nat : Placed(event, b, l) \in Event
  BY <1>1, PlacedBatch
<1>3. Mine(events) /\ Height < MaxBlocks[kind] /\ UNCHANGED <<kind, submitted, cursor, told>>
  BY DEF BatchTransfer
<1> HIDE DEF event
<1>4. IsSeq(events) /\ DOMAIN events = {1} /\ events[1] = event
  <2>1. events \in Seq({event})
    OBVIOUS
  <2>2. IsSeq(events)
    BY <2>1, SeqIsSeq
  <2> QED
    BY <2>2
<1> HIDE DEF events
<1>5. TypedEvents'
  <2>1. \A i \in DOMAIN events : \A b, l \in Nat : Placed(events[i], b, l) \in Event
    BY <1>2, <1>4
  <2> QED
    BY <1>3, <1>4, <2>1, MineKeepsEvents DEF EInv
<1>6. TypedCalls' /\ TypedLocators' /\ TypedMessages'
  BY <1>3 DEF EInv, TypedCalls, TypedLocators, TypedMessages, Active
<1> QED
  BY <1>5, <1>6 DEF EInv

\* A request that FireFly may make, with an index that its pool has
Given(operation, dto) ==
  /\ dto \in IF operation = "approval" THEN ApprovalDto ELSE TransferDto
  /\ dto.tokenIndex \in {NoIndex} \cup TokenIdSpace

LEMMA RequestsAreTyped ==
  ASSUME kind \in Kinds, BInv, NEW locator \in Active, Request(locator)
  PROVE  \E operation \in Operations : \E dto : Given(operation, dto) /\ Handle(locator, operation, dto)
<1>1. \A index \in KnownIndexes(locator) : index \in {NoIndex} \cup TokenIdSpace
  <2>1. UnpackPoolLocator(locator) \in Pool
    BY PoolTyped DEF BInv, KnownPools
  <2> DEFINE pool == UnpackPoolLocator(locator)
  <2>2. pool.startId \in TokenIdSpace /\ pool.endId \in TokenIdSpace
    BY <2>1 DEF Pool
  <2>3. \A index \in KnownIndexes(locator) :
          IF pool.isFungible THEN index = NoIndex
          ELSE index \in Nat /\ index <= pool.endId - pool.startId
    BY IndexesAreOfThePool
  <2> HIDE DEF pool
  <2> QED
    BY <2>2, <2>3, Widths DEF TokenIdSpace
<1>2. {0, 1} \subseteq TokenIdSpace /\ TokenIdSpace \subseteq Nat
  BY Widths DEF TokenIdSpace
<1>3. \A from, to \in Holders : \A amount \in Nat : \A index \in {NoIndex} \cup TokenIdSpace :
        Dto(from, to, amount, index) \in TransferDto /\ Dto(from, to, amount, index).tokenIndex = index
  BY <1>2 DEF Dto, TransferDto, Indexes
<1>4. Zero \in Holders /\ Accounts \subseteq Holders
  BY DEF Holders
<1>5. \A dto \in MintDtos(UnpackPoolLocator(locator)) : Given("mint", dto)
  BY <1>2, <1>3, <1>4 DEF MintDtos, Given
<1>6. \A dto \in TransferDtos(locator) : Given("transfer", dto)
  BY <1>1, <1>3, <1>4 DEF TransferDtos, Given, Pairs
<1>7. \A dto \in BurnDtos(locator) : Given("burn", dto)
  BY <1>1, <1>3, <1>4 DEF BurnDtos, Given
<1>8. \A dto \in ApprovalDtos : Given("approval", dto)
  BY DEF ApprovalDtos, Given, ApprovalDto, Pairs
<1> QED
  BY <1>5, <1>6, <1>7, <1>8 DEF Request, Operations

LEMMA HandleKeepsTypes ==
  ASSUME kind \in Kinds, BInv, EInv, NEW locator \in Active, NEW operation \in Operations,
         NEW dto, Given(operation, dto), Handle(locator, operation, dto)
  PROVE  EInv'
<1> DEFINE pool == UnpackPoolLocator(locator)
<1>1. UNCHANGED <<kind, maxIndex, chain, cursor, told>>
  BY DEF Handle
<1>2. pool.startId \in TokenIdSpace /\ 0 \in TokenIdSpace
  <2>1. pool \in Pool
    BY PoolTyped DEF BInv, KnownPools
  <2> QED
    BY <2>1, Widths DEF Pool, TokenIdSpace
<1> HIDE DEF pool
<1>3. ASSUME NEW method
      PROVE  IdParam(method, pool, dto) \in TokenIdSpace
  <2>1. dto.tokenIndex = NoIndex \/ dto.tokenIndex \in TokenIdSpace
    BY DEF Given
  <2> QED
    BY <1>2, <2>1, IdsFit DEF IdParam, ComputeTokenId
<1>4. ASSUME NEW abi, Operate(locator, operation, dto, abi)
      PROVE  TypedCalls'
  <2>1. CASE UNCHANGED submitted
    BY <2>1 DEF EInv, TypedCalls
  <2> DEFINE method == MethodFor(abi, pool, operation)
  <2>2. CASE ~UNCHANGED submitted /\ method = NoMethod
    <3>1. submitted' = {[operation |-> operation, method |-> NoMethod]}
      BY <1>4, <2>2 DEF Operate, Submit, pool
    <3> QED
      BY <3>1 DEF TypedCalls
  <2>3. CASE ~UNCHANGED submitted /\ method # NoMethod
    <3>1. submitted' = {[operation |-> operation, method |-> method, locator |-> locator,
                         dto |-> dto, id |-> IdParam(method, pool, dto)]}
      BY <1>4, <2>3 DEF Operate, Submit, pool
    <3>2. IdParam(method, pool, dto) \in TokenIdSpace
      BY <1>3
    <3> HIDE DEF method
    <3> QED
      BY <3>1, <3>2 DEF TypedCalls, Given
  <2> QED
    BY <2>1, <2>2, <2>3
<1>5. TypedCalls'
  BY <1>4 DEF Handle
<1>6. TypedEvents' /\ TypedLocators' /\ TypedMessages'
  BY <1>1 DEF EInv, TypedEvents, TypedLocators, TypedMessages, Active
<1> QED
  BY <1>5, <1>6 DEF EInv

LEMMA OfferedTyped ==
  ASSUME kind \in Kinds, BInv, EInv, NEW locator \in Offered
  PROVE  locator \in Locator
<1>1. CASE locator \in Ranged
  <2>1. PICK range : locator = PackPoolLocator(range, 0)
    BY <1>1 DEF Ranged
  <2>2. UnpackPoolLocator(locator) = range
    BY <2>1 DEF UnpackPoolLocator, PackPoolLocator
  <2>3. range \in Pool
    BY <2>2, OfferedPools, PoolTyped DEF BInv
  <2> QED
    BY <2>1, <2>3 DEF PackPoolLocator, Locator
<1>2. CASE locator \notin Ranged
  <2>1. PICK m \in told : m.event = "token-pool" /\ locator \in {m.poolLocator} \cup m.alternateLocators
    BY <1>2 DEF Offered
  <2>2. m \in TokenPoolEvent
    BY <2>1 DEF EInv, TypedMessages, TokenTransferEvent, TokenApprovalEvent
  <2> QED
    BY <2>1, <2>2 DEF TokenPoolEvent
<1> QED
  BY <1>1, <1>2

LEMMA ActivatePoolKeepsTypes ==
  ASSUME kind \in Kinds, BInv, EInv, NEW locator \in Offered, ActivatePool(locator)
  PROVE  EInv'
<1>1. locator \in Locator
  BY OfferedTyped
<1>2. /\ UNCHANGED <<kind, chain, submitted>>
      /\ told' = told \cup {ActivateAnswer(l) : l \in {locator} \cap Ranged}
  BY DEF ActivatePool
<1>3. TypedEvents' /\ TypedCalls'
  BY <1>2 DEF EInv, TypedEvents, TypedCalls
<1>4. TypedLocators'
  <2> DEFINE subs == {PoolSub(locator), ApprovalSub(locator)} \cup TransferSubs(locator)
  <2>0. Subscribe(subs) /\ \A sub \in subs : sub.locator = locator
    BY DEF ActivatePool, PoolSub, ApprovalSub, TransferSubs
  <2> HIDE DEF subs
  <2>1. \A l : l \in Active' => l \in Active \/ l = locator
    BY <2>0, Subscribes
  <2> QED
    BY <1>1, <2>1 DEF EInv, TypedLocators
<1>5. ActivateAnswer(locator) \in TokenPoolEvent
  <2>1. UnpackPoolLocator(locator) \in Pool
    BY OfferedPools, PoolTyped DEF BInv
  <2>2. <<>> \in Seq(Nat) /\ {} \subseteq Locator
    OBVIOUS
  <2> QED
    BY <1>1, <2>1, <2>2 DEF ActivateAnswer, TokenPoolEvent
<1>6. TypedMessages'
  BY <1>2, <1>5 DEF EInv, TypedMessages
<1> QED
  BY <1>3, <1>4, <1>6 DEF EInv

\* What the listener makes of an event
LEMMA CreationMessages ==
  ASSUME kind \in Kinds, BInv, EInv, NEW locator, locator # Base => locator \in Active,
         NEW i \in DOMAIN chain, chain[i].signature = "TokenPoolCreation",
         NEW m \in OnEvent(locator, chain[i])
  PROVE  m \in TokenPoolEvent
<1> DEFINE event == chain[i]
<1>1. m \in TransformTokenPoolCreationEvent(locator, event)
  BY PoolMessages
<1>2. event \in Event
  BY DEF EInv, TypedEvents
<1>3. Announced(event) \in Pool
  BY CreationNamesPool, PoolTyped DEF BInv
<1> HIDE DEF event
<1>4. event.block \in Nat /\ event.log \in Nat
  BY <1>2 DEF Event
<1>5. EventId(event) \in Seq(Nat)
  BY <1>4 DEF EventId
<1>6. CASE locator = Base
  <2> DEFINE range == PackPoolLocator(Announced(event), event.block)
             alternates == {PackOldPoolLocator(UnpackOldTypeId(t), event.block) :
                              t \in {event[f] : f \in {"typeId"} \cap DOMAIN event}}
  <2>1. m = PoolMessage(event, locator, range, alternates)
    BY <1>1, <1>6 DEF TransformTokenPoolCreationEvent
  <2>2. range \in Locator /\ UnpackPoolLocator(range) = Announced(event)
    BY <1>3, <1>4 DEF PackPoolLocator, Locator, UnpackPoolLocator
  <2>3. alternates \subseteq Locator
    <3>1. \A t \in {event[f] : f \in {"typeId"} \cap DOMAIN event} : t \in Nat
      <4>1. "typeId" \in DOMAIN event => event.typeId \in TokenIdSpace
        BY <1>2 DEF Event
      <4> QED
        BY <4>1, Widths DEF TokenIdSpace
    <3>2. ASSUME NEW t \in Nat
          PROVE  PackOldPoolLocator(UnpackOldTypeId(t), event.block) \in Locator
      <4>1. t % TypeBit \in Nat
        BY Widths
      <4>2. (t % TypeBit) \div IndexSize \in Nat
        BY <4>1, Widths
      <4>3. UnpackOldTypeId(t) \in [isFungible : BOOLEAN, number : Nat]
        BY <4>2 DEF UnpackOldTypeId
      <4> QED
        BY <1>4, <4>3 DEF PackOldPoolLocator, Locator
    <3> QED
      BY <3>1, <3>2
  <2> HIDE DEF range, alternates
  <2> QED
    BY <1>3, <1>5, <1>6, <2>1, <2>2, <2>3 DEF PoolMessage, TokenPoolEvent
<1>7. CASE locator # Base
  <2>1. m = PoolMessage(event, locator, locator, {})
    BY <1>1, <1>7 DEF TransformTokenPoolCreationEvent
  <2>2. locator \in Locator /\ UnpackPoolLocator(locator) \in Pool
    BY <1>7, PoolTyped DEF EInv, TypedLocators, BInv, KnownPools
  <2> QED
    BY <1>5, <2>1, <2>2 DEF PoolMessage, TokenPoolEvent
<1> QED
  BY <1>6, <1>7

LEMMA TransferMessageTyped ==
  ASSUME NEW locator \in Locator, UnpackPoolLocator(locator) \in Pool,
         NEW move, move.from \in Holders, move.to \in Holders, move.id \in TokenIdSpace, move.value \in Nat,
         PoolContainsId(UnpackPoolLocator(locator), move.id), NEW id \in Seq(Nat)
  PROVE  TransferMessage(locator, move, id) \in TokenTransferEvent
<1> DEFINE pool == UnpackPoolLocator(locator)
           index == IF pool.isFungible THEN NoIndex ELSE ComputeTokenIndex(pool, move.id)
           name == TransferName(move)
<1>1. pool.startId \in TokenIdSpace /\ pool.startId <= move.id
  BY DEF Pool, PoolContainsId
<1>2. index \in Indexes
  <2> HIDE DEF pool
  <2> QED
    BY <1>1, Widths DEF ComputeTokenIndex, TokenIdSpace, Indexes
<1>3. name \in {"token-mint", "token-burn", "token-transfer"}
  BY DEF TransferName
<1>4. TransferMessage(locator, move, id)
        = [event |-> name, id |-> id, locator |-> locator, tokenIndex |-> index,
           from |-> move.from, to |-> move.to, amount |-> move.value]
  BY DEF TransferMessage
<1> HIDE DEF index, name
<1> QED
  BY <1>2, <1>3, <1>4 DEF TokenTransferEvent

LEMMA MessagesTyped ==
  ASSUME kind \in Kinds, BInv, DInv, EInv, NEW locator, locator # Base => locator \in Active,
         NEW i \in DOMAIN chain, locator = Base => chain[i].signature = "TokenPoolCreation",
         NEW m \in OnEvent(locator, chain[i])
  PROVE  m \in TokenPoolEvent \cup TokenTransferEvent \cup TokenApprovalEvent
<1> DEFINE event == chain[i]
<1>1. CASE chain[i].signature = "TokenPoolCreation"
  BY <1>1, CreationMessages
<1>2. CASE chain[i].signature # "TokenPoolCreation"
  <2>1. locator \in Locator /\ UnpackPoolLocator(locator) \in Pool
    BY <1>2, PoolTyped DEF EInv, TypedLocators, BInv, KnownPools
  <2>2. m.event # "token-pool"
    BY <1>2, PoolMessages
  <2>3. event \in Event
    BY DEF EInv, TypedEvents
  <2>4. \/ /\ event.signature = "TransferSingle" /\ PoolContainsId(UnpackPoolLocator(locator), event.id)
           /\ m = TransferMessage(locator, event, EventId(event))
        \/ /\ event.signature = "TransferBatch"
           /\ \E k \in DOMAIN event.ids :
                /\ PoolContainsId(UnpackPoolLocator(locator), event.ids[k])
                /\ m = TransferMessage(locator, BatchMove(event, k), BatchId(event, k))
        \/ /\ event.signature = "ApprovalForAll"
           /\ m \in TransformApprovalForAllEvent(locator, event)
    BY <2>2, IdForms
  <2>5. event.signature = "TransferBatch" => \A k \in DOMAIN event.ids : event.values[k] \in Nat
    BY DEF DInv, MovesAmount, Amounting
  <2> HIDE DEF event
  <2>6. event.block \in Nat /\ event.log \in Nat
    BY <2>3 DEF Event
  <2>7. EventId(event) \in Seq(Nat) /\ \A k \in Nat : EventId(event) \o <<k>> \in Seq(Nat)
    BY <2>6 DEF EventId
  <2>8. CASE event.signature = "TransferSingle"
    <3>1. /\ event.from \in Holders /\ event.to \in Holders
          /\ event.id \in TokenIdSpace /\ event.value \in Nat
      BY <2>3, <2>8 DEF Event
    <3> QED
      BY <2>1, <2>4, <2>7, <2>8, <3>1, TransferMessageTyped
  <2>9. CASE event.signature = "TransferBatch"
    <3>1. /\ event.from \in Accounts /\ event.to \in Accounts
          /\ event.ids \in Seq(TokenIdSpace)
      BY <2>3, <2>9 DEF Event
    <3>2. PICK k \in DOMAIN event.ids :
                /\ PoolContainsId(UnpackPoolLocator(locator), event.ids[k])
                /\ m = TransferMessage(locator, BatchMove(event, k), BatchId(event, k))
      BY <2>4, <2>9
    <3> DEFINE move == BatchMove(event, k)
    <3>3. /\ k \in Nat /\ event.ids[k] \in TokenIdSpace
          /\ move.from = event.from /\ move.to = event.to
          /\ move.id = event.ids[k] /\ move.value = event.values[k]
      BY <3>1 DEF BatchMove
    <3>4. BatchId(event, k) \in Seq(Nat)
      BY <2>7, <3>3 DEF BatchId
    <3> HIDE DEF move
    <3>5. TransferMessage(locator, move, BatchId(event, k)) \in TokenTransferEvent
      BY <2>1, <2>5, <2>9, <3>1, <3>2, <3>3, <3>4, TransferMessageTyped DEF Holders
    <3> QED
      BY <3>2, <3>5 DEF move
  <2>10. CASE event.signature = "ApprovalForAll"
    <3>1. event.account \in Accounts /\ event.operator \in Accounts /\ event.approved \in BOOLEAN
      BY <2>3, <2>10 DEF Event
    <3>2. UnpackPoolLocator(locator).startId \in Nat
      BY <2>1, Widths DEF Pool, TokenIdSpace
    <3>3. ApprovalId(event, UnpackPoolLocator(locator)) \in Seq(Nat)
      BY <2>7, <3>2 DEF ApprovalId
    <3> DEFINE id == ApprovalId(event, UnpackPoolLocator(locator))
    <3>4. m = [event |-> "token-approval", id |-> id, locator |-> locator, from |-> event.account,
               to |-> event.operator, approved |-> event.approved]
      BY <2>4, <2>10 DEF TransformApprovalForAllEvent
    <3> HIDE DEF id
    <3>5. id \in Seq(Nat)
      BY <3>3 DEF id
    <3> QED
      BY <2>1, <3>1, <3>4, <3>5 DEF TokenApprovalEvent
  <2> QED
    BY <2>4, <2>8, <2>9, <2>10
<1> QED
  BY <1>1, <1>2

LEMMA DeliverKeepsTypes ==
  ASSUME kind \in Kinds, Ordered, Subscribed, BInv, DInv, EInv, NEW locator, Deliver(locator)
  PROVE  EInv'
<1>1. PICK sub \in DOMAIN cursor, i \in DOMAIN chain :
           /\ sub = [locator |-> locator, signature |-> chain[i].signature]
           /\ cursor' = [cursor EXCEPT ![sub] = i]
           /\ told' = told \cup OnEvent(locator, chain[i])
  BY Delivers
<1>2. UNCHANGED <<kind, chain, submitted>> /\ Active' = Active
  BY <1>1 DEF Deliver, Active
<1>3. locator # Base => locator \in Active
  BY <1>1 DEF Active
<1>4. locator = Base => chain[i].signature = "TokenPoolCreation"
  BY <1>1 DEF Subscribed
<1>5. TypedMessages'
  BY <1>1, <1>3, <1>4, MessagesTyped DEF EInv, TypedMessages
<1>6. TypedEvents' /\ TypedCalls' /\ TypedLocators'
  BY <1>2 DEF EInv, TypedEvents, TypedCalls, TypedLocators
<1> QED
  BY <1>5, <1>6 DEF EInv

LEMMA TypesInvariant == Spec => []EInv
<1>1. Init => EInv
  <2> SUFFICES ASSUME Init PROVE EInv
    OBVIOUS
  <2>1. chain \in Seq(Event) /\ DOMAIN chain = {} /\ Active = {} /\ submitted = {} /\ told = {}
    BY DEF Init, Active
  <2> QED
    BY <2>1 DEF EInv, TypedEvents, TypedCalls, TypedLocators, TypedMessages
<1>2. Callable /\ AInv /\ BInv /\ DInv /\ EInv /\ [Next]_vars => EInv'
  <2> SUFFICES ASSUME Callable, AInv, BInv, DInv, EInv, [Next]_vars
               PROVE  EInv'
    OBVIOUS
  <2>0. kind \in Kinds /\ CallsExist /\ Ordered /\ Amounts /\ Subscribed
    BY DEF Callable, AInv
  <2>1. ASSUME NEW isFungible \in BOOLEAN, CreatePool(isFungible)
        PROVE  EInv'
    <3>1. UNCHANGED <<kind, chain, told>>
          /\ submitted' = {[operation |-> "create", method |-> "create", isFungible |-> isFungible]}
      BY <2>1 DEF CreatePool, Submit
    <3>2. Active' = Active
      <4> DEFINE subs == {PoolSub(Base)}
      <4>1. Subscribe(subs) /\ \A sub \in subs : sub.locator = Base
        BY <2>1 DEF CreatePool, PoolSub
      <4> HIDE DEF subs
      <4>2. \A l : l \in Active' <=> l \in Active
        BY <4>1, Subscribes
      <4> QED
        BY <4>2
    <3> QED
      BY <3>1, <3>2 DEF EInv, TypedEvents, TypedCalls, TypedLocators, TypedMessages
  <2>2. ASSUME NEW locator \in Offered, ActivatePool(locator)
        PROVE  EInv'
    BY <2>0, <2>2, ActivatePoolKeepsTypes
  <2>3. ASSUME NEW locator \in Active, Request(locator)
        PROVE  EInv'
    BY <2>0, <2>3, RequestsAreTyped, HandleKeepsTypes
  <2>4. ASSUME NEW tx \in submitted, Mined(tx)
        PROVE  EInv'
    BY <2>0, <2>4, MinedKeepsTypes
  <2>5. ASSUME NEW from \in Accounts, NEW to \in Accounts, NEW ids \in Held(from) \X Held(from),
               BatchTransfer(from, to, ids)
        PROVE  EInv'
    BY <2>0, <2>5, BatchTransferKeepsTypes
  <2>6. ASSUME NEW locator, Deliver(locator)
        PROVE  EInv'
    BY <2>0, <2>6, DeliverKeepsTypes
  <2>7. CASE UNCHANGED vars
    BY <2>7 DEF vars, EInv, TypedEvents, TypedCalls, TypedLocators, TypedMessages, Active
  <2>8. \A pair \in Pairs : pair[1] \in Accounts /\ pair[2] \in Accounts
    BY DEF Pairs
  <2> QED
    BY <2>1, <2>2, <2>3, <2>4, <2>5, <2>6, <2>7, <2>8 DEF Next
<1> QED
  BY <1>1, <1>2, CallsInvariant, ApprovalsInvariant, PoolsInvariant, MovesInvariant, PTL DEF Spec

\* Everything is what tokens.interfaces.ts says: ids are uint256, indexes and
\* amounts are numbers, locators name pools, one transaction is under way.
THEOREM TypeCorrect == Spec => []TypeOK
<1>1. Callable /\ AInv /\ BInv /\ DInv /\ EInv => TypeOK
  <2> SUFFICES ASSUME Callable, AInv, BInv, DInv, EInv PROVE TypeOK
    OBVIOUS
  <2>1. \A t \in DOMAIN maxIndex : t \in TokenIdSpace /\ maxIndex[t] \in 0 .. IndexSize - 1
    BY IndexesFit, Widths DEF Callable, AInv, BInv, DInv, EInv
  <2>2. Cardinality(submitted) <= 1
    <3>1. CASE submitted = {}
      BY <3>1, FS_EmptySet
    <3>2. CASE submitted # {}
      <4>1. PICK tx \in submitted : TRUE
        BY <3>2
      <4>2. submitted = {} \cup {tx}
        BY <4>1 DEF BInv, Calls
      <4>3. Cardinality({} \cup {tx}) = 1
        BY FS_EmptySet, FS_AddElement
      <4> QED
        BY <4>2, <4>3
    <3> QED
      BY <3>1, <3>2
  <2>3. \A tx \in {t \in submitted : t.operation # "create" /\ t.method # NoMethod} :
          tx.dto \in TransferDto \cup ApprovalDto /\ tx.id \in TokenIdSpace
    BY DEF EInv, TypedCalls
  <2>4. \A sub \in DOMAIN cursor : cursor[sub] \in 0 .. Len(chain)
    BY DEF AInv, Subscribed
  <2> QED
    BY <2>1, <2>2, <2>3, <2>4 DEF TypeOK, Callable, EInv, TypedEvents, TypedMessages
<1> QED
  BY <1>1, CallsInvariant, ApprovalsInvariant, PoolsInvariant, MovesInvariant, TypesInvariant, PTL
=============================================================================
