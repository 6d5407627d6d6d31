--------------------------- MODULE AttributesProofs ---------------------------
(***************************************************************************)
(* What the derives and the backoff curves compute, for every input.  The  *)
(* recursive functions they are written with are found by their closed     *)
(* form, or built up step by step; either is an induction, and an          *)
(* induction here is the absence of a least counterexample.                *)
(***************************************************************************)
EXTENDS Attributes, SequenceTheorems, WellFoundedInduction, TLAPS

\* Every set of naturals has a least element.
LEMMA Least ==
  ASSUME NEW T \in SUBSET Nat, T # {}
  PROVE  \E m \in T : \A k \in T : m <= k
<1>1. PICK m \in T : \A k \in T : <<k, m>> \notin OpToRel(<, Nat)
  BY NatLessThanWellFounded, WFMin
<1>2. \A k \in T : ~(k < m)
  BY <1>1 DEF OpToRel
<1> QED
  BY <1>2

\* Induction up to a bound, for a set of naturals.
LEMMA UpTo ==
  ASSUME NEW N \in Nat, NEW T, 0 \in T, \A n \in 1..N : n - 1 \in T => n \in T
  PROVE  \A n \in 0..N : n \in T
<1> DEFINE Bad == {n \in 0..N : n \notin T}
<1>1. ASSUME Bad # {} PROVE FALSE
  <2>0. Bad \in SUBSET Nat
    OBVIOUS
  <2>1. PICK m \in Bad : \A k \in Bad : m <= k
    <3> HIDE DEF Bad
    <3> QED
      BY <1>1, <2>0, Least
  <2>2. m \in 1..N /\ m - 1 \in 0..N /\ m - 1 \notin Bad
    BY <2>1
  <2> QED
    BY <2>1, <2>2
<1> QED
  BY <1>1

\* Two recursive functions that start together, and agree on every step.
InStep(f, g, N) ==
  f[0] = g[0] /\ \A n \in 1..N : f[n - 1] = g[n - 1] => f[n] = g[n]

\* Functions in step with each other are equal.
LEMMA Agree ==
  ASSUME NEW N \in Nat, NEW f, NEW g, InStep(f, g, N)
  PROVE  \A n \in 0..N : f[n] = g[n]
<1> DEFINE T == {n \in 0..N : f[n] = g[n]}
<1>1. 0 \in T /\ \A n \in 1..N : n - 1 \in T => n \in T
  BY DEF InStep
<1> HIDE DEF T
<1>2. \A n \in 0..N : n \in T
  BY <1>1, UpTo
<1> QED
  BY <1>2 DEF T

\* A recursive function exists when its steps stay in a set.
Follows(g, N, S, base, step) ==
  g \in [0..N -> S] /\ g[0] = base /\ \A n \in 1..N : g[n] = step[n][g[n - 1]]

\* It is found for ever larger bounds.
LEMMA Recursion ==
  ASSUME NEW N \in Nat, NEW S, NEW base \in S, NEW step \in [1..N -> [S -> S]]
  PROVE  \E g : Follows(g, N, S, base, step)
<1> DEFINE Approx(n, g) == /\ g \in [0..N -> S] /\ g[0] = base
                           /\ \A k \in 1..n : g[k] = step[k][g[k - 1]]
           T == {n \in 0..N : \E g : Approx(n, g)}
<1>1. 0 \in T
  <2>1. Approx(0, [k \in 0..N |-> base])
    OBVIOUS
  <2> HIDE DEF Approx
  <2>2. 0 \in 0..N
    OBVIOUS
  <2> QED
    BY <2>1, <2>2
<1>2. ASSUME NEW n \in 1..N, n - 1 \in T
      PROVE  n \in T
  <2>1. PICK g : Approx(n - 1, g)
    BY <1>2
  <2> DEFINE next == step[n][g[n - 1]]
             h == [g EXCEPT ![n] = next]
  <2>2. next \in S
    <3>1. n - 1 \in 0..N
      OBVIOUS
    <3>2. g[n - 1] \in S /\ step[n] \in [S -> S]
      BY <2>1, <3>1
    <3> QED
      BY <3>2
  <2>3. h \in [0..N -> S] /\ h[n] = next /\ \A k \in 0..N : k # n => h[k] = g[k]
    BY <2>1, <2>2
  <2> HIDE DEF h
  <2>4. Approx(n, h)
    <3>1. h[0] = base
      BY <2>1, <2>3
    <3>2. ASSUME NEW k \in 1..n
          PROVE  h[k] = step[k][h[k - 1]]
      <4>1. k - 1 \in 0..N /\ k - 1 # n /\ k \in 0..N
        OBVIOUS
      <4>2. h[k - 1] = g[k - 1]
        BY <2>3, <4>1
      <4>3. CASE k = n
        BY <2>3, <4>2, <4>3
      <4>4. CASE k # n
        <5>1. k \in 1..(n - 1)
          BY <4>4
        <5>2. g[k] = step[k][g[k - 1]]
          BY <2>1, <5>1
        <5> QED
          BY <2>3, <4>1, <4>2, <4>4, <5>2
      <4> QED
        BY <4>3, <4>4
    <3> QED
      BY <2>3, <3>1, <3>2
  <2> QED
    BY <2>4
<1> HIDE DEF T
<1>3. N \in T
  <2>1. \A n \in 1..N : n - 1 \in T => n \in T
    BY <1>2
  <2>2. \A n \in 0..N : n \in T
    BY <1>1, <2>1, UpTo
  <2> QED
    BY <2>2
<1>4. PICK g : Approx(N, g)
  BY <1>3 DEF T
<1> QED
  BY <1>4 DEF Follows

-----------------------------------------------------------------------------
(***************************************************************************)
(* Backoff curves.                                                         *)
(***************************************************************************)

\* The powers up to one exponent, as a function.
ArePowers(g, n, e) ==
  /\ g \in [0..e -> Int] /\ power(n, e) = g[e]
  /\ g[0] = 1 /\ \A k \in 1..e : g[k] = n * g[k - 1]

\* power is such a function.
LEMMA Powers ==
  ASSUME NEW n \in Int, NEW e, e \in Nat
  PROVE  \E g : ArePowers(g, n, e)
<1> DEFINE Rec(g) == [i \in 0..e |-> IF i = 0 THEN 1 ELSE n * g[i - 1]]
           f == CHOOSE g : g = Rec(g)
           step == [i \in 1..e |-> [x \in Int |-> n * x]]
<1>1. power(n, e) = f[e]
  BY DEF power
<1>2. step \in [1..e -> [Int -> Int]]
  OBVIOUS
<1>3. \E g : Follows(g, e, Int, 1, step)
  <2> HIDE DEF step
  <2>1. 1 \in Int
    OBVIOUS
  <2> QED
    BY <1>2, <2>1, Recursion
<1>4. PICK g : Follows(g, e, Int, 1, step)
  BY <1>3
<1>5. g[0] = 1 /\ g \in [0..e -> Int]
  BY <1>4 DEF Follows
<1>6. ASSUME NEW i \in 1..e
      PROVE  g[i] = n * g[i - 1]
  <2>1. g[i] = step[i][g[i - 1]]
    BY <1>4 DEF Follows
  <2>2. i - 1 \in 0..e
    OBVIOUS
  <2>3. g[i - 1] \in Int
    BY <1>5, <2>2
  <2> QED
    BY <2>1, <2>3
<1>7. g = Rec(g)
  <2>1. g = [i \in 0..e |-> g[i]]
    BY <1>5
  <2>2. ASSUME NEW i \in 0..e
        PROVE  g[i] = IF i = 0 THEN 1 ELSE n * g[i - 1]
    BY <1>5, <1>6
  <2> QED
    BY <2>1, <2>2
<1>8. f = Rec(f)
  <2> HIDE DEF Rec
  <2> QED
    BY <1>7
<1>9. f[0] = 1 /\ \A i \in 1..e : f[i] = n * f[i - 1]
  <2> HIDE DEF f
  <2> QED
    BY <1>8
<1> HIDE DEF f
<1>10. f[e] = g[e]
  <2>1. InStep(f, g, e)
    BY <1>5, <1>6, <1>9 DEF InStep
  <2>2. \A i \in 0..e : f[i] = g[i]
    BY <2>1, Agree
  <2> QED
    BY <2>2
<1> QED
  BY <1>1, <1>5, <1>6, <1>10 DEF ArePowers

\* power multiplies up.
LEMMA PowerSteps ==
  ASSUME NEW n \in Int, NEW e, e \in Nat
  PROVE  /\ power(n, e) \in Int
         /\ power(n, 0) = 1
         /\ power(n, e + 1) = n * power(n, e)
<1>1. PICK g : ArePowers(g, n, e)
  BY Powers
<1>2. PICK h : ArePowers(h, n, e + 1)
  <2>1. e + 1 \in Nat
    OBVIOUS
  <2> QED
    BY <2>1, Powers
<1>3. power(n, 0) = 1
  BY Powers DEF ArePowers
<1>4. h[e] = g[e]
  <2>1. InStep(h, g, e)
    BY <1>1, <1>2 DEF ArePowers, InStep
  <2>2. \A k \in 0..e : h[k] = g[k]
    BY <2>1, Agree
  <2> QED
    BY <2>2
<1>5. h[e + 1] = n * h[e] /\ g[e] \in Int
  <2>1. e + 1 \in 1..(e + 1) /\ (e + 1) - 1 = e /\ e \in 0..e
    OBVIOUS
  <2> QED
    BY <1>1, <1>2, <2>1 DEF ArePowers
<1> QED
  BY <1>1, <1>2, <1>3, <1>4, <1>5 DEF ArePowers

\* The powers of a positive number are positive.
LEMMA PowerPositive ==
  ASSUME NEW n \in Nat \ {0}, NEW e \in Nat
  PROVE  power(n, e) \in Nat \ {0}
<1>1. PICK g : ArePowers(g, n, e)
  <2>1. n \in Int
    OBVIOUS
  <2> QED
    BY <2>1, Powers
<1> DEFINE T == {k \in 0..e : g[k] >= 1}
<1>2. 0 \in T
  BY <1>1 DEF ArePowers
<1>3. ASSUME NEW k \in 1..e, k - 1 \in T
      PROVE  k \in T
  <2>1. PICK x \in Nat \ {0} : x = g[k - 1]
    <3>1. g[k - 1] \in Int
      BY <1>1 DEF ArePowers
    <3> QED
      BY <1>3, <3>1
  <2>2. g[k] = n * x
    BY <1>1, <2>1 DEF ArePowers
  <2>3. n * x >= 1
    BY SMT
  <2> QED
    BY <2>2, <2>3
<1>4. e \in T
  <2> HIDE DEF T
  <2>1. \A k \in 1..e : k - 1 \in T => k \in T
    BY <1>3
  <2>2. \A k \in 0..e : k \in T
    BY <1>2, <2>1, UpTo
  <2> QED
    BY <2>2
<1> QED
  BY <1>1, <1>4 DEF ArePowers

\* Multiplying by a fraction that is at least one shrinks no quotient.
LEMMA QuotientGrows ==
  ASSUME NEW x \in Nat, NEW y \in Nat \ {0}, NEW n \in Nat, NEW d \in Nat \ {0}, d <= n
  PROVE  /\ x \div y \in Nat /\ (n * x) \div (d * y) \in Nat
         /\ x \div y <= (n * x) \div (d * y)
<1> DEFINE q == x \div y
           z == n * x
           w == d * y
<1>1. q \in Nat /\ q * y <= x
  BY SMT
<1>2. z \in Nat /\ w \in Nat \ {0}
  BY SMT
<1> HIDE DEF q
<1>3. q * w <= z
  <2>1. q * w = d * (q * y)
    BY <1>1, SMT
  <2>2. q * y \in Nat
    BY <1>1, SMT
  <2>3. d * (q * y) <= d * x
    BY <1>1, <2>2, SMT
  <2>4. d * x <= n * x
    BY SMT
  <2> QED
    BY <1>1, <1>2, <2>1, <2>2, <2>3, <2>4, SMT
<1> HIDE DEF z, w
<1>4. z \div w \in Nat /\ z < (z \div w + 1) * w
  BY <1>2, SMT
<1>5. q <= z \div w
  <2> SUFFICES ASSUME q > z \div w
               PROVE  FALSE
    BY <1>1, <1>4
  <2>1. z \div w + 1 <= q
    BY <1>1, <1>4
  <2>2. (z \div w + 1) * w <= q * w
    BY <1>1, <1>2, <1>4, <2>1, SMT
  <2> QED
    BY <1>1, <1>2, <1>3, <1>4, <2>2, SMT
<1> QED
  BY <1>1, <1>4, <1>5 DEF q, z, w

\* What a curve computes without its cap.
Uncapped(base, n, d, e) == (base * power(n, e)) \div power(d, e)

\* It starts at the base, and grows when the factor is at least one.
LEMMA UncappedGrows ==
  ASSUME NEW base \in Nat, NEW n \in Nat \ {0}, NEW d \in Nat \ {0}, NEW e \in Nat
  PROVE  /\ Uncapped(base, n, d, e) \in Nat
         /\ Uncapped(base, n, d, 0) = base
         /\ d <= n => Uncapped(base, n, d, e) <= Uncapped(base, n, d, e + 1)
<1>1. PICK p \in Nat \ {0} : p = power(n, e)
  BY PowerPositive
<1>2. PICK q \in Nat \ {0} : q = power(d, e)
  BY PowerPositive
<1>3. power(n, e + 1) = n * p /\ power(d, e + 1) = d * q /\ power(n, 0) = 1 /\ power(d, 0) = 1
  <2>1. n \in Int /\ d \in Int
    OBVIOUS
  <2> QED
    BY <1>1, <1>2, <2>1, PowerSteps
<1>4. Uncapped(base, n, d, e) = (base * p) \div q
  BY <1>1, <1>2 DEF Uncapped
<1>5. (base * p) \div q \in Nat
  BY SMT
<1>6. Uncapped(base, n, d, 0) = base
  <2>1. Uncapped(base, n, d, 0) = (base * 1) \div 1
    BY <1>3 DEF Uncapped
  <2> QED
    BY <2>1
<1>7. ASSUME d <= n
      PROVE  Uncapped(base, n, d, e) <= Uncapped(base, n, d, e + 1)
  <2>1. PICK x \in Nat : x = base * p
    BY SMT
  <2>2. base * (n * p) = n * x
    BY <2>1, SMT
  <2>3. Uncapped(base, n, d, e + 1) = (n * x) \div (d * q)
    BY <1>3, <2>2 DEF Uncapped
  <2>4. x \div q <= (n * x) \div (d * q)
    BY <1>7, QuotientGrows
  <2> QED
    BY <1>4, <2>1, <2>3, <2>4
<1> QED
  BY <1>4, <1>5, <1>6, <1>7

\* exponential_delay never exceeds its cap, starts at the base, and does not shrink when
\* the factor is at least one; a factor that is not usable leaves it constant.
LEMMA DelayFacts ==
  ASSUME NEW base \in Nat, NEW factor \in Int \X Int, NEW max \in Nat,
         NEW attempt \in Nat \ {0}
  PROVE  /\ exponential_delay(base, factor, max, attempt) \in 0..max
         /\ attempt = 1 /\ base <= max => exponential_delay(base, factor, max, attempt) = base
         /\ factor[1] >= factor[2] =>
              exponential_delay(base, factor, max, attempt)
                <= exponential_delay(base, factor, max, attempt + 1)
<1> DEFINE ratio == IF Usable(factor) THEN factor ELSE <<1, 1>>
<1>1. PICK n \in Nat \ {0}, d \in Nat \ {0} :
        ratio[1] = n /\ ratio[2] = d /\ (factor[1] >= factor[2] => d <= n)
  BY DEF Usable
<1>2. PICK e \in Nat : e = attempt - 1
  OBVIOUS
<1>3. PICK now, after :
        now = Uncapped(base, n, d, e) /\ after = Uncapped(base, n, d, e + 1)
  OBVIOUS
<1>4. exponential_delay(base, factor, max, attempt)
        = IF base = 0 \/ max = 0 THEN 0 ELSE IF now > max THEN max ELSE now
  BY <1>1, <1>2, <1>3 DEF exponential_delay, Uncapped
<1>5. exponential_delay(base, factor, max, attempt + 1)
        = IF base = 0 \/ max = 0 THEN 0 ELSE IF after > max THEN max ELSE after
  <2>1. (IF attempt + 1 = 0 THEN 1 ELSE attempt + 1) - 1 = e + 1
    BY <1>2
  <2> QED
    BY <1>1, <1>3, <2>1 DEF exponential_delay, Uncapped
<1>6. now \in Nat /\ after \in Nat
  <2>1. e + 1 \in Nat
    OBVIOUS
  <2> QED
    BY <1>3, <2>1, UncappedGrows
<1>7. factor[1] >= factor[2] => now <= after
  BY <1>1, <1>3, UncappedGrows
<1>8. attempt = 1 => now = base
  <2>1. attempt = 1 => e = 0
    BY <1>2
  <2> QED
    BY <1>3, <2>1, UncappedGrows
<1> QED
  BY <1>4, <1>5, <1>6, <1>7, <1>8

-----------------------------------------------------------------------------
(***************************************************************************)
(* Lists of keys: what ParseItems makes of one depends on its keys and     *)
(* their values, and not on their order.                                   *)
(***************************************************************************)
IsSeq(s) == Len(s) \in Nat /\ DOMAIN s = 1..Len(s)

Fits(slots, items, values, n) ==
  /\ \A i, k \in 1..n : items[i].key = items[k].key => i = k
  /\ \A i \in 1..n : slots[items[i].key] \in values[i]

KeysTo(items, n) == {items[i].key : i \in 1..n}

\* The slots that the first n items fill.
Parsed(items, values, n) ==
  {slots \in [KeysTo(items, n) -> UNION {values[i] : i \in 1..n}] : Fits(slots, items, values, n)}

\* One more item.
LEMMA ParsedStep ==
  ASSUME NEW items, NEW values, NEW n \in Nat \ {0}
  PROVE  Parsed(items, values, n)
           = UNION {UNION {set_once(slots, items[n].key, v) : v \in values[n]} :
                      slots \in Parsed(items, values, n - 1)}
<1> DEFINE key == items[n].key
           More == UNION {UNION {set_once(slots, key, v) : v \in values[n]} :
                            slots \in Parsed(items, values, n - 1)}
<1>1. 1..n = (1..(n - 1)) \cup {n} /\ n \notin 1..(n - 1)
  OBVIOUS
<1>2. KeysTo(items, n) = KeysTo(items, n - 1) \cup {key}
  BY <1>1 DEF KeysTo
<1>3. ASSUME NEW s \in Parsed(items, values, n)
      PROVE  s \in More
  <2> DEFINE r == [k \in KeysTo(items, n - 1) |-> s[k]]
  <2>1. /\ DOMAIN s = KeysTo(items, n) /\ s = [k \in DOMAIN s |-> s[k]]
        /\ Fits(s, items, values, n)
    BY <1>3 DEF Parsed
  <2>2. key \notin KeysTo(items, n - 1)
    BY <1>1, <2>1 DEF Fits, KeysTo
  <2>3. Fits(r, items, values, n - 1)
    <3>1. \A i \in 1..(n - 1) : items[i].key \in KeysTo(items, n - 1)
      BY DEF KeysTo
    <3>2. \A i \in 1..(n - 1) : r[items[i].key] = s[items[i].key]
      BY <3>1
    <3> HIDE DEF r
    <3> QED
      BY <1>1, <2>1, <3>2 DEF Fits
  <2>4. r \in Parsed(items, values, n - 1)
    <3>1. ASSUME NEW k \in KeysTo(items, n - 1)
          PROVE  r[k] \in UNION {values[i] : i \in 1..(n - 1)}
      <4>1. PICK i \in 1..(n - 1) : k = items[i].key
        BY DEF KeysTo
      <4>2. r[items[i].key] \in values[i]
        BY <2>3 DEF Fits
      <4> QED
        BY <4>1, <4>2
    <3> QED
      BY <2>3, <3>1 DEF Parsed
  <2>5. s[key] \in values[n]
    BY <1>1, <2>1 DEF Fits
  <2>6. s = Insert(r, key, s[key])
    BY <1>2, <2>1, <2>2 DEF Insert
  <2>7. s \in set_once(r, key, s[key])
    BY <2>2, <2>6 DEF set_once
  <2> QED
    BY <2>4, <2>5, <2>7
<1>4. ASSUME NEW s \in More
      PROVE  s \in Parsed(items, values, n)
  <2>1. PICK r \in Parsed(items, values, n - 1), v \in values[n] : s \in set_once(r, key, v)
    BY <1>4
  <2>2. key \notin DOMAIN r /\ s = Insert(r, key, v)
    BY <2>1 DEF set_once
  <2>3. DOMAIN r = KeysTo(items, n - 1) /\ Fits(r, items, values, n - 1)
    BY <2>1 DEF Parsed
  <2>4. /\ s = [k \in KeysTo(items, n) |-> s[k]]
        /\ \A k \in KeysTo(items, n) : s[k] = IF k = key THEN v ELSE r[k]
    BY <1>2, <2>2, <2>3 DEF Insert
  <2>5. \A i \in 1..(n - 1) : items[i].key \in KeysTo(items, n - 1)
    BY DEF KeysTo
  <2>6. Fits(s, items, values, n)
    <3>1. \A i \in 1..n : s[items[i].key] \in values[i]
      <4>1. key \in KeysTo(items, n) /\ s[items[n].key] \in values[n]
        BY <1>2, <2>1, <2>4
      <4>2. ASSUME NEW i \in 1..(n - 1)
            PROVE  s[items[i].key] \in values[i]
        <5>1. items[i].key \in KeysTo(items, n - 1) /\ items[i].key # key
          BY <2>2, <2>3, <2>5
        <5>2. r[items[i].key] \in values[i]
          BY <2>3 DEF Fits
        <5>3. s[items[i].key] = r[items[i].key]
          BY <1>2, <2>4, <5>1
        <5> QED
          BY <5>2, <5>3
      <4> QED
        BY <1>1, <4>1, <4>2
    <3>2. \A i, k \in 1..n : items[i].key = items[k].key => i = k
      BY <1>1, <2>2, <2>3, <2>5 DEF Fits
    <3> QED
      BY <3>1, <3>2 DEF Fits
  <2>7. ASSUME NEW k \in KeysTo(items, n)
        PROVE  s[k] \in UNION {values[i] : i \in 1..n}
    <3>1. PICK i \in 1..n : k = items[i].key
      BY DEF KeysTo
    <3> QED
      BY <2>6, <3>1 DEF Fits
  <2> QED
    BY <2>4, <2>6, <2>7 DEF Parsed
<1> QED
  BY <1>3, <1>4

\* ParseItems(items, values) is every way to give each key a value that is accepted, and
\* nothing when a key is there twice.
LEMMA ParsedSlots ==
  ASSUME NEW items, IsSeq(items), NEW values
  PROVE  ParseItems(items, values) = Parsed(items, values, Len(items))
<1> DEFINE N == Len(items)
           One(sets, n) == UNION {UNION {set_once(slots, items[n].key, v) : v \in values[n]} :
                                    slots \in sets}
           Rec(g) == [n \in 0..N |-> IF n = 0 THEN {NoSlots} ELSE One(g[n - 1], n)]
           f == CHOOSE g : g = Rec(g)
           w == [n \in 0..N |-> Parsed(items, values, n)]
<1>1. N \in Nat
  BY DEF IsSeq
<1>2. ParseItems(items, values) = f[N]
  BY DEF ParseItems
<1> HIDE DEF N
<1>3. w[0] = {NoSlots}
  <2>1. 1..0 = {}
    OBVIOUS
  <2>2. Parsed(items, values, 0) = [{} -> {}]
    BY <2>1 DEF Parsed, KeysTo, Fits
  <2>3. [{} -> {}] = {NoSlots}
    BY DEF NoSlots
  <2> QED
    BY <1>1, <2>2, <2>3
<1>4. \A n \in 1..N : w[n] = One(w[n - 1], n)
  <2> TAKE n \in 1..N
  <2>1. n \in Nat \ {0} /\ n - 1 \in 0..N /\ n \in 0..N
    BY <1>1
  <2>2. w[n] = Parsed(items, values, n) /\ w[n - 1] = Parsed(items, values, n - 1)
    BY <2>1
  <2>3. Parsed(items, values, n) = One(Parsed(items, values, n - 1), n)
    BY <2>1, ParsedStep
  <2> HIDE DEF w, One
  <2> QED
    BY <2>2, <2>3
<1>5. w = Rec(w)
  <2>1. w = [n \in 0..N |-> w[n]]
    OBVIOUS
  <2> HIDE DEF w, One
  <2>2. ASSUME NEW n \in 0..N
        PROVE  w[n] = IF n = 0 THEN {NoSlots} ELSE One(w[n - 1], n)
    <3>1. CASE n = 0
      BY <1>3, <3>1
    <3>2. CASE n # 0
      <4>1. n \in 1..N
        BY <1>1, <3>2
      <4> QED
        BY <1>4, <3>2, <4>1
    <3> QED
      BY <3>1, <3>2
  <2> QED
    BY <2>1, <2>2
<1> HIDE DEF One
<1>6. f = Rec(f)
  <2> HIDE DEF Rec
  <2> QED
    BY <1>5
<1>7. f[0] = {NoSlots} /\ \A n \in 1..N : f[n] = One(f[n - 1], n)
  <2> HIDE DEF f
  <2> QED
    BY <1>1, <1>6, SMTT(60)
<1> HIDE DEF f, w
<1>8. \A n \in 0..N : f[n] = w[n]
  <2>1. f[0] = w[0]
    BY <1>3, <1>7
  <2>2. \A n \in 1..N : f[n - 1] = w[n - 1] => f[n] = w[n]
    BY <1>4, <1>7
  <2>3. InStep(f, w, N)
    BY <2>1, <2>2 DEF InStep
  <2> QED
    BY <1>1, <2>3, Agree
<1>9. f[N] = w[N]
  BY <1>1, <1>8
<1>10. w[N] = Parsed(items, values, N)
  BY <1>1 DEF w
<1> QED
  BY <1>2, <1>9, <1>10 DEF N

\* Every key that is written has a slot, with a value that its item may have, and no slot
\* comes from nowhere.
LEMMA SlotsOf ==
  ASSUME NEW items, IsSeq(items), NEW values, NEW slots \in ParseItems(items, values)
  PROVE  /\ \A i \in DOMAIN items :
              items[i].key \in DOMAIN slots /\ slots[items[i].key] \in values[i]
         /\ \A key \in DOMAIN slots :
              \E i \in DOMAIN items : items[i].key = key /\ slots[key] \in values[i]
<1>1. slots \in Parsed(items, values, Len(items))
  BY ParsedSlots
<1>2. DOMAIN slots = KeysTo(items, Len(items)) /\ Fits(slots, items, values, Len(items))
  BY <1>1 DEF Parsed
<1> QED
  BY <1>2 DEF IsSeq, KeysTo, Fits

\* The items of one list are those of another one, in any order.
Reorders(p, items, values, others, accepted) ==
  LET N == 1..Len(items)
  IN  /\ \A i \in N : p[i] \in N
      /\ \A i, k \in N : p[i] = p[k] => i = k
      /\ \A k \in N : \E i \in N : p[i] = k
      /\ \A i \in N : others[i].key = items[p[i]].key /\ accepted[i] = values[p[i]]

\* Such lists parse to the same slots.
LEMMA Reordered ==
  ASSUME NEW items, IsSeq(items), NEW values, NEW others, IsSeq(others), NEW accepted,
         Len(others) = Len(items), NEW p, Reorders(p, items, values, others, accepted)
  PROVE  ParseItems(others, accepted) = ParseItems(items, values)
<1> DEFINE N == Len(items)
<1>1. /\ \A i \in 1..N : p[i] \in 1..N
      /\ \A i, k \in 1..N : p[i] = p[k] => i = k
      /\ \A k \in 1..N : \E i \in 1..N : p[i] = k
      /\ \A i \in 1..N : others[i].key = items[p[i]].key /\ accepted[i] = values[p[i]]
  BY DEF Reorders
<1> HIDE DEF N
<1>2. KeysTo(others, N) = KeysTo(items, N)
  <2>1. ASSUME NEW i \in 1..N
        PROVE  others[i].key \in KeysTo(items, N)
    <3>1. PICK k \in 1..N : others[i].key = items[k].key
      BY <1>1
    <3> QED
      BY <3>1 DEF KeysTo
  <2>2. ASSUME NEW k \in 1..N
        PROVE  items[k].key \in KeysTo(others, N)
    <3>1. PICK i \in 1..N : p[i] = k
      BY <1>1
    <3>2. others[i].key = items[k].key
      BY <1>1, <3>1
    <3> QED
      BY <3>2 DEF KeysTo
  <2> QED
    BY <2>1, <2>2 DEF KeysTo
<1>3. UNION {accepted[i] : i \in 1..N} = UNION {values[i] : i \in 1..N}
  <2>1. ASSUME NEW k \in 1..N
        PROVE  \E i \in 1..N : accepted[i] = values[k]
    <3>1. PICK i \in 1..N : p[i] = k
      BY <1>1
    <3> QED
      BY <1>1, <3>1
  <2>2. ASSUME NEW i \in 1..N
        PROVE  \E k \in 1..N : accepted[i] = values[k]
    BY <1>1
  <2> QED
    BY <2>1, <2>2
<1>4. ASSUME NEW slots
      PROVE  Fits(slots, others, accepted, N) <=> Fits(slots, items, values, N)
  <2>1. ASSUME Fits(slots, items, values, N)
        PROVE  Fits(slots, others, accepted, N)
    <3>1. ASSUME NEW i \in 1..N
          PROVE  slots[others[i].key] \in accepted[i]
      <4>1. PICK k \in 1..N : k = p[i]
        BY <1>1
      <4> QED
        BY <1>1, <2>1, <4>1 DEF Fits
    <3>2. ASSUME NEW i \in 1..N, NEW k \in 1..N, others[i].key = others[k].key
          PROVE  i = k
      <4>1. items[p[i]].key = items[p[k]].key /\ p[i] \in 1..N /\ p[k] \in 1..N
        BY <1>1, <3>2
      <4>2. p[i] = p[k]
        BY <2>1, <4>1 DEF Fits
      <4> QED
        BY <1>1, <4>2
    <3> QED
      BY <3>1, <3>2 DEF Fits
  <2>2. ASSUME Fits(slots, others, accepted, N)
        PROVE  Fits(slots, items, values, N)
    <3>1. ASSUME NEW k \in 1..N
          PROVE  slots[items[k].key] \in values[k]
      <4>1. PICK i \in 1..N : p[i] = k
        BY <1>1
      <4> QED
        BY <1>1, <2>2, <4>1 DEF Fits
    <3>2. ASSUME NEW j \in 1..N, NEW k \in 1..N, items[j].key = items[k].key
          PROVE  j = k
      <4>1. PICK a \in 1..N, b \in 1..N : p[a] = j /\ p[b] = k
        BY <1>1
      <4>2. others[a].key = others[b].key
        BY <1>1, <3>2, <4>1
      <4>3. a = b
        BY <2>2, <4>2 DEF Fits
      <4> QED
        BY <4>1, <4>3
    <3> QED
      BY <3>1, <3>2 DEF Fits
  <2> QED
    BY <2>1, <2>2
<1>5. Parsed(others, accepted, N) = Parsed(items, values, N)
  BY <1>2, <1>3, <1>4 DEF Parsed
<1> QED
  BY <1>5, ParsedSlots DEF N

-----------------------------------------------------------------------------
(***************************************************************************)
(* The values of the keys.                                                 *)
(***************************************************************************)
Lists == [kind : {"list"}, items : Seq(PlainItems)]

\* A literal has the field of its kind.
LEMMA LiteralFields ==
  ASSUME NEW lit \in Literals \cup Lists
  PROVE  /\ lit.kind = "int" => lit.n \in Int
         /\ lit.kind = "bool" => lit.b \in BOOLEAN
         /\ lit.kind = "float" => lit.factor \in Int \X Int
         /\ lit.kind = "path" => lit.path \in Seq(STRING)
         /\ lit.kind = "list" => lit.items \in Seq(PlainItems)
         /\ "text" \in DOMAIN lit => lit.text \in Seq(STRING)
         /\ "digits" \in DOMAIN lit => lit.digits \in Nat \cup {NoDigits}
<1>1. CASE lit \in Lists
  BY <1>1 DEF Lists
<1>2. CASE lit \in [kind : {"int"}, n : Int]
  BY <1>2
<1>3. CASE lit \in [kind : {"bool"}, b : BOOLEAN]
  BY <1>3
<1>4. CASE lit \in [kind : {"float"}, factor : Int \X Int]
  BY <1>4
<1>5. CASE lit \in [kind : {"str"}, text : Seq(STRING)]
  BY <1>5
<1>6. CASE lit \in [kind : {"str"}, word : STRING]
  BY <1>6
<1>7. CASE lit \in [kind : {"str"}, digits : Nat \cup {NoDigits}, unit : STRING]
  BY <1>7
<1>8. CASE lit \in [kind : {"path"}, path : Seq(STRING)]
  BY <1>8
<1> QED
  BY <1>1, <1>2, <1>3, <1>4, <1>5, <1>6, <1>7, <1>8 DEF Literals

\* Every unit is a number of milliseconds.
LEMMA UnitsAreNumbers ==
  ASSUME NEW unit \in Units
  PROVE  MillisPer(unit) \in Nat \ {0}
BY DEF MillisPer, Units, NoUnit

\* A duration that is accepted is what was written, and not zero.
LEMMA Durations ==
  ASSUME NEW lit \in Literals \cup Lists, NEW v \in parse_lit(lit)
  PROVE  v = lit.digits * MillisPer(lit.unit) /\ v \in Nat \ {0}
<1>1. /\ "digits" \in DOMAIN lit /\ v # 0 /\ v = lit.digits * MillisPer(lit.unit)
      /\ lit.digits # NoDigits /\ lit.unit \in Units
  BY DEF parse_lit, parse_millis
<1>2. PICK n \in Nat, ms \in Nat : n = lit.digits /\ ms = MillisPer(lit.unit)
  BY <1>1, LiteralFields, UnitsAreNumbers
<1>3. n * ms \in Nat
  OBVIOUS
<1> QED
  BY <1>1, <1>2, <1>3

\* What each key of a retry(...) may be given.
LEMMA RetryKnobs ==
  ASSUME NEW item \in PlainItems, NEW v \in RetryValue(item)
  PROVE  /\ item.key = "max_attempts" => v = item.lit.n /\ v \in Nat
         /\ item.key = "backoff" => v = item.lit.word
         /\ item.key \in {"delay", "base", "max"} =>
              v = item.lit.digits * MillisPer(item.lit.unit) /\ v \in Nat \ {0}
         /\ item.key = "factor" =>
              /\ v = IF item.lit.kind = "int" THEN <<item.lit.n, 1>> ELSE item.lit.factor
              /\ v \in Int \X Int
         /\ item.key = "jitter" => v = item.lit.b /\ v \in BOOLEAN
         /\ item.key \in {"max_attempts", "backoff", "delay", "base", "max", "factor", "jitter"}
<1>1. item.lit \in Literals \cup Lists
  BY DEF PlainItems
<1>2. CASE item.key = "max_attempts"
  BY <1>1, <1>2, LiteralFields DEF RetryValue, lit_int
<1>3. CASE item.key = "backoff"
  BY <1>3 DEF RetryValue, lit_word
<1>4. CASE item.key \in {"delay", "base", "max"}
  <2>1. v \in parse_lit(item.lit)
    BY <1>4 DEF RetryValue
  <2> QED
    BY <1>1, <1>4, <2>1, Durations
<1>5. CASE item.key = "factor"
  BY <1>1, <1>5, LiteralFields DEF RetryValue, lit_f64
<1>6. CASE item.key = "jitter"
  BY <1>1, <1>6, LiteralFields DEF RetryValue, lit_bool
<1> QED
  BY <1>2, <1>3, <1>4, <1>5, <1>6 DEF RetryValue

\* The knobs of a curve.
Knobs == {"delay", "base", "factor", "max", "jitter"}

\* A policy that a worker can follow: at least one attempt, and a curve that grows from
\* its base to its cap.
Sound(policy) ==
  /\ policy \in RetryPolicies
  /\ policy.max_attempts >= 1
  /\ policy.backoff.kind = "fixed" => policy.backoff.delay > 0
  /\ policy.backoff.kind = "exponential" =>
       /\ Usable(policy.backoff.factor)
       /\ 0 < policy.backoff.base /\ policy.backoff.base <= policy.backoff.max

TypedRaw(raw) ==
  /\ Written(raw, "max_attempts") => raw["max_attempts"] \in Nat
  /\ \A key \in {"delay", "base", "max"} : Written(raw, key) => raw[key] \in Nat \ {0}
  /\ Written(raw, "factor") => raw["factor"] \in Int \X Int
  /\ Written(raw, "jitter") => raw["jitter"] \in BOOLEAN

\* A slot that was written is not the default.
LEMMA SlotWritten ==
  ASSUME NEW slots, NEW key, NEW default
  PROVE  Slot(slots, key, default) = IF Written(slots, key) THEN slots[key] ELSE default
BY DEF Slot

\* RetryRaw::finish accepts nothing that the policy does not show.
LEMMA FinishHonours ==
  ASSUME NEW raw, TypedRaw(raw), NEW policy \in finish(raw)
  PROVE  /\ Sound(policy)
         /\ Written(raw, "max_attempts") => policy.max_attempts = raw["max_attempts"]
         /\ Written(raw, "backoff") => policy.backoff.kind = raw["backoff"]
         /\ \A key \in Knobs :
              Written(raw, key) =>
                key \in DOMAIN policy.backoff /\ policy.backoff[key] = raw[key]
<1> DEFINE attempts == Slot(raw, "max_attempts", 3)
           kind     == Slot(raw, "backoff", "exponential")
           curve    == policy.backoff
<1>1. /\ attempts # 0 /\ kind \in {"none", "fixed", "exponential"}
      /\ \A key \in Foreign(kind) : ~Written(raw, key)
      /\ \E b \in Backoffs(raw, kind) : policy = RetryPolicy(attempts, b)
  BY DEF finish
<1>2. policy.max_attempts = attempts /\ curve \in Backoffs(raw, kind)
      /\ policy = [max_attempts |-> attempts, backoff |-> curve]
  BY <1>1 DEF RetryPolicy
<1>3. attempts \in Nat \ {0}
  BY <1>1 DEF Slot, TypedRaw
<1>4. Written(raw, "max_attempts") => attempts = raw["max_attempts"]
  BY DEF Slot
<1>5. Written(raw, "backoff") => kind = raw["backoff"]
  BY DEF Slot
<1> HIDE DEF attempts, kind
<1>6. CASE kind = "none"
  <2>1. curve = [kind |-> "none"]
    BY <1>2, <1>6 DEF Backoffs, NoBackoff
  <2>2. \A key \in Knobs : ~Written(raw, key)
    BY <1>1, <1>6 DEF Foreign, Knobs
  <2>3. Sound(policy)
    BY <1>2, <1>3, <2>1 DEF Sound, RetryPolicies, NoBackoff
  <2> QED
    BY <1>2, <1>4, <1>5, <1>6, <2>1, <2>2, <2>3
<1>7. CASE kind = "fixed"
  <2>1. Written(raw, "delay") /\ curve = [kind |-> "fixed", delay |-> raw["delay"]]
    BY <1>2, <1>7 DEF Backoffs, Fixed
  <2>2. \A key \in Knobs : Written(raw, key) => key = "delay"
    BY <1>1, <1>7 DEF Foreign, Knobs
  <2>3. raw["delay"] \in Nat \ {0}
    BY <2>1 DEF TypedRaw
  <2>4. Sound(policy)
    BY <1>2, <1>3, <2>1, <2>3 DEF Sound, RetryPolicies
  <2> QED
    BY <1>2, <1>4, <1>5, <1>7, <2>1, <2>2, <2>4
<1>8. CASE kind = "exponential"
  <2> DEFINE base   == Slot(raw, "base", 1000)
             factor == Slot(raw, "factor", <<2, 1>>)
             max    == Slot(raw, "max", 300000)
             jitter == Slot(raw, "jitter", TRUE)
  <2>1. /\ Usable(factor) /\ base <= max
        /\ curve = [kind |-> "exponential", base |-> base, factor |-> factor, max |-> max,
                    jitter |-> jitter]
    <3>1. Backoffs(raw, "exponential")
            = IF Usable(factor) /\ base <= max
              THEN {exponential_with(base, factor, max, jitter)} ELSE {}
      BY DEF Backoffs
    <3>2. curve \in Backoffs(raw, "exponential")
      BY <1>2, <1>8
    <3> HIDE DEF base, factor, max, jitter
    <3> QED
      BY <3>1, <3>2 DEF exponential_with
  <2>2. /\ base \in Nat \ {0} /\ max \in Nat \ {0} /\ factor \in Int \X Int
        /\ jitter \in BOOLEAN
    <3>1. base \in Nat \ {0}
      BY DEF Slot, TypedRaw
    <3>2. max \in Nat \ {0}
      BY DEF Slot, TypedRaw
    <3>3. factor \in Int \X Int
      <4>1. <<2, 1>> \in Int \X Int
        OBVIOUS
      <4> QED
        BY <4>1, Zenon DEF Slot, TypedRaw
    <3>4. jitter \in BOOLEAN
      BY Zenon DEF Slot, TypedRaw
    <3> HIDE DEF base, factor, max, jitter
    <3> QED
      BY <3>1, <3>2, <3>3, <3>4
  <2>3. /\ Written(raw, "base") => base = raw["base"]
        /\ Written(raw, "factor") => factor = raw["factor"]
        /\ Written(raw, "max") => max = raw["max"]
        /\ Written(raw, "jitter") => jitter = raw["jitter"]
    <3>1. Written(raw, "base") => base = raw["base"]
      BY SlotWritten
    <3>2. Written(raw, "factor") => factor = raw["factor"]
      BY SlotWritten
    <3>3. Written(raw, "max") => max = raw["max"]
      BY SlotWritten
    <3>4. Written(raw, "jitter") => jitter = raw["jitter"]
      BY SlotWritten
    <3> HIDE DEF base, factor, max, jitter
    <3> QED
      BY <3>1, <3>2, <3>3, <3>4
  <2>4. ~Written(raw, "delay")
    BY <1>1, <1>8 DEF Foreign
  <2> HIDE DEF base, factor, max, jitter
  <2>5. Sound(policy)
    <3>1. curve \in [kind : {"exponential"}, base : Nat, factor : Int \X Int, max : Nat,
                     jitter : BOOLEAN]
      BY <2>1, <2>2
    <3>2. policy \in RetryPolicies
      BY <1>2, <1>3, <3>1 DEF RetryPolicies
    <3> QED
      BY <1>2, <1>3, <2>1, <2>2, <3>2 DEF Sound
  <2>6. \A key \in Knobs :
          Written(raw, key) => key \in DOMAIN curve /\ curve[key] = raw[key]
    BY <2>1, <2>3, <2>4 DEF Knobs
  <2> QED
    BY <1>2, <1>4, <1>5, <1>8, <2>1, <2>5, <2>6
<1> QED
  BY <1>1, <1>6, <1>7, <1>8

\* Values of a retry(...) list: of the right types, each from the item that has its key.
LEMMA RawTyped ==
  ASSUME NEW items \in Seq(PlainItems), NEW raw \in ParseItems(items, RetryValues(items))
  PROVE  /\ TypedRaw(raw)
         /\ \A i \in DOMAIN items :
              /\ Written(raw, items[i].key)
              /\ raw[items[i].key] \in RetryValue(items[i])
<1>1. IsSeq(items) /\ \A i \in DOMAIN items : items[i] \in PlainItems
  BY DEF IsSeq
<1>2. \A i \in DOMAIN items : RetryValues(items)[i] = RetryValue(items[i])
  BY DEF RetryValues
<1>3. /\ \A i \in DOMAIN items :
           items[i].key \in DOMAIN raw /\ raw[items[i].key] \in RetryValues(items)[i]
      /\ \A key \in DOMAIN raw :
           \E i \in DOMAIN items : items[i].key = key /\ raw[key] \in RetryValues(items)[i]
  BY <1>1, SlotsOf
<1>4. ASSUME NEW key, Written(raw, key)
      PROVE  \E item \in PlainItems : item.key = key /\ raw[key] \in RetryValue(item)
  BY <1>1, <1>2, <1>3, <1>4 DEF Written
<1>5. TypedRaw(raw)
  <2>1. Written(raw, "max_attempts") => raw["max_attempts"] \in Nat
    BY <1>4, RetryKnobs
  <2>2. ASSUME NEW key \in {"delay", "base", "max"}, Written(raw, key)
        PROVE  raw[key] \in Nat \ {0}
    BY <1>4, <2>2, RetryKnobs
  <2>3. Written(raw, "factor") => raw["factor"] \in Int \X Int
    BY <1>4, RetryKnobs
  <2>4. Written(raw, "jitter") => raw["jitter"] \in BOOLEAN
    BY <1>4, RetryKnobs, Zenon
  <2> QED
    BY <2>1, <2>2, <2>3, <2>4 DEF TypedRaw
<1> QED
  BY <1>2, <1>3, <1>5 DEF Written

\* A policy does what the items of its retry(...) say.
Obeys(policy, item) ==
  LET lit   == item.lit
      curve == policy.backoff
      Knob(key, value) == item.key = key => key \in DOMAIN curve /\ curve[key] = value
  IN  /\ item.key = "max_attempts" => policy.max_attempts = lit.n
      /\ item.key = "backoff" => curve.kind = lit.word
      /\ \A key \in {"delay", "base", "max"} : Knob(key, lit.digits * MillisPer(lit.unit))
      /\ Knob("factor", IF lit.kind = "int" THEN <<lit.n, 1>> ELSE lit.factor)
      /\ Knob("jitter", lit.b)

\* parse_retry accepts nothing that its policy does not obey.
LEMMA RetryHonours ==
  ASSUME NEW lit \in Literals \cup Lists, NEW policy \in parse_retry(lit)
  PROVE  /\ Sound(policy)
         /\ \A i \in DOMAIN lit.items : Obeys(policy, lit.items[i])
<1>1. lit.kind = "list"
  BY DEF parse_retry
<1>2. PICK items \in Seq(PlainItems) : items = lit.items
  BY <1>1, LiteralFields
<1>3. PICK raw \in ParseItems(items, RetryValues(items)) : policy \in finish(raw)
  BY <1>1, <1>2 DEF parse_retry
<1>4. TypedRaw(raw)
  BY <1>3, RawTyped
<1>5. /\ Sound(policy)
      /\ Written(raw, "max_attempts") => policy.max_attempts = raw["max_attempts"]
      /\ Written(raw, "backoff") => policy.backoff.kind = raw["backoff"]
      /\ \A key \in Knobs :
           Written(raw, key) => key \in DOMAIN policy.backoff /\ policy.backoff[key] = raw[key]
  BY <1>3, <1>4, FinishHonours
<1>6. ASSUME NEW i \in DOMAIN items
      PROVE  Obeys(policy, items[i])
  <2>1. PICK item \in PlainItems : item = items[i]
    OBVIOUS
  <2>2. PICK v \in RetryValue(item) : Written(raw, item.key) /\ v = raw[item.key]
    BY <1>3, <2>1, RawTyped
  <2>3. item.key = "max_attempts" => policy.max_attempts = item.lit.n
    BY <1>5, <2>2, RetryKnobs
  <2>4. item.key = "backoff" => policy.backoff.kind = item.lit.word
    BY <1>5, <2>2, RetryKnobs
  <2>5. item.key \in Knobs => item.key \in DOMAIN policy.backoff
                              /\ policy.backoff[item.key] = v
    BY <1>5, <2>2
  <2>6. item.key \in {"delay", "base", "max"} =>
          v = item.lit.digits * MillisPer(item.lit.unit)
    BY RetryKnobs
  <2>7. item.key = "factor" =>
          v = IF item.lit.kind = "int" THEN <<item.lit.n, 1>> ELSE item.lit.factor
    BY RetryKnobs
  <2>8. item.key = "jitter" => v = item.lit.b
    BY RetryKnobs
  <2>9. Obeys(policy, item)
    BY <2>3, <2>4, <2>5, <2>6, <2>7, <2>8 DEF Obeys, Knobs
  <2> QED
    BY <2>1, <2>9
<1> QED
  BY <1>2, <1>5, <1>6

\* What each key of a variant may be given.
LEMMA QueueKeys ==
  ASSUME NEW item \in Items, NEW v \in QueueValue(item)
  PROVE  /\ item.key = "name" => v = item.lit.text /\ v \in Seq(STRING) /\ ~Blank(v)
         /\ item.key = "prefetch" => v = item.lit.n /\ v \in 1..U16_MAX
         /\ item.key = "durable" => v = item.lit.b
         /\ item.key = "message_ttl" =>
              /\ v = item.lit.digits * MillisPer(item.lit.unit)
              /\ v \in 0..MAX_MESSAGE_TTL_MS
         /\ item.key = "max_priority" => v = item.lit.n /\ v \in 0..U8_MAX
         /\ item.key = "retry" => v \in parse_retry(item.lit)
<1>1. item.lit \in Literals \cup Lists
  BY DEF Items, Lists
<1>2. CASE item.key = "name"
  BY <1>1, <1>2, LiteralFields DEF QueueValue, reject_blank, lit_str
<1>3. CASE item.key = "prefetch"
  BY <1>1, <1>3, LiteralFields DEF QueueValue, lit_int
<1>4. CASE item.key = "durable"
  BY <1>4 DEF QueueValue, lit_bool
<1>5. CASE item.key = "message_ttl"
  <2>1. v \in parse_lit(item.lit) /\ v <= MAX_MESSAGE_TTL_MS
    BY <1>5 DEF QueueValue
  <2> QED
    BY <1>1, <1>5, <2>1, Durations, AttributesAssumption
<1>6. CASE item.key = "max_priority"
  BY <1>1, <1>6, LiteralFields DEF QueueValue, lit_int
<1>7. CASE item.key = "retry"
  BY <1>7 DEF QueueValue
<1> QED
  BY <1>2, <1>3, <1>4, <1>5, <1>6, <1>7

\* What each key of an enum may be given.
LEMMA ContainerKeys ==
  ASSUME NEW item \in Items, NEW v \in ContainerValue(item)
  PROVE  /\ item.key = "prefix" => v = item.lit.text /\ v \in Seq(STRING)
         /\ item.key = "crate" => v \in {item.lit.text, <<"::">> \o item.lit.text}
<1>1. item.lit \in Literals \cup Lists
  BY DEF Items, Lists
<1>2. CASE item.key = "prefix"
  BY <1>1, <1>2, LiteralFields DEF ContainerValue, reject_blank, lit_str
<1>3. CASE item.key = "crate"
  <2>1. \E path \in lit_str(item.lit) : v = parse_crate_path(path)
    BY <1>3 DEF ContainerValue
  <2>2. v = parse_crate_path(item.lit.text)
    BY <2>1 DEF lit_str
  <2> QED
    BY <1>3, <2>2 DEF parse_crate_path
<1> QED
  BY <1>2, <1>3

\* What each key of a job may be given.
LEMMA JobKeys ==
  ASSUME NEW item \in Items, NEW v \in JobValue(item)
  PROVE  /\ item.key = "queue" => v = item.lit.path /\ item.lit.kind = "path"
         /\ item.key = "name" => v = item.lit.text
         /\ item.key = "retry" => v \in parse_retry(item.lit)
         /\ item.key = "crate" => v \in {item.lit.text, <<"::">> \o item.lit.text}
<1>1. CASE item.key = "queue"
  BY <1>1 DEF JobValue
<1>2. CASE item.key = "name"
  BY <1>2 DEF JobValue, reject_blank, lit_str
<1>3. CASE item.key = "retry"
  BY <1>3 DEF JobValue
<1>4. CASE item.key = "crate"
  <2>1. \E path \in lit_str(item.lit) : v = parse_crate_path(path)
    BY <1>4 DEF JobValue
  <2>2. v = parse_crate_path(item.lit.text)
    BY <2>1 DEF lit_str
  <2> QED
    BY <1>4, <2>2 DEF parse_crate_path
<1> QED
  BY <1>1, <1>2, <1>3, <1>4

-----------------------------------------------------------------------------
(***************************************************************************)
(* The names of queues.                                                    *)
(***************************************************************************)

\* A derived name has no blank in it when the identifier has none.
LEMMA SnakeCase ==
  ASSUME NEW Char, {Underscore, "a", "h", "m", "t"} \subseteq Char, NEW ident \in Seq(Char)
  PROVE  snake_case(ident) \in Seq(Char)
<1> DEFINE N == Len(ident)
           S == Seq(Char)
           Boundary(i) == /\ i > 1
                          /\ ident[i - 1] # Underscore
                          /\ \/ IsLower(ident[i - 1]) \/ IsDigit(ident[i - 1])
                             \/ i < Len(ident) /\ IsLower(ident[i + 1])
           Separated(out) == out = <<>> \/ out[Len(out)] = Underscore
           Step(out, i) ==
             IF ident[i] = Underscore   THEN IF Separated(out) THEN out ELSE Append(out, Underscore)
             ELSE IF ~IsUpper(ident[i]) THEN Append(out, ident[i])
             ELSE Append(IF Boundary(i) /\ out[Len(out)] # Underscore THEN Append(out, Underscore) ELSE out,
                         Lower[ident[i]])
           Rec(g) == [n \in 0..N |-> IF n = 0 THEN <<>> ELSE Step(g[n - 1], n)]
           f == CHOOSE g : g = Rec(g)
           step == [i \in 1..N |-> [out \in S |-> Step(out, i)]]
<1>1. snake_case(ident) = f[N]
  BY DEF snake_case
<1> HIDE DEF Boundary, Separated
<1>2. ASSUME NEW i \in 1..N, NEW out \in S
      PROVE  Step(out, i) \in S
  <2>1. ident[i] \in Char
    OBVIOUS
  <2>2. IsUpper(ident[i]) => Lower[ident[i]] \in Char
    BY DEF IsUpper, Lower
  <2>3. Underscore \in Char
    OBVIOUS
  <2>4. Append(out, Underscore) \in S
    BY <2>3
  <2> QED
    BY <2>1, <2>2, <2>3, <2>4
<1> HIDE DEF Step
<1>3. N \in Nat
  OBVIOUS
<1>4. step \in [1..N -> [S -> S]] /\ <<>> \in S
  BY <1>2
<1>5. PICK g : Follows(g, N, S, <<>>, step)
  <2> HIDE DEF step, N, S
  <2> QED
    BY <1>3, <1>4, Recursion
<1>6. g \in [0..N -> S] /\ g[0] = <<>>
  BY <1>5 DEF Follows
<1>7. ASSUME NEW i \in 1..N
      PROVE  g[i] = Step(g[i - 1], i)
  <2>1. g[i] = step[i][g[i - 1]]
    BY <1>5 DEF Follows
  <2>2. i - 1 \in 0..N
    BY <1>3
  <2>3. g[i - 1] \in S
    BY <1>6, <2>2
  <2> HIDE DEF N, S
  <2> QED
    BY <2>1, <2>3
<1> HIDE DEF N, S
<1>8. g = Rec(g)
  <2>1. g = [n \in 0..N |-> g[n]]
    BY <1>6
  <2>2. ASSUME NEW n \in 0..N
        PROVE  g[n] = IF n = 0 THEN <<>> ELSE Step(g[n - 1], n)
    <3>1. n # 0 => n \in 1..N
      BY <1>3
    <3> QED
      BY <1>6, <1>7, <3>1
  <2> QED
    BY <2>1, <2>2
<1>9. f = Rec(f)
  <2> HIDE DEF Rec
  <2> QED
    BY <1>8
<1>10. f[0] = <<>> /\ \A i \in 1..N : f[i] = Step(f[i - 1], i)
  <2> HIDE DEF f
  <2> QED
    BY <1>3, <1>9
<1> HIDE DEF f
<1>11. f[N] = g[N]
  <2>1. InStep(f, g, N)
    BY <1>6, <1>7, <1>10 DEF InStep
  <2>2. \A i \in 0..N : f[i] = g[i]
    BY <1>3, <2>1, Agree
  <2> QED
    BY <1>3, <2>2
<1> QED
  BY <1>1, <1>3, <1>6, <1>11 DEF S

\* Two parts of a sequence.
LEMMA Parts ==
  ASSUME NEW S, NEW s \in Seq(S), NEW t \in Seq(S)
  PROVE  /\ SubSeq(s \o t, 1, Len(s)) = s
         /\ SubSeq(s \o t, Len(s \o t) - Len(t) + 1, Len(s \o t)) = t
<1>1. Len(s \o t) = Len(s) + Len(t) /\ Len(s) \in Nat /\ Len(t) \in Nat
  OBVIOUS
<1>2. SubSeq(s \o t, 1, Len(s)) = s
  BY SubSeqOfConcat1, SubSeqFull
<1>3. SubSeq(s \o t, Len(s) + 1, Len(s) + Len(t)) = SubSeq(t, 1, Len(t))
  BY SubSeqOfConcat2
<1> QED
  BY <1>1, <1>2, <1>3, SubSeqFull

\* A qualified name starts with the prefix and ends with the name.
LEMMA Qualified ==
  ASSUME NEW container, NEW Letter, NEW name \in Seq(Letter),
         Written(container, "prefix") => container["prefix"] \in Seq(Letter)
  PROVE  /\ SubSeq(qualify(container, name),
                   Len(qualify(container, name)) - Len(name) + 1,
                   Len(qualify(container, name))) = name
         /\ Written(container, "prefix") =>
              SubSeq(qualify(container, name), 1, Len(container["prefix"]))
                = container["prefix"]
         /\ ~Blank(name) => ~Blank(qualify(container, name))
<1>1. CASE Written(container, "prefix")
  <2>0. PICK Char : Char = Letter \cup {Separator}
    OBVIOUS
  <2>1. PICK prefix \in Seq(Char) : prefix = container["prefix"]
    BY <1>1, <2>0
  <2>2. PICK dot \in Seq(Char) : dot = <<Separator>>
    <3>1. Separator \in Char
      BY <2>0
    <3>2. <<Separator>> \in Seq(Char)
      BY <3>1
    <3> QED
      BY <3>2
  <2>3. name \in Seq(Char)
    BY <2>0
  <2>4. qualify(container, name) = prefix \o dot \o name
    BY <1>1, <2>1, <2>2 DEF qualify
  <2>5. prefix \o dot \in Seq(Char) /\ dot \o name \in Seq(Char)
        /\ (prefix \o dot) \o name = prefix \o (dot \o name)
    BY <2>3, ConcatAssociative
  <2>6. SubSeq(prefix \o (dot \o name), 1, Len(prefix)) = prefix
    BY <2>3, <2>5, Parts
  <2>7. SubSeq((prefix \o dot) \o name, Len((prefix \o dot) \o name) - Len(name) + 1,
               Len((prefix \o dot) \o name)) = name
    BY <2>3, <2>5, Parts
  <2>8. ~Blank(name) => ~Blank(prefix \o dot \o name)
    <3>1. CASE Blank(name)
      BY <3>1
    <3>2. CASE ~Blank(name)
      <4>1. PICK i \in DOMAIN name : name[i] # Space
        BY <3>2 DEF Blank
      <4>2. /\ Len(prefix \o dot) + i \in DOMAIN ((prefix \o dot) \o name)
            /\ ((prefix \o dot) \o name)[Len(prefix \o dot) + i] = name[i]
        BY <2>3, <2>5, ConcatProperties, SMTT(60)
      <4> QED
        BY <4>1, <4>2 DEF Blank
    <3> QED
      BY <3>1, <3>2
  <2> QED
    BY <1>1, <2>1, <2>4, <2>5, <2>6, <2>7, <2>8
<1>2. CASE ~Written(container, "prefix")
  <2>1. qualify(container, name) = name
    BY <1>2 DEF qualify
  <2>2. SubSeq(name, Len(name) - Len(name) + 1, Len(name)) = name
    BY SubSeqFull
  <2> QED
    BY <1>2, <2>1, <2>2
<1> QED
  BY <1>1, <1>2

\* config_expr sets what was written and leaves the rest as QueueConfig::new has it.
LEMMA ConfigFields ==
  ASSUME NEW queue
  PROVE  LET config == config_expr(queue)
             slots  == queue.slots
         IN  /\ config.name = queue.name
             /\ config.prefetch = Slot(slots, "prefetch", 16)
             /\ config.retry = Slot(slots, "retry", NoRetries)
             /\ config.durable = Slot(slots, "durable", TRUE)
             /\ config.message_ttl = Slot(slots, "message_ttl", NoTtl)
             /\ config.max_priority = Slot(slots, "max_priority", 10)
<1>1. DOMAIN NewQueueConfig(queue.name)
        = {"name", "prefetch", "retry", "durable", "message_ttl", "max_priority"}
  BY DEF NewQueueConfig
<1>2. config_expr(queue)
        = [field \in {"name", "prefetch", "retry", "durable", "message_ttl", "max_priority"} |->
             IF field = "name" THEN NewQueueConfig(queue.name).name
             ELSE Slot(queue.slots, field, NewQueueConfig(queue.name)[field])]
  BY <1>1 DEF config_expr
<1>3. config_expr(queue).name = queue.name
  BY <1>2 DEF NewQueueConfig
<1>4. config_expr(queue).prefetch = Slot(queue.slots, "prefetch", 16)
  BY <1>2 DEF NewQueueConfig
<1>5. config_expr(queue).retry = Slot(queue.slots, "retry", NoRetries)
  BY <1>2 DEF NewQueueConfig
<1>6. config_expr(queue).durable = Slot(queue.slots, "durable", TRUE)
  BY <1>2 DEF NewQueueConfig
<1>7. config_expr(queue).message_ttl = Slot(queue.slots, "message_ttl", NoTtl)
  BY <1>2 DEF NewQueueConfig
<1>8. config_expr(queue).max_priority = Slot(queue.slots, "max_priority", 10)
  BY <1>2 DEF NewQueueConfig
<1> QED
  BY <1>3, <1>4, <1>5, <1>6, <1>7, <1>8, Zenon

-----------------------------------------------------------------------------
(***************************************************************************)
(* What the derives make of the attributes.                                *)
(***************************************************************************)
TypedVariant(variant) ==
  variant.ident \in Seq(STRING \ {Space}) /\ variant.items \in Seq(Items)

\* A policy obeys a whole retry(...).
ObeysAll(policy, lit) == \A i \in DOMAIN lit.items : Obeys(policy, lit.items[i])

\* A config shows an item of its variant.
Shows(config, item) ==
  LET lit == item.lit
  IN  /\ item.key = "name" =>
           SubSeq(config.name, Len(config.name) - Len(lit.text) + 1, Len(config.name)) = lit.text
      /\ item.key = "prefetch" => config.prefetch = lit.n
      /\ item.key = "durable" => config.durable = lit.b
      /\ item.key = "message_ttl" => config.message_ttl = lit.digits * MillisPer(lit.unit)
      /\ item.key = "max_priority" => config.max_priority = lit.n
      /\ item.key = "retry" => ObeysAll(config.retry, lit)

\* A config is one that the broker takes as it is.
Declarable(config) ==
  /\ ~Blank(config.name)
  /\ config.prefetch \in 1..U16_MAX
  /\ config.max_priority \in 0..U8_MAX
  /\ config.message_ttl \in 0..MAX_MESSAGE_TTL_MS
  /\ Sound(config.retry)

\* The slots of a list of items, each from the item that has its key.
LEMMA ItemSlots ==
  ASSUME NEW items \in Seq(Items), NEW values, NEW slots \in ParseItems(items, values)
  PROVE  /\ \A i \in DOMAIN items :
              /\ items[i] \in Items
              /\ Written(slots, items[i].key) /\ slots[items[i].key] \in values[i]
         /\ \A key : Written(slots, key) =>
              \E i \in DOMAIN items :
                items[i] \in Items /\ items[i].key = key /\ slots[key] \in values[i]
<1>1. IsSeq(items) /\ \A i \in DOMAIN items : items[i] \in Items
  BY DEF IsSeq
<1> QED
  BY <1>1, SlotsOf DEF Written

\* The prefix is a sequence of characters.
LEMMA PrefixTyped ==
  ASSUME NEW items \in Seq(Items), NEW container \in ParseItems(items, ContainerValues(items)),
         Written(container, "prefix")
  PROVE  container["prefix"] \in Seq(STRING)
<1>1. PICK i \in DOMAIN items :
        /\ items[i] \in Items /\ items[i].key = "prefix"
        /\ container["prefix"] \in ContainerValues(items)[i]
  BY ItemSlots
<1>2. container["prefix"] \in ContainerValue(items[i])
  BY <1>1 DEF ContainerValues
<1> QED
  BY <1>1, <1>2, ContainerKeys

\* NoRetries is sound.
LEMMA NoRetriesSound == Sound(NoRetries)
BY DEF Sound, NoRetries, RetryPolicy, RetryPolicies, NoBackoff

\* The config of a variant shows all of its items, and the broker takes it.
LEMMA VariantConfig ==
  ASSUME NEW items \in Seq(Items), NEW container \in ParseItems(items, ContainerValues(items)),
         NEW variant, TypedVariant(variant), NEW queue \in resolve_variant(variant, container)
  PROVE  /\ \A i \in DOMAIN variant.items : Shows(config_expr(queue), variant.items[i])
         /\ Declarable(config_expr(queue))
         /\ Written(container, "prefix") =>
              SubSeq(queue.name, 1, Len(container["prefix"])) = container["prefix"]
<1> DEFINE own == variant.items
           values == QueueValues(own)
           config == config_expr(queue)
           Letters == STRING \cup {Underscore, "a", "h", "m", "t"}
<1>1. own \in Seq(Items) /\ variant.ident \in Seq(STRING \ {Space})
  BY DEF TypedVariant
<1>2. PICK slots, name :
        /\ slots \in ParseItems(own, values)
        /\ name = Slot(slots, "name", snake_case(variant.ident)) /\ name # <<>>
        /\ queue = [slots |-> slots, name |-> qualify(container, name)]
  BY DEF resolve_variant
<1>3. \A i \in DOMAIN own : values[i] = QueueValue(own[i])
  BY DEF QueueValues
<1>4. /\ \A i \in DOMAIN own :
           /\ own[i] \in Items
           /\ Written(slots, own[i].key) /\ slots[own[i].key] \in values[i]
      /\ \A key : Written(slots, key) =>
           \E i \in DOMAIN own :
             own[i] \in Items /\ own[i].key = key /\ slots[key] \in values[i]
  BY <1>1, <1>2, ItemSlots
<1> HIDE DEF values
<1>5. ASSUME NEW key, Written(slots, key)
      PROVE  \E item \in Items : item.key = key /\ slots[key] \in QueueValue(item)
  BY <1>3, <1>4, <1>5
<1>6. name \in Seq(Letters) /\ ~Blank(name)
  <2> DEFINE Char == Letters \ {Space}
  <2>1. CASE Written(slots, "name")
    <3>1. name = slots["name"]
      BY <1>2, <2>1, SlotWritten
    <3>2. PICK item \in Items : item.key = "name" /\ slots["name"] \in QueueValue(item)
      BY <1>5, <2>1
    <3>3. name \in Seq(STRING) /\ ~Blank(name)
      BY <3>1, <3>2, QueueKeys
    <3> QED
      BY <3>3, SeqMonotonic
  <2>2. CASE ~Written(slots, "name")
    <3>1. name = snake_case(variant.ident)
      BY <1>2, <2>2, SlotWritten
    <3>2. {Underscore, "a", "h", "m", "t"} \subseteq Char
      <4>1. Underscore # Space /\ \A c \in {"a", "h", "m", "t"} : c # Space
        BY Zenon DEF Underscore, Space
      <4>2. {Underscore, "a", "h", "m", "t"} \subseteq Letters
        OBVIOUS
      <4> HIDE DEF Letters
      <4> QED
        BY <4>1, <4>2
    <3>3. STRING \ {Space} \subseteq Char /\ Char \subseteq Letters
      OBVIOUS
    <3>4. Space \notin Char
      OBVIOUS
    <3> HIDE DEF Char
    <3>5. variant.ident \in Seq(Char)
      BY <1>1, <3>3, SeqMonotonic
    <3>6. name \in Seq(Char)
      BY <3>1, <3>2, <3>5, SnakeCase
    <3>7. name \in Seq(Letters)
      BY <3>3, <3>6, SeqMonotonic
    <3>8. 1 \in DOMAIN name /\ name[1] \in Char
      BY <1>2, <3>6
    <3> QED
      BY <3>4, <3>7, <3>8 DEF Blank
  <2> QED
    BY <2>1, <2>2
<1>7. /\ config.name = qualify(container, name)
      /\ config.prefetch = Slot(slots, "prefetch", 16)
      /\ config.retry = Slot(slots, "retry", NoRetries)
      /\ config.durable = Slot(slots, "durable", TRUE)
      /\ config.message_ttl = Slot(slots, "message_ttl", NoTtl)
      /\ config.max_priority = Slot(slots, "max_priority", 10)
  <2>1. queue.slots = slots /\ queue.name = qualify(container, name)
    BY <1>2
  <2> QED
    BY <2>1, ConfigFields, Zenon
<1> HIDE DEF config
<1>8. Written(container, "prefix") => container["prefix"] \in Seq(Letters)
  BY PrefixTyped, SeqMonotonic
<1>9. /\ SubSeq(config.name, Len(config.name) - Len(name) + 1, Len(config.name)) = name
      /\ Written(container, "prefix") =>
           SubSeq(config.name, 1, Len(container["prefix"])) = container["prefix"]
      /\ ~Blank(config.name)
  BY <1>6, <1>7, <1>8, Qualified
<1>10. ASSUME NEW i \in DOMAIN own
       PROVE  Shows(config, own[i])
  <2>1. PICK item \in Items : item = own[i]
    BY <1>4
  <2>2. PICK v \in QueueValue(item) : Written(slots, item.key) /\ v = slots[item.key]
    BY <1>3, <1>4, <2>1
  <2>3. item.key = "name" =>
          SubSeq(config.name, Len(config.name) - Len(item.lit.text) + 1, Len(config.name))
            = item.lit.text
    <3>1. item.key = "name" => name = item.lit.text
      BY <1>2, <2>2, SlotWritten, QueueKeys
    <3> QED
      BY <1>9, <3>1
  <2>4. item.key = "prefetch" => config.prefetch = item.lit.n
    BY <1>7, <2>2, SlotWritten, QueueKeys
  <2>5. item.key = "durable" => config.durable = item.lit.b
    BY <1>7, <2>2, SlotWritten, QueueKeys
  <2>6. item.key = "message_ttl" =>
          config.message_ttl = item.lit.digits * MillisPer(item.lit.unit)
    BY <1>7, <2>2, SlotWritten, QueueKeys
  <2>7. item.key = "max_priority" => config.max_priority = item.lit.n
    BY <1>7, <2>2, SlotWritten, QueueKeys
  <2>8. item.key = "retry" => ObeysAll(config.retry, item.lit)
    <3>1. item.lit \in Literals \cup Lists
      BY DEF Items, Lists
    <3>2. item.key = "retry" => config.retry \in parse_retry(item.lit)
      BY <1>7, <2>2, SlotWritten, QueueKeys
    <3> QED
      BY <3>1, <3>2, RetryHonours DEF ObeysAll
  <2> QED
    BY <2>1, <2>3, <2>4, <2>5, <2>6, <2>7, <2>8 DEF Shows
<1>11. Declarable(config)
  <2>1. config.prefetch \in 1..U16_MAX
    <3>1. Written(slots, "prefetch") => config.prefetch \in 1..U16_MAX
      BY <1>5, <1>7, SlotWritten, QueueKeys
    <3>2. ~Written(slots, "prefetch") => config.prefetch = 16
      BY <1>7, SlotWritten
    <3>3. U16_MAX \in Nat /\ 16 <= U16_MAX
      BY DEF U16_MAX
    <3> QED
      BY <3>1, <3>2, <3>3
  <2>2. config.max_priority \in 0..U8_MAX
    <3>1. Written(slots, "max_priority") => config.max_priority \in 0..U8_MAX
      BY <1>5, <1>7, SlotWritten, QueueKeys
    <3>2. ~Written(slots, "max_priority") => config.max_priority = 10
      BY <1>7, SlotWritten
    <3> QED
      BY <3>1, <3>2 DEF U8_MAX
  <2>3. config.message_ttl \in 0..MAX_MESSAGE_TTL_MS
    BY <1>5, <1>7, SlotWritten, QueueKeys, AttributesAssumption DEF NoTtl
  <2>4. Sound(config.retry)
    <3>1. CASE Written(slots, "retry")
      <4>1. PICK item \in Items : item.key = "retry" /\ slots["retry"] \in QueueValue(item)
        BY <1>5, <3>1
      <4>2. item.lit \in Literals \cup Lists
        BY DEF Items, Lists
      <4>3. config.retry \in parse_retry(item.lit)
        BY <1>7, <3>1, <4>1, SlotWritten, QueueKeys
      <4> QED
        BY <4>2, <4>3, RetryHonours
    <3>2. CASE ~Written(slots, "retry")
      BY <1>7, <3>2, SlotWritten, NoRetriesSound
    <3> QED
      BY <3>1, <3>2
  <2> QED
    BY <1>9, <2>1, <2>2, <2>3, <2>4 DEF Declarable
<1> QED
  BY <1>2, <1>7, <1>9, <1>10, <1>11 DEF config

\* An explicit crate path is taken as it is, or made absolute.
LEMMA CratePath ==
  ASSUME NEW items \in Seq(Items), NEW values, NEW slots \in ParseItems(items, values),
         NEW facade, NEW core, NEW path \in core_path(slots, facade, core),
         NEW i \in DOMAIN items, items[i].key = "crate",
         \A v \in values[i] : v \in {items[i].lit.text, <<"::">> \o items[i].lit.text}
  PROVE  path \in {items[i].lit.text, <<"::">> \o items[i].lit.text}
<1>1. Written(slots, "crate") /\ slots["crate"] \in values[i]
  BY ItemSlots
<1>2. path = slots["crate"]
  BY <1>1 DEF core_path
<1> QED
  BY <1>1, <1>2

\* Every variant has a config of its own name that shows all that was written on it and on
\* the enum.
QueuesShow(input, set) ==
  /\ DOMAIN set.configs = DOMAIN input.variants /\ input.variants # <<>>
  /\ \A i, k \in DOMAIN set.configs : set.configs[i].name = set.configs[k].name => i = k
  /\ \A i \in DOMAIN set.configs :
       /\ Declarable(set.configs[i])
       /\ \A k \in DOMAIN input.variants[i].items :
            Shows(set.configs[i], input.variants[i].items[k])
       /\ \A k \in DOMAIN input.items :
            LET text == input.items[k].lit.text
            IN  input.items[k].key = "prefix" =>
                  SubSeq(set.configs[i].name, 1, Len(text)) = text
  /\ \A k \in DOMAIN input.items :
       LET text == input.items[k].lit.text
       IN  input.items[k].key = "crate" => set.core \in {text, <<"::">> \o text}

\* #[derive(Queues)] honours what it accepts.
LEMMA QueuesHonour ==
  ASSUME NEW input, NEW facade, NEW core, NEW set \in DeriveQueues(input, facade, core),
         input.items \in Seq(Items),
         \A i \in DOMAIN input.variants : TypedVariant(input.variants[i])
  PROVE  QueuesShow(input, set)
<1> DEFINE items == input.items
           variants == input.variants
           values == ContainerValues(items)
<1>1. variants # <<>>
  BY DEF DeriveQueues
<1>2. PICK container \in ParseItems(items, values) :
        set \in {[configs |-> [i \in DOMAIN queues |-> config_expr(queues[i])], core |-> path] :
                  queues \in {qs \in ResolveAll(variants, container) : ~Duplicates(qs)},
                  path \in core_path(container, facade, core)}
  BY DEF DeriveQueues
<1>3. PICK queues \in ResolveAll(variants, container), path \in core_path(container, facade, core) :
        /\ ~Duplicates(queues)
        /\ set = [configs |-> [i \in DOMAIN queues |-> config_expr(queues[i])], core |-> path]
  BY <1>2
<1>4. /\ DOMAIN queues = DOMAIN variants
      /\ \A i \in DOMAIN variants : queues[i] \in resolve_variant(variants[i], container)
  BY DEF ResolveAll
<1>5. \A i \in DOMAIN variants : set.configs[i] = config_expr(queues[i])
  BY <1>3, <1>4
<1>6. DOMAIN set.configs = DOMAIN variants /\ set.core = path
  BY <1>3, <1>4
<1>7. \A i \in DOMAIN items : values[i] = ContainerValue(items[i])
  BY DEF ContainerValues
<1>8. \A i \in DOMAIN items :
        /\ items[i] \in Items
        /\ Written(container, items[i].key) /\ container[items[i].key] \in ContainerValue(items[i])
  BY <1>7, ItemSlots
<1>9. ASSUME NEW i \in DOMAIN variants, NEW k \in DOMAIN variants,
             set.configs[i].name = set.configs[k].name
      PROVE  i = k
  <2>1. queues[i].name = queues[k].name
    BY <1>5, <1>9, ConfigFields
  <2> QED
    BY <1>3, <1>4, <2>1 DEF Duplicates
<1>10. ASSUME NEW i \in DOMAIN variants
      PROVE  /\ Declarable(set.configs[i])
             /\ \A k \in DOMAIN variants[i].items : Shows(set.configs[i], variants[i].items[k])
             /\ Written(container, "prefix") =>
                  SubSeq(set.configs[i].name, 1, Len(container["prefix"])) = container["prefix"]
  <2>1. TypedVariant(variants[i]) /\ queues[i] \in resolve_variant(variants[i], container)
    BY <1>4
  <2>2. set.configs[i] = config_expr(queues[i]) /\ config_expr(queues[i]).name = queues[i].name
    BY <1>5, ConfigFields
  <2> QED
    BY <2>1, <2>2, VariantConfig
<1>11. ASSUME NEW i \in DOMAIN variants, NEW k \in DOMAIN items, items[k].key = "prefix"
      PROVE  SubSeq(set.configs[i].name, 1, Len(items[k].lit.text)) = items[k].lit.text
  <2>1. container["prefix"] = items[k].lit.text
    BY <1>8, <1>11, ContainerKeys
  <2> QED
    BY <1>8, <1>10, <1>11, <2>1
<1>12. ASSUME NEW k \in DOMAIN items, items[k].key = "crate"
       PROVE  set.core \in {items[k].lit.text, <<"::">> \o items[k].lit.text}
  <2>1. \A v \in values[k] : v \in {items[k].lit.text, <<"::">> \o items[k].lit.text}
    BY <1>7, <1>8, <1>12, ContainerKeys
  <2> HIDE DEF values
  <2> QED
    BY <1>6, <1>12, <2>1, CratePath
<1> QED
  BY <1>1, <1>6, <1>9, <1>10, <1>11, <1>12 DEF QueuesShow

\* A job has what was written on it, and a path to a queue.
JobShows(input, job) ==
  /\ \A i \in DOMAIN input.items :
       LET item == input.items[i]
           lit  == item.lit
       IN  /\ item.key = "queue" => job.queue = lit.path
           /\ item.key = "name" => job.name = lit.text
           /\ item.key = "retry" => \E p \in job.retry : ObeysAll(p, lit)
           /\ item.key = "crate" => job.core \in {lit.text, <<"::">> \o lit.text}
  /\ \A p \in job.retry : Sound(p)
  /\ \E i \in DOMAIN input.items :
       input.items[i].lit.kind = "path" /\ job.queue = input.items[i].lit.path
  /\ Len(job.queue) >= 2

\* #[derive(Job)] likewise.
LEMMA JobHonours ==
  ASSUME NEW input, NEW facade, NEW core, NEW job \in DeriveJob(input, facade, core),
         input.items \in Seq(Items)
  PROVE  JobShows(input, job)
<1> DEFINE items == input.items
           values == JobValues(items)
<1>1. PICK slots \in ParseItems(items, values) :
        /\ Written(slots, "queue")
        /\ job \in {[set |-> set, queue |-> slots["queue"],
                     name |-> Slot(slots, "name", input.ident),
                     retry |-> IF Written(slots, "retry") THEN {slots["retry"]} ELSE {},
                     core |-> path] :
                    set \in queue_set_of(slots["queue"]), path \in core_path(slots, facade, core)}
  BY DEF DeriveJob
<1>2. PICK set \in queue_set_of(slots["queue"]), path \in core_path(slots, facade, core) :
        /\ Written(slots, "queue")
        /\ job = [set |-> set, queue |-> slots["queue"],
                  name |-> Slot(slots, "name", input.ident),
                  retry |-> IF Written(slots, "retry") THEN {slots["retry"]} ELSE {},
                  core |-> path]
  BY <1>1
<1>3. \A i \in DOMAIN items : values[i] = JobValue(items[i])
  BY DEF JobValues
<1>4. /\ \A i \in DOMAIN items :
           /\ items[i] \in Items
           /\ Written(slots, items[i].key) /\ slots[items[i].key] \in values[i]
      /\ \A key : Written(slots, key) =>
           \E i \in DOMAIN items :
             items[i] \in Items /\ items[i].key = key /\ slots[key] \in values[i]
  BY ItemSlots
<1> HIDE DEF values
<1>5. /\ job.queue = slots["queue"] /\ job.name = Slot(slots, "name", input.ident)
      /\ job.retry = (IF Written(slots, "retry") THEN {slots["retry"]} ELSE {})
      /\ job.core = path
  BY <1>2
<1>6. ASSUME NEW i \in DOMAIN items
      PROVE  LET item == items[i]
                 lit  == item.lit
             IN  /\ item.key = "queue" => job.queue = lit.path
                 /\ item.key = "name" => job.name = lit.text
                 /\ item.key = "retry" => \E p \in job.retry : ObeysAll(p, lit)
                 /\ item.key = "crate" => job.core \in {lit.text, <<"::">> \o lit.text}
  <2>1. PICK item \in Items : item = items[i]
    BY <1>4
  <2>2. PICK v \in JobValue(item) : Written(slots, item.key) /\ v = slots[item.key]
    BY <1>3, <1>4, <2>1
  <2>3. item.key = "queue" => job.queue = item.lit.path
    BY <1>5, <2>2, JobKeys
  <2>4. item.key = "name" => job.name = item.lit.text
    BY <1>5, <2>2, SlotWritten, JobKeys
  <2>5. item.key = "retry" => \E p \in job.retry : ObeysAll(p, item.lit)
    <3>1. item.lit \in Literals \cup Lists
      BY DEF Items, Lists
    <3>2. item.key = "retry" => v \in job.retry /\ v \in parse_retry(item.lit)
      BY <1>5, <2>2, JobKeys
    <3> QED
      BY <3>1, <3>2, RetryHonours DEF ObeysAll
  <2>6. item.key = "crate" => job.core \in {item.lit.text, <<"::">> \o item.lit.text}
    <3>1. item.key = "crate" =>
            \A w \in values[i] : w \in {items[i].lit.text, <<"::">> \o items[i].lit.text}
      BY <1>3, <1>4, <2>1, JobKeys
    <3> QED
      BY <1>5, <2>1, <3>1, CratePath
  <2> QED
    BY <2>1, <2>3, <2>4, <2>5, <2>6
<1>7. ASSUME NEW p \in job.retry
      PROVE  Sound(p)
  <2>1. Written(slots, "retry") /\ p = slots["retry"]
    BY <1>5, <1>7
  <2>2. PICK item \in Items : item.key = "retry" /\ p \in JobValue(item)
    BY <1>3, <1>4, <2>1
  <2>3. item.lit \in Literals \cup Lists /\ p \in parse_retry(item.lit)
    BY <2>2, JobKeys DEF Items, Lists
  <2> QED
    BY <2>3, RetryHonours
<1>8. PICK i \in DOMAIN items :
        items[i] \in Items /\ items[i].key = "queue" /\ slots["queue"] \in values[i]
  BY <1>2, <1>4
<1>9. items[i].lit.kind = "path" /\ job.queue = items[i].lit.path
  BY <1>3, <1>5, <1>8, JobKeys
<1>10. Len(job.queue) >= 2
  <2>1. job.queue \in Seq(STRING)
    <3>1. items[i].lit \in Literals \cup Lists
      BY <1>8 DEF Items, Lists
    <3> QED
      BY <1>9, <3>1, LiteralFields
  <2>2. ~(Len(job.queue) < 2)
    BY <1>2, <1>5 DEF queue_set_of
  <2> QED
    BY <2>1, <2>2
<1> QED
  BY <1>6, <1>7, <1>9, <1>10 DEF JobShows
===============================================================================
