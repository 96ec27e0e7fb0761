---------------------------- MODULE OpenApiProofs ----------------------------
(***************************************************************************)
(* Proofs about the importer, for every document: the validation rules of  *)
(* an imported number admit what its schema admits, and field lists have   *)
(* unique names and numbers that protobuf does not reserve.                *)
(***************************************************************************)
EXTENDS OpenApiTypes, SequenceTheorems, WellFoundedInduction, TLAPS

(***************************************************************************)
(* Numbers.                                                                *)
(***************************************************************************)
\* A keyword that may be absent, and the number schemas a document may have.
Optional(S) == {{}} \cup {{x} : x \in S}
Exclusive == [bool : BOOLEAN, on : BOOLEAN, value : Int]
NumberSchema(s) ==
    /\ s.minimum \in Optional(Int) /\ s.exclusiveMinimum \in Optional(Exclusive)
    /\ s.maximum \in Optional(Int) /\ s.exclusiveMaximum \in Optional(Exclusive)

Bound == [value : Int, exclusive : BOOLEAN]
One(v, e) == [value |-> v, exclusive |-> e]

\* What one pair of keywords asks of a value, from below and from above.
AtLeast(v, x) == IF x.exclusive THEN v > x.value ELSE v >= x.value
AtMost(v, x) == IF x.exclusive THEN v < x.value ELSE v <= x.value
AllowsFromBelow(bound, exclusive, v) ==
    /\ \A m \in bound : v >= m
    /\ \A x \in exclusive : IF x.bool THEN x.on => \A m \in bound : v > m ELSE v > x.value
AllowsFromAbove(bound, exclusive, v) ==
    /\ \A m \in bound : v <= m
    /\ \A x \in exclusive : IF x.bool THEN x.on => \A m \in bound : v < m ELSE v < x.value
Named(bound, exclusive) == bound \cup {x.value : x \in {x \in exclusive : ~x.bool}}

LEMMA TheOnly == \A x : The({x}) = x
BY DEF The

LEMMA OneBound ==
  ASSUME NEW w \in Int, NEW e \in BOOLEAN
  PROVE  /\ One(w, e) \in Bound /\ One(w, e).value = w /\ One(w, e).exclusive = e
         /\ \A v \in Int : (\A x \in {One(w, e)} : AtLeast(v, x)) <=> IF e THEN v > w ELSE v >= w
         /\ \A v \in Int : (\A x \in {One(w, e)} : AtMost(v, x)) <=> IF e THEN v < w ELSE v <= w
<1> DEFINE y == One(w, e)
<1>1. y \in Bound /\ y.value = w /\ y.exclusive = e
  BY DEF One, Bound
<1> HIDE DEF y
<1>2. ASSUME NEW v \in Int
      PROVE  /\ (\A x \in {y} : AtLeast(v, x)) <=> IF e THEN v > w ELSE v >= w
             /\ (\A x \in {y} : AtMost(v, x)) <=> IF e THEN v < w ELSE v <= w
  BY <1>1 DEF AtLeast, AtMost
<1>3. QED
  BY <1>1, <1>2 DEF y

LEMMA Stricter ==
  ASSUME NEW l, NEW r, l.value \in Int, r.value \in Int, r.exclusive = TRUE
  PROVE  /\ stricterLower({l}, r) = IF l.value <= r.value THEN {r} ELSE {l}
         /\ stricterUpper({l}, r) = IF l.value >= r.value THEN {r} ELSE {l}
<1>1. The({l}) = l
  BY TheOnly, Zenon
<1>2. QED
  BY <1>1 DEF stricterLower, stricterUpper

\* The bound that BoundOf returns, by where it comes from.
Shape(bound, exclusive, lower, b) ==
    \/ b = {} /\ bound = {} /\ \A x \in exclusive : x.bool
    \/ \E m \in Int :
          /\ bound = {m} /\ b = {One(m, FALSE)}
          /\ \A x \in exclusive : IF x.bool THEN ~x.on
                                  ELSE IF lower THEN x.value < m ELSE x.value > m
    \/ \E m \in Int, x \in Exclusive :
          bound = {m} /\ exclusive = {x} /\ x.bool /\ x.on /\ b = {One(m, TRUE)}
    \/ \E x \in Exclusive :
          /\ exclusive = {x} /\ ~x.bool /\ b = {One(x.value, TRUE)}
          /\ \A m \in bound : IF lower THEN m <= x.value ELSE m >= x.value

\* Of two bounds the stricter is kept, so the one that BoundOf returns is as strict as both.
LEMMA BoundShape ==
  ASSUME NEW bound \in Optional(Int), NEW exclusive \in Optional(Exclusive),
         NEW lower \in BOOLEAN, NEW b, b = BoundOf(bound, exclusive, lower)
  PROVE  Shape(bound, exclusive, lower, b)
<1> USE DEF Shape
<1> DEFINE all(e) == {One(v, e) : v \in bound}
<1>1. /\ bound = {} => \A e \in BOOLEAN : all(e) = {}
      /\ \A m \in Int : bound = {m} => \A e \in BOOLEAN : all(e) = {One(m, e)}
  OBVIOUS
<1>2. bound = {} \/ \E m \in Int : bound = {m}
  BY DEF Optional
<1>3. CASE exclusive = {}
  <2>1. b = all(FALSE)
    BY <1>3 DEF BoundOf, One
  <2> HIDE DEF all
  <2>2. QED
    BY <1>1, <1>2, <1>3, <2>1, Zenon
<1>4. CASE exclusive # {}
  <2>1. PICK x \in Exclusive : exclusive = {x}
    BY <1>4 DEF Optional
  <2>2. x.bool \in BOOLEAN /\ x.on \in BOOLEAN /\ x.value \in Int
    BY DEF Exclusive
  <2>3. The(exclusive) = x
    BY <2>1, TheOnly, Zenon
  <2>4. CASE x.bool
    <3>1. b = all(x.on)
      BY <1>4, <2>3, <2>4, Zenon DEF BoundOf, One
    <3> HIDE DEF all
    <3>2. QED
      BY <1>1, <1>2, <2>1, <2>2, <2>4, <3>1, Zenon
  <2>5. CASE ~x.bool
    <3>1. b = IF lower THEN stricterLower(all(FALSE), One(x.value, TRUE))
              ELSE stricterUpper(all(FALSE), One(x.value, TRUE))
      BY <1>4, <2>3, <2>5, Zenon DEF BoundOf, One
    <3> HIDE DEF all
    <3>2. CASE bound = {}
      <4>1. b = {One(x.value, TRUE)}
        BY <1>1, <3>1, <3>2, Zenon DEF stricterLower, stricterUpper
      <4>2. QED
        BY <2>1, <2>5, <3>2, <4>1, Zenon
    <3>3. ASSUME NEW m \in Int, bound = {m}
          PROVE  \/ /\ b = {One(x.value, TRUE)}
                    /\ IF lower THEN m <= x.value ELSE m >= x.value
                 \/ /\ b = {One(m, FALSE)}
                    /\ IF lower THEN x.value < m ELSE x.value > m
      <4> DEFINE l == One(m, FALSE)
                 r == One(x.value, TRUE)
      <4>1. all(FALSE) = {l}
        BY <1>1, <3>3, Zenon
      <4>2. l.value = m /\ r.value = x.value /\ r.exclusive = TRUE
        BY <2>2, OneBound, Zenon
      <4> HIDE DEF l, r
      <4>3. b = IF lower THEN IF m <= x.value THEN {r} ELSE {l}
                ELSE IF m >= x.value THEN {r} ELSE {l}
        BY <2>2, <3>1, <4>1, <4>2, Stricter, ZenonT(40) DEF r
      <4>4. \/ b = {r} /\ IF lower THEN m <= x.value ELSE m >= x.value
            \/ b = {l} /\ IF lower THEN x.value < m ELSE x.value > m
        BY <2>2, <4>3
      <4>5. QED
        BY <4>4, Zenon DEF l, r
    <3>4. CASE bound # {}
      <4>1. PICK m \in Int : bound = {m}
        BY <1>2, <3>4
      <4>2. CASE b = {One(x.value, TRUE)} /\ IF lower THEN m <= x.value ELSE m >= x.value
        BY <2>1, <2>5, <4>1, <4>2, Zenon
      <4>3. CASE b = {One(m, FALSE)} /\ IF lower THEN x.value < m ELSE x.value > m
        BY <2>1, <2>5, <4>1, <4>3, Zenon
      <4>4. QED
        BY <3>3, <4>1, <4>2, <4>3, Zenon
    <3>5. QED
      BY <3>2, <3>4, Zenon
  <2>6. QED
    BY <2>2, <2>4, <2>5, Zenon
<1>5. QED
  BY <1>3, <1>4, Zenon

LEMMA LowerBound ==
  ASSUME NEW bound \in Optional(Int), NEW exclusive \in Optional(Exclusive), NEW b,
         b = BoundOf(bound, exclusive, TRUE)
  PROVE  /\ b \in Optional(Bound)
         /\ \A x \in b : x.value \in Named(bound, exclusive)
         /\ \A v \in Int : (\A x \in b : AtLeast(v, x)) <=> AllowsFromBelow(bound, exclusive, v)
<1> DEFINE Goal == /\ b \in Optional(Bound)
                   /\ \A x \in b : x.value \in Named(bound, exclusive)
                   /\ \A v \in Int : (\A x \in b : AtLeast(v, x)) <=> AllowsFromBelow(bound, exclusive, v)
<1>1. (\A m \in bound : m \in Int)
      /\ \A x \in exclusive : x.value \in Int /\ x.bool \in BOOLEAN /\ x.on \in BOOLEAN
  BY DEF Optional, Exclusive
<1>2. CASE b = {} /\ bound = {} /\ \A x \in exclusive : x.bool
  BY <1>2, Zenon DEF Optional, AllowsFromBelow
<1>3. ASSUME NEW m \in Int, bound = {m}, b = {One(m, FALSE)},
             \A x \in exclusive : IF x.bool THEN ~x.on ELSE x.value < m
      PROVE  Goal
  <2>1. ASSUME NEW v \in Int, v >= m, NEW x \in exclusive
        PROVE  IF x.bool THEN x.on => \A k \in {m} : v > k ELSE v > x.value
    <3>1. x.value \in Int /\ IF x.bool THEN ~x.on ELSE x.value < m
      BY <1>1, <1>3
    <3>2. QED
      BY <2>1, <3>1
  <2>2. \A v \in Int : AllowsFromBelow(bound, exclusive, v) <=> v >= m
    BY <1>3, <2>1 DEF AllowsFromBelow
  <2>3. \A v \in Int : (\A x \in b : AtLeast(v, x)) <=> v >= m
    BY <1>3, OneBound, Zenon
  <2>4. b \in Optional(Bound) /\ \A x \in b : x.value \in Named(bound, exclusive)
    BY <1>3, OneBound, Zenon DEF Optional, Named
  <2>5. QED
    BY <2>2, <2>3, <2>4, Zenon
<1>4. ASSUME NEW m \in Int, NEW x \in Exclusive, bound = {m}, exclusive = {x}, x.bool, x.on,
             b = {One(m, TRUE)}
      PROVE  Goal
  <2>1. \A v \in Int : AllowsFromBelow(bound, exclusive, v) <=> v > m
    BY <1>4 DEF AllowsFromBelow
  <2>2. \A v \in Int : (\A y \in b : AtLeast(v, y)) <=> v > m
    BY <1>4, OneBound, Zenon
  <2>3. b \in Optional(Bound) /\ \A y \in b : y.value \in Named(bound, exclusive)
    BY <1>4, OneBound, Zenon DEF Optional, Named
  <2>4. QED
    BY <2>1, <2>2, <2>3, Zenon
<1>5. ASSUME NEW x \in Exclusive, exclusive = {x}, ~x.bool, b = {One(x.value, TRUE)},
             \A m \in bound : m <= x.value
      PROVE  Goal
  <2>1. x.value \in Int
    BY <1>1, <1>5
  <2>2. \A v \in Int : AllowsFromBelow(bound, exclusive, v) <=> v > x.value
    BY <1>1, <1>5, <2>1 DEF AllowsFromBelow
  <2>3. \A v \in Int : (\A y \in b : AtLeast(v, y)) <=> v > x.value
    BY <1>5, <2>1, OneBound, Zenon
  <2>4. b \in Optional(Bound) /\ \A y \in b : y.value \in Named(bound, exclusive)
    <3> DEFINE y == One(x.value, TRUE)
    <3>1. y \in Bound /\ y.value = x.value
      BY <2>1, OneBound, Zenon
    <3> HIDE DEF y
    <3>2. b = {y} /\ {y} \in Optional(Bound)
      BY <1>5, <3>1, Zenon DEF Optional, y
    <3>3. x.value \in Named(bound, exclusive)
      BY <1>5 DEF Named
    <3>4. QED
      BY <3>1, <3>2, <3>3, Zenon
  <2>5. QED
    BY <2>2, <2>3, <2>4, Zenon
<1>6. Shape(bound, exclusive, TRUE, b)
  BY BoundShape, Zenon
<1> HIDE DEF Goal
<1>7. Goal
  BY <1>2, <1>3, <1>4, <1>5, <1>6, Zenon DEF Shape, Goal
<1>8. QED
  BY <1>7, Zenon DEF Goal

LEMMA UpperBound ==
  ASSUME NEW bound \in Optional(Int), NEW exclusive \in Optional(Exclusive), NEW b,
         b = BoundOf(bound, exclusive, FALSE)
  PROVE  /\ b \in Optional(Bound)
         /\ \A x \in b : x.value \in Named(bound, exclusive)
         /\ \A v \in Int : (\A x \in b : AtMost(v, x)) <=> AllowsFromAbove(bound, exclusive, v)
<1> DEFINE Goal == /\ b \in Optional(Bound)
                   /\ \A x \in b : x.value \in Named(bound, exclusive)
                   /\ \A v \in Int : (\A x \in b : AtMost(v, x)) <=> AllowsFromAbove(bound, exclusive, v)
<1>1. (\A m \in bound : m \in Int)
      /\ \A x \in exclusive : x.value \in Int /\ x.bool \in BOOLEAN /\ x.on \in BOOLEAN
  BY DEF Optional, Exclusive
<1>2. CASE b = {} /\ bound = {} /\ \A x \in exclusive : x.bool
  BY <1>2, Zenon DEF Optional, AllowsFromAbove
<1>3. ASSUME NEW m \in Int, bound = {m}, b = {One(m, FALSE)},
             \A x \in exclusive : IF x.bool THEN ~x.on ELSE x.value > m
      PROVE  Goal
  <2>1. ASSUME NEW v \in Int, v <= m, NEW x \in exclusive
        PROVE  IF x.bool THEN x.on => \A k \in {m} : v < k ELSE v < x.value
    <3>1. x.value \in Int /\ IF x.bool THEN ~x.on ELSE x.value > m
      BY <1>1, <1>3
    <3>2. QED
      BY <2>1, <3>1
  <2>2. \A v \in Int : AllowsFromAbove(bound, exclusive, v) <=> v <= m
    BY <1>3, <2>1 DEF AllowsFromAbove
  <2>3. \A v \in Int : (\A x \in b : AtMost(v, x)) <=> v <= m
    BY <1>3, OneBound, Zenon
  <2>4. b \in Optional(Bound) /\ \A x \in b : x.value \in Named(bound, exclusive)
    BY <1>3, OneBound, Zenon DEF Optional, Named
  <2>5. QED
    BY <2>2, <2>3, <2>4, Zenon
<1>4. ASSUME NEW m \in Int, NEW x \in Exclusive, bound = {m}, exclusive = {x}, x.bool, x.on,
             b = {One(m, TRUE)}
      PROVE  Goal
  <2>1. \A v \in Int : AllowsFromAbove(bound, exclusive, v) <=> v < m
    BY <1>4 DEF AllowsFromAbove
  <2>2. \A v \in Int : (\A y \in b : AtMost(v, y)) <=> v < m
    BY <1>4, OneBound, Zenon
  <2>3. b \in Optional(Bound) /\ \A y \in b : y.value \in Named(bound, exclusive)
    BY <1>4, OneBound, Zenon DEF Optional, Named
  <2>4. QED
    BY <2>1, <2>2, <2>3, Zenon
<1>5. ASSUME NEW x \in Exclusive, exclusive = {x}, ~x.bool, b = {One(x.value, TRUE)},
             \A m \in bound : m >= x.value
      PROVE  Goal
  <2>1. x.value \in Int
    BY <1>1, <1>5
  <2>2. \A v \in Int : AllowsFromAbove(bound, exclusive, v) <=> v < x.value
    BY <1>1, <1>5, <2>1 DEF AllowsFromAbove
  <2>3. \A v \in Int : (\A y \in b : AtMost(v, y)) <=> v < x.value
    BY <1>5, <2>1, OneBound, Zenon
  <2>4. b \in Optional(Bound) /\ \A y \in b : y.value \in Named(bound, exclusive)
    <3> DEFINE y == One(x.value, TRUE)
    <3>1. y \in Bound /\ y.value = x.value
      BY <2>1, OneBound, Zenon
    <3> HIDE DEF y
    <3>2. b = {y} /\ {y} \in Optional(Bound)
      BY <1>5, <3>1, Zenon DEF Optional, y
    <3>3. x.value \in Named(bound, exclusive)
      BY <1>5 DEF Named
    <3>4. QED
      BY <3>1, <3>2, <3>3, Zenon
  <2>5. QED
    BY <2>2, <2>3, <2>4, Zenon
<1>6. Shape(bound, exclusive, FALSE, b)
  BY BoundShape, Zenon
<1> HIDE DEF Goal
<1>7. Goal
  BY <1>2, <1>3, <1>4, <1>5, <1>6, Zenon DEF Shape, Goal
<1>8. QED
  BY <1>7, Zenon DEF Goal

\* What numericBounds returns means what the four keywords mean.
LEMMA BoundsMean ==
  ASSUME NEW s, NumberSchema(s), NEW b, b = numericBounds(s)
  PROVE  /\ b.lower \in Optional(Bound) /\ b.upper \in Optional(Bound)
         /\ \A x \in b.lower \cup b.upper : x.value \in Bounds(s)
         /\ \A v \in Int : Allowed(s, v) <=> /\ \A x \in b.lower : AtLeast(v, x)
                                           /\ \A x \in b.upper : AtMost(v, x)
<1> DEFINE lower == BoundOf(s.minimum, s.exclusiveMinimum, TRUE)
           upper == BoundOf(s.maximum, s.exclusiveMaximum, FALSE)
<1>1. b.lower = lower /\ b.upper = upper
  BY DEF numericBounds
<1> HIDE DEF lower, upper
<1>2. /\ lower \in Optional(Bound)
      /\ \A x \in lower : x.value \in Named(s.minimum, s.exclusiveMinimum)
      /\ \A v \in Int : (\A x \in lower : AtLeast(v, x))
                          <=> AllowsFromBelow(s.minimum, s.exclusiveMinimum, v)
  BY LowerBound, Zenon DEF NumberSchema, lower
<1>3. /\ upper \in Optional(Bound)
      /\ \A x \in upper : x.value \in Named(s.maximum, s.exclusiveMaximum)
      /\ \A v \in Int : (\A x \in upper : AtMost(v, x))
                          <=> AllowsFromAbove(s.maximum, s.exclusiveMaximum, v)
  BY UpperBound, Zenon DEF NumberSchema, upper
<1>4. \A x \in b.lower \cup b.upper : x.value \in Bounds(s)
  BY <1>1, <1>2, <1>3 DEF Named, Bounds
<1>5. ASSUME NEW v \in Int
      PROVE  Allowed(s, v) <=> /\ \A x \in b.lower : AtLeast(v, x)
                               /\ \A x \in b.upper : AtMost(v, x)
  <2>1. Allowed(s, v) <=> /\ AllowsFromBelow(s.minimum, s.exclusiveMinimum, v)
                          /\ AllowsFromAbove(s.maximum, s.exclusiveMaximum, v)
    BY DEF Allowed, AllowsFromBelow, AllowsFromAbove
  <2>2. QED
    BY <1>1, <1>2, <1>3, <2>1
<1>6. QED
  BY <1>1, <1>2, <1>3, <1>4, <1>5

\* The literal of a bound means what the bound means to every value of the type, but to
\* the float32 that it was rounded to.
LEMMA LiteralMeans ==
  ASSUME NEW name \in {"int32", "float", "double"}, NEW b \in Int, NEW v \in Int,
         name = "float" => v % 2 = 0, ~(name = "float" /\ b % 2 = 1 /\ ToFloat32(b) = v),
         NEW r, r = numericLiteral(b, name).value
  PROVE  (v >= r <=> v >= b) /\ (v > r <=> v > b) /\ (v <= r <=> v <= b) /\ (v < r <=> v < b)
<1>1. CASE name # "float"
  BY <1>1 DEF numericLiteral
<1>2. CASE name = "float"
  <2>1. r = ToFloat32(b)
    BY <1>2 DEF numericLiteral
  <2>2. CASE b % 2 = 0
    BY <2>1, <2>2 DEF ToFloat32
  <2>3. CASE b % 2 = 1
    <3>1. r \in {b + 1, b - 1} /\ r # v
      BY <1>2, <2>1, <2>3 DEF ToFloat32
    <3>2. v # b
      BY <1>2, <2>3
    <3>3. QED
      BY <3>1, <3>2
  <2>4. b % 2 \in {0, 1}
    OBVIOUS
  <2>5. QED
    BY <2>2, <2>3, <2>4
<1>3. QED
  BY <1>1, <1>2

\* The rules of a number, from its bounds.
LEMMA RulesMean ==
  ASSUME NEW con, NEW s, NumberSchema(s), NEW name \in {"int32", "float", "double"}, NEW more,
         \A r \in more : r.path \notin {"gte", "gt", "lte", "lt"},
         NEW t, t = numericRules(con, s, name, more), t.type.kind = "scalar",
         NEW v \in Int, name = "float" => v % 2 = 0
  PROVE  t.type.name[1] = name /\ MeansBounds(s, name, t.type.rules, v)
<1> DEFINE b == numericBounds(s)
           lit(x) == numericLiteral(x.value, name).value
           lower == {Rule(IF x.exclusive THEN "gt" ELSE "gte", lit(x)) : x \in b.lower}
           upper == {Rule(IF x.exclusive THEN "lt" ELSE "lte", lit(x)) : x \in b.upper}
<1>1. t.type = ScalarType(name, lower \cup upper \cup more)
  BY DEF numericRules, BoundRules, Fail, Ok, NoType
<1>2. t.type.name[1] = name /\ t.type.rules = lower \cup upper \cup more
  BY <1>1 DEF ScalarType
<1>3. /\ b.lower \in Optional(Bound) /\ b.upper \in Optional(Bound)
      /\ \A x \in b.lower \cup b.upper : x.value \in Bounds(s)
      /\ Allowed(s, v) <=> /\ \A x \in b.lower : AtLeast(v, x)
                           /\ \A x \in b.upper : AtMost(v, x)
  BY BoundsMean
<1>4. SUFFICES ASSUME ~(name = "float" /\ \E m \in Bounds(s) : m % 2 = 1 /\ ToFloat32(m) = v)
               PROVE  Admits(t.type.rules, v) <=> Allowed(s, v)
  BY <1>2 DEF MeansBounds
<1> HIDE DEF b
<1>5. ASSUME NEW x \in b.lower \cup b.upper
      PROVE  /\ x.value \in Int /\ x.exclusive \in BOOLEAN
             /\ v >= lit(x) <=> v >= x.value
             /\ v > lit(x) <=> v > x.value
             /\ v <= lit(x) <=> v <= x.value
             /\ v < lit(x) <=> v < x.value
  <2>1. x \in Bound
    BY <1>3 DEF Optional
  <2>2. x.value \in Int /\ x.exclusive \in BOOLEAN
    BY <2>1 DEF Bound
  <2>3. ~(name = "float" /\ x.value % 2 = 1 /\ ToFloat32(x.value) = v)
    BY <1>3, <1>4
  <2>4. QED
    BY <2>2, <2>3, LiteralMeans
<1>6. Admits(more, v)
  BY DEF Admits, Passes
<1>7. Admits(lower, v) <=> \A x \in b.lower : AtLeast(v, x)
  <2> DEFINE rule(x) == Rule(IF x.exclusive THEN "gt" ELSE "gte", lit(x))
  <2>1. Admits(lower, v) <=> \A x \in b.lower : Passes(rule(x), v)
    BY Zenon DEF Admits
  <2>2. ASSUME NEW x \in b.lower
        PROVE  Passes(rule(x), v) <=> AtLeast(v, x)
    <3> DEFINE l == lit(x)
               r == rule(x)
    <3>1. r.value = l /\ r.path = IF x.exclusive THEN "gt" ELSE "gte"
      BY DEF Rule
    <3>2. /\ x.exclusive \in BOOLEAN
          /\ v >= l <=> v >= x.value
          /\ v > l <=> v > x.value
      BY <1>5
    <3> HIDE DEF l, r
    <3>3. Passes(r, v) <=> AtLeast(v, x)
      BY <3>1, <3>2 DEF Passes, AtLeast
    <3>4. QED
      BY <3>3 DEF r
  <2>3. QED
    <3> HIDE DEF rule
    <3>1. QED
      BY <2>1, <2>2
<1>8. Admits(upper, v) <=> \A x \in b.upper : AtMost(v, x)
  <2> DEFINE rule(x) == Rule(IF x.exclusive THEN "lt" ELSE "lte", lit(x))
  <2>1. Admits(upper, v) <=> \A x \in b.upper : Passes(rule(x), v)
    BY Zenon DEF Admits
  <2>2. ASSUME NEW x \in b.upper
        PROVE  Passes(rule(x), v) <=> AtMost(v, x)
    <3> DEFINE l == lit(x)
               r == rule(x)
    <3>1. r.value = l /\ r.path = IF x.exclusive THEN "lt" ELSE "lte"
      BY DEF Rule
    <3>2. /\ x.exclusive \in BOOLEAN
          /\ v <= l <=> v <= x.value
          /\ v < l <=> v < x.value
      BY <1>5
    <3> HIDE DEF l, r
    <3>3. Passes(r, v) <=> AtMost(v, x)
      BY <3>1, <3>2 DEF Passes, AtMost
    <3>4. QED
      BY <3>3 DEF r
  <2>3. QED
    <3> HIDE DEF rule
    <3>1. QED
      BY <2>1, <2>2
<1>9. Admits(t.type.rules, v) <=> Admits(lower, v) /\ Admits(upper, v) /\ Admits(more, v)
  <2> HIDE DEF lower, upper
  <2>1. QED
    BY <1>2 DEF Admits
<1>10. QED
  BY <1>3, <1>6, <1>7, <1>8, <1>9

\* The validation rules that integerType and numberType give a number admit exactly the
\* values its schema admits, whichever of the keywords minimum, maximum, exclusiveMinimum
\* and exclusiveMaximum it combines and in which of their two forms; of a float, all but a
\* value that a bound was rounded to.
THEOREM ImportedNumbersAreExact ==
  ASSUME NEW con, NEW s, NumberSchema(s), NEW t \in {integerType(con, s), numberType(con, s)},
         t.type.kind = "scalar", NEW v \in Int, t.type.name[1] = "float" => v % 2 = 0
  PROVE  MeansBounds(s, t.type.name[1], t.type.rules, v)
<1>1. NoType.kind # "scalar" /\ \A e : Fail(con, e).type = NoType
  BY DEF NoType, Fail
<1>2. CASE t = integerType(con, s)
  <2>1. t = numericRules(con, s, "int32", {})
    BY <1>1, <1>2, Zenon DEF integerType
  <2>2. t.type.name[1] = "int32"
    BY <2>1, <1>1 DEF numericRules, BoundRules, Ok, ScalarType, Fail
  <2>3. QED
    BY <2>1, <2>2, RulesMean
<1>3. CASE t = numberType(con, s)
  <2>1. s.format \in {"float", "double"} /\ t = numericRules(con, s, s.format, {Rule("finite", 1)})
    BY <1>1, <1>3 DEF numberType
  <2>2. t.type.name[1] = s.format
    BY <2>1, <1>1 DEF numericRules, BoundRules, Ok, ScalarType, Fail
  <2>3. \A r \in {Rule("finite", 1)} : r.path \notin {"gte", "gt", "lte", "lt"}
    BY DEF Rule
  <2>4. QED
    BY <2>1, <2>2, <2>3, RulesMean
<1>4. QED
  BY <1>2, <1>3

\* numericBounds refuses bounds as contradictory only where no value satisfies them all.
THEOREM RefusedBoundsAreEmpty ==
  ASSUME NEW s, NumberSchema(s), ~numericBounds(s).ok,
         \A x \in s.exclusiveMinimum : x.bool /\ x.on => s.minimum # {},
         \A x \in s.exclusiveMaximum : x.bool /\ x.on => s.maximum # {}
  PROVE  \A v \in Int : ~Allowed(s, v)
<1> DEFINE b == numericBounds(s)
<1>1. ~ \A lo \in b.lower, hi \in b.upper : /\ lo.value <= hi.value
                                            /\ lo.value = hi.value => ~lo.exclusive /\ ~hi.exclusive
  BY Zenon DEF numericBounds
<1>2. /\ b.lower \in Optional(Bound) /\ b.upper \in Optional(Bound)
      /\ \A v \in Int : Allowed(s, v) => /\ \A x \in b.lower : AtLeast(v, x)
                                         /\ \A x \in b.upper : AtMost(v, x)
  BY BoundsMean
<1> HIDE DEF b
<1>3. PICK lo \in b.lower, hi \in b.upper :
        ~(lo.value <= hi.value /\ (lo.value = hi.value => ~lo.exclusive /\ ~hi.exclusive))
  BY <1>1
<1>4. lo \in Bound /\ hi \in Bound
  BY <1>2 DEF Optional
<1>5. ASSUME NEW v \in Int, AtLeast(v, lo), AtMost(v, hi)
      PROVE  FALSE
  BY <1>3, <1>4, <1>5 DEF AtLeast, AtMost, Bound
<1>6. QED
  BY <1>2, <1>5

(***************************************************************************)
(* Induction over numbers.                                                 *)
(***************************************************************************)
\* Every set of natural numbers that is not empty has a least member.
LEMMA LeastNumber ==
  ASSUME NEW T \in SUBSET Nat, T # {}
  PROVE  \E n \in T : \A m \in T : n <= m
<1>1. PICK n \in T : \A m \in T : ~(<<m, n>> \in OpToRel(<, Nat))
  BY NatLessThanWellFounded, WFMin, Zenon
<1>2. \A m \in T : ~(m < n)
  BY <1>1, Zenon DEF OpToRel
<1>3. QED
  BY <1>2

\* Induction up to m, with a set in the place of the predicate.
LEMMA Induction ==
  ASSUME NEW m \in Nat, NEW S, 0 \in S, \A n \in 0..(m - 1) : n \in S => n + 1 \in S
  PROVE  0..m \subseteq S
<1> DEFINE Bad == {n \in 0..m : n \notin S}
<1>1. SUFFICES ASSUME Bad # {}
               PROVE  FALSE
  OBVIOUS
<1>2. Bad \in SUBSET Nat
  OBVIOUS
<1>3. PICK n \in Bad : \A k \in Bad : n <= k
  BY <1>1, <1>2, LeastNumber, Zenon
<1>4. n \in 0..m /\ n # 0 /\ n \notin S
  OBVIOUS
<1>5. n - 1 \in 0..(m - 1) /\ n - 1 \in S
  BY <1>3, <1>4
<1>6. (n - 1) + 1 = n
  BY <1>4
<1>7. QED
  BY <1>4, <1>5, <1>6

(***************************************************************************)
(* Fields.                                                                 *)
(***************************************************************************)
\* The fields are numbered in order, and their names are distinct.
Ordered(fields) ==
    /\ \A i \in DOMAIN fields : fields[i].number = protobufFieldNumber(i - 1)
    /\ \A i, j \in DOMAIN fields : fields[i].name = fields[j].name => i = j

LEMMA NumbersAreSound ==
  ASSUME NEW F, NEW fields \in Seq(F), Ordered(fields)
  PROVE  SoundFields(fields)
<1>1. Len(fields) \in Nat /\ DOMAIN fields = 1..Len(fields)
  BY LenProperties
<1>2. ASSUME NEW i \in 1..Len(fields), NEW j \in 1..Len(fields)
      PROVE  /\ protobufFieldNumber(i - 1) \notin ReservedFrom..(ReservedFrom + ReservedCount - 1)
             /\ protobufFieldNumber(i - 1) = protobufFieldNumber(j - 1) => i = j
  BY <1>1, ReservedAssumption DEF protobufFieldNumber
<1>3. ASSUME NEW i \in 1..Len(fields)
      PROVE  fields[i].number \notin ReservedFrom..(ReservedFrom + ReservedCount - 1)
  <2>1. fields[i].number = protobufFieldNumber(i - 1)
    BY <1>1, Zenon DEF Ordered
  <2>2. QED
    BY <1>2, <2>1, Zenon
<1>4. ASSUME NEW i \in 1..Len(fields), NEW j \in 1..Len(fields),
             fields[i].name = fields[j].name \/ fields[i].number = fields[j].number
      PROVE  i = j
  <2>1. fields[i].number = protobufFieldNumber(i - 1) /\ fields[j].number = protobufFieldNumber(j - 1)
    BY <1>1, Zenon DEF Ordered
  <2>2. fields[i].name = fields[j].name => i = j
    BY <1>1, Zenon DEF Ordered
  <2>3. QED
    BY <1>2, <1>4, <2>1, <2>2, Zenon
<1>5. QED
  BY <1>1, <1>3, <1>4, Zenon DEF SoundFields

\* addField leaves a field list as it is, or appends a field with a new name.
Extends(old, new) ==
    \/ new = old
    \/ \E f : /\ new = Append(old, f) /\ f.number = protobufFieldNumber(Len(old))
              /\ \A i \in DOMAIN old : old[i].name # f.name

LEMMA AddFieldExtends ==
  ASSUME NEW acc, {"c", "fields"} \subseteq DOMAIN acc, NEW name, NEW json, NEW r, NEW required,
         NEW new, new = addField(acc, name, json, r, required)
  PROVE  Extends(acc.fields, new.fields)
<1> DEFINE f == [name |-> name, json |-> json, type |-> r.type, required |-> required,
                 number |-> protobufFieldNumber(Len(acc.fields))]
<1>1. \/ new.fields = acc.fields
      \/ new.fields = Append(acc.fields, f) /\ ~ \E i \in DOMAIN acc.fields : acc.fields[i].name = name
  BY DEF addField
<1>2. f.name = name /\ f.number = protobufFieldNumber(Len(acc.fields))
  OBVIOUS
<1> HIDE DEF f
<1>3. QED
  BY <1>1, <1>2, Zenon DEF Extends

LEMMA ExtendedStaysOrdered ==
  ASSUME NEW F, NEW old \in Seq(F), Ordered(old), NEW new \in Seq(F), Extends(old, new)
  PROVE  Ordered(new)
<1>1. CASE new = old
  BY <1>1
<1>2. CASE new # old
  <2>1. PICK f : /\ new = Append(old, f) /\ f.number = protobufFieldNumber(Len(old))
                 /\ \A i \in DOMAIN old : old[i].name # f.name
    BY <1>2 DEF Extends
  <2> DEFINE n == Len(old)
  <2>2. n \in Nat /\ DOMAIN old = 1..n /\ DOMAIN new = 1..(n + 1)
    BY <2>1, LenProperties
  <2>3. new[n + 1] = f /\ \A i \in 1..n : new[i] = old[i]
    BY <2>1
  <2> HIDE DEF n
  <2>4. ASSUME NEW i \in 1..(n + 1)
        PROVE  new[i].number = protobufFieldNumber(i - 1)
    <3>1. CASE i = n + 1
      <4>1. i - 1 = n
        BY <2>2, <3>1
      <4>2. QED
        BY <2>1, <2>3, <3>1, <4>1, Zenon DEF n
    <3>2. CASE i \in 1..n
      BY <2>2, <2>3, <3>2, Zenon DEF Ordered
    <3>3. QED
      BY <2>2, <3>1, <3>2
  <2>5. ASSUME NEW i \in 1..(n + 1), NEW j \in 1..(n + 1), new[i].name = new[j].name
        PROVE  i = j
    <3>1. CASE i \in 1..n /\ j \in 1..n
      BY <2>2, <2>3, <2>5, <3>1, Zenon DEF Ordered
    <3>2. CASE i = n + 1 /\ j \in 1..n
      BY <2>1, <2>2, <2>3, <2>5, <3>2, Zenon
    <3>3. CASE i \in 1..n /\ j = n + 1
      BY <2>1, <2>2, <2>3, <2>5, <3>3, Zenon
    <3>4. CASE i = n + 1 /\ j = n + 1
      BY <3>4
    <3>5. QED
      BY <2>2, <3>1, <3>2, <3>3, <3>4
  <2>6. QED
    BY <2>2, <2>4, <2>5, Zenon DEF Ordered
<1>3. QED
  BY <1>1, <1>2

\* However many fields a message or a request is given, in whatever order and with whatever
\* other steps of the importer between them, its field names and numbers are unique and no
\* number is one that protobuf reserves (populateMessage, protobufFieldNumber).
THEOREM FieldListsAreSound ==
  ASSUME NEW F, NEW m \in Nat, NEW acc,
         \A k \in 0..m : {"c", "fields"} \subseteq DOMAIN acc[k] /\ acc[k].fields \in Seq(F),
         acc[0].fields = <<>>,
         \A k \in 0..(m - 1) :
            \/ acc[k + 1].fields = acc[k].fields
            \/ \E name, json, r, required : acc[k + 1] = addField(acc[k], name, json, r, required)
  PROVE  \A k \in 0..m : SoundFields(acc[k].fields)
<1> DEFINE Good == {k \in 0..m : Ordered(acc[k].fields)}
<1>1. 0 \in Good
  BY DEF Ordered
<1>2. ASSUME NEW k \in 0..(m - 1), k \in Good
      PROVE  k + 1 \in Good
  <2>1. k \in 0..m /\ k + 1 \in 0..m
    OBVIOUS
  <2>2. Extends(acc[k].fields, acc[k + 1].fields)
    <3>1. CASE acc[k + 1].fields = acc[k].fields
      BY <3>1, Zenon DEF Extends
    <3>2. CASE \E name, json, r, required : acc[k + 1] = addField(acc[k], name, json, r, required)
      BY <2>1, <3>2, AddFieldExtends, Zenon
    <3>3. QED
      BY <3>1, <3>2
  <2>3. acc[k].fields \in Seq(F) /\ acc[k + 1].fields \in Seq(F) /\ Ordered(acc[k].fields)
    BY <1>2, <2>1
  <2>4. Ordered(acc[k + 1].fields)
    BY <2>2, <2>3, ExtendedStaysOrdered, Zenon
  <2>5. QED
    BY <2>1, <2>4
<1>3. 0..m \subseteq Good
  <2> HIDE DEF Good
  <2>1. QED
    BY <1>1, <1>2, Induction, Zenon
<1>4. QED
  BY <1>3, NumbersAreSound
=============================================================================
