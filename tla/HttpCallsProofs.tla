--------------------------- MODULE HttpCallsProofs ---------------------------
(***************************************************************************)
(* Proofs about the outbound client, for every contract and every message: *)
(* the request of a call carries its message, and a reply comes back in    *)
(* the field selected for it.                                              *)
(***************************************************************************)
EXTENDS HttpCalls, SequenceTheorems, WellFoundedInduction, TLAPS

(***************************************************************************)
(* Induction over numbers and sequences, with a set in the place of the    *)
(* predicate: every set of natural numbers has a least member.             *)
(***************************************************************************)
\* Every set of natural numbers that is not empty has a least member.
LEMMA LeastNumber ==
  ASSUME NEW T \in SUBSET Nat, T # {}
  PROVE  \E n \in T : \A m \in T : n <= m
<1>1. PICK n \in T : \A m \in T : ~(<<m, n>> \in OpToRel(<, Nat))
  BY NatLessThanWellFounded, WFMin, Zenon
<1>2. \A m \in T : ~(m < n)
  BY <1>1, Zenon DEF OpToRel
<1>3. QED
  BY <1>2

\* Induction up to m, with a set in the place of the predicate.
LEMMA Induction ==
  ASSUME NEW m \in Nat, NEW S, 0 \in S, \A n \in 0..(m - 1) : n \in S => n + 1 \in S
  PROVE  0..m \subseteq S
<1> DEFINE Bad == {n \in 0..m : n \notin S}
<1>1. SUFFICES ASSUME Bad # {}
               PROVE  FALSE
  OBVIOUS
<1>2. Bad \in SUBSET Nat
  OBVIOUS
<1>3. PICK n \in Bad : \A k \in Bad : n <= k
  BY <1>1, <1>2, LeastNumber, Zenon
<1>4. n \in 0..m /\ n # 0 /\ n \notin S
  OBVIOUS
<1>5. n - 1 \in 0..(m - 1) /\ n - 1 \in S
  BY <1>3, <1>4
<1>6. (n - 1) + 1 = n
  BY <1>4
<1>7. QED
  BY <1>4, <1>5, <1>6

\* Induction over the sequences over S.
LEMMA SeqInduction ==
  ASSUME NEW S, NEW G, <<>> \in G, \A s \in Seq(S), e \in S : s \in G => Append(s, e) \in G
  PROVE  \A s \in Seq(S) : s \in G
<1> DEFINE Bad == {t \in Seq(S) : t \notin G}
           T == {Len(t) : t \in Bad}
<1>1. SUFFICES ASSUME Bad # {}
               PROVE  FALSE
  OBVIOUS
<1>2. T \in SUBSET Nat /\ T # {}
  <2>1. \A t \in Bad : Len(t) \in Nat
    BY LenProperties
  <2> HIDE DEF Bad
  <2>2. QED
    BY <1>1, <2>1, Zenon
<1>3. PICK n \in T : \A k \in T : n <= k
  <2> HIDE DEF T
  <2>1. QED
    BY <1>2, LeastNumber
<1>4. PICK t \in Bad : n = Len(t)
  OBVIOUS
<1>5. t # <<>>
  OBVIOUS
<1>6. PICK u \in Seq(S), e \in S : t = Append(u, e)
  BY <1>5, SequenceEmptyOrAppend
<1>7. Len(u) \in Nat /\ n = Len(u) + 1
  BY <1>4, <1>6, AppendProperties
<1>8. u \in G
  <2>1. SUFFICES ASSUME u \notin G
                 PROVE  FALSE
    OBVIOUS
  <2>2. Len(u) \in T
    BY <2>1
  <2>3. QED
    BY <1>3, <1>7, <2>2
<1>9. QED
  BY <1>6, <1>8

(***************************************************************************)
(* Chain.                                                                  *)
(***************************************************************************)
\* f[i] is the concatenation of the first i members of s.
Links(s, f) == f = [i \in 0..Len(s) |-> IF i = 0 THEN <<>> ELSE f[i - 1] \o s[i]]

LEMMA LinksUpTo ==
  ASSUME NEW s, Len(s) \in Nat, NEW f, Links(s, f)
  PROVE  f[0] = <<>> /\ \A i \in 1..Len(s) : f[i] = f[i - 1] \o s[i]
<1>1. \A i \in 0..Len(s) : f[i] = IF i = 0 THEN <<>> ELSE f[i - 1] \o s[i]
  BY Zenon DEF Links
<1>2. 0 \in 0..Len(s) /\ \A i \in 1..Len(s) : i \in 0..Len(s) /\ i # 0
  OBVIOUS
<1>3. QED
  BY <1>1, <1>2, Zenon

LEMMA LinksAppend ==
  ASSUME NEW S, NEW s \in Seq(Seq(S)), NEW e \in Seq(S), NEW f, Links(s, f),
         NEW g, Links(Append(s, e), g)
  PROVE  g[Len(s) + 1] = f[Len(s)] \o e
<1> DEFINE n == Len(s)
           t == Append(s, e)
<1>1. n \in Nat /\ Len(t) = n + 1 /\ t[n + 1] = e /\ \A i \in 1..n : t[i] = s[i]
  BY AppendProperties
<1>2. g[0] = <<>> /\ \A i \in 1..(n + 1) : g[i] = g[i - 1] \o t[i]
  <2>1. Len(t) \in Nat /\ Links(t, g)
    BY <1>1
  <2> HIDE DEF t
  <2>2. g[0] = <<>> /\ \A i \in 1..Len(t) : g[i] = g[i - 1] \o t[i]
    BY <2>1, LinksUpTo, Zenon
  <2>3. QED
    BY <1>1, <2>2, Zenon
<1>3. f[0] = <<>> /\ \A i \in 1..n : f[i] = f[i - 1] \o s[i]
  BY <1>1, LinksUpTo, Zenon
<1> DEFINE Good == {k \in 0..n : f[k] = g[k]}
<1> HIDE DEF t, n
<1>4. 0 \in Good
  BY <1>1, <1>2, <1>3
<1>5. ASSUME NEW k \in 0..(n - 1), k \in Good
      PROVE  k + 1 \in Good
  <2>1. k + 1 \in 1..n /\ k + 1 \in 1..(n + 1) /\ (k + 1) - 1 = k /\ k + 1 \in 0..n
    BY <1>1
  <2>2. f[k + 1] = f[k] \o s[k + 1] /\ g[k + 1] = g[k] \o s[k + 1]
    BY <1>1, <1>2, <1>3, <2>1, Zenon
  <2>3. f[k] = g[k]
    BY <1>5
  <2>4. f[k + 1] = g[k + 1]
    BY <2>2, <2>3, Zenon
  <2>5. QED
    BY <2>1, <2>4
<1>6. f[n] = g[n]
  <2>1. 0..n \subseteq Good
    <3> HIDE DEF Good
    <3>1. QED
      BY <1>1, <1>4, <1>5, Induction, Zenon
  <2>2. QED
    BY <1>1, <2>1
<1>7. n + 1 \in 1..(n + 1) /\ (n + 1) - 1 = n
  BY <1>1
<1>8. QED
  BY <1>1, <1>2, <1>6, <1>7, Zenon DEF n

LEMMA LinksExist ==
  ASSUME NEW S
  PROVE  \A s \in Seq(Seq(S)) : \E f : Links(s, f)
<1> DEFINE G == {s \in Seq(Seq(S)) : \E f : Links(s, f)}
<1>1. <<>> \in G
  <2>1. Links(<<>>, [i \in 0..0 |-> <<>>])
    BY DEF Links
  <2>2. QED
    BY <2>1
<1>2. ASSUME NEW s \in Seq(Seq(S)), NEW e \in Seq(S), s \in G
      PROVE  Append(s, e) \in G
  <2> DEFINE n == Len(s)
             t == Append(s, e)
  <2>1. PICK f : Links(s, f)
    BY <1>2
  <2>2. /\ n \in Nat /\ Len(t) = n + 1 /\ t[n + 1] = e /\ \A i \in 1..n : t[i] = s[i]
        /\ t \in Seq(Seq(S))
    BY AppendProperties
  <2>3. f[0] = <<>> /\ \A i \in 1..n : f[i] = f[i - 1] \o s[i]
    BY <2>1, <2>2, LinksUpTo, Zenon
  <2> HIDE DEF t, n
  <2> DEFINE g == [i \in 0..(n + 1) |-> IF i <= n THEN f[i] ELSE f[n] \o e]
  <2>4. ASSUME NEW i \in 0..(n + 1)
        PROVE  g[i] = IF i = 0 THEN <<>> ELSE g[i - 1] \o t[i]
    <3>1. CASE i = 0
      BY <2>2, <2>3, <3>1
    <3>2. CASE i \in 1..n
      <4>1. i - 1 \in 0..n /\ i \in 0..n /\ i # 0
        BY <2>2, <3>2
      <4>2. g[i] = f[i] /\ g[i - 1] = f[i - 1]
        BY <2>2, <4>1
      <4> HIDE DEF g
      <4>3. QED
        BY <2>2, <2>3, <3>2, <4>1, <4>2, Zenon
    <3>3. CASE i = n + 1
      <4>1. i - 1 = n /\ n \in 0..(n + 1) /\ i # 0
        BY <2>2, <3>3
      <4>2. g[i] = f[n] \o e /\ g[i - 1] = f[n] /\ t[i] = e
        BY <2>2, <3>3, <4>1
      <4> HIDE DEF g
      <4>3. QED
        BY <4>1, <4>2
    <3>4. QED
      BY <2>2, <3>1, <3>2, <3>3
  <2>5. Links(t, g)
    <3>1. g = [i \in 0..(n + 1) |-> IF i = 0 THEN <<>> ELSE g[i - 1] \o t[i]]
      <4>1. DOMAIN g = 0..(n + 1) /\ g = [i \in 0..(n + 1) |-> g[i]]
        OBVIOUS
      <4> HIDE DEF g
      <4>2. QED
        BY <2>4, <4>1, Zenon
    <3> HIDE DEF g
    <3>2. QED
      BY <2>2, <3>1, Zenon DEF Links
  <2>6. QED
    BY <2>2, <2>5 DEF t
<1>3. QED
  <2> HIDE DEF G
  <2>1. \A s \in Seq(Seq(S)) : s \in G
    BY <1>1, <1>2, SeqInduction
  <2>2. QED
    BY <2>1 DEF G

LEMMA ChainIs ==
  ASSUME NEW S, NEW s \in Seq(Seq(S))
  PROVE  \E f : Links(s, f) /\ Chain(s) = f[Len(s)]
<1> DEFINE f == CHOOSE f : Links(s, f)
<1>1. Links(s, f)
  BY LinksExist
<1>2. Chain(s) = f[Len(s)]
  BY DEF Chain, Links
<1>3. QED
  BY <1>1, <1>2, Zenon

LEMMA ChainEmpty == Chain(<<>>) = <<>>
<1>1. <<>> \in Seq(Seq({})) /\ Len(<<>>) = 0 /\ Len(<<>>) \in Nat
  BY EmptySeq
<1>2. PICK f : Links(<<>>, f) /\ Chain(<<>>) = f[Len(<<>>)]
  BY <1>1, ChainIs, Zenon
<1>3. QED
  BY <1>1, <1>2, LinksUpTo, Zenon

LEMMA ChainAppend ==
  ASSUME NEW S, NEW s \in Seq(Seq(S)), NEW e \in Seq(S)
  PROVE  Chain(Append(s, e)) = Chain(s) \o e
<1>1. Append(s, e) \in Seq(Seq(S)) /\ Len(Append(s, e)) = Len(s) + 1
  BY AppendProperties
<1>2. PICK g : Links(Append(s, e), g) /\ Chain(Append(s, e)) = g[Len(s) + 1]
  BY <1>1, ChainIs, Zenon
<1>3. PICK f : Links(s, f) /\ Chain(s) = f[Len(s)]
  BY ChainIs, Zenon
<1>4. QED
  BY <1>2, <1>3, LinksAppend, Zenon

LEMMA ChainType ==
  ASSUME NEW S
  PROVE  \A s \in Seq(Seq(S)) : Chain(s) \in Seq(S)
<1> DEFINE G == {s \in Seq(Seq(S)) : Chain(s) \in Seq(S)}
<1>1. <<>> \in G
  <2>1. <<>> \in Seq(Seq(S)) /\ <<>> \in Seq(S)
    BY EmptySeq, Zenon
  <2>2. QED
    BY <2>1, ChainEmpty, Zenon
<1>2. ASSUME NEW s \in Seq(Seq(S)), NEW e \in Seq(S), s \in G
      PROVE  Append(s, e) \in G
  <2>1. Append(s, e) \in Seq(Seq(S))
    BY AppendProperties
  <2>2. Chain(s) \o e \in Seq(S)
    BY <1>2, ConcatProperties
  <2>3. QED
    BY <2>1, <2>2, ChainAppend, Zenon
<1>3. QED
  <2> HIDE DEF G
  <2>1. \A s \in Seq(Seq(S)) : s \in G
    BY <1>1, <1>2, SeqInduction
  <2>2. QED
    BY <2>1 DEF G

Joined(p, q, s) ==
    /\ Len(p) \in Nat /\ Len(q) \in Nat
    /\ Len(s) = Len(p) + Len(q) /\ DOMAIN s = 1..(Len(p) + Len(q))
    /\ \A i \in 1..(Len(p) + Len(q)) : s[i] = IF i <= Len(p) THEN p[i] ELSE q[i - Len(p)]

LEMMA JoinedParts ==
  ASSUME NEW S, NEW p \in Seq(S), NEW q \in Seq(S), NEW s, s = p \o q
  PROVE  s \in Seq(S) /\ Joined(p, q, s)
<1>1. /\ s \in Seq(S) /\ Len(s) = Len(p) + Len(q)
      /\ \A i \in 1..(Len(p) + Len(q)) : s[i] = IF i <= Len(p) THEN p[i] ELSE q[i - Len(p)]
  BY ConcatProperties, Zenon
<1>2. Len(p) \in Nat /\ Len(q) \in Nat /\ DOMAIN s = 1..Len(s)
  BY <1>1, LenProperties, Zenon
<1>3. QED
  BY <1>1, <1>2, Zenon DEF Joined

Shifts(s, t, e) == s \o Append(t, e) = Append(s \o t, e)

LEMMA ConcatAppend ==
  ASSUME NEW S, NEW s \in Seq(S), NEW t \in Seq(S), NEW e \in S
  PROVE  Shifts(s, t, e)
BY DEF Shifts

LEMMA ChainConcat ==
  ASSUME NEW S, NEW s \in Seq(Seq(S))
  PROVE  \A t \in Seq(Seq(S)) : Chain(s \o t) = Chain(s) \o Chain(t)
<1> DEFINE G == {t \in Seq(Seq(S)) : Chain(s \o t) = Chain(s) \o Chain(t)}
<1>1. <<>> \in G
  <2>1. s \o <<>> = s
    BY ConcatEmptySeq
  <2>2. Chain(s) \o <<>> = Chain(s)
    BY ChainType, ConcatEmptySeq
  <2>3. <<>> \in Seq(Seq(S))
    BY EmptySeq, Zenon
  <2>4. QED
    BY <2>1, <2>2, <2>3, ChainEmpty, Zenon
<1>2. ASSUME NEW t \in Seq(Seq(S)), NEW e \in Seq(S), t \in G
      PROVE  Append(t, e) \in G
  <2>1. s \o t \in Seq(Seq(S)) /\ Append(t, e) \in Seq(Seq(S)) /\ <<e>> \in Seq(Seq(S))
    BY ConcatProperties, AppendProperties
  <2>2. s \o Append(t, e) = Append(s \o t, e)
    <3>1. Shifts(s, t, e)
      BY ConcatAppend
    <3>2. QED
      BY <3>1, Zenon DEF Shifts
  <2>3. Chain(s) \in Seq(S) /\ Chain(t) \in Seq(S)
    BY ChainType
  <2>4. Chain(Append(s \o t, e)) = (Chain(s) \o Chain(t)) \o e
    BY <1>2, <2>1, ChainAppend, Zenon
  <2>5. Chain(Append(t, e)) = Chain(t) \o e
    BY ChainAppend
  <2>6. (Chain(s) \o Chain(t)) \o e = Chain(s) \o (Chain(t) \o e)
    <3>1. \A x, y \in Seq(S) : (x \o y) \o e = x \o (y \o e)
      BY ConcatAssociative
    <3>2. QED
      BY <2>3, <3>1, Zenon
  <2>7. QED
    BY <2>1, <2>2, <2>4, <2>5, <2>6, Zenon
<1>3. QED
  <2> HIDE DEF G
  <2>1. \A t \in Seq(Seq(S)) : t \in G
    BY <1>1, <1>2, SeqInduction
  <2>2. QED
    BY <2>1 DEF G

\* The members of a sequence, each in a sequence of its own.
Singles(t) == [i \in DOMAIN t |-> <<t[i]>>]

LEMMA ChainSingles ==
  ASSUME NEW S
  PROVE  \A t \in Seq(S) : Singles(t) \in Seq(Seq(S)) /\ Chain(Singles(t)) = t
<1> DEFINE G == {t \in Seq(S) : Singles(t) \in Seq(Seq(S)) /\ Chain(Singles(t)) = t}
<1>1. <<>> \in G
  <2>1. Singles(<<>>) = <<>>
    BY DEF Singles
  <2>2. <<>> \in Seq(Seq(S)) /\ <<>> \in Seq(S)
    BY EmptySeq, Zenon
  <2>3. QED
    BY <2>1, <2>2, ChainEmpty, Zenon
<1>2. ASSUME NEW t \in Seq(S), NEW e \in S, t \in G
      PROVE  Append(t, e) \in G
  <2>1. <<e>> \in Seq(S) /\ Append(t, e) \in Seq(S)
    BY AppendProperties
  <2>2. Append(Singles(t), <<e>>) \in Seq(Seq(S))
    BY <1>2, <2>1, AppendProperties
  <2>3. Singles(Append(t, e)) = Append(Singles(t), <<e>>)
    BY <1>2, <2>1 DEF Singles
  <2>4. Chain(Append(Singles(t), <<e>>)) = t \o <<e>>
    BY <1>2, <2>1, ChainAppend, Zenon
  <2>5. QED
    BY <2>1, <2>2, <2>3, <2>4, AppendIsConcat, Zenon
<1>3. QED
  <2> HIDE DEF G
  <2>1. \A t \in Seq(S) : t \in G
    BY <1>1, <1>2, SeqInduction
  <2>2. QED
    BY <2>1 DEF G

LEMMA OneMember ==
  ASSUME NEW S, NEW w \in Seq(S), Len(w) = 1
  PROVE  w = <<w[1]>> /\ w[1] \in S
OBVIOUS

\* Where all members but the last have length one, the place of every member is known.
Chained(S, s, n, f) ==
    /\ f \in Seq(S) /\ Len(f) = n - 1 + Len(s[n])
    /\ \A i \in 1..(n - 1) : f[i] = s[i][1]
    /\ \A k \in 1..Len(s[n]) : f[n - 1 + k] = s[n][k]

LEMMA ChainTail ==
  ASSUME NEW S, NEW s \in Seq(Seq(S)), s # <<>>, \A i \in 1..(Len(s) - 1) : Len(s[i]) = 1,
         NEW n, n = Len(s), NEW f, f = Chain(s)
  PROVE  Chained(S, s, n, f)
<1>1. PICK u \in Seq(Seq(S)), e \in Seq(S) : s = Append(u, e)
  BY SequenceEmptyOrAppend, Zenon
<1>2. /\ Len(u) \in Nat /\ n = Len(u) + 1 /\ s[n] = e /\ \A i \in 1..(n - 1) : u[i] = s[i]
  BY <1>1, AppendProperties
<1> DEFINE t == [i \in 1..Len(u) |-> u[i][1]]
<1>3. \A i \in 1..Len(u) : u[i] \in Seq(S) /\ Len(u[i]) = 1 /\ u[i] = <<u[i][1]>> /\ u[i][1] \in S
  <2>1. ASSUME NEW i \in 1..Len(u)
        PROVE  u[i] \in Seq(S) /\ Len(u[i]) = 1
    <3>1. i \in 1..(n - 1) /\ i \in 1..(Len(s) - 1)
      BY <1>2
    <3>2. u[i] \in Seq(S)
      BY ElementOfSeq, Zenon
    <3>3. QED
      BY <1>2, <3>1, <3>2, Zenon
  <2>2. QED
    BY <2>1, OneMember, Zenon
<1>4. t \in Seq(S) /\ Len(t) = Len(u) /\ DOMAIN t = 1..Len(u)
  <2>1. t \in [1..Len(u) -> S]
    BY <1>3
  <2> HIDE DEF t
  <2>2. t \in Seq(S)
    BY <1>2, <2>1, SeqDef, ZenonT(40)
  <2>3. DOMAIN t = 1..Len(u) /\ Len(t) \in Nat /\ DOMAIN t = 1..Len(t)
    BY <2>1, <2>2, LenProperties
  <2>4. QED
    BY <1>2, <2>2, <2>3
<1>5. u = Singles(t)
  <2>1. DOMAIN u = 1..Len(u)
    BY LenProperties
  <2>2. QED
    BY <1>3, <1>4, <2>1 DEF Singles
<1>6. f = t \o e
  <2> HIDE DEF t
  <2>1. Chain(u) = t
    BY <1>4, <1>5, ChainSingles
  <2>2. QED
    BY <1>1, <2>1, ChainAppend, Zenon
<1>7. \A i \in 1..(n - 1) : t[i] = s[i][1]
  BY <1>2
<1> HIDE DEF t
<1>8. /\ f \in Seq(S) /\ Len(f) = Len(t) + Len(e) /\ Len(e) \in Nat
      /\ \A i \in 1..(Len(t) + Len(e)) : f[i] = IF i <= Len(t) THEN t[i] ELSE e[i - Len(t)]
  <2>1. Len(e) \in Nat
    BY LenProperties, Zenon
  <2>2. /\ t \o e \in Seq(S) /\ Len(t \o e) = Len(t) + Len(e)
        /\ \A i \in 1..(Len(t) + Len(e)) : (t \o e)[i] = IF i <= Len(t) THEN t[i] ELSE e[i - Len(t)]
    BY <1>4, ConcatProperties, ZenonT(40)
  <2>3. QED
    BY <1>6, <2>1, <2>2, Zenon
<1>9. ASSUME NEW k \in 1..Len(e)
      PROVE  f[n - 1 + k] = e[k]
  <2>1. n - 1 + k \in 1..(Len(t) + Len(e)) /\ ~(n - 1 + k <= Len(t)) /\ (n - 1 + k) - Len(t) = k
    BY <1>2, <1>4, <1>8
  <2>2. QED
    BY <1>8, <2>1, Zenon
<1>10. Len(f) = n - 1 + Len(e) /\ e = s[n]
  BY <1>2, <1>4, <1>8
<1>11. QED
  <2>1. \A k \in 1..Len(s[n]) : f[n - 1 + k] = s[n][k]
    BY <1>9, <1>10, Zenon
  <2>2. Len(f) = n - 1 + Len(s[n])
    BY <1>10, Zenon
  <2>3. \A i \in 1..(n - 1) : f[i] = s[i][1]
    <3> SUFFICES ASSUME NEW i \in 1..(n - 1)
                 PROVE  f[i] = s[i][1]
      OBVIOUS
    <3>1. i \in 1..(Len(t) + Len(e)) /\ i <= Len(t)
      BY <1>2, <1>4, <1>8
    <3>2. QED
      BY <1>7, <1>8, <3>1, Zenon
  <2>4. QED
    BY <1>8, <2>1, <2>2, <2>3, Zenon DEF Chained

(***************************************************************************)
(* Requests.                                                               *)
(***************************************************************************)
\* The names without a dot.
Undotted == {w \in DOMAIN Parts : Parts[w] = <<w>>}

\* What newHTTPClientBinding ensures.
PathSegment == [var : BOOLEAN, text : STRING, field : Seq(Undotted), multi : BOOLEAN]
Binding(b) ==
    /\ b.segments \in Seq(PathSegment)
    /\ \A i \in DOMAIN b.segments :
          b.segments[i].var /\ b.segments[i].multi => i = Len(b.segments)
    /\ b.body \in {"none", "all", "field"} /\ b.bodyField \in Seq(Undotted)
    /\ b.body = "all" => b.bodyField = <<>>

LEMMA PartsUndotted == \A w \in DOMAIN Parts : Parts[w] \in Seq(Undotted)
<1> SUFFICES ASSUME NEW w \in DOMAIN Parts
             PROVE  Parts[w] \in Seq(Undotted)
  OBVIOUS
<1>1. Parts[w] \in Seq(DOMAIN Parts) /\ \A i \in DOMAIN Parts[w] : Parts[Parts[w][i]] = <<Parts[w][i]>>
  BY BindingAssumption
<1> DEFINE p == Parts[w]
<1>2. Len(p) \in Nat /\ DOMAIN p = 1..Len(p) /\ p \in [1..Len(p) -> DOMAIN Parts]
  BY <1>1, LenProperties
<1>3. p \in [1..Len(p) -> Undotted]
  BY <1>1, <1>2 DEF Undotted
<1>4. QED
  BY <1>2, <1>3, SeqDef

LEMMA JSONPathUndotted ==
  ASSUME NEW desc, \A p \in DOMAIN desc : desc[p].json \in DOMAIN Parts,
         NEW path \in Seq(STRING), NEW r, r = protobufJSONFieldPath(desc, path), r.ok
  PROVE  r.path \in Seq(Undotted)
<1> DEFINE s == [i \in DOMAIN path |-> Parts[desc[SubSeq(path, 1, i)].json]]
<1>1. /\ \A i \in DOMAIN path : SubSeq(path, 1, i) \in DOMAIN desc
      /\ r.path = Chain(s)
  BY DEF protobufJSONFieldPath
<1>2. Len(path) \in Nat /\ DOMAIN path = 1..Len(path)
  BY LenProperties
<1>3. s \in [1..Len(path) -> Seq(Undotted)]
  BY <1>1, <1>2, PartsUndotted
<1>4. s \in Seq(Seq(Undotted))
  BY <1>2, <1>3, SeqDef
<1>5. QED
  BY <1>1, <1>4, ChainType

LEMMA NewBinding ==
  ASSUME NEW rule, NEW request, NEW response, Contract(rule, request),
         NEW b, b = newHTTPClientBinding(rule, request, response), b.ok
  PROVE  Binding(b)
<1> DEFINE t == parsePathTemplate(rule)
           body == Selected(request, rule.body, rule.bodyField)
           resp == Selected(response, rule.responseBody, rule.responseField)
           field(i) == protobufJSONFieldPath(request, t.segments[i].field)
           n == Len(rule.segs)
<1>1. /\ t.ok /\ body.ok /\ \A i \in DOMAIN t.segments : t.segments[i].var => field(i).ok
      /\ b.segments = [i \in DOMAIN t.segments |->
                          IF t.segments[i].var THEN [t.segments[i] EXCEPT !.field = field(i).path]
                          ELSE t.segments[i]]
      /\ b.body = rule.body /\ b.bodyField = body.path
  <2> HIDE DEF t, body, resp, field
  <2>1. ~(\/ ~t.ok \/ ~body.ok \/ ~resp.ok
          \/ \E i \in DOMAIN t.segments : t.segments[i].var /\ ~field(i).ok)
    BY DEF newHTTPClientBinding, t, body, resp, field
  <2>2. b = [ok |-> TRUE, connect |-> rule.connect,
             segments |-> [i \in DOMAIN t.segments |->
                             IF t.segments[i].var
                             THEN [t.segments[i] EXCEPT !.field = field(i).path]
                             ELSE t.segments[i]],
             slash |-> t.slash, body |-> rule.body, bodyField |-> body.path,
             responseBody |-> rule.responseBody, responseField |-> resp.path]
    BY <2>1, Zenon DEF newHTTPClientBinding, t, body, resp, field
  <2>3. QED
    BY <2>1, <2>2
<1>2. n \in Nat /\ DOMAIN rule.segs = 1..n /\ \A i \in 1..n :
        rule.segs[i] \in [var : BOOLEAN, text : STRING, field : Seq(STRING), wildcard : STRING]
  BY LenProperties, ElementOfSeq, Zenon DEF Contract
<1>3. /\ \A i \in 1..n : rule.segs[i].var /\ rule.segs[i].wildcard = "**" => i = n
      /\ DOMAIN t.segments = 1..n
      /\ \A i \in 1..n : t.segments[i] = [var |-> rule.segs[i].var, text |-> rule.segs[i].text,
                                         field |-> IF rule.segs[i].var THEN rule.segs[i].field ELSE <<>>,
                                         multi |-> rule.segs[i].wildcard = "**"]
  BY <1>1, <1>2, Zenon DEF parsePathTemplate
<1> HIDE DEF t, n
<1>4. ASSUME NEW i \in 1..n
      PROVE  /\ b.segments[i] \in PathSegment
             /\ b.segments[i].var /\ b.segments[i].multi => i = n
  <2> DEFINE raw == rule.segs[i]
             q == t.segments[i]
  <2>1. /\ raw \in [var : BOOLEAN, text : STRING, field : Seq(STRING), wildcard : STRING]
        /\ raw.var /\ raw.wildcard = "**" => i = n
        /\ q = [var |-> raw.var, text |-> raw.text, field |-> IF raw.var THEN raw.field ELSE <<>>,
                multi |-> raw.wildcard = "**"]
    BY <1>2, <1>3, Zenon DEF Contract
  <2> HIDE DEF raw
  <2>2. /\ q.var \in BOOLEAN /\ q.text \in STRING /\ q.field \in Seq(STRING) /\ q.multi \in BOOLEAN
        /\ ~q.var => q.field = <<>>
        /\ q.var /\ q.multi => i = n
        /\ q = [var |-> q.var, text |-> q.text, field |-> q.field, multi |-> q.multi]
    <3> HIDE DEF q
    <3>1. <<>> \in Seq(STRING)
      BY EmptySeq
    <3>2. QED
      BY <2>1, <3>1, Zenon
  <2>3. CASE q.var
    <3> DEFINE p == field(i).path
    <3>1. p \in Seq(Undotted)
      BY <1>1, <1>3, <2>2, <2>3, JSONPathUndotted, Zenon DEF Contract
    <3>2. b.segments[i] = [q EXCEPT !.field = p]
      BY <1>1, <1>3, <2>3
    <3> HIDE DEF q, p
    <3>3. b.segments[i] = [var |-> q.var, text |-> q.text, field |-> p, multi |-> q.multi]
      BY <2>2, <3>2
    <3>4. QED
      BY <2>2, <2>3, <3>1, <3>3 DEF PathSegment
  <2>4. CASE ~q.var
    <3>1. b.segments[i] = q
      BY <1>1, <1>3, <2>4
    <3> HIDE DEF q
    <3>2. b.segments[i] = [var |-> q.var, text |-> q.text, field |-> <<>>, multi |-> q.multi]
      BY <2>2, <2>4, <3>1
    <3>3. <<>> \in Seq(Undotted)
      BY EmptySeq
    <3>4. QED
      BY <2>2, <2>4, <3>2, <3>3 DEF PathSegment
  <2>5. QED
    BY <2>3, <2>4
<1>5. DOMAIN b.segments = 1..n /\ b.segments \in [1..n -> PathSegment]
  BY <1>1, <1>3, <1>4
<1>6. b.segments \in Seq(PathSegment) /\ Len(b.segments) = n
  BY <1>2, <1>5, SeqDef
<1>7. body.path \in Seq(Undotted) /\ (rule.body = "all" => body.path = <<>>)
  <2>1. CASE rule.body = "field"
    <3>1. body = protobufJSONFieldPath(request, rule.bodyField)
      BY <2>1 DEF Selected
    <3>2. /\ rule.bodyField \in Seq(STRING)
          /\ \A p \in DOMAIN request : request[p].json \in DOMAIN Parts
      BY DEF Contract
    <3> HIDE DEF body
    <3>3. QED
      BY <1>1, <2>1, <3>1, <3>2, JSONPathUndotted, Zenon
  <2>2. CASE rule.body # "field"
    BY <2>2 DEF Selected
  <2>3. QED
    BY <2>1, <2>2
<1>8. QED
  BY <1>1, <1>4, <1>5, <1>6, <1>7, Zenon DEF Binding, Contract

\* The key of a path in a query string.
Split(p) == [i \in DOMAIN p |-> Parts[p[i]]]

LEMMA SplitType ==
  ASSUME NEW p \in Seq(DOMAIN Parts)
  PROVE  Split(p) \in Seq(Seq(Undotted)) /\ Len(Split(p)) = Len(p)
<1>1. Len(p) \in Nat /\ DOMAIN p = 1..Len(p) /\ \A i \in 1..Len(p) : p[i] \in DOMAIN Parts
  BY LenProperties, ElementOfSeq
<1>2. Split(p) \in [1..Len(p) -> Seq(Undotted)]
  BY <1>1, PartsUndotted DEF Split
<1>3. QED
  BY <1>1, <1>2, SeqDef

LEMMA KeyOfUndotted ==
  ASSUME NEW p \in Seq(Undotted)
  PROVE  QueryKey(p) = p
<1>1. \A i \in DOMAIN p : Parts[p[i]] = <<p[i]>>
  BY DEF Undotted
<1>2. QueryKey(p) = Chain(Singles(p))
  BY <1>1, Zenon DEF QueryKey, Singles
<1>3. QED
  BY <1>2, ChainSingles

LEMMA KeyOfConcat ==
  ASSUME NEW p \in Seq(DOMAIN Parts), NEW q \in Seq(DOMAIN Parts)
  PROVE  QueryKey(p \o q) = QueryKey(p) \o QueryKey(q)
<1>1. p \o q \in Seq(DOMAIN Parts) /\ Len(p \o q) = Len(p) + Len(q)
  BY ConcatProperties
<1>2. /\ Split(p) \in Seq(Seq(Undotted)) /\ Len(Split(p)) = Len(p)
      /\ Split(q) \in Seq(Seq(Undotted)) /\ Len(Split(q)) = Len(q)
      /\ Split(p \o q) \in Seq(Seq(Undotted)) /\ Len(Split(p \o q)) = Len(p) + Len(q)
  BY <1>1, SplitType, Zenon
<1>3. Split(p) \o Split(q) \in Seq(Seq(Undotted)) /\ Len(Split(p) \o Split(q)) = Len(p) + Len(q)
  BY <1>2, ConcatProperties
<1>4. ASSUME NEW i \in 1..(Len(p) + Len(q))
      PROVE  Split(p \o q)[i] = (Split(p) \o Split(q))[i]
  <2>1. /\ Len(p) \in Nat /\ DOMAIN p = 1..Len(p) /\ Len(q) \in Nat /\ DOMAIN q = 1..Len(q)
        /\ DOMAIN (p \o q) = 1..(Len(p) + Len(q))
    BY <1>1, LenProperties
  <2>2. Split(p \o q)[i] = Parts[(p \o q)[i]]
    BY <2>1 DEF Split
  <2>3. (p \o q)[i] = IF i <= Len(p) THEN p[i] ELSE q[i - Len(p)]
    <3>1. Joined(p, q, p \o q)
      BY JoinedParts, Zenon
    <3>2. QED
      BY <3>1, Zenon DEF Joined
  <2>4. (Split(p) \o Split(q))[i] = IF i <= Len(p) THEN Split(p)[i] ELSE Split(q)[i - Len(p)]
    <3>1. Joined(Split(p), Split(q), Split(p) \o Split(q))
      BY <1>2, JoinedParts, Zenon
    <3>2. QED
      BY <1>2, <3>1, Zenon DEF Joined
  <2>5. CASE i <= Len(p)
    <3>1. i \in DOMAIN p
      BY <2>1, <2>5
    <3>2. Split(p)[i] = Parts[p[i]]
      BY <3>1 DEF Split
    <3>3. QED
      BY <2>2, <2>3, <2>4, <2>5, <3>2
  <2>6. CASE ~(i <= Len(p))
    <3>1. i - Len(p) \in DOMAIN q
      BY <2>1, <2>6
    <3>2. Split(q)[i - Len(p)] = Parts[q[i - Len(p)]]
      BY <3>1 DEF Split
    <3>3. QED
      BY <2>2, <2>3, <2>4, <2>6, <3>2
  <2>7. QED
    BY <2>5, <2>6, Zenon
<1>5. Split(p \o q) = Split(p) \o Split(q)
  BY <1>2, <1>3, <1>4, SeqEqual, Zenon
<1>6. QED
  BY <1>2, <1>5, ChainConcat, Zenon DEF QueryKey, Split

LEMMA PrefixSplits ==
  ASSUME NEW S, NEW p \in Seq(S), NEW u \in Seq(S), AtOrBelow(p, u),
         NEW q, q = SubSeq(u, Len(p) + 1, Len(u))
  PROVE  q \in Seq(S) /\ p \o q = u /\ (q = <<>> => u = p)
<1>1. Len(p) \in Nat /\ Len(u) \in Nat /\ Len(p) <= Len(u)
  BY DEF AtOrBelow
<1>2. SubSeq(u, 1, Len(p)) = p
  BY SubSeqFull DEF AtOrBelow
<1>3. SubSeq(u, 1, Len(p)) \o q = SubSeq(u, 1, Len(u))
  <2>1. 1 \in 1..(Len(u) + 1) /\ Len(p) \in (1 - 1)..Len(u) /\ Len(u) \in Len(p)..Len(u)
    BY <1>1
  <2>2. QED
    BY <2>1, ConcatAdjacentSubSeq, Zenon
<1>4. SubSeq(u, 1, Len(u)) = u
  BY SubSeqFull
<1>5. \A i \in (Len(p) + 1)..Len(u) : u[i] \in S
  BY <1>1, ElementOfSeq
<1>6. q \in Seq(S)
  BY <1>1, <1>5, SubSeqProperties
<1>7. p \o <<>> = p
  BY ConcatEmptySeq
<1>8. QED
  BY <1>2, <1>3, <1>4, <1>6, <1>7, Zenon

LEMMA PrefixSelf == \A S : \A p \in Seq(S) : AtOrBelow(p, p)
BY DEF AtOrBelow

\* The value below a path has the leaves of the object there.
SameLeaves(S, obj, p, v) ==
    /\ \A u \in Under(obj, p) : \E q \in DOMAIN v :
          q = SubSeq(u, Len(p) + 1, Len(u)) /\ q \in Seq(S) /\ p \o q = u /\ v[q] = obj[u]
    /\ \A q \in DOMAIN v : \E u \in Under(obj, p) :
          q = SubSeq(u, Len(p) + 1, Len(u)) /\ q \in Seq(S) /\ p \o q = u /\ v[q] = obj[u]

LEMMA BelowIs ==
  ASSUME NEW S, NEW obj, DOMAIN obj \subseteq Seq(S), NEW p \in Seq(S), NEW v, v = Below(obj, p)
  PROVE  SameLeaves(S, obj, p, v)
<1>1. DOMAIN v = {SubSeq(u, Len(p) + 1, Len(u)) : u \in Under(obj, p)}
  BY DEF Below
<1>2. \A q \in DOMAIN v : v[q] = obj[p \o q]
  BY DEF Below
<1>3. ASSUME NEW u \in Under(obj, p), NEW q, q = SubSeq(u, Len(p) + 1, Len(u))
      PROVE  q \in DOMAIN v /\ q \in Seq(S) /\ p \o q = u /\ v[q] = obj[u]
  <2>1. u \in Seq(S) /\ AtOrBelow(p, u)
    BY DEF Under
  <2>2. q \in Seq(S) /\ p \o q = u
    BY <1>3, <2>1, PrefixSplits
  <2>3. q \in DOMAIN v
    BY <1>1, <1>3
  <2>4. QED
    BY <1>2, <2>2, <2>3, Zenon
<1>4. QED
  BY <1>1, <1>3, ZenonT(40) DEF SameLeaves

\* A value without fields of its own is the leaf at its path.
HoldsLeaf(obj, p) == Under(obj, p) = {p} /\ Below(obj, p)[<<>>] = obj[p] /\ p \in DOMAIN obj

LEMMA LeafValue ==
  ASSUME NEW S, NEW obj, DOMAIN obj \subseteq Seq(S), NEW p \in Seq(S),
         DOMAIN Below(obj, p) = {<<>>}
  PROVE  HoldsLeaf(obj, p)
<1> DEFINE v == Below(obj, p)
<1>0. SameLeaves(S, obj, p, v)
  BY BelowIs
<1> HIDE DEF v
<1>1. PICK u \in Under(obj, p) : v[<<>>] = obj[u]
  BY <1>0, Zenon DEF SameLeaves, v
<1>2. ASSUME NEW w \in Under(obj, p)
      PROVE  w = p
  <2>1. <<>> = SubSeq(w, Len(p) + 1, Len(w))
    BY <1>0, Zenon DEF SameLeaves, v
  <2>2. w \in Seq(S) /\ AtOrBelow(p, w)
    BY DEF Under
  <2>3. QED
    BY <2>1, <2>2, PrefixSplits, Zenon
<1>3. QED
  BY <1>1, <1>2 DEF HoldsLeaf, Under, v

\* deleteNestedField takes out what is at or below the path, and adds at most an empty object.
Without(S, obj, p, new) ==
    /\ DOMAIN new \subseteq Seq(S)
    /\ Filled(new) = {q \in Filled(obj) : ~AtOrBelow(p, q)}
    /\ \A q \in Filled(new) : new[q] = obj[q]

LEMMA DeleteKeepsTheRest ==
  ASSUME NEW S, NEW obj, DOMAIN obj \subseteq Seq(S), NEW p \in Seq(S),
         NEW new, new = deleteNestedField(obj, p)
  PROVE  Without(S, obj, p, new)
<1> DEFINE rest == DOMAIN obj \ Under(obj, p)
           emptied == {u \in {Parent(p)} : /\ u # <<>>
                                          /\ rest # DOMAIN obj
                                          /\ \A q \in rest : ~AtOrBelow(u, q)}
<1>1. new = [q \in rest \cup emptied |-> IF q \in rest THEN obj[q] ELSE EmptyObject]
  BY DEF deleteNestedField
<1>2. Parent(p) \in Seq(S)
  <2>1. Len(p) \in Nat /\ Len(p) - 1 \in Int /\ \A i \in 1..(Len(p) - 1) : p[i] \in S
    BY ElementOfSeq
  <2>2. QED
    BY <2>1, SubSeqProperties DEF Parent
<1>3. emptied \subseteq {Parent(p)}
  OBVIOUS
<1> HIDE DEF emptied
<1>4. DOMAIN new = rest \cup emptied /\ DOMAIN new \subseteq Seq(S)
  BY <1>1, <1>2, <1>3
<1>5. rest = {q \in DOMAIN obj : ~AtOrBelow(p, q)}
  BY DEF Under
<1> HIDE DEF rest
<1>6. /\ \A q \in rest : new[q] = obj[q]
      /\ \A q \in emptied \ rest : new[q].kind = "empty"
  BY <1>1 DEF EmptyObject
<1>7. /\ Filled(new) = {q \in Filled(obj) : ~AtOrBelow(p, q)}
      /\ \A q \in Filled(new) : new[q] = obj[q]
  BY <1>4, <1>5, <1>6 DEF Filled
<1>8. QED
  BY <1>4, <1>7, Zenon DEF Without

\* What the fields of the first k segments leave of a message.
Left(b, args, k, f) ==
    f = [i \in 0..k |-> IF i = 0 THEN args
                        ELSE IF b.segments[i].var
                             THEN deleteNestedField(f[i - 1], b.segments[i].field)
                             ELSE f[i - 1]]
Keeps(b, args, k, obj) ==
    /\ DOMAIN obj \subseteq Seq(DOMAIN Parts)
    /\ Filled(obj) = {q \in Filled(args) :
                        \A i \in 1..k : b.segments[i].var => ~AtOrBelow(b.segments[i].field, q)}
    /\ \A q \in Filled(obj) : obj[q] = args[q]

LeftSteps(b, args, k, f) ==
    /\ f[0] = args
    /\ \A i \in 1..k : f[i] = IF b.segments[i].var
                             THEN deleteNestedField(f[i - 1], b.segments[i].field)
                             ELSE f[i - 1]

LEMMA LeftUpTo ==
  ASSUME NEW b, NEW args, NEW k \in Nat, NEW f, Left(b, args, k, f)
  PROVE  LeftSteps(b, args, k, f)
<1>1. \A i \in 0..k : f[i] = IF i = 0 THEN args
                             ELSE IF b.segments[i].var
                                  THEN deleteNestedField(f[i - 1], b.segments[i].field)
                                  ELSE f[i - 1]
  BY Zenon DEF Left
<1>2. QED
  BY <1>1 DEF LeftSteps

LEMMA LeftExists ==
  ASSUME NEW b, NEW args, NEW m \in Nat
  PROVE  \E f : Left(b, args, m, f)
<1> DEFINE Good == {k \in 0..m : \E f : Left(b, args, k, f)}
<1>1. 0 \in Good
  <2> DEFINE f == [i \in 0..0 |-> args]
  <2>1. Left(b, args, 0, f)
    BY DEF Left
  <2>2. QED
    BY <2>1
<1>2. ASSUME NEW k \in 0..(m - 1), k \in Good
      PROVE  k + 1 \in Good
  <2> DEFINE n == k + 1
  <2>1. k \in Nat /\ n \in 1..m /\ n - 1 = k /\ n \notin 0..k /\ 0..n = 0..k \cup {n} /\ n \in 0..m
    OBVIOUS
  <2>2. PICK f : Left(b, args, k, f)
    BY <1>2
  <2> DEFINE last == IF b.segments[n].var THEN deleteNestedField(f[k], b.segments[n].field)
                     ELSE f[k]
             g == [i \in 0..n |-> IF i = n THEN last ELSE f[i]]
  <2>3. g[n] = last /\ \A i \in 0..k : g[i] = f[i]
    BY <2>1
  <2>4. /\ f[0] = args
        /\ \A i \in 1..k : f[i] = IF b.segments[i].var
                                 THEN deleteNestedField(f[i - 1], b.segments[i].field)
                                 ELSE f[i - 1]
    <3>1. LeftSteps(b, args, k, f)
      BY <2>1, <2>2, LeftUpTo
    <3>2. QED
      BY <3>1, Zenon DEF LeftSteps
  <2>5. DOMAIN g = 0..n /\ g = [i \in 0..n |-> g[i]]
    OBVIOUS
  <2> HIDE DEF g, n
  <2>6. ASSUME NEW i \in 0..n
        PROVE  g[i] = IF i = 0 THEN args
                      ELSE IF b.segments[i].var
                           THEN deleteNestedField(g[i - 1], b.segments[i].field)
                           ELSE g[i - 1]
    <3>1. CASE i = n
      <4>1. i # 0 /\ g[i - 1] = f[k]
        BY <2>1, <2>3, <3>1
      <4>2. QED
        BY <2>3, <3>1, <4>1
    <3>2. CASE i \in 1..k
      <4>1. i # 0 /\ g[i] = f[i] /\ g[i - 1] = f[i - 1]
        BY <2>1, <2>3, <3>2
      <4>2. QED
        BY <2>4, <3>2, <4>1
    <3>3. CASE i = 0
      BY <2>1, <2>3, <2>4, <3>3
    <3>4. QED
      BY <2>1, <3>1, <3>2, <3>3
  <2>7. Left(b, args, n, g)
    BY <2>5, <2>6 DEF Left
  <2>8. QED
    BY <2>1, <2>7 DEF n
<1>3. m \in Good
  <2> HIDE DEF Good
  <2>1. 0..m \subseteq Good
    BY <1>1, <1>2, Induction
  <2>2. QED
    BY <2>1
<1>4. QED
  BY <1>3

LEMMA RemainingKeeps ==
  ASSUME NEW b, Binding(b), NEW args, DOMAIN args \subseteq Seq(DOMAIN Parts)
  PROVE  Keeps(b, args, Len(b.segments), Remaining(b, args))
<1> DEFINE n == Len(b.segments)
           f == CHOOSE f : Left(b, args, n, f)
<1>1. /\ n \in Nat
      /\ \A i \in 1..n : b.segments[i].var \in BOOLEAN /\ b.segments[i].field \in Seq(DOMAIN Parts)
  <2>1. n \in Nat /\ \A i \in 1..n : b.segments[i] \in PathSegment
    BY LenProperties, ElementOfSeq DEF Binding
  <2>2. Undotted \subseteq DOMAIN Parts
    BY DEF Undotted
  <2>3. \A i \in 1..n : b.segments[i].field \in Seq(Undotted)
    BY <2>1 DEF PathSegment
  <2>4. QED
    BY <2>1, <2>2, <2>3, SeqMonotonic DEF PathSegment
<1>2. Left(b, args, n, f)
  BY <1>1, LeftExists, Zenon
<1>3. Remaining(b, args) = f[n]
  BY DEF Remaining, Left
<1> HIDE DEF f, n
<1>8. LeftSteps(b, args, n, f)
  BY <1>1, <1>2, LeftUpTo
<1> DEFINE Good == {k \in 0..n : Keeps(b, args, k, f[k])}
<1>4. 0 \in Good
  <2>1. f[0] = args
    BY <1>8 DEF LeftSteps
  <2>2. Keeps(b, args, 0, args)
    BY DEF Keeps
  <2>3. QED
    BY <1>1, <2>1, <2>2
<1>5. ASSUME NEW k \in 0..(n - 1), k \in Good
      PROVE  k + 1 \in Good
  <2> DEFINE i == k + 1
  <2>1. i \in 1..n /\ i \in 0..n /\ i - 1 = k /\ 1..i = 1..k \cup {i}
    BY <1>1
  <2>2. Keeps(b, args, k, f[k])
    BY <1>5
  <2> HIDE DEF i
  <2>3. f[i] = IF b.segments[i].var THEN deleteNestedField(f[k], b.segments[i].field) ELSE f[k]
    <3>1. f[i] = IF b.segments[i].var THEN deleteNestedField(f[i - 1], b.segments[i].field)
                 ELSE f[i - 1]
      BY <1>8, <2>1, Zenon DEF LeftSteps
    <3>2. QED
      BY <2>1, <3>1
  <2>4. CASE b.segments[i].var
    <3>1. /\ DOMAIN f[i] \subseteq Seq(DOMAIN Parts)
          /\ Filled(f[i]) = {q \in Filled(f[k]) : ~AtOrBelow(b.segments[i].field, q)}
          /\ \A q \in Filled(f[i]) : f[i][q] = f[k][q]
      <4>1. DOMAIN f[k] \subseteq Seq(DOMAIN Parts) /\ b.segments[i].field \in Seq(DOMAIN Parts)
        BY <1>1, <2>1, <2>2, <2>4 DEF Keeps
      <4>2. f[i] = deleteNestedField(f[k], b.segments[i].field)
        BY <2>3, <2>4
      <4>3. Without(DOMAIN Parts, f[k], b.segments[i].field, f[i])
        BY <4>1, <4>2, DeleteKeepsTheRest, Zenon
      <4>4. QED
        BY <4>3, Zenon DEF Without
    <3>2. Keeps(b, args, i, f[i])
      BY <2>1, <2>2, <2>4, <3>1 DEF Keeps
    <3>3. QED
      BY <2>1, <3>2 DEF i
  <2>5. CASE ~b.segments[i].var
    <3>1. Keeps(b, args, i, f[i])
      BY <2>1, <2>2, <2>3, <2>5 DEF Keeps
    <3>2. QED
      BY <2>1, <3>1 DEF i
  <2>6. QED
    BY <2>4, <2>5
<1>6. n \in Good
  <2> HIDE DEF Good
  <2>1. 0..n \subseteq Good
    BY <1>1, <1>4, <1>5, Induction, Zenon
  <2>2. QED
    BY <1>1, <2>1
<1>7. QED
  BY <1>3, <1>6 DEF n

LEMMA EscapeKeepsText ==
  ASSUME NEW t \in Seq(STRING)
  PROVE  PathEscape(t) \in WireSegment /\ PathEscape(t).text = t
BY DEF PathEscape, WireSegment

LEMMA LiteralSegment ==
  ASSUME NEW w \in STRING
  PROVE  Literal(w) \in WireSegment
<1>1. \A S : \A v \in S : <<v>> \in Seq(S)
  OBVIOUS
<1>2. QED
  BY <1>1 DEF Literal, WireSegment

LEMMA URLKeepsTexts ==
  ASSUME NEW segs \in Seq(WireSegment), NEW u, u = URLString(segs)
  PROVE  /\ u \in Seq(WireSegment) /\ Len(u) = Len(segs)
         /\ \A k \in 1..Len(segs) : u[k].text = segs[k].text
<1>1. Len(segs) \in Nat /\ DOMAIN segs = 1..Len(segs) /\ \A k \in 1..Len(segs) : segs[k] \in WireSegment
  BY LenProperties, ElementOfSeq
<1>2. /\ DOMAIN u = 1..Len(segs)
      /\ u = [k \in 1..Len(segs) |->
                IF NeedsEscape(segs[k].text) THEN [segs[k] EXCEPT !.escapes = @ + 1] ELSE segs[k]]
  BY <1>1 DEF URLString
<1>3. ASSUME NEW k \in 1..Len(segs)
      PROVE  u[k] \in WireSegment /\ u[k].text = segs[k].text
  <2>1. segs[k].text \in Seq(STRING) /\ segs[k].escapes \in Nat
    BY <1>1 DEF WireSegment
  <2>2. u[k] = [text |-> segs[k].text,
                escapes |-> IF NeedsEscape(segs[k].text) THEN segs[k].escapes + 1 ELSE segs[k].escapes]
    BY <1>1, <1>2 DEF WireSegment
  <2>3. QED
    BY <2>1, <2>2 DEF WireSegment
<1>4. u \in [1..Len(segs) -> WireSegment]
  BY <1>2, <1>3
<1>5. QED
  BY <1>1, <1>2, <1>3, <1>4, SeqDef

Vars(b) == {i \in DOMAIN b.segments : b.segments[i].var}
IsLeaf(args, p) == p \in DOMAIN args /\ Under(args, p) = {p} /\ args[p].kind = "scalar"

\* One piece of the path per segment.
LEMMA Pieces ==
  ASSUME NEW t \in Seq(STRING), NEW multi \in BOOLEAN, NEW e, e = encodePathValue(t, multi)
  PROVE  /\ e \in Seq(WireSegment)
         /\ ~multi => Len(e) = 1 /\ e[1].text = t
         /\ multi => Len(e) = Len(t) /\ \A k \in 1..Len(e) : e[k].text = <<t[k]>>
<1>1. CASE ~multi
  <2>1. e = <<PathEscape(t)>>
    BY <1>1 DEF encodePathValue
  <2>2. QED
    BY <1>1, <2>1, EscapeKeepsText
<1>2. CASE multi
  <2>1. Len(t) \in Nat /\ DOMAIN t = 1..Len(t) /\ \A k \in 1..Len(t) : <<t[k]>> \in Seq(STRING)
    BY LenProperties, ElementOfSeq
  <2>2. DOMAIN e = 1..Len(t) /\ e = [k \in 1..Len(t) |-> PathEscape(<<t[k]>>)]
    BY <1>2, <2>1 DEF encodePathValue
  <2>3. \A k \in 1..Len(t) : e[k] \in WireSegment /\ e[k].text = <<t[k]>>
    BY <2>1, <2>2, EscapeKeepsText, Zenon
  <2>4. e \in [1..Len(t) -> WireSegment]
    BY <2>2, <2>3
  <2>5. e \in Seq(WireSegment) /\ Len(e) = Len(t)
    BY <2>1, <2>2, <2>4, SeqDef
  <2>6. QED
    BY <1>2, <2>3, <2>5, Zenon
<1>3. QED
  BY <1>1, <1>2

\* The variables of the path are scalar leaves, and each can be read back.
Expanded(b, args, segs, u) ==
    /\ segs \in Seq(WireSegment)
    /\ \A i \in Vars(b) : /\ IsLeaf(args, b.segments[i].field)
                         /\ args[b.segments[i].field].texts = <<PathText(b, u, i)>>

LEMMA ExpandedPath ==
  ASSUME NEW b, Binding(b), NEW args, Message(args), NEW r, r = expandPath(b, args), r.ok,
         NEW u, Len(u) = Len(r.segs), \A k \in 1..Len(r.segs) : u[k].text = r.segs[k].text
  PROVE  Expanded(b, args, r.segs, u)
<1> DEFINE n == Len(b.segments)
           value(i) == getNestedField(args, b.segments[i].field)
           text(i) == args[b.segments[i].field].texts[1]
           piece(i) == IF i \in Vars(b)
                       THEN encodePathValue(value(i).value[<<>>].texts[1], b.segments[i].multi)
                       ELSE <<Literal(b.segments[i].text)>>
           pieces == [i \in DOMAIN b.segments |-> piece(i)]
<1>1. /\ \A i \in Vars(b) : DOMAIN value(i).value = {<<>>} /\ value(i).value[<<>>].kind = "scalar"
      /\ r.segs = Chain(pieces)
  <2> HIDE DEF value
  <2>1. QED
    BY Zenon DEF expandPath, Vars, value
<1>2. /\ n \in Nat /\ DOMAIN b.segments = 1..n
      /\ \A i \in 1..n : b.segments[i] \in PathSegment
  BY LenProperties, ElementOfSeq DEF Binding
<1> HIDE DEF n
<1>3. ASSUME NEW i \in Vars(b)
      PROVE  /\ IsLeaf(args, b.segments[i].field) /\ value(i).value[<<>>].texts[1] = text(i)
             /\ text(i) \in Seq(STRING) /\ args[b.segments[i].field].texts = <<text(i)>>
             /\ b.segments[i].multi \in BOOLEAN
  <2> DEFINE p == b.segments[i].field
  <2>1. i \in 1..n /\ b.segments[i].multi \in BOOLEAN /\ p \in Seq(Undotted)
    BY <1>2 DEF Vars, PathSegment
  <2>2. Undotted \subseteq DOMAIN Parts
    BY DEF Undotted
  <2>3. p \in Seq(DOMAIN Parts)
    BY <2>1, <2>2, SeqMonotonic
  <2>4. value(i).value = Below(args, p)
    BY DEF getNestedField
  <2> HIDE DEF value, p
  <2>5. /\ Under(args, p) = {p} /\ value(i).value[<<>>] = args[p] /\ p \in DOMAIN args
    <3>1. DOMAIN args \subseteq Seq(DOMAIN Parts) /\ DOMAIN Below(args, p) = {<<>>}
      BY <1>1, <2>4, Zenon DEF Message
    <3>2. HoldsLeaf(args, p)
      BY <2>3, <3>1, LeafValue
    <3>3. QED
      BY <2>4, <3>2, Zenon DEF HoldsLeaf
  <2>6. args[p].kind = "scalar"
    BY <1>1, <2>5
  <2>7. PICK t \in Seq(STRING) : args[p].texts = <<t>>
    <3>1. args[p].texts \in Seq(Seq(STRING)) /\ Len(args[p].texts) = 1
      BY <2>5, <2>6, Zenon DEF Message
    <3>2. args[p].texts = <<args[p].texts[1]>> /\ args[p].texts[1] \in Seq(STRING)
      BY <3>1
    <3>3. QED
      BY <3>2, Zenon
  <2>8. QED
    BY <2>1, <2>5, <2>6, <2>7 DEF IsLeaf, p
<1> HIDE DEF value
<1>4. ASSUME NEW i \in 1..n
      PROVE  /\ piece(i) \in Seq(WireSegment)
             /\ i < n => Len(piece(i)) = 1
             /\ i \in Vars(b) /\ ~b.segments[i].multi => Len(piece(i)) = 1 /\ piece(i)[1].text = text(i)
             /\ i \in Vars(b) /\ b.segments[i].multi =>
                   /\ i = n /\ Len(piece(i)) = Len(text(i))
                   /\ \A k \in 1..Len(piece(i)) : piece(i)[k].text = <<text(i)[k]>>
  <2>1. CASE i \in Vars(b)
    <3>1. piece(i) = encodePathValue(text(i), b.segments[i].multi)
      BY <1>3, <2>1
    <3>2. b.segments[i].multi => i = n
      BY <1>2, <2>1 DEF Binding, Vars, n
    <3>3. text(i) \in Seq(STRING) /\ b.segments[i].multi \in BOOLEAN
      BY <1>3, <2>1
    <3> HIDE DEF piece, text
    <3>4. QED
      BY <1>2, <2>1, <3>1, <3>2, <3>3, Pieces, SMTT(30)
  <2>2. CASE i \notin Vars(b)
    <3>1. b.segments[i].text \in STRING
      BY <1>2 DEF PathSegment
    <3>2. piece(i) = <<Literal(b.segments[i].text)>>
      BY <2>2
    <3>3. Literal(b.segments[i].text) \in WireSegment
      BY <3>1, LiteralSegment, Zenon
    <3> HIDE DEF piece
    <3>4. piece(i) \in Seq(WireSegment) /\ Len(piece(i)) = 1
      BY <3>2, <3>3
    <3>5. QED
      BY <2>2, <3>4
  <2>3. QED
    BY <2>1, <2>2, Zenon
<1> HIDE DEF piece, text
<1>5. pieces \in Seq(Seq(WireSegment)) /\ Len(pieces) = n /\ \A i \in 1..n : pieces[i] = piece(i)
  <2>1. pieces \in [1..n -> Seq(WireSegment)]
    BY <1>2, <1>4
  <2>2. QED
    BY <1>2, <2>1, SeqDef
<1> HIDE DEF pieces
<1>6. CASE n = 0
  <2>1. pieces = <<>> /\ Vars(b) = {}
    BY <1>2, <1>5, <1>6 DEF Vars
  <2>2. r.segs = <<>>
    BY <1>1, <2>1, ChainEmpty
  <2>3. QED
    BY <2>1, <2>2 DEF Expanded
<1>7. CASE n > 0
  <2> DEFINE segs == r.segs
             len == Len(segs)
             last == Len(piece(n))
  <2>1. /\ segs \in Seq(WireSegment) /\ len = n - 1 + last
        /\ \A i \in 1..(n - 1) : segs[i] = piece(i)[1]
        /\ \A k \in 1..last : segs[n - 1 + k] = piece(n)[k]
    <3>1. pieces # <<>> /\ \A i \in 1..(Len(pieces) - 1) : Len(pieces[i]) = 1
      BY <1>2, <1>4, <1>5, <1>7
    <3>2. n \in 1..n /\ 1..(n - 1) \subseteq 1..n
      BY <1>2, <1>7
    <3> HIDE DEF segs
    <3>3. Chained(WireSegment, pieces, n, segs)
      BY <1>1, <1>5, <3>1, ChainTail, Zenon DEF segs
    <3>4. QED
      BY <1>5, <3>2, <3>3, Zenon DEF Chained
  <2>2. n \in 1..n /\ last \in Nat
    BY <1>2, <1>4, <1>7, LenProperties
  <2>u. Len(u) = len /\ \A k \in 1..len : u[k].text = segs[k].text
    OBVIOUS
  <2> HIDE DEF segs, len, last
  <2>3. ASSUME NEW i \in Vars(b)
        PROVE  PathText(b, u, i) = text(i)
    <3>1. i \in 1..n /\ text(i) \in Seq(STRING) /\ b.segments[i].multi \in BOOLEAN
      BY <1>2, <1>3 DEF Vars
    <3>2. CASE ~b.segments[i].multi
      <4>1. Len(piece(i)) = 1 /\ piece(i)[1].text = text(i)
        BY <1>4, <3>1, <3>2, Zenon
      <4>2. i \in 1..len /\ segs[i] = piece(i)[1]
        <5>1. CASE i < n
          <6>1. i \in 1..(n - 1) /\ i \in 1..len
            BY <1>2, <2>1, <2>2, <3>1, <5>1
          <6>2. QED
            BY <2>1, <6>1
        <5>2. CASE i = n
          <6>1. last = 1
            BY <4>1, <5>2 DEF last
          <6>2. 1 \in 1..last /\ n - 1 + 1 = n /\ n \in 1..len
            BY <1>2, <2>1, <2>2, <6>1
          <6>3. QED
            BY <2>1, <5>2, <6>2
        <5>3. QED
          BY <1>2, <3>1, <5>1, <5>2
      <4>3. u[i].text = text(i)
        BY <2>u, <4>1, <4>2, Zenon
      <4>4. QED
        BY <3>2, <4>3, Zenon DEF PathText
    <3>3. CASE b.segments[i].multi
      <4> DEFINE width == Len(text(i))
      <4>1. /\ i = n /\ last = width
            /\ \A k \in 1..last : piece(n)[k].text = <<text(i)[k]>>
        BY <1>4, <3>1, <3>3, Zenon DEF last
      <4>2. DOMAIN text(i) = 1..width /\ width \in Nat
        BY <3>1, LenProperties
      <4> HIDE DEF width
      <4>3. Len(u) - i + 1 = width
        BY <1>2, <2>1, <2>u, <4>1, <4>2
      <4>4. ASSUME NEW k \in 1..width
            PROVE  u[i + k - 1].text = <<text(i)[k]>>
        <5>1. i + k - 1 = n - 1 + k /\ i + k - 1 \in 1..len /\ k \in 1..last
          BY <1>2, <1>7, <2>1, <4>1, <4>2
        <5>2. segs[i + k - 1] = piece(n)[k]
          BY <2>1, <5>1
        <5>3. QED
          BY <2>u, <4>1, <5>1, <5>2, Zenon
      <4>5. [k \in 1..(Len(u) - i + 1) |-> u[i + k - 1].text] = Singles(text(i))
        BY <4>2, <4>3, <4>4, Zenon DEF Singles
      <4>6. PathText(b, u, i) = Chain(Singles(text(i)))
        BY <3>3, <4>5, Zenon DEF PathText
      <4>7. QED
        BY <3>1, <4>6, ChainSingles
    <3>4. QED
      BY <3>1, <3>2, <3>3
  <2>4. QED
    BY <1>3, <2>1, <2>3, Zenon DEF Expanded, segs, len
<1>8. n = 0 \/ n > 0
  BY <1>2
<1>9. QED
  BY <1>6, <1>7, <1>8, Zenon

\* The entries of some leaves of a message.
Entries(obj, U) == {Entry(QueryKey(p), obj[p].texts) : p \in U}
InBody(b, q) == b.body = "all" \/ (b.body = "field" /\ AtOrBelow(b.bodyField, q))

\* The body holds what the rule selects for it, under the keys of the message.
LEMMA BodyHolds ==
  ASSUME NEW b, Binding(b), NEW rest, DOMAIN rest \subseteq Seq(DOMAIN Parts)
  PROVE  FromBody(b, encodeBody(b, rest)) = Entries(rest, {q \in Filled(rest) : InBody(b, q)})
<1> DEFINE p == b.bodyField
           body == encodeBody(b, rest)
           v == Below(rest, p)
<1>1. p \in Seq(Undotted) /\ p \in Seq(DOMAIN Parts)
  <2>1. Undotted \subseteq DOMAIN Parts
    BY DEF Undotted
  <2>2. QED
    BY <2>1, SeqMonotonic DEF Binding
<1>2. CASE b.body = "none"
  BY <1>2 DEF encodeBody, FromBody, Entries, InBody
<1>3. CASE b.body = "all"
  <2>1. body.value = rest /\ (body.sent \/ DOMAIN rest = {}) /\ p = <<>>
    BY <1>3, Zenon DEF encodeBody, Binding
  <2>2. \A q \in DOMAIN rest : p \o QueryKey(q) = QueryKey(q)
    <3>1. \A q \in DOMAIN rest : QueryKey(q) \in Seq(Undotted)
      BY SplitType, ChainType DEF QueryKey, Split
    <3>2. QED
      BY <2>1, <3>1, ConcatEmptySeq
  <2> HIDE DEF body
  <2>3. \A q \in Filled(rest) : q \in DOMAIN rest
    BY DEF Filled
  <2>4. FromBody(b, body) = {Entry(p \o QueryKey(q), rest[q].texts) : q \in Filled(rest)}
    BY <2>1, <2>3 DEF FromBody
  <2>5. FromBody(b, body) = Entries(rest, Filled(rest))
    BY <2>2, <2>3, <2>4, Zenon DEF Entries
  <2>6. {q \in Filled(rest) : InBody(b, q)} = Filled(rest)
    BY <1>3 DEF InBody
  <2>7. QED
    BY <2>5, <2>6, Zenon DEF body
<1>4. CASE b.body = "field"
  <2>1. body.value = v /\ body.sent = (Under(rest, p) # {})
    BY <1>4 DEF encodeBody, getNestedField
  <2>0. SameLeaves(DOMAIN Parts, rest, p, v)
    BY <1>1, BelowIs
  <2>2. \A u \in Under(rest, p) : \E q \in DOMAIN v :
          q \in Seq(DOMAIN Parts) /\ p \o q = u /\ v[q] = rest[u]
    BY <2>0, Zenon DEF SameLeaves
  <2>3. \A q \in DOMAIN v : \E u \in Under(rest, p) :
          q \in Seq(DOMAIN Parts) /\ p \o q = u /\ v[q] = rest[u]
    BY <2>0, Zenon DEF SameLeaves
  <2>4. \A q \in Seq(DOMAIN Parts) : QueryKey(p \o q) = p \o QueryKey(q)
    BY <1>1, KeyOfConcat, KeyOfUndotted, Zenon
  <2>5. {q \in Filled(rest) : InBody(b, q)} = {u \in Under(rest, p) : rest[u].kind \notin {"empty", "null"}}
    BY <1>4 DEF InBody, Filled, Under
  <2> HIDE DEF body, v
  <2>6. FromBody(b, body) = {Entry(p \o QueryKey(q), v[q].texts) : q \in Filled(v)}
    <3>1. CASE body.sent
      BY <2>1, <3>1 DEF FromBody
    <3>2. CASE ~body.sent
      <4>1. DOMAIN v = {}
        BY <2>1, <2>3, <3>2, Zenon
      <4>2. QED
        BY <3>2, <4>1 DEF FromBody, Filled
    <3>3. QED
      BY <3>1, <3>2
  <2>7. ASSUME NEW q \in Filled(v)
        PROVE  \E u \in Under(rest, p) : /\ rest[u].kind \notin {"empty", "null"}
                                        /\ Entry(p \o QueryKey(q), v[q].texts) = Entry(QueryKey(u), rest[u].texts)
    <3>1. q \in DOMAIN v /\ v[q].kind \notin {"empty", "null"}
      BY DEF Filled
    <3>2. PICK u \in Under(rest, p) : q \in Seq(DOMAIN Parts) /\ p \o q = u /\ v[q] = rest[u]
      BY <2>3, <3>1
    <3>3. QED
      BY <2>4, <3>1, <3>2, Zenon
  <2>8. ASSUME NEW u \in Under(rest, p), rest[u].kind \notin {"empty", "null"}
        PROVE  \E q \in Filled(v) : Entry(p \o QueryKey(q), v[q].texts) = Entry(QueryKey(u), rest[u].texts)
    <3>1. PICK q \in DOMAIN v : q \in Seq(DOMAIN Parts) /\ p \o q = u /\ v[q] = rest[u]
      BY <2>2
    <3>2. q \in Filled(v)
      BY <2>8, <3>1 DEF Filled
    <3>3. QED
      BY <2>4, <3>1, <3>2, Zenon
  <2>9. {Entry(p \o QueryKey(q), v[q].texts) : q \in Filled(v)}
          = Entries(rest, {u \in Under(rest, p) : rest[u].kind \notin {"empty", "null"}})
    <3> DEFINE in(q) == Entry(p \o QueryKey(q), v[q].texts)
               out(u) == Entry(QueryKey(u), rest[u].texts)
               U == {u \in Under(rest, p) : rest[u].kind \notin {"empty", "null"}}
    <3>1. \A q \in Filled(v) : \E u \in U : in(q) = out(u)
      BY <2>7, Zenon
    <3>2. \A u \in U : \E q \in Filled(v) : in(q) = out(u)
      BY <2>8, Zenon
    <3> HIDE DEF in, out, U
    <3>3. {in(q) : q \in Filled(v)} = {out(u) : u \in U}
      BY <3>1, <3>2
    <3>4. QED
      BY <3>3, Zenon DEF Entries, in, out, U
  <2>10. QED
    BY <2>5, <2>6, <2>9 DEF body
<1>5. QED
  BY <1>2, <1>3, <1>4 DEF Binding

\* The query string holds the rest.
LEMMA QueryHolds ==
  ASSUME NEW b, Binding(b), NEW rest, DOMAIN rest \subseteq Seq(DOMAIN Parts), NEW r,
         r = encodeQueryFields(IF b.body = "all" THEN NoFields
                               ELSE IF b.body = "field" THEN deleteNestedField(rest, b.bodyField)
                               ELSE rest),
         r.ok
  PROVE  r.query = Entries(rest, {q \in Filled(rest) : ~InBody(b, q)})
<1>1. \A obj : encodeQueryFields(obj).ok => encodeQueryFields(obj).query = Entries(obj, Filled(obj))
  BY DEF encodeQueryFields, Entries, Entry, Filled
<1>2. CASE b.body = "all"
  <2>1. Filled(NoFields) = {}
    BY DEF Filled, NoFields
  <2>2. {q \in Filled(rest) : ~InBody(b, q)} = {}
    BY <1>2 DEF InBody
  <2>3. r.query = Entries(NoFields, {})
    BY <1>1, <1>2, <2>1, Zenon
  <2>4. QED
    BY <2>2, <2>3 DEF Entries
<1>3. CASE b.body = "field"
  <2> DEFINE new == deleteNestedField(rest, b.bodyField)
  <2>1. b.bodyField \in Seq(DOMAIN Parts)
    <3>1. Undotted \subseteq DOMAIN Parts
      BY DEF Undotted
    <3>2. QED
      BY <3>1, SeqMonotonic DEF Binding
  <2>2. /\ Filled(new) = {q \in Filled(rest) : ~AtOrBelow(b.bodyField, q)}
        /\ \A q \in Filled(new) : new[q] = rest[q]
    <3>1. Without(DOMAIN Parts, rest, b.bodyField, new)
      BY <2>1, DeleteKeepsTheRest, Zenon
    <3>2. QED
      BY <3>1, Zenon DEF Without
  <2>3. r.query = Entries(new, Filled(new))
    BY <1>1, <1>3
  <2> HIDE DEF new
  <2>4. Entries(new, Filled(new)) = Entries(rest, Filled(new))
    BY <2>2, Zenon DEF Entries
  <2>5. Filled(new) = {q \in Filled(rest) : ~InBody(b, q)}
    BY <1>3, <2>2 DEF InBody
  <2>6. QED
    BY <2>3, <2>4, <2>5
<1>4. CASE b.body = "none"
  <2>1. {q \in Filled(rest) : ~InBody(b, q)} = Filled(rest)
    BY <1>4 DEF InBody
  <2>2. QED
    BY <1>1, <1>4, <2>1, Zenon
<1>5. QED
  BY <1>2, <1>3, <1>4 DEF Binding

LEMMA AfterBase ==
  ASSUME NEW S, NEW base \in Seq(S), NEW u \in Seq(S), NEW s, s = base \o u
  PROVE  SubSeq(s, Len(base) + 1, Len(s)) = u
<1> DEFINE a == Len(base)
           n == Len(u)
<1>1. Joined(base, u, s)
  BY JoinedParts, Zenon
<1>2. a \in Nat /\ n \in Nat /\ Len(s) = a + n
  BY <1>1, Zenon DEF Joined
<1>3. SubSeq(u, 1, n) = u
  BY SubSeqFull, Zenon
<1> HIDE DEF a, n
<1>4. CASE n > 0
  <2>1. /\ a + 1 \in (a + 1)..(a + n) /\ a + n \in (a + 1)..(a + n)
        /\ (a + 1) - a = 1 /\ (a + n) - a = n
    BY <1>2, <1>4
  <2>2. SubSeq(base \o u, a + 1, a + n) = SubSeq(u, (a + 1) - a, (a + n) - a)
    BY <2>1, SubSeqOfConcat2, ZenonT(40) DEF a, n
  <2>3. QED
    BY <1>2, <1>3, <2>1, <2>2, Zenon DEF a
<1>5. CASE n = 0
  <2>1. u = <<>>
    BY <1>5, EmptySeq, Zenon DEF n
  <2>2. a + 1 \in Int /\ a + n \in Int /\ a + 1 > a + n
    BY <1>2, <1>5
  <2>3. SubSeq(s, a + 1, a + n) = <<>>
    BY <2>2, SubSeqEmpty
  <2>4. QED
    BY <1>2, <2>1, <2>3, Zenon DEF a
<1>6. QED
  BY <1>2, <1>4, <1>5

\* Distinct leaves have distinct keys, so separate leaves have separate keys.
LEMMA SeparateKeys ==
  ASSUME NEW args, NEW U, NEW W, U \subseteq Filled(args), W \subseteq Filled(args), U \cap W = {},
         \A p, q \in Filled(args) : QueryKey(p) = QueryKey(q) => p = q
  PROVE  Keys(Entries(args, U)) \cap Keys(Entries(args, W)) = {}
<1>1. \A V : Keys(Entries(args, V)) = {QueryKey(p) : p \in V}
  <2>1. \A p : Entry(QueryKey(p), args[p].texts).key = QueryKey(p)
    BY DEF Entry
  <2>2. QED
    BY <2>1 DEF Keys, Entries
<1>2. QED
  BY <1>1

\* Whatever the binding and the message, the request that build makes of a call carries the
\* whole message: every field of it is in the path, in the body or in the query string, in
\* one of them only and with its value.
LEMMA RequestCarries ==
  ASSUME NEW b, Binding(b), NEW args, Message(args), NEW base \in Seq(WireSegment),
         build(b, args, base).ok
  PROVE  CarriesMessage(b, args, base, build(b, args, base))
<1>1. Binding(b) /\ \A p, q \in Filled(args) : QueryKey(p) = QueryKey(q) => p = q
  BY Zenon DEF Message
<1> DEFINE r == build(b, args, base)
           path == expandPath(b, args)
           rest == Remaining(b, args)
           left == IF b.body = "field" THEN deleteNestedField(rest, b.bodyField) ELSE rest
           query == encodeQueryFields(IF b.body = "all" THEN NoFields ELSE left)
           u == URLString(path.segs)
           F == Filled(args)
           P == {b.segments[i].field : i \in Vars(b)}
           B == {q \in F \ P : InBody(b, q)}
           Q == {q \in F \ P : ~InBody(b, q)}
<1>2. /\ path.ok /\ query.ok
      /\ r.segs = base \o u /\ r.body = encodeBody(b, rest) /\ r.query = query.query
  <2> HIDE DEF path, rest, left, query, u
  <2>1. path.ok /\ query.ok
    BY Zenon DEF build, path, rest, left, query
  <2>2. r = [ok |-> TRUE, segs |-> base \o u, slash |-> path.slash,
             body |-> encodeBody(b, rest), query |-> query.query]
    BY <2>1, Zenon DEF build, path, rest, left, query, u
  <2>3. QED
    BY <2>2, <2>1
<1>3. path.segs \in Seq(WireSegment)
  <2> HIDE DEF path
  <2>1. Expanded(b, args, path.segs, path.segs)
    BY <1>1, <1>2, ExpandedPath, Zenon DEF path
  <2>2. QED
    BY <2>1, Zenon DEF Expanded
<1>4. /\ u \in Seq(WireSegment) /\ Len(u) = Len(path.segs)
      /\ \A k \in 1..Len(u) : u[k].text = path.segs[k].text
  <2> HIDE DEF path
  <2>1. QED
    BY <1>3, URLKeepsTexts
<1>5. \A i \in Vars(b) : /\ IsLeaf(args, b.segments[i].field)
                         /\ args[b.segments[i].field].texts = <<PathText(b, u, i)>>
  <2> HIDE DEF path, u
  <2>1. \A k \in 1..Len(path.segs) : u[k].text = path.segs[k].text
    BY <1>4, Zenon
  <2>2. Expanded(b, args, path.segs, u)
    BY <1>1, <1>2, <1>4, <2>1, ExpandedPath, Zenon DEF path
  <2>3. QED
    BY <2>2, Zenon DEF Expanded
<1>6. \A p \in P : p \in Seq(Undotted) /\ QueryKey(p) = p
  <2>1. \A i \in Vars(b) : b.segments[i].field \in Seq(Undotted)
    <3>1. DOMAIN b.segments = 1..Len(b.segments) /\ \A i \in 1..Len(b.segments) : b.segments[i] \in PathSegment
      BY <1>1, ElementOfSeq, LenProperties DEF Binding
    <3>2. QED
      BY <3>1 DEF PathSegment, Vars
  <2>2. QED
    BY <2>1, KeyOfUndotted
<1>7. P \subseteq F
  BY <1>5 DEF IsLeaf, Filled
<1>8. FromPath(b, u) = Entries(args, P)
  <2> HIDE DEF u
  <2> DEFINE sent(i) == Entry(b.segments[i].field, <<PathText(b, u, i)>>)
             meant(i) == Entry(QueryKey(b.segments[i].field), args[b.segments[i].field].texts)
  <2>1. \A i \in Vars(b) : sent(i) = meant(i)
    BY <1>5, <1>6, Zenon
  <2>2. FromPath(b, u) = {sent(i) : i \in Vars(b)}
    BY DEF FromPath, Vars
  <2>3. Entries(args, P) = {meant(i) : i \in Vars(b)}
    BY DEF Entries
  <2> HIDE DEF sent, meant
  <2>4. {sent(i) : i \in Vars(b)} = {meant(i) : i \in Vars(b)}
    BY <2>1
  <2>5. QED
    BY <2>2, <2>3, <2>4, Zenon
<1>9. /\ DOMAIN rest \subseteq Seq(DOMAIN Parts)
      /\ Filled(rest) = F \ P
      /\ \A q \in Filled(rest) : rest[q] = args[q]
  <2>1. Keeps(b, args, Len(b.segments), rest)
    BY <1>1, RemainingKeeps DEF Message
  <2>2. DOMAIN b.segments = 1..Len(b.segments)
    BY <1>1, LenProperties DEF Binding
  <2> HIDE DEF rest
  <2>3. ASSUME NEW q \in F, NEW i \in Vars(b)
        PROVE  AtOrBelow(b.segments[i].field, q) <=> q = b.segments[i].field
    <3>1. b.segments[i].field \in Seq(Undotted)
      BY <1>6
    <3>2. Under(args, b.segments[i].field) = {b.segments[i].field}
      BY <1>5 DEF IsLeaf
    <3>3. QED
      BY <3>1, <3>2, PrefixSelf DEF Under, Filled
  <2>4. Filled(rest) = {q \in F : \A i \in Vars(b) : ~AtOrBelow(b.segments[i].field, q)}
    BY <2>1, <2>2 DEF Keeps, Vars
  <2>5. Filled(rest) = F \ P
    BY <2>3, <2>4
  <2>6. QED
    BY <2>1, <2>5 DEF Keeps
<1> HIDE DEF rest, u, path, P, F
<1>10. \A U \in SUBSET Filled(rest) : Entries(rest, U) = Entries(args, U)
  BY <1>9, Zenon DEF Entries
<1>11. FromBody(b, r.body) = Entries(args, B)
  <2>1. B = {q \in Filled(rest) : InBody(b, q)}
    BY <1>9
  <2>2. FromBody(b, r.body) = Entries(rest, B)
    BY <1>1, <1>2, <1>9, <2>1, BodyHolds
  <2>3. QED
    BY <1>10, <2>1, <2>2
<1>12. r.query = Entries(args, Q)
  <2>1. Q = {q \in Filled(rest) : ~InBody(b, q)}
    BY <1>9
  <2>2. query.query = Entries(rest, Q)
    <3>1. query = encodeQueryFields(IF b.body = "all" THEN NoFields
                                    ELSE IF b.body = "field" THEN deleteNestedField(rest, b.bodyField)
                                    ELSE rest)
      BY Zenon DEF query, left
    <3> HIDE DEF query, left
    <3>2. Binding(b) /\ DOMAIN rest \subseteq Seq(DOMAIN Parts) /\ query.ok
      BY <1>1, <1>2, <1>9, Zenon
    <3>3. query.query = Entries(rest, {q \in Filled(rest) : ~InBody(b, q)})
      BY <3>1, <3>2, QueryHolds
    <3>4. QED
      BY <2>1, <3>3, Zenon
  <2>3. QED
    BY <1>2, <1>10, <2>1, <2>2
<1>13. /\ P \cup B \cup Q = F /\ P \subseteq F /\ B \subseteq F /\ Q \subseteq F
       /\ P \cap B = {} /\ P \cap Q = {} /\ B \cap Q = {}
  BY <1>7
<1> HIDE DEF B, Q
<1>14. /\ Entries(args, P) \cup Entries(args, B) \cup Entries(args, Q) = Populated(args)
  <2>1. Populated(args) = Entries(args, F)
    BY DEF Populated, Entries, F
  <2>2. Entries(args, P \cup B \cup Q) = Entries(args, P) \cup Entries(args, B) \cup Entries(args, Q)
    BY DEF Entries
  <2>3. QED
    BY <1>13, <2>1, <2>2, Zenon
<1>15. /\ Keys(Entries(args, P)) \cap Keys(Entries(args, B)) = {}
       /\ Keys(Entries(args, P)) \cap Keys(Entries(args, Q)) = {}
       /\ Keys(Entries(args, B)) \cap Keys(Entries(args, Q)) = {}
  BY <1>1, <1>13, SeparateKeys, Zenon DEF F
<1>16. \A V, W : Keys(V \cup W) = Keys(V) \cup Keys(W)
  BY DEF Keys
<1>17. SubSeq(r.segs, Len(base) + 1, Len(r.segs)) = u
  BY <1>2, <1>4, AfterBase
<1> HIDE DEF r
<1>18. CarriesMessage(b, args, base, r)
  <2> DEFINE inPath == Entries(args, P)
             inBody == Entries(args, B)
             inQuery == Entries(args, Q)
  <2>1. Keys(inPath) \cap Keys(inBody \cup inQuery) = {} /\ Keys(inBody) \cap Keys(inQuery) = {}
    <3> HIDE DEF inPath, inBody, inQuery
    <3>1. Keys(inBody \cup inQuery) = Keys(inBody) \cup Keys(inQuery)
      BY <1>16
    <3>2. QED
      BY <1>15, <3>1, Zenon DEF inPath, inBody, inQuery
  <2>2. /\ FromPath(b, SubSeq(r.segs, Len(base) + 1, Len(r.segs))) = inPath
        /\ FromBody(b, r.body) = inBody /\ r.query = inQuery
    BY <1>8, <1>11, <1>12, <1>17, Zenon
  <2>3. QED
    BY <1>14, <2>1, <2>2, Zenon DEF CarriesMessage
<1>19. QED
  BY <1>18 DEF r

\* Every connected method has a binding, and the request of a call carries its message.
CallsInv ==
    /\ call.made => pc = "serving"
    /\ pc = "serving" => /\ DOMAIN bindings = DOMAIN methods
                         /\ \A i \in DOMAIN bindings : Binding(bindings[i])
    /\ RequestCarriesMessage

LEMMA CallsStart == CallsInit => CallsInv
BY DEF CallsInit, CallsInv, NoCall, RequestCarriesMessage, Sent

LEMMA ConnectKeeps ==
  ASSUME CallsInv, ConnectContract
  PROVE  CallsInv'
<1>1. PICK requests, responses :
        /\ \A i \in DOMAIN methods : Contract(methods[i].rule, requests[i])
        /\ Connect(requests, responses)
  BY DEF ConnectContract
<1> DEFINE b == [i \in DOMAIN methods |->
                   newHTTPClientBinding(methods[i].rule, requests[i], responses[i])]
<1>2. /\ pc = "contract" /\ methods' = methods /\ call' = call
      /\ \/ pc' = "refused"
         \/ pc' = "serving" /\ bindings' = b /\ ~ \E i \in DOMAIN b : ~b[i].ok
  BY <1>1, Zenon DEF Connect
<1>3. ~call.made /\ ~call'.made
  BY <1>2 DEF CallsInv
<1>4. ASSUME pc' = "serving"
      PROVE  DOMAIN bindings' = DOMAIN methods' /\ \A i \in DOMAIN bindings' : Binding(bindings'[i])
  <2>1. bindings' = b /\ \A i \in DOMAIN b : b[i].ok
    BY <1>2, <1>4
  <2>2. ASSUME NEW i \in DOMAIN methods
        PROVE  Binding(b[i])
    <3>1. b[i] = newHTTPClientBinding(methods[i].rule, requests[i], responses[i]) /\ b[i].ok
      BY <2>1
    <3> HIDE DEF b
    <3>2. QED
      BY <1>1, <3>1, NewBinding, Zenon
  <2>3. DOMAIN b = DOMAIN methods
    OBVIOUS
  <2> HIDE DEF b
  <2>4. QED
    BY <1>2, <2>1, <2>2, <2>3, Zenon
<1>5. QED
  BY <1>3, <1>4, Zenon DEF CallsInv, RequestCarriesMessage, Sent

LEMMA CallKeeps ==
  ASSUME CallsInv, CallMethod
  PROVE  CallsInv'
<1>1. PICK i, args, replies, names :
        i \in DOMAIN methods /\ Message(args) /\ callProto(i, args, replies, names)
  BY Zenon DEF CallMethod
<1> DEFINE request == build(bindings[i], args, Base)
<1>2. /\ pc = "serving" /\ pc' = pc /\ methods' = methods /\ bindings' = bindings
      /\ \E reply, result :
           call' = [made |-> TRUE, method |-> i, args |-> args, request |-> request,
                    reply |-> reply, result |-> result]
  BY <1>1, Zenon DEF callProto
<1> HIDE DEF request
<1>3. call'.method = i /\ call'.args = args /\ call'.request = request
  BY <1>2
<1>4. Binding(bindings[i])
  BY <1>1, <1>2, Zenon DEF CallsInv
<1>5. request.ok => CarriesMessage(bindings[i], args, Base, request)
  BY <1>1, <1>4, BaseAssumption, RequestCarries, Zenon DEF request
<1>6. RequestCarriesMessage'
  BY <1>2, <1>3, <1>5, Zenon DEF RequestCarriesMessage, Sent
<1>7. QED
  BY <1>2, <1>6, Zenon DEF CallsInv

\* Whatever contract the client is connected to and whatever it is called with, the request
\* that leaves carries the whole message: every populated field of it is in the path, in the
\* body or in the query string, in one of them only and with its value (build).
THEOREM RequestsCarryTheMessage == CallsSpec => []RequestCarriesMessage
<1>1. CallsInv /\ [Prepare \/ ConnectContract \/ CallMethod]_callVars => CallsInv'
  <2> SUFFICES ASSUME CallsInv, [Prepare \/ ConnectContract \/ CallMethod]_callVars
               PROVE  CallsInv'
    OBVIOUS
  <2>1. CASE Prepare
    BY <2>1 DEF Prepare, CallsInv, RequestCarriesMessage, Sent
  <2>2. CASE ConnectContract
    BY <2>2, ConnectKeeps
  <2>3. CASE CallMethod
    BY <2>3, CallKeeps
  <2>4. CASE UNCHANGED callVars
    BY <2>4, Zenon DEF callVars, CallsInv, RequestCarriesMessage, Sent
  <2>5. QED
    BY <2>1, <2>2, <2>3, <2>4
<1>2. CallsInv => RequestCarriesMessage
  BY DEF CallsInv
<1>3. QED
  BY <1>1, <1>2, CallsStart, PTL DEF CallsSpec

(***************************************************************************)
(* Replies.                                                                *)
(***************************************************************************)
\* The first member of a sequence is its prefix of length one.
LEMMA FirstMember ==
  ASSUME NEW S, NEW s \in Seq(S), s # <<>>
  PROVE  Len(s) \in Nat /\ 1 \in 1..Len(s) /\ s[1] \in S /\ SubSeq(s, 1, 1) = <<s[1]>>
<1>1. Len(s) \in Nat /\ 1 \in 1..Len(s) /\ 1 \in 1..1
  BY EmptySeq
<1>2. s[1] \in S
  BY <1>1, ElementOfSeq
<1>3. SubSeq(s, 1, 1) = <<s[1]>> \o SubSeq(s, 1 + 1, 1)
  <2>1. 1 \in 1..Len(s) /\ 1 \in 1..Len(s)
    BY <1>1
  <2>2. \A m \in 1..Len(s) : \A n \in m..Len(s) : SubSeq(s, m, n) = <<s[m]>> \o SubSeq(s, m + 1, n)
    BY SubSeqRecursiveFirst, Zenon
  <2>3. QED
    BY <2>1, <2>2, Zenon
<1>4. SubSeq(s, 1 + 1, 1) = <<>>
  BY SubSeqEmpty
<1>5. <<s[1]>> \in Seq(S)
  BY <1>2
<1>6. <<s[1]>> \o <<>> = <<s[1]>>
  BY <1>5, ConcatEmptySeq, Zenon
<1>7. QED
  BY <1>1, <1>2, <1>3, <1>4, <1>6, Zenon

\* A chain begins with its first member.
Begins(S, d, w) == d \in Seq(S) /\ d # <<>> /\ d[1] = w

LEMMA ChainHead ==
  ASSUME NEW S, NEW s \in Seq(Seq(S)), s # <<>>, NEW w, s[1] = <<w>>
  PROVE  Begins(S, Chain(s), w)
<1>1. Len(s) \in Nat /\ 1 <= Len(s) /\ s[1] \in Seq(S) /\ SubSeq(s, 1, 1) = <<s[1]>>
  <2>1. Len(s) \in Nat /\ 1 \in 1..Len(s) /\ s[1] \in Seq(S) /\ SubSeq(s, 1, 1) = <<s[1]>>
    BY FirstMember, Zenon
  <2>2. QED
    BY <2>1
<1> DEFINE p == <<s[1]>>
           q == SubSeq(s, Len(p) + 1, Len(s))
<1>2. p \in Seq(Seq(S)) /\ Len(p) = 1 /\ p = Append(<<>>, s[1])
  BY <1>1
<1>3. AtOrBelow(p, s)
  <2> HIDE DEF p
  <2>1. QED
    BY <1>1, <1>2, Zenon DEF AtOrBelow, p
<1> HIDE DEF p, q
<1>4. q \in Seq(Seq(S)) /\ p \o q = s
  BY <1>2, <1>3, PrefixSplits DEF q
<1>5. Chain(p) = <<w>>
  <2>1. <<>> \in Seq(Seq(S)) /\ <<>> \o s[1] = s[1]
    BY <1>1, EmptySeq, ConcatEmptySeq
  <2>2. Chain(Append(<<>>, s[1])) = Chain(<<>>) \o s[1]
    BY <1>1, <2>1, ChainAppend, Zenon
  <2>3. QED
    BY <1>2, <2>1, <2>2, ChainEmpty, Zenon
<1>6. Chain(s) = <<w>> \o Chain(q)
  BY <1>2, <1>4, <1>5, ChainConcat, Zenon
<1>7. Chain(q) \in Seq(S) /\ Chain(s) \in Seq(S) /\ <<w>> \in Seq(S)
  BY <1>1, <1>4, ChainType, Zenon
<1> DEFINE c == Chain(q)
           d == Chain(s)
<1>8. Joined(<<w>>, c, d)
  BY <1>6, <1>7, JoinedParts, Zenon
<1>9. Len(d) = 1 + Len(c) /\ Len(c) \in Nat /\ \A i \in 1..(1 + Len(c)) : d[i] = IF i <= 1 THEN <<w>>[i] ELSE c[i - 1]
  <2>1. Len(<<w>>) = 1
    OBVIOUS
  <2>2. QED
    BY <1>8, <2>1, Zenon DEF Joined
<1> HIDE DEF c, d
<1>10. d[1] = w /\ Len(d) > 0
  BY <1>9
<1>11. d # <<>>
  BY <1>10
<1>12. QED
  BY <1>7, <1>10, <1>11, Zenon DEF Begins, d

\* The field that a response body is wrapped in is one of the response.
LEMMA ResponseFieldNamed ==
  ASSUME NEW response, \A p \in DOMAIN response : response[p].json \in DOMAIN Parts,
         NEW path \in Seq(STRING), path # <<>>, response[<<path[1]>>].json \in Undotted,
         NEW r, r = protobufJSONFieldPath(response, path), r.ok
  PROVE  \E w \in {response[p].json : p \in DOMAIN response} : Begins(Undotted, r.path, w)
<1> DEFINE s == [i \in DOMAIN path |-> Parts[response[SubSeq(path, 1, i)].json]]
<1>1. /\ \A i \in DOMAIN path : SubSeq(path, 1, i) \in DOMAIN response
      /\ r.path = Chain(s)
  BY DEF protobufJSONFieldPath
<1>2. Len(path) \in Nat /\ DOMAIN path = 1..Len(path) /\ 1 \in 1..Len(path)
  BY LenProperties, FirstMember, Zenon
<1>3. s \in [1..Len(path) -> Seq(Undotted)]
  BY <1>1, <1>2, PartsUndotted
<1>4. s \in Seq(Seq(Undotted)) /\ s # <<>>
  <2>1. s \in Seq(Seq(Undotted))
    BY <1>2, <1>3, SeqDef
  <2>2. DOMAIN s = DOMAIN path
    OBVIOUS
  <2> HIDE DEF s
  <2>3. QED
    BY <1>2, <2>1, <2>2
<1> DEFINE w == response[<<path[1]>>].json
<1>5. SubSeq(path, 1, 1) = <<path[1]>>
  BY FirstMember, Zenon
<1>6. s[1] = <<w>> /\ w \in {response[p].json : p \in DOMAIN response}
  <2>1. <<path[1]>> \in DOMAIN response
    BY <1>1, <1>2, <1>5, Zenon
  <2>2. s[1] = Parts[w]
    BY <1>2, <1>5, Zenon
  <2> HIDE DEF s
  <2>3. QED
    BY <2>1, <2>2 DEF Undotted
<1> HIDE DEF s, w
<1>7. QED
  BY <1>1, <1>4, <1>6, ChainHead, Zenon

\* A JSON value, and what of an object is delivered into a message with these fields.
JSONValue(S, value) == DOMAIN value \subseteq Seq(S) /\ value = [q \in DOMAIN value |-> value[q]]
Delivered(all, names) == [q \in {p \in DOMAIN all : p # <<>> /\ p[1] \in names} |-> all[q]]

\* A value wrapped in a field is found below that field.
LEMMA UnwrapsWrapped ==
  ASSUME NEW S, NEW field \in Seq(S), field # <<>>, NEW value, JSONValue(S, value),
         NEW names, field[1] \in names,
         NEW all, all = wrapResponseBody(value, field), NEW result, result = Delivered(all, names)
  PROVE  Below(result, field) = value
<1>0. /\ DOMAIN value \subseteq Seq(S) /\ value = [q \in DOMAIN value |-> value[q]]
      /\ result = [q \in {p \in DOMAIN all : p # <<>> /\ p[1] \in names} |-> all[q]]
  BY Zenon DEF JSONValue, Delivered
<1> DEFINE after(u) == SubSeq(u, Len(field) + 1, Len(u))
<1>1. DOMAIN all = {field \o p : p \in DOMAIN value} /\ \A u \in DOMAIN all : all[u] = value[after(u)]
  BY DEF wrapResponseBody
<1>2. ASSUME NEW p \in DOMAIN value
      PROVE  /\ after(field \o p) = p /\ field \o p # <<>> /\ (field \o p)[1] = field[1]
             /\ AtOrBelow(field, field \o p)
  <2> DEFINE u == field \o p
  <2>1. p \in Seq(S)
    BY <1>0
  <2>2. after(u) = p
    BY <2>1, AfterBase, ZenonT(40)
  <2>3. Joined(field, p, u) /\ u \in Seq(S)
    BY <2>1, JoinedParts, Zenon
  <2>4. Len(field) \in Nat /\ Len(field) > 0 /\ Len(p) \in Nat /\ 1 \in 1..(Len(field) + Len(p)) /\ 1 <= Len(field)
    BY <2>1, EmptySeq, LenProperties
  <2>5. Len(u) = Len(field) + Len(p) /\ u[1] = field[1]
    BY <2>3, <2>4, Zenon DEF Joined
  <2>6. SubSeq(u, 1, Len(field)) = field
    BY <2>1
  <2> HIDE DEF u
  <2>7. u # <<>> /\ Len(field) <= Len(u)
    BY <2>4, <2>5
  <2>8. QED
    BY <2>2, <2>5, <2>6, <2>7, Zenon DEF AtOrBelow, u
<1> DEFINE put(p) == field \o p
<1>3. \A p \in DOMAIN value : /\ after(put(p)) = p /\ put(p) # <<>> /\ put(p)[1] \in names
                              /\ AtOrBelow(field, put(p))
  BY <1>2, Zenon
<1>4. DOMAIN all = {put(p) : p \in DOMAIN value} /\ \A u \in DOMAIN all : all[u] = value[after(u)]
  BY <1>1
<1> HIDE DEF after, put
<1>5. \A u \in DOMAIN all : u # <<>> /\ u[1] \in names /\ AtOrBelow(field, u)
  BY <1>3, <1>4, Zenon
<1>6. DOMAIN result = DOMAIN all /\ \A u \in DOMAIN all : result[u] = all[u]
  BY <1>0, <1>5
<1>7. Under(result, field) = DOMAIN all
  BY <1>5, <1>6 DEF Under
<1>8. Below(result, field) = [q \in {after(u) : u \in DOMAIN all} |-> result[put(q)]]
  BY <1>7, Zenon DEF Below, after, put
<1>9. {after(u) : u \in DOMAIN all} = DOMAIN value
  <2>1. \A u \in DOMAIN all : after(u) \in DOMAIN value
    BY <1>3, <1>4, Zenon
  <2>2. \A p \in DOMAIN value : put(p) \in DOMAIN all /\ after(put(p)) = p
    BY <1>3, <1>4, Zenon
  <2>3. QED
    BY <2>1, <2>2, Zenon
<1>10. \A q \in DOMAIN value : result[put(q)] = value[q]
  BY <1>3, <1>4, <1>6
<1>11. QED
  <2>1. Below(result, field) = [q \in DOMAIN value |-> value[q]]
    BY <1>8, <1>9, <1>10
  <2>2. QED
    BY <1>0, <2>1, Zenon

\* Whatever the contract, a method whose rule selects a field for the response body finds the
\* reply of its upstream in that field, unchanged, unless the JSON name the selector starts
\* with has a dot (wrapResponseBody, decodeHTTPResponse).
THEOREM RepliesComeBack ==
  ASSUME NEW rule, NEW request, NEW response,
         \A p \in DOMAIN response : response[p].json \in DOMAIN Parts,
         rule.responseBody = "field", rule.responseField \in Seq(STRING), rule.responseField # <<>>,
         response[<<rule.responseField[1]>>].json \in Undotted,
         NEW b, b = newHTTPClientBinding(rule, request, response), b.ok,
         NEW value, JSONValue(DOMAIN Parts, value)
  PROVE  Below(decodeHTTPResponse(b, [sent |-> TRUE, value |-> value],
                                  {response[p].json : p \in DOMAIN response}),
               b.responseField) = value
<1> DEFINE names == {response[p].json : p \in DOMAIN response}
           r == protobufJSONFieldPath(response, rule.responseField)
           resp == Selected(response, rule.responseBody, rule.responseField)
           all == wrapResponseBody(value, b.responseField)
           reply == [sent |-> TRUE, value |-> value]
<1>1. resp.ok /\ b.responseBody = rule.responseBody /\ b.responseField = resp.path
  BY DEF newHTTPClientBinding
<1>2. resp = r
  BY DEF Selected
<1>3. b.responseField \in Seq(Undotted) /\ b.responseField # <<>> /\ b.responseField[1] \in names
  <2> HIDE DEF resp, names, r
  <2>1. PICK w \in names : Begins(Undotted, r.path, w)
    BY <1>1, <1>2, ResponseFieldNamed DEF names, r
  <2>2. QED
    BY <1>1, <1>2, <2>1, Zenon DEF Begins
<1>4. b.responseField \in Seq(DOMAIN Parts)
  <2>1. Undotted \subseteq DOMAIN Parts
    BY DEF Undotted
  <2>2. QED
    BY <1>3, <2>1, SeqMonotonic
<1>5. decodeHTTPResponse(b, reply, names) = Delivered(all, names)
  <2>1. reply.sent /\ reply.value = value
    OBVIOUS
  <2> HIDE DEF reply, names
  <2>2. QED
    BY <1>1, <2>1, Zenon DEF decodeHTTPResponse, Delivered
<1>6. QED
  <2> HIDE DEF names, reply, all
  <2>1. Below(decodeHTTPResponse(b, reply, names), b.responseField) = value
    <3>1. all = wrapResponseBody(value, b.responseField)
      BY DEF all
    <3>2. QED
      BY <1>3, <1>4, <1>5, <3>1, UnwrapsWrapped
  <2>2. QED
    BY <2>1, Zenon DEF names, reply
=============================================================================
