---------------------------- MODULE CodecProofs -----------------------------
(***************************************************************************)
(* Proofs about the formats of BatchCodec and ManifestCodec, for all Base: *)
(* the decoders never read outside of the bytes they are given, and they   *)
(* return what was encoded.  A loop of a decoder is a recursive function,  *)
(* and its induction is over sets of naturals and of sequences.            *)
(***************************************************************************)
EXTENDS BatchCodec, ManifestCodec, SequenceTheorems, WellFoundedInduction, TLAPS

-----------------------------------------------------------------------------
(* Induction and recursion *)

\* A set of naturals that is not empty has a least member.
LEMMA Least ==
  ASSUME NEW T \in SUBSET Nat, T # {}
  PROVE  \E n \in T : \A m \in T : n <= m
<1>1. \E x \in T : \A y \in T : ~ (<<y, x>> \in OpToRel(<, Nat))
  BY NatLessThanWellFounded, WFMin, Zenon
<1>2. PICK x \in T : \A y \in T : ~ (<<y, x>> \in OpToRel(<, Nat))
  BY <1>1, Zenon
<1>3. \A y \in T : ~ (y < x)
  BY <1>2, Zenon DEF OpToRel
<1>4. \A y \in T : x <= y
  BY <1>3
<1> QED
  BY <1>4, Zenon

\* Induction, for a set of naturals.
LEMMA Induct ==
  ASSUME NEW T, 0 \in T, \A n \in Nat : n \in T => n + 1 \in T
  PROVE  Nat \subseteq T
<1> DEFINE U == {n \in Nat : n \notin T}
<1> SUFFICES U = {}
  BY Zenon
<1> SUFFICES ASSUME U # {} PROVE FALSE
  BY Zenon
<1>1. U \in SUBSET Nat
  BY Zenon
<1>2. PICK n \in U : \A m \in U : n <= m
  <2> HIDE DEF U
  <2> QED BY <1>1, Least, Zenon
<1>3. n \in Nat /\ n # 0
  BY <1>2, Zenon
<1>4. n - 1 \in Nat /\ ~(n <= n - 1) /\ (n - 1) + 1 = n
  BY <1>3
<1>5. n - 1 \notin U
  BY <1>2, <1>4, Zenon
<1>6. n - 1 \in T
  BY <1>4, <1>5, Zenon
<1>7. n \in T
  <2>1. (n - 1) + 1 \in T
    BY <1>4, <1>6, Zenon
  <2> QED BY <2>1, <1>4, Zenon
<1> QED
  BY <1>2, <1>7, Zenon

\* A function defined by recursion exists.
Steps(f, S, a, step) ==
  f \in [Nat -> S] /\ f[0] = a /\ \A n \in Nat : f[n + 1] = step[n][f[n]]

\* A step function and a start value have a sequence of values, by recursion.
LEMMA Recursion ==
  ASSUME NEW S, NEW a, NEW step, a \in S, step \in [Nat -> [S -> S]]
  PROVE  \E f : Steps(f, S, a, step)
<1> DEFINE Good(n, g) == /\ g \in [0 .. n -> S] /\ g[0] = a
                         /\ \A i \in 0 .. n - 1 : g[i + 1] = step[i][g[i]]
           T == {n \in Nat : \E g : Good(n, g)}
<1>1. 0 \in T
  <2>1. Good(0, [i \in 0 .. 0 |-> a])
    OBVIOUS
  <2> QED BY <2>1, Zenon
<1>2. ASSUME NEW n \in Nat, n \in T PROVE n + 1 \in T
  <2>1. PICK g : Good(n, g)
    BY <1>2, Zenon
  <2> DEFINE x == step[n][g[n]]
             h == [i \in 0 .. n + 1 |-> IF i = n + 1 THEN x ELSE g[i]]
  <2>2. n \in 0 .. n /\ 0 \in 0 .. n
    OBVIOUS
  <2>3. x \in S
    BY <2>1, <2>2, Zenon
  <2>4. \A i \in 0 .. n : h[i] = g[i]
    <3> HIDE DEF x
    <3> QED OBVIOUS
  <2>5. h[n + 1] = x
    <3> HIDE DEF x
    <3> QED OBVIOUS
  <2>6. h \in [0 .. n + 1 -> S]
    <3>1. \A i \in 0 .. n + 1 : i = n + 1 \/ i \in 0 .. n
      OBVIOUS
    <3>2. \A i \in 0 .. n : g[i] \in S
      BY <2>1, Zenon
    <3> HIDE DEF x
    <3> QED BY <2>3, <3>1, <3>2, Zenon
  <2> HIDE DEF h
  <2>7. ASSUME NEW i \in 0 .. (n + 1) - 1 PROVE h[i + 1] = step[i][h[i]]
    <3>1. i \in 0 .. n /\ (i = n \/ (i \in 0 .. n - 1 /\ i + 1 \in 0 .. n))
      OBVIOUS
    <3>2. h[i] = g[i]
      BY <2>4, <3>1, Zenon
    <3>3. CASE i = n
      BY <2>5, <3>2, <3>3, Zenon
    <3>4. CASE i \in 0 .. n - 1 /\ i + 1 \in 0 .. n
      BY <2>1, <2>4, <3>2, <3>4, Zenon
    <3> QED BY <3>1, <3>3, <3>4, Zenon
  <2>8. Good(n + 1, h)
    BY <2>1, <2>2, <2>4, <2>6, <2>7, Zenon
  <2>9. n + 1 \in Nat
    OBVIOUS
  <2> QED BY <2>8, <2>9, Zenon
<1>3. Nat \subseteq T
  <2> HIDE DEF T
  <2> QED BY <1>1, <1>2, Induct, Zenon
<1>4. ASSUME NEW m \in Nat, NEW n \in Nat, NEW g, NEW h, Good(m, g), Good(n, h), m <= n
      PROVE  g[m] = h[m]
  <2> DEFINE V == {i \in Nat : i <= m => g[i] = h[i]}
  <2>1. 0 \in V
    BY <1>4
  <2>2. ASSUME NEW i \in Nat, i \in V PROVE i + 1 \in V
    <3> SUFFICES ASSUME i + 1 <= m PROVE g[i + 1] = h[i + 1]
      OBVIOUS
    <3>1. i \in 0 .. m - 1 /\ i \in 0 .. n - 1 /\ i <= m
      BY <1>4
    <3>2. g[i] = h[i]
      BY <2>2, <3>1, Zenon
    <3> QED BY <1>4, <3>1, <3>2, Zenon
  <2>3. m \in V
    <3> HIDE DEF V
    <3> QED BY <2>1, <2>2, Induct, Zenon
  <2>4. m <= m
    OBVIOUS
  <2> QED BY <2>3, <2>4, Zenon
<1> DEFINE G(n) == CHOOSE g : Good(n, g)
           f == [n \in Nat |-> G(n)[n]]
<1>5. \A n \in Nat : Good(n, G(n))
  <2> HIDE DEF Good
  <2> QED BY <1>3, Zenon
<1> HIDE DEF G
<1>6. ASSUME NEW n \in Nat PROVE f[n] \in S /\ f[n + 1] = step[n][f[n]]
  <2>1. n + 1 \in Nat /\ n <= n + 1 /\ n \in 0 .. n /\ n \in 0 .. (n + 1) - 1
    OBVIOUS
  <2>2. Good(n, G(n)) /\ Good(n + 1, G(n + 1))
    BY <1>5, <2>1, Zenon
  <2>3. G(n)[n] = G(n + 1)[n]
    <3> HIDE DEF Good
    <3> QED BY <1>4, <2>1, <2>2, Zenon
  <2>4. G(n)[n] \in S /\ G(n + 1)[n + 1] = step[n][G(n + 1)[n]]
    BY <2>1, <2>2, Zenon
  <2>5. f[n] = G(n)[n] /\ f[n + 1] = G(n + 1)[n + 1]
    BY <2>1, Zenon
  <2> QED BY <2>3, <2>4, <2>5, Zenon
<1>7. f[0] = a
  <2>1. 0 \in Nat
    OBVIOUS
  <2>2. Good(0, G(0)) /\ f[0] = G(0)[0]
    BY <1>5, <2>1, Zenon
  <2> QED BY <2>2, Zenon
<1>8. f \in [Nat -> S]
  <2>1. \A n \in Nat : G(n)[n] \in S
    BY <1>6, Zenon
  <2> QED BY <2>1, Zenon
<1> HIDE DEF f
<1> QED BY <1>6, <1>7, <1>8, Zenon DEF Steps

-----------------------------------------------------------------------------
(* Joined sequences *)

\* Induction over sequences, for a set of sequences.
LEMMA SeqInduct ==
  ASSUME NEW S, NEW T, <<>> \in T, \A s \in Seq(S), e \in S : s \in T => Append(s, e) \in T
  PROVE  Seq(S) \subseteq T
<1> DEFINE U == {n \in Nat : \A s \in Seq(S) : Len(s) = n => s \in T}
<1>1. 0 \in U
  <2>1. \A s \in Seq(S) : Len(s) = 0 => s = <<>>
    OBVIOUS
  <2> QED BY <2>1, Zenon
<1>2. ASSUME NEW n \in Nat, n \in U PROVE n + 1 \in U
  <2> SUFFICES ASSUME NEW s \in Seq(S), Len(s) = n + 1 PROVE s \in T
    <3>1. n + 1 \in Nat
      OBVIOUS
    <3> QED BY <3>1, Zenon
  <2>1. s # <<>>
    OBVIOUS
  <2>2. PICK t \in Seq(S), e \in S : s = Append(t, e)
    BY <2>1, SequenceEmptyOrAppend, Zenon
  <2>3. Len(t) = n
    BY <2>2
  <2> QED BY <1>2, <2>2, <2>3, Zenon
<1>3. Nat \subseteq U
  <2> HIDE DEF U
  <2> QED BY <1>1, <1>2, Induct, Zenon
<1>4. \A s \in Seq(S) : Len(s) \in Nat
  OBVIOUS
<1> QED BY <1>3, <1>4, Zenon

\* The function that Joined is defined by: one sequence more at each step.
LEMMA JoinedSteps ==
  ASSUME NEW X, NEW ss \in Seq(Seq(X))
  PROVE  \E f \in [0 .. Len(ss) -> Seq(X)] :
           /\ f[0] = <<>> /\ Joined(ss) = f[Len(ss)]
           /\ \A i \in 0 .. Len(ss) - 1 : f[i + 1] = f[i] \o ss[i + 1]
<1> DEFINE n == Len(ss)
           Def(f) == f = [i \in 0 .. n |-> IF i = 0 THEN <<>> ELSE f[i - 1] \o ss[i]]
           step == [k \in Nat |-> [x \in Seq(X) |-> IF k + 1 <= n THEN x \o ss[k + 1] ELSE x]]
           F == CHOOSE f : Def(f)
<1>1. n \in Nat /\ <<>> \in Seq(X)
  OBVIOUS
<1>2. step \in [Nat -> [Seq(X) -> Seq(X)]]
  <2>1. ASSUME NEW k \in Nat, NEW x \in Seq(X)
        PROVE  (IF k + 1 <= n THEN x \o ss[k + 1] ELSE x) \in Seq(X)
    OBVIOUS
  <2> QED BY <2>1, Zenon
<1>3. PICK g \in [Nat -> Seq(X)] :
        g[0] = <<>> /\ \A k \in Nat : g[k + 1] = step[k][g[k]]
  <2>1. \E g : Steps(g, Seq(X), <<>>, step)
    <3> HIDE DEF step
    <3> QED BY <1>1, <1>2, Recursion, Zenon
  <2> QED BY <2>1, Zenon DEF Steps
<1>4. ASSUME NEW k \in Nat, k + 1 <= n PROVE g[k + 1] = g[k] \o ss[k + 1]
  <2>1. g[k] \in Seq(X)
    BY <1>3, Zenon
  <2> QED BY <1>3, <1>4, <2>1, Zenon
<1> DEFINE h == [i \in 0 .. n |-> g[i]]
<1>5. Def(h)
  <2>1. ASSUME NEW i \in 0 .. n PROVE g[i] = IF i = 0 THEN <<>> ELSE h[i - 1] \o ss[i]
    <3>1. CASE i = 0
      BY <1>3, <3>1, Zenon
    <3>2. CASE i # 0
      <4>1. i - 1 \in Nat /\ (i - 1) + 1 = i /\ i <= n /\ i - 1 \in 0 .. n
        BY <1>1, <3>2
      <4>2. h[i - 1] = g[i - 1]
        BY <4>1, Zenon
      <4> QED BY <1>4, <4>1, <4>2, <3>2, Zenon
    <3> QED BY <3>1, <3>2, Zenon
  <2> QED BY <2>1, Zenon
<1>6. Def(F)
  <2> HIDE DEF Def, h
  <2> QED BY <1>5, Zenon
<1>7. Joined(ss) = F[n]
  BY Zenon DEF Joined
<1> HIDE DEF F
<1>8. F[0] = <<>> /\ DOMAIN F = 0 .. n
  <2>1. 0 \in 0 .. n
    BY <1>1
  <2> QED BY <1>6, <2>1, Zenon
<1>9. ASSUME NEW i \in 0 .. n - 1 PROVE F[i + 1] = F[i] \o ss[i + 1]
  <2>1. i + 1 \in 0 .. n /\ i + 1 # 0 /\ (i + 1) - 1 = i
    BY <1>1
  <2>2. F[i + 1] = F[(i + 1) - 1] \o ss[i + 1]
    BY <1>6, <2>1, Zenon
  <2> QED BY <2>1, <2>2, Zenon
<1>10. F \in [0 .. n -> Seq(X)]
  <2> DEFINE T == {k \in Nat : k <= n => F[k] \in Seq(X)}
  <2>1. 0 \in T
    <3>1. 0 \in Nat
      OBVIOUS
    <3> QED BY <1>1, <1>8, <3>1, Zenon
  <2>2. ASSUME NEW k \in Nat, k \in T PROVE k + 1 \in T
    <3> SUFFICES ASSUME k + 1 <= n PROVE F[k + 1] \in Seq(X)
      OBVIOUS
    <3>1. k \in 0 .. n - 1 /\ k <= n /\ k + 1 \in 1 .. Len(ss)
      BY <1>1
    <3>2. F[k] \in Seq(X) /\ ss[k + 1] \in Seq(X)
      BY <2>2, <3>1, ElementOfSeq, Zenon
    <3>3. F[k + 1] = F[k] \o ss[k + 1]
      BY <1>9, <3>1, Zenon
    <3> QED BY <3>2, <3>3
  <2>3. Nat \subseteq T
    <3> HIDE DEF T
    <3> QED BY <2>1, <2>2, Induct, Zenon
  <2>4. \A i \in 0 .. n : i \in Nat /\ i <= n
    BY <1>1
  <2>5. \A i \in 0 .. n : F[i] \in Seq(X)
    BY <2>3, <2>4, Zenon
  <2>6. F = [i \in 0 .. n |-> F[i]]
    BY <1>6, Zenon
  <2> HIDE DEF T
  <2> QED BY <2>5, <2>6, Zenon
<1> HIDE DEF n
<1> QED BY <1>7, <1>8, <1>9, <1>10, Zenon DEF n

\* Joining nothing, and joining one sequence more.
LEMMA JoinedAppend ==
  ASSUME NEW X
  PROVE  /\ Joined(<<>>) = <<>>
         /\ \A ss \in Seq(Seq(X)), s \in Seq(X) :
              Joined(ss) \in Seq(X) /\ Joined(Append(ss, s)) = Joined(ss) \o s
<1>1. Joined(<<>>) = <<>>
  <2>1. ASSUME NEW e \in Seq(Seq(X)), Len(e) = 0 PROVE Joined(e) = <<>>
    <3>1. PICK f \in [0 .. Len(e) -> Seq(X)] :
            /\ f[0] = <<>> /\ Joined(e) = f[Len(e)]
            /\ \A i \in 0 .. Len(e) - 1 : f[i + 1] = f[i] \o e[i + 1]
      BY JoinedSteps, Zenon
    <3> QED BY <2>1, <3>1, Zenon
  <2>2. <<>> \in Seq(Seq(X)) /\ Len(<<>>) = 0
    OBVIOUS
  <2> QED BY <2>1, <2>2, Zenon
<1>2. ASSUME NEW ss \in Seq(Seq(X)), NEW s \in Seq(X)
      PROVE  Joined(ss) \in Seq(X) /\ Joined(Append(ss, s)) = Joined(ss) \o s
  <2> DEFINE n == Len(ss)
             t == Append(ss, s)
  <2>1. /\ n \in Nat /\ t \in Seq(Seq(X)) /\ Len(t) = n + 1
        /\ t[n + 1] = s /\ \A i \in 1 .. n : t[i] = ss[i]
    BY AppendProperties, LenProperties
  <2> HIDE DEF t
  <2>2. PICK g \in [0 .. Len(t) -> Seq(X)] :
           /\ g[0] = <<>> /\ Joined(t) = g[Len(t)]
           /\ \A i \in 0 .. Len(t) - 1 : g[i + 1] = g[i] \o t[i + 1]
    BY <2>1, JoinedSteps, Zenon
  <2>3. PICK f \in [0 .. n -> Seq(X)] :
           /\ f[0] = <<>> /\ Joined(ss) = f[n]
           /\ \A i \in 0 .. n - 1 : f[i + 1] = f[i] \o ss[i + 1]
    BY JoinedSteps, Zenon
  <2> DEFINE T == {k \in Nat : k <= n => f[k] = g[k]}
  <2>4. 0 \in T
    BY <2>2, <2>3
  <2>5. ASSUME NEW k \in Nat, k \in T PROVE k + 1 \in T
    <3> SUFFICES ASSUME k + 1 <= n PROVE f[k + 1] = g[k + 1]
      OBVIOUS
    <3>1. k \in 0 .. n - 1 /\ k <= n /\ k + 1 \in 1 .. n /\ k \in 0 .. Len(t) - 1
      BY <2>1
    <3>2. f[k] = g[k]
      BY <2>5, <3>1, Zenon
    <3>3. f[k + 1] = f[k] \o ss[k + 1] /\ g[k + 1] = g[k] \o t[k + 1]
      BY <2>2, <2>3, <3>1, Zenon
    <3> QED BY <2>1, <3>1, <3>2, <3>3, Zenon
  <2>6. Nat \subseteq T
    <3> HIDE DEF T
    <3> QED BY <2>4, <2>5, Induct, Zenon
  <2>7. n <= n /\ n \in 0 .. n /\ n \in 0 .. Len(t) - 1
    BY <2>1
  <2>8. f[n] = g[n]
    BY <2>1, <2>6, <2>7, Zenon
  <2>9. g[n + 1] = g[n] \o t[n + 1] /\ f[n] \in Seq(X)
    BY <2>2, <2>3, <2>7, Zenon
  <2>10. Joined(t) = Joined(ss) \o s
    BY <2>1, <2>2, <2>3, <2>8, <2>9, Zenon
  <2> QED BY <2>3, <2>9, <2>10, Zenon DEF t
<1> QED BY <1>1, <1>2, Zenon

\* Three sequences one after the other.
Associates(a, b, c) == (a \o b) \o c = a \o (b \o c)

\* Concatenation is associative.
LEMMA ConcatAssociates ==
  ASSUME NEW X, NEW a, NEW b, NEW c, a \in Seq(X), b \in Seq(X), c \in Seq(X)
  PROVE  Associates(a, b, c)
BY DEF Associates

\* Joining distributes over concatenation.
LEMMA JoinedConcat ==
  ASSUME NEW X, NEW ss \in Seq(Seq(X)), NEW ts \in Seq(Seq(X))
  PROVE  /\ Joined(ss) \in Seq(X)
         /\ Joined(ss \o ts) = Joined(ss) \o Joined(ts)
<1> DEFINE T == {t \in Seq(Seq(X)) : Joined(ss \o t) = Joined(ss) \o Joined(t)}
<1>0. Joined(ss) \in Seq(X)
  <2>1. <<>> \in Seq(X)
    OBVIOUS
  <2> QED BY <2>1, JoinedAppend, Zenon
<1>1. <<>> \in T
  <2>1. ss \o <<>> = ss /\ <<>> \in Seq(Seq(X))
    OBVIOUS
  <2>2. Joined(ss) \o <<>> = Joined(ss)
    BY <1>0
  <2> QED BY <2>1, <2>2, JoinedAppend, Zenon
<1>2. ASSUME NEW t \in Seq(Seq(X)), NEW e \in Seq(X), t \in T PROVE Append(t, e) \in T
  <2>1. ss \o Append(t, e) = Append(ss \o t, e) /\ ss \o t \in Seq(Seq(X)) /\ Append(t, e) \in Seq(Seq(X))
    OBVIOUS
  <2>2. /\ Joined(Append(ss \o t, e)) = Joined(ss \o t) \o e
        /\ Joined(Append(t, e)) = Joined(t) \o e
        /\ Joined(t) \in Seq(X)
    BY <2>1, JoinedAppend, Zenon
  <2>3. Joined(ss \o t) = Joined(ss) \o Joined(t)
    BY <1>2, Zenon
  <2>4. (Joined(ss) \o Joined(t)) \o e = Joined(ss) \o (Joined(t) \o e)
    <3>1. Associates(Joined(ss), Joined(t), e)
      BY <1>0, <2>2, ConcatAssociates, Zenon
    <3> QED BY <3>1, Zenon DEF Associates
  <2> QED BY <2>1, <2>2, <2>3, <2>4, Zenon
<1>3. Seq(Seq(X)) \subseteq T
  <2> HIDE DEF T
  <2> QED BY <1>1, <1>2, SeqInduct, Zenon
<1> QED BY <1>0, <1>3, Zenon

\* A function on 1 .. n is a sequence.
LEMMA FunctionSeq ==
  ASSUME NEW S, NEW n \in Nat, NEW f, f \in [1 .. n -> S]
  PROVE  f \in Seq(S) /\ Len(f) = n
OBVIOUS

\* The pieces of a joined sequence.
LEMMA JoinedPieces ==
  ASSUME NEW X, NEW ss \in Seq(Seq(X)), NEW k \in 1 .. Len(ss)
  PROVE  /\ Joined(SubSeq(ss, 1, k - 1)) \in Seq(X)
         /\ Joined(SubSeq(ss, k + 1, Len(ss))) \in Seq(X)
         /\ Joined(SubSeq(ss, 1, k)) = Joined(SubSeq(ss, 1, k - 1)) \o ss[k]
         /\ Joined(ss) = (Joined(SubSeq(ss, 1, k - 1)) \o ss[k])
                               \o Joined(SubSeq(ss, k + 1, Len(ss)))
<1> DEFINE a == SubSeq(ss, 1, k - 1)
           b == SubSeq(ss, k + 1, Len(ss))
<1>1. a \in Seq(Seq(X)) /\ b \in Seq(Seq(X)) /\ ss[k] \in Seq(X)
  OBVIOUS
<1>2. SubSeq(ss, 1, k) = Append(a, ss[k])
  OBVIOUS
<1>3. ss = Append(a, ss[k]) \o b /\ Append(a, ss[k]) \in Seq(Seq(X))
  <2>1. 1 \in 1 .. Len(ss) + 1 /\ k \in 1 - 1 .. Len(ss) /\ Len(ss) \in k .. Len(ss)
    OBVIOUS
  <2>2. SubSeq(ss, 1, k) \o b = SubSeq(ss, 1, Len(ss))
    BY <2>1, ConcatAdjacentSubSeq, Zenon
  <2>3. SubSeq(ss, 1, Len(ss)) = ss
    BY SubSeqFull, Zenon
  <2>4. Append(a, ss[k]) \in Seq(Seq(X))
    BY <1>1, AppendProperties, Zenon
  <2> QED BY <1>2, <2>2, <2>3, <2>4, Zenon
<1> HIDE DEF a, b
<1>4. Joined(ss) = Joined(Append(a, ss[k])) \o Joined(b)
  BY <1>1, <1>3, JoinedConcat, Zenon
<1>5. Joined(Append(a, ss[k])) = Joined(a) \o ss[k] /\ Joined(a) \in Seq(X)
  BY <1>1, JoinedAppend, Zenon
<1>6. Joined(b) \in Seq(X)
  BY <1>1, JoinedConcat, Zenon
<1> QED BY <1>2, <1>4, <1>5, <1>6, Zenon DEF a, b

-----------------------------------------------------------------------------
(* Bytes and integers *)

\* The quotient and the remainder are the only ones.
LEMMA Remainder ==
  ASSUME NEW n \in Nat \ {0}, NEW q \in Int, NEW r \in 0 .. n - 1
  PROVE  (n * q + r) % n = r /\ (n * q + r) \div n = q
<1> DEFINE x == n * q + r
           p == x \div n
           s == x % n
<1>1. x \in Int /\ p \in Int /\ s \in 0 .. n - 1 /\ x = n * p + s
  OBVIOUS
<1> HIDE DEF x, p, s
<1>2. n * p + s = n * q + r
  BY <1>1 DEF x
<1>3. n * (p - q) = r - s
  BY <1>1, <1>2
<1> DEFINE e == p - q
<1>4. e \in Int /\ n * e = r - s /\ p = q + e
  BY <1>1, <1>3
<1>5. e = 0
  <2> HIDE DEF e
  <2>1. r - s < n /\ r - s > -n
    BY <1>1
  <2>2. ~(e >= 1)
    <3> SUFFICES ASSUME e >= 1 PROVE n * e >= n
      BY <1>4, <2>1
    <3> QED BY <1>4
  <2>3. ~(e <= -1)
    <3> SUFFICES ASSUME e <= -1 PROVE n * e <= -n
      BY <1>4, <2>1
    <3> QED BY <1>4
  <2> QED BY <1>4, <2>2, <2>3
<1>6. p = q /\ s = r
  BY <1>1, <1>4, <1>5
<1> QED BY <1>6 DEF x, p, s

\* A remainder in two digits.
LEMMA TwoDigits ==
  ASSUME NEW v \in Int, NEW m \in Nat \ {0}, NEW k \in Nat \ {0}
  PROVE  v % (m * k) = (v % m) + m * ((v \div m) % k)
<1> DEFINE q == v \div m
           r == v % m
           p == q \div k
           s == q % k
<1>1. q \in Int /\ r \in 0 .. m - 1 /\ v = m * q + r
  OBVIOUS
<1> HIDE DEF q, r
<1>2. p \in Int /\ s \in 0 .. k - 1 /\ q = k * p + s
  BY <1>1
<1> HIDE DEF p, s
<1>3. v = (m * k) * p + (r + m * s)
  <2>1. v = m * (k * p + s) + r
    BY <1>1, <1>2
  <2>2. m * (k * p + s) = (m * k) * p + m * s
    BY <1>2
  <2> QED BY <1>1, <1>2, <2>1, <2>2
<1>4. r + m * s \in 0 .. m * k - 1
  <2>1. m * s \in Nat /\ m * s <= m * (k - 1)
    BY <1>2
  <2>2. m * (k - 1) = m * k - m
    OBVIOUS
  <2>3. m * k \in Nat
    OBVIOUS
  <2> QED BY <1>1, <2>1, <2>2, <2>3
<1>5. m * k \in Nat \ {0}
  OBVIOUS
<1>6. ((m * k) * p + (r + m * s)) % (m * k) = r + m * s
  <2> DEFINE n == m * k
             u == r + m * s
  <2>1. n \in Nat \ {0} /\ u \in 0 .. n - 1
    BY <1>4, <1>5
  <2> HIDE DEF n, u
  <2>2. (n * p + u) % n = u
    BY <1>2, <2>1, Remainder
  <2> QED BY <2>2 DEF n, u
<1> QED BY <1>3, <1>6 DEF q, r, s

\* The values of a field.
LEMMA ValuesType ==
  /\ Base \in Nat \ {0, 1} /\ Values16 \in Nat \ {0} /\ Values32 \in Nat \ {0} /\ Values64 \in Nat \ {0}
  /\ Values16 > 1 /\ Values32 >= Values16 /\ Values64 >= Values32
<1>1. ASSUME NEW n \in Nat, n > 1 PROVE n * n \in Nat /\ n * n >= n /\ n * n > 1
  <2>1. \A k \in Nat : n * k \in Nat /\ (k >= 1 => n * k >= n)
    OBVIOUS
  <2>2. n * n \in Nat /\ n * n >= n
    BY <1>1, <2>1
  <2> QED BY <1>1, <2>2
<1>2. Base \in Nat /\ Base > 1
  BY BaseAssumption
<1>3. Values16 \in Nat /\ Values16 > 1
  BY <1>1, <1>2 DEF Values16
<1>4. Values32 \in Nat /\ Values32 > 1 /\ Values32 >= Values16
  <2> DEFINE n == Values16
  <2>1. n \in Nat /\ n > 1
    BY <1>3
  <2> HIDE DEF n
  <2>2. n * n \in Nat /\ n * n >= n /\ n * n > 1
    BY <1>1, <2>1
  <2> QED BY <2>2 DEF n, Values32
<1>5. Values64 \in Nat /\ Values64 > 1 /\ Values64 >= Values32
  <2> DEFINE n == Values32
  <2>1. n \in Nat /\ n > 1
    BY <1>4
  <2> HIDE DEF n
  <2>2. n * n \in Nat /\ n * n >= n /\ n * n > 1
    BY <1>1, <2>1
  <2> QED BY <2>2 DEF n, Values64
<1> QED BY <1>2, <1>3, <1>4, <1>5

\* The bytes s are the bytes of d from an offset on.
At(d, o, s) == o + Len(s) <= Len(d) /\ \A i \in 1 .. Len(s) : d[o + i] = s[i]

\* Two strings one after the other: the second starts where the first ends.
LEMMA AtConcat ==
  ASSUME NEW X, NEW d \in Seq(X), NEW o \in Nat, NEW s \in Seq(X), NEW t \in Seq(X), At(d, o, s \o t)
  PROVE  At(d, o, s) /\ At(d, o + Len(s), t)
<1>1. /\ Len(s) \in Nat /\ Len(t) \in Nat /\ Len(d) \in Nat /\ Len(s \o t) = Len(s) + Len(t)
      /\ \A i \in 1 .. Len(s) : (s \o t)[i] = s[i]
      /\ \A i \in 1 .. Len(t) : (s \o t)[Len(s) + i] = t[i]
  OBVIOUS
<1>2. /\ o + (Len(s) + Len(t)) <= Len(d)
      /\ \A i \in 1 .. Len(s) + Len(t) : d[o + i] = (s \o t)[i]
  BY <1>1 DEF At
<1>3. At(d, o, s)
  <2>1. \A i \in 1 .. Len(s) : i \in 1 .. Len(s) + Len(t)
    BY <1>1
  <2>2. o + Len(s) <= Len(d)
    BY <1>1, <1>2
  <2> QED BY <1>1, <1>2, <2>1, <2>2, Zenon DEF At
<1>4. At(d, o + Len(s), t)
  <2>1. \A i \in 1 .. Len(t) : /\ Len(s) + i \in 1 .. Len(s) + Len(t)
                               /\ (o + Len(s)) + i = o + (Len(s) + i)
    BY <1>1
  <2>2. (o + Len(s)) + Len(t) <= Len(d)
    BY <1>1, <1>2
  <2>3. \A i \in 1 .. Len(t) : d[(o + Len(s)) + i] = t[i]
    BY <1>1, <1>2, <2>1, Zenon
  <2> QED BY <2>2, <2>3, Zenon DEF At
<1> QED BY <1>3, <1>4, Zenon

\* The middle of three strings starts where the first ends.
LEMMA AtInside ==
  ASSUME NEW X, NEW a \in Seq(X), NEW s \in Seq(X), NEW b \in Seq(X)
  PROVE  At((a \o s) \o b, Len(a), s)
BY DEF At

\* The slice at a string that is there is that string, and it is in bounds.
LEMMA AtSlice ==
  ASSUME NEW X, NEW d \in Seq(X), NEW o \in Nat, NEW s \in Seq(X), At(d, o, s)
  PROVE  Slice(d, o, o + Len(s)) = s /\ InBounds(d, o, o + Len(s))
<1> DEFINE t == Slice(d, o, o + Len(s))
<1>1. Len(s) \in Nat /\ Len(d) \in Nat /\ o + Len(s) <= Len(d) /\ \A i \in 1 .. Len(s) : d[o + i] = s[i]
  BY DEF At
<1>2. t \in Seq(X) /\ Len(t) = Len(s) /\ \A i \in 1 .. Len(s) : t[i] = d[o + i]
  BY <1>1 DEF Slice
<1>3. t = s
  <2> HIDE DEF t
  <2> QED BY <1>1, <1>2, SeqEqual
<1> QED BY <1>1, <1>3 DEF InBounds

\* Type and length of a concatenation.
LEMMA ConcatLen ==
  ASSUME NEW S, NEW a, NEW b, a \in Seq(S), b \in Seq(S)
  PROVE  a \o b \in Seq(S) /\ Len(a \o b) = Len(a) + Len(b)
OBVIOUS

\* Types and lengths of encoded integers.
LEMMA LEType ==
  ASSUME NEW v \in Int
  PROVE  /\ LE16(v) \in Seq(Byte) /\ Len(LE16(v)) = 2
         /\ LE32(v) \in Seq(Byte) /\ Len(LE32(v)) = 4
         /\ LE64(v) \in Seq(Byte) /\ Len(LE64(v)) = 8
<1>1. ASSUME NEW w \in Int PROVE LE16(w) \in Seq(Byte) /\ Len(LE16(w)) = 2
  <2>1. w \div Base \in Int /\ w % Base \in Byte
    BY ValuesType DEF Byte
  <2>2. (w \div Base) % Base \in Byte
    BY <2>1, ValuesType DEF Byte
  <2> QED BY <2>1, <2>2 DEF LE16
<1>2. ASSUME NEW w \in Int PROVE LE32(w) \in Seq(Byte) /\ Len(LE32(w)) = 4
  <2>1. w \div Values16 \in Int
    BY ValuesType
  <2>2. /\ LE16(w) \in Seq(Byte) /\ Len(LE16(w)) = 2
        /\ LE16(w \div Values16) \in Seq(Byte) /\ Len(LE16(w \div Values16)) = 2
    BY <1>1, <2>1, Zenon
  <2> DEFINE a == LE16(w)
             b == LE16(w \div Values16)
  <2>3. a \o b \in Seq(Byte) /\ Len(a \o b) = 4
    <3>1. a \in Seq(Byte) /\ b \in Seq(Byte) /\ Len(a) = 2 /\ Len(b) = 2
      BY <2>2, Zenon
    <3> HIDE DEF a, b
    <3>2. a \o b \in Seq(Byte) /\ Len(a \o b) = Len(a) + Len(b)
      <4>1. a \in Seq(Byte) /\ b \in Seq(Byte)
        BY <3>1, Zenon
      <4> QED BY <4>1
    <3>3. 2 + 2 = 4
      OBVIOUS
    <3> QED BY <3>1, <3>2, <3>3, Zenon
  <2> QED BY <2>3, Zenon DEF LE32
<1>3. LE64(v) \in Seq(Byte) /\ Len(LE64(v)) = 8
  <2>1. v \div Values32 \in Int
    BY ValuesType
  <2>2. /\ LE32(v) \in Seq(Byte) /\ Len(LE32(v)) = 4
        /\ LE32(v \div Values32) \in Seq(Byte) /\ Len(LE32(v \div Values32)) = 4
    BY <1>2, <2>1, Zenon
  <2> DEFINE a == LE32(v)
             b == LE32(v \div Values32)
  <2>3. a \o b \in Seq(Byte) /\ Len(a \o b) = 8
    <3>1. a \in Seq(Byte) /\ b \in Seq(Byte) /\ Len(a) = 4 /\ Len(b) = 4
      BY <2>2, Zenon
    <3> HIDE DEF a, b
    <3>2. a \o b \in Seq(Byte) /\ Len(a \o b) = Len(a) + Len(b)
      <4>1. a \in Seq(Byte) /\ b \in Seq(Byte)
        BY <3>1, Zenon
      <4> QED BY <4>1
    <3>3. 4 + 4 = 8
      OBVIOUS
    <3> QED BY <3>1, <3>2, <3>3, Zenon
  <2> QED BY <2>3, Zenon DEF LE64
<1> QED BY <1>1, <1>2, <1>3, Zenon

\* What is read where an integer was written: its value in the width of the field.
LEMMA UintAt ==
  ASSUME NEW d \in Seq(Byte), NEW o \in Nat, NEW v \in Int
  PROVE  /\ At(d, o, LE16(v)) => Uint16(d, o) = v % Values16
         /\ At(d, o, LE32(v)) => Uint32(d, o) = v % Values32
         /\ At(d, o, LE64(v)) => Uint64(d, o) = v % Values64
<1>1. ASSUME NEW p \in Nat, NEW w \in Int, At(d, p, LE16(w)) PROVE Uint16(d, p) = w % Values16
  <2>1. d[p + 1] = w % Base /\ d[p + 2] = (w \div Base) % Base
    <3>1. Len(LE16(w)) = 2 /\ LE16(w)[1] = w % Base /\ LE16(w)[2] = (w \div Base) % Base
      BY DEF LE16
    <3>2. 1 \in 1 .. 2 /\ 2 \in 1 .. 2
      OBVIOUS
    <3> QED BY <1>1, <3>1, <3>2, Zenon DEF At
  <2>2. Base \in Nat \ {0}
    BY ValuesType
  <2>3. w % (Base * Base) = (w % Base) + Base * ((w \div Base) % Base)
    BY <2>2, TwoDigits, Zenon
  <2> QED BY <2>1, <2>3, Zenon DEF Uint16, Values16
<1>2. ASSUME NEW p \in Nat, NEW w \in Int, At(d, p, LE32(w)) PROVE Uint32(d, p) = w % Values32
  <2>1. w \div Values16 \in Int /\ p + 2 \in Nat /\ Values16 \in Nat \ {0}
    BY ValuesType
  <2>2. At(d, p, LE16(w)) /\ At(d, p + 2, LE16(w \div Values16))
    <3>1. /\ LE16(w) \in Seq(Byte) /\ Len(LE16(w)) = 2 /\ LE16(w \div Values16) \in Seq(Byte)
      BY <2>1, LEType, Zenon
    <3>2. At(d, p, LE16(w) \o LE16(w \div Values16))
      BY <1>2, Zenon DEF LE32
    <3>3. At(d, p, LE16(w)) /\ At(d, p + Len(LE16(w)), LE16(w \div Values16))
      BY <3>1, <3>2, AtConcat, Zenon
    <3> QED BY <3>1, <3>3, Zenon
  <2>3. Uint16(d, p) = w % Values16 /\ Uint16(d, p + 2) = (w \div Values16) % Values16
    BY <1>1, <2>1, <2>2, Zenon
  <2>4. w % (Values16 * Values16) = (w % Values16) + Values16 * ((w \div Values16) % Values16)
    BY <2>1, TwoDigits, Zenon
  <2> QED BY <2>3, <2>4, Zenon DEF Uint32, Values32
<1>3. ASSUME At(d, o, LE64(v)) PROVE Uint64(d, o) = v % Values64
  <2>1. v \div Values32 \in Int /\ o + 4 \in Nat /\ Values32 \in Nat \ {0}
    BY ValuesType
  <2>2. At(d, o, LE32(v)) /\ At(d, o + 4, LE32(v \div Values32))
    <3>1. /\ LE32(v) \in Seq(Byte) /\ Len(LE32(v)) = 4 /\ LE32(v \div Values32) \in Seq(Byte)
      BY <2>1, LEType, Zenon
    <3>2. At(d, o, LE32(v) \o LE32(v \div Values32))
      BY <1>3, Zenon DEF LE64
    <3>3. At(d, o, LE32(v)) /\ At(d, o + Len(LE32(v)), LE32(v \div Values32))
      BY <3>1, <3>2, AtConcat, Zenon
    <3> QED BY <3>1, <3>3, Zenon
  <2>3. Uint32(d, o) = v % Values32 /\ Uint32(d, o + 4) = (v \div Values32) % Values32
    BY <1>2, <2>1, <2>2, Zenon
  <2>4. v % (Values32 * Values32) = (v % Values32) + Values32 * ((v \div Values32) % Values32)
    BY <2>1, TwoDigits, Zenon
  <2> QED BY <2>3, <2>4, Zenon DEF Uint64, Values64
<1> QED BY <1>1, <1>2, <1>3, Zenon

\* An integer read inside of the data is a natural number.
LEMMA UintType ==
  ASSUME NEW d \in Seq(Byte), NEW o \in Nat
  PROVE  /\ o + 2 <= Len(d) => Uint16(d, o) \in Nat
         /\ o + 4 <= Len(d) => Uint32(d, o) \in Nat
         /\ o + 8 <= Len(d) => Uint64(d, o) \in Nat
<1>1. ASSUME NEW p \in Nat, p + 2 <= Len(d) PROVE Uint16(d, p) \in Nat
  <2>1. d[p + 1] \in Byte /\ d[p + 2] \in Byte
    BY <1>1
  <2>2. d[p + 1] \in Nat /\ d[p + 2] \in Nat /\ Base \in Nat
    BY <2>1, ValuesType DEF Byte
  <2> QED BY <2>2 DEF Uint16
<1>2. ASSUME NEW p \in Nat, p + 4 <= Len(d) PROVE Uint32(d, p) \in Nat
  <2>1. p + 2 \in Nat /\ p + 2 <= Len(d) /\ (p + 2) + 2 <= Len(d)
    BY <1>2
  <2>2. Uint16(d, p) \in Nat /\ Uint16(d, p + 2) \in Nat
    BY <1>1, <2>1, Zenon
  <2> QED BY <2>2, ValuesType DEF Uint32
<1>3. ASSUME o + 8 <= Len(d) PROVE Uint64(d, o) \in Nat
  <2>1. o + 4 \in Nat /\ o + 4 <= Len(d) /\ (o + 4) + 4 <= Len(d)
    BY <1>3
  <2>2. Uint32(d, o) \in Nat /\ Uint32(d, o + 4) \in Nat
    BY <1>2, <2>1, Zenon
  <2> QED BY <2>2, ValuesType DEF Uint64
<1> QED BY <1>1, <1>2, <1>3, Zenon

\* An integer that its field can hold is its own remainder, and a signed one comes
\* back with its sign.
LEMMA FitsField ==
  /\ \A n \in Nat \ {0} : \A v \in 0 .. n - 1 : v % n = v
  /\ \A v \in Int64 : Signed(v % Values64) = v
<1>1. ASSUME NEW n \in Nat \ {0}, NEW v \in 0 .. n - 1 PROVE v % n = v
  OBVIOUS
<1>2. ASSUME NEW v \in Int64 PROVE Signed(v % Values64) = v
  <2> DEFINE b == Values64
             half == (b - 1) \div 2
  <2>1. b \in Nat \ {0}
    BY ValuesType
  <2> HIDE DEF b
  <2>2. /\ half \in Nat /\ b \div 2 \in Nat /\ (b \div 2) + half = b - 1
    BY <2>1
  <2>3. v \in Int /\ v <= half /\ v >= -(b \div 2)
    BY <2>1, <2>2 DEF Int64, b
  <2> HIDE DEF half
  <2>4. CASE v >= 0
    <3>1. v \in 0 .. b - 1
      BY <2>1, <2>2, <2>3, <2>4
    <3>2. v % b = v
      BY <1>1, <2>1, <3>1, Zenon
    <3>3. ~(v > half)
      BY <2>2, <2>3
    <3> QED BY <3>2, <3>3, Zenon DEF Signed, b, half
  <2>5. CASE ~(v >= 0)
    <3>1. v + b \in 0 .. b - 1 /\ v + b > half /\ v = b * (-1) + (v + b) /\ -1 \in Int
      BY <2>1, <2>2, <2>3, <2>5
    <3>2. v % b = v + b
      BY <2>1, <3>1, Remainder, Zenon
    <3>3. (v + b) - b = v
      BY <2>1, <2>3
    <3> QED BY <3>1, <3>2, <3>3, Zenon DEF Signed, b, half
  <2> QED BY <2>4, <2>5, Zenon
<1> QED BY <1>1, <1>2, Zenon

-----------------------------------------------------------------------------
(* The loop of a decoder *)

\* What a decoder of one item returns.
Results(V) == {Failed, Panics} \cup [is : {"ok"}, value : V, next : Nat]

\* One round of the loop, with what the rounds after it return.
Round(item, o, rest) ==
  IF item[o].is # "ok" THEN item[o]
  ELSE IF rest[item[o].next].is # "ok" THEN rest[item[o].next]
  ELSE Read(<<item[o].value>> \o rest[item[o].next].value, rest[item[o].next].next)

\* The fields of a result.
LEMMA ResultsFacts ==
  ASSUME NEW V, NEW r \in Results(V)
  PROVE  /\ r.is \in {"ok", "error", "panic"}
         /\ r.is = "ok" => r.value \in V /\ r.next \in Nat /\ r = Read(r.value, r.next)
BY DEF Results, Failed, Panics, Read

\* The fields of a result that is an item.
LEMMA ReadResult ==
  ASSUME NEW V, NEW v \in V, NEW n \in Nat
  PROVE  /\ Read(v, n) \in Results(V) /\ Read(v, n).is = "ok"
         /\ Read(v, n).value = v /\ Read(v, n).next = n
BY DEF Results, Read

\* An item that was read is a result.
LEMMA ReadType ==
  ASSUME NEW V, NEW v \in V, NEW n \in Nat
  PROVE  Read(v, n) \in Results(V) /\ Read(v, n).is = "ok"
BY DEF Results, Read

\* A round returns a result.
LEMMA RoundType ==
  ASSUME NEW V, NEW item \in [Nat -> Results(V)], NEW o \in Nat, NEW rest \in [Nat -> Results(Seq(V))]
  PROVE  Round(item, o, rest) \in Results(Seq(V))
<1> DEFINE it == item[o]
           r == rest[it.next]
<1>1. it \in Results(V)
  BY Zenon
<1>2. CASE it.is # "ok"
  <2>1. it \in Results(Seq(V))
    BY <1>1, <1>2 DEF Results
  <2> QED BY <1>2, <2>1, Zenon DEF Round
<1>3. CASE it.is = "ok"
  <2>1. it.value \in V /\ it.next \in Nat
    BY <1>1, <1>3, ResultsFacts, Zenon
  <2>2. r \in Results(Seq(V))
    BY <2>1, Zenon
  <2>3. CASE r.is # "ok"
    BY <1>3, <2>2, <2>3, Zenon DEF Round
  <2>4. CASE r.is = "ok"
    <3>1. r.value \in Seq(V) /\ r.next \in Nat
      BY <2>2, <2>4, ResultsFacts, Zenon
    <3>2. <<it.value>> \o r.value \in Seq(V)
      <4> HIDE DEF it, r
      <4> QED BY <2>1, <3>1
    <3>3. Read(<<it.value>> \o r.value, r.next) \in Results(Seq(V))
      BY <3>1, <3>2, ReadType, Zenon
    <3> QED BY <1>3, <2>4, <3>3, Zenon DEF Round
  <2> QED BY <2>3, <2>4, Zenon
<1> QED BY <1>2, <1>3, Zenon

\* f[n][o] is what n rounds from offset o on return.
Rounds(f, item, V) ==
  /\ f \in [Nat -> [Nat -> Results(Seq(V))]]
  /\ \A n \in Nat, o \in Nat : Items(item, n, o) = f[n][o]
  /\ \A o \in Nat : f[0][o] = Read(<<>>, o)
  /\ \A n \in Nat, o \in Nat : f[n + 1][o] = Round(item, o, f[n])

\* The loop of a decoder, by the number of rounds that are left.
LEMMA ItemsRounds ==
  ASSUME NEW V, NEW item, item \in [Nat -> Results(V)]
  PROVE  \E f : Rounds(f, item, V)
<1> DEFINE S == [Nat -> Results(Seq(V))]
           a == [o \in Nat |-> Read(<<>>, o)]
           step == [k \in Nat |-> [x \in S |-> [o \in Nat |-> Round(item, o, x)]]]
           Def(f) == f = [k \in Nat |-> [o \in Nat |->
                            IF k = 0 THEN Read(<<>>, o) ELSE Round(item, o, f[k - 1])]]
           F == CHOOSE f : Def(f)
<1>1. a \in S
  <2>1. ASSUME NEW o \in Nat PROVE Read(<<>>, o) \in Results(Seq(V))
    <3>1. <<>> \in Seq(V)
      OBVIOUS
    <3> QED BY <3>1, ReadType, Zenon
  <2> QED BY <2>1, Zenon
<1>2. step \in [Nat -> [S -> S]]
  <2>1. ASSUME NEW x \in S, NEW o \in Nat PROVE Round(item, o, x) \in Results(Seq(V))
    BY <2>1, RoundType, Zenon
  <2>2. \A x \in S : [o \in Nat |-> Round(item, o, x)] \in S
    BY <2>1, Zenon
  <2> HIDE DEF S
  <2>3. [x \in S |-> [o \in Nat |-> Round(item, o, x)]] \in [S -> S]
    BY <2>2, Zenon
  <2> QED BY <2>3, Zenon
<1>3. PICK g : Steps(g, S, a, step)
  <2> HIDE DEF step, S, a
  <2> QED BY <1>1, <1>2, Recursion, Zenon
<1>4. /\ g \in [Nat -> S] /\ g[0] = a
      /\ \A n \in Nat : g[n + 1] = [o \in Nat |-> Round(item, o, g[n])]
  <2> HIDE DEF S
  <2>1. g \in [Nat -> S] /\ g[0] = a /\ \A n \in Nat : g[n + 1] = step[n][g[n]]
    BY <1>3, Zenon DEF Steps
  <2>2. \A n \in Nat : g[n] \in S
    BY <2>1, Zenon
  <2> QED BY <2>1, <2>2, Zenon
<1>5. Def(g)
  <2>1. ASSUME NEW k \in Nat
        PROVE  g[k] = [o \in Nat |-> IF k = 0 THEN Read(<<>>, o) ELSE Round(item, o, g[k - 1])]
    <3>1. CASE k = 0
      BY <1>4, <3>1, Zenon
    <3>2. CASE k # 0
      <4>1. k - 1 \in Nat /\ (k - 1) + 1 = k
        BY <3>2
      <4>2. g[(k - 1) + 1] = [o \in Nat |-> Round(item, o, g[k - 1])]
        BY <1>4, <4>1, Zenon
      <4> QED BY <3>2, <4>1, <4>2, Zenon
    <3> QED BY <3>1, <3>2, Zenon
  <2> HIDE DEF S
  <2> QED BY <1>4, <2>1, Zenon
<1>6. Def(F)
  <2> HIDE DEF Def
  <2> QED BY <1>5, Zenon
<1>7. \A n \in Nat, o \in Nat : Items(item, n, o) = F[n][o]
  BY Zenon DEF Items, Round
<1> HIDE DEF F
<1>8. \A o \in Nat : F[0][o] = Read(<<>>, o)
  <2>1. 0 \in Nat
    OBVIOUS
  <2>2. F[0] = [o \in Nat |-> IF 0 = 0 THEN Read(<<>>, o) ELSE Round(item, o, F[0 - 1])]
    BY <1>6, <2>1, Zenon
  <2> QED BY <2>2, Zenon
<1>9. ASSUME NEW n \in Nat, NEW o \in Nat PROVE F[n + 1][o] = Round(item, o, F[n])
  <2>1. n + 1 \in Nat /\ n + 1 # 0 /\ (n + 1) - 1 = n
    OBVIOUS
  <2>2. F[n + 1] = [p \in Nat |-> IF n + 1 = 0 THEN Read(<<>>, p) ELSE Round(item, p, F[(n + 1) - 1])]
    BY <1>6, <2>1, Zenon
  <2>3. F[n + 1][o] = Round(item, o, F[(n + 1) - 1])
    BY <2>1, <2>2, Zenon
  <2> QED BY <2>1, <2>3, Zenon
<1>10. F \in [Nat -> S]
  <2> DEFINE T == {n \in Nat : F[n] \in S}
  <2>0. \A n \in Nat : F[n] = [o \in Nat |-> F[n][o]]
    <3>1. \A n \in Nat : F[n] = [o \in Nat |-> IF n = 0 THEN Read(<<>>, o) ELSE Round(item, o, F[n - 1])]
      BY <1>6, Zenon
    <3> QED BY <3>1, Zenon
  <2>1. 0 \in T
    <3>1. 0 \in Nat
      OBVIOUS
    <3>2. F[0] = a
      BY <1>8, <2>0, <3>1, Zenon
    <3> QED BY <1>1, <3>1, <3>2, Zenon
  <2>2. ASSUME NEW n \in Nat, n \in T PROVE n + 1 \in T
    <3>1. n + 1 \in Nat
      OBVIOUS
    <3>2. ASSUME NEW o \in Nat PROVE F[n + 1][o] \in Results(Seq(V))
      <4>1. F[n] \in [Nat -> Results(Seq(V))]
        BY <2>2, Zenon
      <4>2. Round(item, o, F[n]) \in Results(Seq(V))
        BY <4>1, RoundType, Zenon
      <4> QED BY <1>9, <4>2, Zenon
    <3>3. F[n + 1] = [o \in Nat |-> F[n + 1][o]]
      BY <2>0, <3>1, Zenon
    <3>4. F[n + 1] \in S
      BY <3>2, <3>3, Zenon
    <3> QED BY <3>1, <3>4, Zenon
  <2>3. Nat \subseteq T
    <3> HIDE DEF T
    <3> QED BY <2>1, <2>2, Induct, Zenon
  <2>4. F = [n \in Nat |-> F[n]]
    BY <1>6, Zenon
  <2> HIDE DEF S
  <2> QED BY <2>3, <2>4, Zenon
<1> HIDE DEF Def
<1> QED BY <1>7, <1>8, <1>9, <1>10, Zenon DEF Rounds

\* The loop returns a result, and it reads outside of the data only if one of its
\* items does.
LEMMA ItemsStayInBounds ==
  ASSUME NEW V, NEW item, item \in [Nat -> Results(V)], NEW n \in Nat, NEW o \in Nat
  PROVE  /\ Items(item, n, o) \in Results(Seq(V))
         /\ (\A p \in Nat : item[p].is # "panic") => Items(item, n, o).is # "panic"
<1>0. PICK f : Rounds(f, item, V)
  BY ItemsRounds, Zenon
<1>1. /\ f \in [Nat -> [Nat -> Results(Seq(V))]]
      /\ \A k \in Nat, p \in Nat : Items(item, k, p) = f[k][p]
      /\ \A p \in Nat : f[0][p] = Read(<<>>, p)
      /\ \A k \in Nat, p \in Nat : f[k + 1][p] = Round(item, p, f[k])
  BY <1>0, Zenon DEF Rounds
<1>2. f[n][o] \in Results(Seq(V))
  BY <1>1, Zenon
<1>3. ASSUME \A p \in Nat : item[p].is # "panic" PROVE f[n][o].is # "panic"
  <2> DEFINE T == {k \in Nat : \A p \in Nat : f[k][p].is # "panic"}
  <2>1. \A v, m : Read(v, m).is # "panic"
    BY DEF Read
  <2>2. 0 \in T
    <3>1. 0 \in Nat
      OBVIOUS
    <3>2. ASSUME NEW p \in Nat PROVE f[0][p].is # "panic"
      <4>1. f[0][p] = Read(<<>>, p)
        BY <1>1, Zenon
      <4> QED BY <2>1, <4>1, Zenon
    <3> QED BY <3>1, <3>2, Zenon
  <2>3. ASSUME NEW k \in Nat, k \in T PROVE k + 1 \in T
    <3>1. k + 1 \in Nat
      OBVIOUS
    <3>2. ASSUME NEW p \in Nat PROVE Round(item, p, f[k]).is # "panic"
      <4>1. item[p] \in Results(V) /\ item[p].is # "panic"
        BY <1>3, Zenon
      <4>2. item[p].is = "ok" => item[p].next \in Nat
        BY <4>1, ResultsFacts, Zenon
      <4>3. item[p].is = "ok" => f[k][item[p].next].is # "panic"
        BY <2>3, <4>2, Zenon
      <4> QED BY <2>1, <4>1, <4>3, Zenon DEF Round
    <3>3. \A p \in Nat : f[k + 1][p] = Round(item, p, f[k])
      BY <1>1, Zenon
    <3>4. \A p \in Nat : f[k + 1][p].is # "panic"
      BY <3>2, <3>3, Zenon
    <3> QED BY <3>1, <3>4, Zenon
  <2>4. Nat \subseteq T
    <3> HIDE DEF T
    <3> QED BY <2>2, <2>3, Induct, Zenon
  <2> QED BY <2>4, Zenon
<1>4. Items(item, n, o) = f[n][o]
  BY <1>1, Zenon
<1> QED BY <1>2, <1>3, <1>4, Zenon

\* Each item starts where the one before it ended.
Chain(item, xs, starts) ==
  /\ starts \in [0 .. Len(xs) -> Nat]
  /\ \A k \in 1 .. Len(xs) : item[starts[k - 1]] = Read(xs[k], starts[k])

\* The loop returns the values of its items when each one starts where the one
\* before it ended.
LEMMA ItemsRead ==
  ASSUME NEW V, NEW item, item \in [Nat -> Results(V)], NEW xs \in Seq(V),
         NEW starts, Chain(item, xs, starts)
  PROVE  Items(item, Len(xs), starts[0]) = Read(xs, starts[Len(xs)])
<1> DEFINE N == Len(xs)
<1>a. /\ starts \in [0 .. N -> Nat]
      /\ \A k \in 1 .. N : item[starts[k - 1]] = Read(xs[k], starts[k])
  BY Zenon DEF Chain
<1>0. PICK f : Rounds(f, item, V)
  BY ItemsRounds, Zenon
<1>1. /\ f \in [Nat -> [Nat -> Results(Seq(V))]]
      /\ \A n \in Nat, o \in Nat : Items(item, n, o) = f[n][o]
      /\ \A o \in Nat : f[0][o] = Read(<<>>, o)
      /\ \A n \in Nat, o \in Nat : f[n + 1][o] = Round(item, o, f[n])
  BY <1>0, Zenon DEF Rounds
<1>2. N \in Nat /\ N \in 0 .. N /\ 0 \in 0 .. N
  OBVIOUS
<1> DEFINE T == {m \in Nat : m <= N =>
                   f[m][starts[N - m]] = Read(SubSeq(xs, (N - m) + 1, N), starts[N])}
<1>3. 0 \in T
  <2>1. 0 \in Nat /\ N - 0 = N /\ SubSeq(xs, N + 1, N) = <<>>
    OBVIOUS
  <2>2. starts[N] \in Nat
    BY <1>a, <1>2, Zenon
  <2>3. f[0][starts[N]] = Read(<<>>, starts[N])
    BY <1>1, <2>2, Zenon
  <2> QED BY <2>1, <2>3, Zenon
<1>4. ASSUME NEW m \in Nat, m \in T PROVE m + 1 \in T
  <2> SUFFICES ASSUME m + 1 <= N
               PROVE  f[m + 1][starts[N - (m + 1)]] = Read(SubSeq(xs, (N - (m + 1)) + 1, N), starts[N])
    <3>1. m + 1 \in Nat
      OBVIOUS
    <3> QED BY <3>1, Zenon
  <2> DEFINE j == N - (m + 1)
  <2>1. /\ j \in 0 .. N /\ j + 1 \in 1 .. N /\ j + 1 \in 0 .. N /\ (j + 1) - 1 = j
        /\ N - m = j + 1 /\ m <= N /\ N \in j + 1 .. N
    OBVIOUS
  <2> HIDE DEF j
  <2>2. item[starts[j]] = Read(xs[j + 1], starts[j + 1])
    BY <1>a, <2>1, Zenon
  <2>3. f[m][starts[j + 1]] = Read(SubSeq(xs, (j + 1) + 1, N), starts[N])
    BY <1>4, <2>1, Zenon
  <2>4. f[m + 1][starts[j]] = Round(item, starts[j], f[m])
    <3>1. starts[j] \in Nat
      BY <1>a, <2>1, Zenon
    <3> QED BY <1>1, <3>1, Zenon
  <2>6. Round(item, starts[j], f[m]) = Read(<<xs[j + 1]>> \o SubSeq(xs, (j + 1) + 1, N), starts[N])
    <3> DEFINE it == item[starts[j]]
               r == f[m][starts[j + 1]]
    <3>1. it.is = "ok" /\ it.value = xs[j + 1] /\ it.next = starts[j + 1]
      <4>1. it = Read(xs[j + 1], starts[j + 1])
        BY <2>2, Zenon
      <4> HIDE DEF it
      <4> QED BY <4>1 DEF Read
    <3>2. r.is = "ok" /\ r.value = SubSeq(xs, (j + 1) + 1, N) /\ r.next = starts[N]
      <4> DEFINE xx == SubSeq(xs, (j + 1) + 1, N)
      <4>1. r = Read(xx, starts[N])
        BY <2>3, Zenon
      <4> HIDE DEF r, xx
      <4>2. r.is = "ok" /\ r.value = xx /\ r.next = starts[N]
        BY <4>1 DEF Read
      <4> QED BY <4>2, Zenon DEF xx
    <3>3. f[m][it.next] = r
      BY <3>1, Zenon
    <3>4. Round(item, starts[j], f[m]) = Read(<<it.value>> \o r.value, r.next)
      BY <3>1, <3>2, <3>3, Zenon DEF Round
    <3> HIDE DEF it, r
    <3> QED BY <3>1, <3>2, <3>4, Zenon
  <2>7. SubSeq(xs, j + 1, N) = <<xs[j + 1]>> \o SubSeq(xs, (j + 1) + 1, N)
    BY <2>1, SubSeqRecursiveFirst
  <2>8. f[m + 1][starts[j]] = Read(SubSeq(xs, j + 1, N), starts[N])
    BY <2>4, <2>6, <2>7, Zenon
  <2> QED BY <2>8, Zenon DEF j
<1>5. Nat \subseteq T
  <2> HIDE DEF T
  <2> QED BY <1>3, <1>4, Induct, Zenon
<1>6. f[N][starts[0]] = Read(xs, starts[N])
  <2>1. N <= N /\ N - N = 0 /\ (N - N) + 1 = 1
    OBVIOUS
  <2>2. f[N][starts[N - N]] = Read(SubSeq(xs, (N - N) + 1, N), starts[N])
    BY <1>2, <1>5, <2>1, Zenon
  <2>3. SubSeq(xs, 1, N) = xs
    BY SubSeqFull, Zenon
  <2> QED BY <2>1, <2>2, <2>3, Zenon
<1>7. starts[0] \in Nat
  BY <1>a, <1>2, Zenon
<1> QED BY <1>1, <1>2, <1>6, <1>7, Zenon

\* Before end, an item reads the value that its bytes encode.
ReadsBack(item, xs, ss, d, end) ==
  \A k \in 1 .. Len(xs), p \in Nat :
    At(d, p, ss[k]) /\ p + Len(ss[k]) <= end => item[p] = Read(xs[k], p + Len(ss[k]))

\* A loop over encoded items, one after the other in the data, returns their values.
LEMMA DecodeEncoded ==
  ASSUME NEW V, NEW item, item \in [Nat -> Results(V)], NEW xs, xs \in Seq(V),
         NEW d \in Seq(Byte), NEW o \in Nat, NEW ss, ss \in Seq(Seq(Byte)), Len(ss) = Len(xs),
         At(d, o, Joined(ss)), ReadsBack(item, xs, ss, d, o + Len(Joined(ss)))
  PROVE  Items(item, Len(xs), o) = Read(xs, o + Len(Joined(ss)))
<1> DEFINE N == Len(xs)
           Before(k) == Joined(SubSeq(ss, 1, k))
           starts == [k \in 0 .. N |-> o + Len(Before(k))]
           all == Joined(ss)
<1>0. N \in Nat /\ all \in Seq(Byte)
  <2>1. all \in Seq(Byte)
    BY JoinedConcat, Zenon
  <2> HIDE DEF all
  <2> QED BY <2>1
<1>1. \A k \in 0 .. N : Before(k) \in Seq(Byte)
  <2>1. \A k \in 0 .. N : SubSeq(ss, 1, k) \in Seq(Seq(Byte))
    OBVIOUS
  <2> QED BY <2>1, JoinedConcat, Zenon
<1>2. Before(0) = <<>> /\ Before(N) = all
  <2>1. SubSeq(ss, 1, 0) = <<>> /\ SubSeq(ss, 1, N) = ss
    BY SubSeqFull
  <2> QED BY <2>1, JoinedAppend, Zenon
<1>3. ASSUME NEW k \in 1 .. N
      PROVE  /\ At(d, starts[k - 1], ss[k]) /\ starts[k - 1] \in Nat
             /\ starts[k] = starts[k - 1] + Len(ss[k]) /\ starts[k] <= o + Len(all)
  <2> DEFINE a == Before(k - 1)
             s == ss[k]
             b == Joined(SubSeq(ss, k + 1, Len(ss)))
  <2>1. k \in 1 .. Len(ss) /\ k - 1 \in 0 .. N /\ k \in 0 .. N /\ s \in Seq(Byte)
    OBVIOUS
  <2>2. a \in Seq(Byte) /\ b \in Seq(Byte) /\ Before(k) = a \o s /\ all = (a \o s) \o b
    BY <2>1, JoinedPieces, Zenon
  <2>3. starts[k - 1] = o + Len(a) /\ starts[k] = o + Len(Before(k))
    BY <2>1, Zenon
  <2> HIDE DEF a, s, b, starts, Before, all
  <2>4. /\ Len(a) \in Nat /\ Len(s) \in Nat /\ Len(b) \in Nat /\ Len(Before(k)) = Len(a) + Len(s)
        /\ Len(all) = (Len(a) + Len(s)) + Len(b) /\ a \o s \in Seq(Byte)
    BY <2>1, <2>2
  <2>5. At(d, o, a \o s)
    <3>1. At(d, o, (a \o s) \o b)
      BY <2>2, Zenon DEF all
    <3> QED BY <2>2, <2>4, <3>1, AtConcat, Zenon
  <2>6. At(d, o + Len(a), s)
    BY <2>1, <2>2, <2>5, AtConcat
  <2>7. starts[k - 1] \in Nat /\ starts[k] = starts[k - 1] + Len(s) /\ starts[k] <= o + Len(all)
    BY <2>3, <2>4
  <2> QED BY <2>3, <2>6, <2>7, Zenon DEF s
<1>4. starts \in [0 .. N -> Nat]
  <2>1. \A k \in 0 .. N : o + Len(Before(k)) \in Nat
    <3> HIDE DEF Before
    <3> QED BY <1>1
  <2> QED BY <2>1, Zenon
<1>5. ASSUME NEW k \in 1 .. N PROVE item[starts[k - 1]] = Read(xs[k], starts[k])
  <2> HIDE DEF starts
  <2> QED BY <1>3, Zenon DEF ReadsBack
<1>6. starts[0] = o /\ starts[N] = o + Len(all)
  <2>1. 0 \in 0 .. N /\ N \in 0 .. N /\ o + Len(<<>>) = o
    BY <1>0
  <2> HIDE DEF Before
  <2> QED BY <1>2, <2>1, Zenon
<1>7. Items(item, N, starts[0]) = Read(xs, starts[N])
  <2>1. Chain(item, xs, starts)
    <3> HIDE DEF starts
    <3> QED BY <1>4, <1>5, Zenon DEF Chain
  <2> HIDE DEF starts
  <2> QED BY <2>1, ItemsRead
<1> HIDE DEF starts
<1> QED BY <1>6, <1>7, Zenon

-----------------------------------------------------------------------------
(* The decoder of a batch stays in bounds *)

\* A slice in bounds is a byte string.
LEMMA SliceType ==
  ASSUME NEW d \in Seq(Byte), NEW from \in Nat, NEW to \in Nat, InBounds(d, from, to)
  PROVE  Slice(d, from, to) \in Seq(Byte)
BY DEF InBounds, Slice

\* What the decoders return.
Metadata == [startIndex : Nat, ingestionTimeMs : Int, payload : Seq(Byte)]
QueueEntry == [sequence : Nat, location : Seq(Byte), metadata : Seq(Metadata)]

\* The sizes of the fields, as numbers.
LEMMA Sizes ==
  /\ mFooterSize = 22 /\ mMetadataHeaderSize = 16 /\ mMetadataLenSize = 4 /\ mStartIndexSize = 4
  /\ mEntryLenSize = 4 /\ mSequenceSize = 8 /\ mLocationLenSize = 2 /\ mMetadataCountSize = 4
  /\ mVersionSize = 2 /\ mEpochSize = 8
  /\ batchFooterSize = 7 /\ batchEntryLenSize = 4 /\ batchCompSize = 1 /\ batchCountSize = 4
BY DEF mFooterSize, mMetadataHeaderSize, mMetadataLenSize, mStartIndexSize, mEntryLenSize,
       mSequenceSize, mLocationLenSize, mMetadataCountSize, mVersionSize, mEpochSize, mEntriesCountSize,
       mIngestionTimeMsSize, batchFooterSize, batchEntryLenSize, batchCompSize, batchCountSize, batchVersionSize

\* The two errors are results.
LEMMA Errors ==
  ASSUME NEW V
  PROVE  Failed \in Results(V) /\ Panics \in Results(V) /\ Failed.is = "error" /\ Panics.is = "panic"
BY DEF Results, Failed, Panics

\* A round of the loop of DecodeBatch reads inside of the block.
LEMMA DecodeRecordInBounds ==
  ASSUME NEW block \in Seq(Byte), NEW o \in Nat
  PROVE  DecodeRecord(block, o) \in Results(Seq(Byte)) /\ DecodeRecord(block, o).is # "panic"
<1> DEFINE start == o + batchEntryLenSize
           n == Uint32(block, o)
           r == DecodeRecord(block, o)
<1>1. start \in Nat /\ Len(block) \in Nat /\ start = o + 4
  BY Sizes
<1>2. CASE start > Len(block)
  BY <1>2, Errors, Zenon DEF DecodeRecord
<1>3. CASE ~(start > Len(block))
  <2>1. n \in Nat
    <3>1. o + 4 <= Len(block)
      BY <1>1, <1>3
    <3> QED BY <3>1, UintType, Zenon
  <2>2. CASE ~RecordFits(start, n, block)
    BY <1>3, <2>2, Errors, Zenon DEF DecodeRecord
  <2>3. CASE RecordFits(start, n, block)
    <3> HIDE DEF n, start
    <3>1. InBounds(block, start, start + n) /\ start + n \in Nat
      BY <1>1, <2>1, <2>3 DEF RecordFits, InBounds
    <3>2. Slice(block, start, start + n) \in Seq(Byte)
      BY <1>1, <3>1, SliceType, Zenon
    <3>3. DecodeRecord(block, o) = Read(Slice(block, start, start + n), start + n)
      BY <1>3, <2>3, <3>1, Zenon DEF DecodeRecord, start, n
    <3>4. /\ Read(Slice(block, start, start + n), start + n) \in Results(Seq(Byte))
          /\ Read(Slice(block, start, start + n), start + n).is = "ok"
      BY <3>1, <3>2, ReadType, Zenon
    <3> QED BY <3>3, <3>4, Zenon
  <2> QED BY <2>2, <2>3, Zenon
<1> QED BY <1>2, <1>3, Zenon

\* A decoded record block is a byte string.
LEMMA RecordBlockType ==
  ASSUME NEW d \in Seq(Byte), NEW comp, Len(d) >= batchFooterSize
  PROVE  /\ RecordBlock(d, comp).is \in {"ok", "error"}
         /\ RecordBlock(d, comp).is = "ok" => RecordBlock(d, comp).value \in Seq(Byte)
<1> DEFINE block == Slice(d, 0, Len(d) - batchFooterSize)
<1>1. block \in Seq(Byte)
  BY Sizes DEF Slice
<1> HIDE DEF block
<1>2. ASSUME NEW b \in Seq(Byte) PROVE Ok(b).is = "ok" /\ Ok(b).value \in Seq(Byte)
  BY DEF Ok
<1>3. Failed.is = "error"
  BY DEF Failed
<1>4. block # <<>> => Tail(block) \in Seq(Byte)
  BY <1>1
<1>5. /\ DecodeAll(block).is \in {"ok", "error"}
      /\ DecodeAll(block).is = "ok" => DecodeAll(block).value \in Seq(Byte)
  <2>1. <<>> \in Seq(Byte)
    OBVIOUS
  <2> QED BY <1>2, <1>3, <1>4, <2>1, Zenon DEF DecodeAll
<1> QED BY <1>1, <1>2, <1>3, <1>5, Zenon DEF RecordBlock, block

\* Whatever the bytes, DecodeBatch returns entries or an error.
THEOREM DecodeBatchInBounds ==
  ASSUME NEW d \in Seq(Byte)
  PROVE  DecodeBatch(d).is \in {"ok", "error"}
<1> DEFINE start == Len(d) - batchFooterSize
           count == Uint32(d, start + batchCompSize)
           version == Uint16(d, (start + batchCompSize) + batchCountSize)
           block == RecordBlock(d, d[start + 1])
           item == [o \in Nat |-> DecodeRecord(block.value, o)]
           records == Items(item, count, 0)
<1>1. Failed.is = "error" /\ \A v : Ok(v).is = "ok"
  BY DEF Failed, Ok
<1>2. CASE start < 0
  BY <1>1, <1>2, Zenon DEF DecodeBatch
<1>3. CASE ~(start < 0)
  <2>1. /\ Len(d) >= batchFooterSize /\ start + batchCompSize \in Nat
        /\ (start + batchCompSize) + 4 <= Len(d) /\ 0 \in Nat
    BY <1>3, Sizes
  <2>2. count \in Nat
    BY <2>1, UintType, Zenon
  <2>3. block.is \in {"ok", "error"} /\ (block.is = "ok" => block.value \in Seq(Byte))
    BY <2>1, RecordBlockType, Zenon
  <2>4. CASE version # batchVersion
    BY <1>1, <1>3, <2>4, Zenon DEF DecodeBatch
  <2>5. CASE version = batchVersion /\ block.is # "ok"
    BY <1>3, <2>3, <2>5, Zenon DEF DecodeBatch
  <2>6. CASE version = batchVersion /\ block.is = "ok"
    <3>1. item \in [Nat -> Results(Seq(Byte))] /\ \A o \in Nat : item[o].is # "panic"
      <4> HIDE DEF block
      <4>1. \A o \in Nat : /\ DecodeRecord(block.value, o) \in Results(Seq(Byte))
                           /\ DecodeRecord(block.value, o).is # "panic"
        BY <2>3, <2>6, DecodeRecordInBounds, Zenon
      <4> QED BY <4>1, Zenon
    <3>2. records \in Results(Seq(Seq(Byte))) /\ records.is # "panic"
      <4> HIDE DEF item, count
      <4> QED BY <2>1, <2>2, <3>1, ItemsStayInBounds, Zenon
    <3>3. records.is \in {"ok", "error"}
      <4> HIDE DEF records
      <4> QED BY <3>2, ResultsFacts, Zenon
    <3>4. DecodeBatch(d) = IF records.is # "ok" THEN records ELSE Ok(records.value)
      BY <1>3, <2>6, Zenon DEF DecodeBatch
    <3> HIDE DEF records
    <3> QED BY <1>1, <3>3, <3>4, Zenon
  <2> QED BY <2>3, <2>4, <2>5, <2>6, Zenon
<1> QED BY <1>2, <1>3, Zenon

-----------------------------------------------------------------------------
(* The decoder of a manifest stays in bounds *)

\* A 64-bit value read as a signed one is an integer.
LEMMA SignedType ==
  ASSUME NEW u \in Nat
  PROVE  Signed(u) \in Int
BY ValuesType DEF Signed

\* A round of the loop over the metadata of an entry reads inside of the data.
LEMMA DecodeMetadataInBounds ==
  ASSUME NEW d \in Seq(Byte), NEW o \in Nat, NEW entryEnd \in Nat, entryEnd <= Len(d)
  PROVE  /\ decodeMetadata(d, o, entryEnd) \in Results(Metadata)
         /\ decodeMetadata(d, o, entryEnd).is # "panic"
<1> DEFINE start == o + mMetadataHeaderSize
           n == Uint32(d, start - mMetadataLenSize)
<1>1. /\ start \in Nat /\ Len(d) \in Nat /\ start = o + 16
      /\ start - mMetadataLenSize = o + 12 /\ o + 12 \in Nat
      /\ o + mStartIndexSize = o + 4 /\ o + 4 \in Nat
  BY Sizes
<1>2. CASE start > entryEnd
  BY <1>2, Errors, Zenon DEF decodeMetadata
<1>3. CASE ~(start > entryEnd)
  <2>1. /\ o + 4 <= Len(d) /\ (o + 4) + 8 <= Len(d) /\ (o + 12) + 4 <= Len(d)
        /\ InBounds(d, o, start)
    BY <1>1, <1>3 DEF InBounds
  <2>2. n \in Nat /\ Uint32(d, o) \in Nat /\ Uint64(d, o + mStartIndexSize) \in Nat
    BY <1>1, <2>1, UintType, Zenon
  <2>3. CASE ~PayloadFits(start, n, entryEnd)
    BY <1>3, <2>1, <2>3, Errors, Zenon DEF decodeMetadata
  <2>4. CASE PayloadFits(start, n, entryEnd)
    <3> DEFINE m == [startIndex |-> Uint32(d, o),
                     ingestionTimeMs |-> Signed(Uint64(d, o + mStartIndexSize)),
                     payload |-> Slice(d, start, start + n)]
    <3>1. InBounds(d, start, start + n) /\ start + n \in Nat
      <4> HIDE DEF n, start
      <4> QED BY <1>1, <2>2, <2>4 DEF PayloadFits, InBounds
    <3>2. Slice(d, start, start + n) \in Seq(Byte) /\ Signed(Uint64(d, o + mStartIndexSize)) \in Int
      BY <1>1, <2>2, <3>1, SliceType, SignedType, Zenon
    <3>3. m \in Metadata
      <4> HIDE DEF n, start
      <4> QED BY <2>2, <3>2, Zenon DEF Metadata
    <3>4. decodeMetadata(d, o, entryEnd) = Read(m, start + n)
      BY <1>3, <2>1, <2>4, <3>1, Zenon DEF decodeMetadata
    <3> HIDE DEF m
    <3>5. Read(m, start + n) \in Results(Metadata) /\ Read(m, start + n).is = "ok"
      BY <3>1, <3>3, ReadType, Zenon
    <3> QED BY <3>4, <3>5, Zenon
  <2> QED BY <2>3, <2>4, Zenon
<1> QED BY <1>2, <1>3, Zenon

\* The metadata of an entry, as a loop that stays in bounds.
LEMMA MetadataLoop ==
  ASSUME NEW d \in Seq(Byte), NEW entryEnd \in Nat, entryEnd <= Len(d)
  PROVE  /\ [o \in Nat |-> decodeMetadata(d, o, entryEnd)] \in [Nat -> Results(Metadata)]
         /\ \A o \in Nat : [p \in Nat |-> decodeMetadata(d, p, entryEnd)][o].is # "panic"
BY DecodeMetadataInBounds, Zenon

\* The sequence and the length of the location are read before the bounds of the
\* entry are looked at; the footer after the entries keeps them inside of the data.
LEMMA DecodeQueueEntryInBounds ==
  ASSUME NEW d \in Seq(Byte), NEW o \in Nat, NEW end \in Nat, end + mFooterSize = Len(d)
  PROVE  /\ decodeQueueEntry(d, o, end) \in Results(QueueEntry)
         /\ decodeQueueEntry(d, o, end).is # "panic"
<1> DEFINE start    == o + mEntryLenSize
           entryEnd == start + Uint32(d, o)
           loc      == (start + mSequenceSize) + mLocationLenSize
           locEnd   == loc + Uint16(d, start + mSequenceSize)
           first    == locEnd + mMetadataCountSize
           item     == [p \in Nat |-> decodeMetadata(d, p, entryEnd)]
           metadata == Items(item, Uint32(d, locEnd), first)
<1>1. /\ start \in Nat /\ Len(d) \in Nat /\ start = o + 4 /\ start + mSequenceSize = start + 8
      /\ start + 8 \in Nat /\ loc = start + 10 /\ loc \in Nat /\ end + 22 = Len(d)
  BY Sizes
<1>2. CASE start > end
  BY <1>2, Errors, Zenon DEF decodeQueueEntry
<1>3. CASE ~(start > end)
  <2>1. o + 4 <= Len(d) /\ InBounds(d, o, start)
    BY <1>1, <1>3 DEF InBounds
  <2>2. Uint32(d, o) \in Nat
    BY <2>1, UintType, Zenon
  <2>3. entryEnd \in Nat
    BY <1>1, <2>2
  <2>4. CASE entryEnd > end
    BY <1>3, <2>1, <2>4, Errors, Zenon DEF decodeQueueEntry
  <2>5. CASE ~(entryEnd > end)
    <3>1. /\ InBounds(d, start, loc) /\ start + 8 <= Len(d) /\ (start + 8) + 2 <= Len(d)
          /\ entryEnd <= Len(d)
      <4> HIDE DEF entryEnd, start, loc
      <4> QED BY <1>1, <1>3, <2>3, <2>5 DEF InBounds
    <3>2. Uint64(d, start) \in Nat /\ Uint16(d, start + mSequenceSize) \in Nat
      BY <1>1, <3>1, UintType, Zenon
    <3>3. locEnd \in Nat /\ locEnd >= loc /\ first = locEnd + 4 /\ first \in Nat
      <4> HIDE DEF loc
      <4> QED BY <1>1, <3>2, Sizes
    <3>4. CASE first > entryEnd
      BY <1>3, <2>1, <2>5, <3>1, <3>4, Errors, Zenon DEF decodeQueueEntry
    <3>5. CASE ~(first > entryEnd)
      <4>1. locEnd + 4 <= Len(d) /\ InBounds(d, loc, first) /\ InBounds(d, loc, locEnd)
        <5>1. loc \in Nat /\ Len(d) \in Nat /\ entryEnd <= Len(d)
          BY <1>1, <3>1, Zenon
        <5> HIDE DEF entryEnd, locEnd, first, loc
        <5>2. locEnd <= Len(d) /\ first <= Len(d) /\ loc <= first /\ locEnd + 4 = first
          BY <2>3, <3>3, <3>5, <5>1
        <5> QED BY <3>3, <5>1, <5>2 DEF InBounds
      <4>2. Uint32(d, locEnd) \in Nat /\ Slice(d, loc, locEnd) \in Seq(Byte)
        BY <1>1, <3>3, <4>1, UintType, SliceType, Zenon
      <4>3. item \in [Nat -> Results(Metadata)] /\ \A p \in Nat : item[p].is # "panic"
        BY <2>3, <3>1, MetadataLoop, Zenon
      <4>4. metadata \in Results(Seq(Metadata)) /\ metadata.is # "panic"
        <5> HIDE DEF item, first, locEnd
        <5> QED BY <3>3, <4>2, <4>3, ItemsStayInBounds, Zenon
      <4>5. CASE metadata.is # "ok"
        <5>1. decodeQueueEntry(d, o, end) = metadata
          BY <1>3, <2>1, <2>5, <3>1, <3>5, <4>1, <4>5, Zenon DEF decodeQueueEntry
        <5>2. metadata \in Results(QueueEntry)
          <6> HIDE DEF metadata
          <6> QED BY <4>4, <4>5 DEF Results
        <5> HIDE DEF metadata
        <5> QED BY <4>4, <5>1, <5>2, Zenon
      <4>6. CASE metadata.is = "ok"
        <5> DEFINE e == [sequence |-> Uint64(d, start), location |-> Slice(d, loc, locEnd),
                         metadata |-> metadata.value]
        <5>1. decodeQueueEntry(d, o, end) = Read(e, entryEnd)
          BY <1>3, <2>1, <2>5, <3>1, <3>5, <4>1, <4>6, Zenon DEF decodeQueueEntry
        <5>2. e \in QueueEntry
          <6>1. metadata.value \in Seq(Metadata)
            <7> HIDE DEF metadata
            <7> QED BY <4>4, <4>6, ResultsFacts, Zenon
          <6> HIDE DEF metadata, start, loc, locEnd
          <6> QED BY <3>2, <4>2, <6>1, Zenon DEF QueueEntry
        <5> HIDE DEF e
        <5>3. Read(e, entryEnd) \in Results(QueueEntry) /\ Read(e, entryEnd).is = "ok"
          BY <2>3, <5>2, ReadType, Zenon
        <5> QED BY <5>1, <5>3, Zenon
      <4> QED BY <4>5, <4>6, Zenon
    <3> QED BY <3>4, <3>5, Zenon
  <2> QED BY <2>4, <2>5, Zenon
<1> QED BY <1>2, <1>3, Zenon

\* Whatever the bytes, DecodeManifestEntries returns entries or an error.
THEOREM DecodeManifestInBounds ==
  ASSUME NEW d \in Seq(Byte)
  PROVE  DecodeManifestEntries(d).is \in {"ok", "error"}
<1> DEFINE end == Len(d) - mFooterSize
           count == existingEntriesCount(d)
           item == [o \in Nat |-> decodeQueueEntry(d, o, end)]
           all == Items(item, count, 0)
<1>1. Failed.is = "error" /\ \A v : Ok(v).is = "ok"
  BY DEF Failed, Ok
<1>2. CASE end < 0
  BY <1>1, <1>2, Zenon DEF DecodeManifestEntries
<1>3. CASE ~(end < 0)
  <2>1. end \in Nat /\ end + mFooterSize = Len(d) /\ end + 4 <= Len(d) /\ 0 \in Nat
    BY <1>3, Sizes
  <2>2. count \in Nat
    BY <2>1, UintType, Zenon DEF existingEntriesCount
  <2>3. item \in [Nat -> Results(QueueEntry)] /\ \A o \in Nat : item[o].is # "panic"
    <3> HIDE DEF end
    <3> QED BY <2>1, DecodeQueueEntryInBounds, Zenon
  <2>4. all \in Results(Seq(QueueEntry)) /\ all.is # "panic"
    <3> HIDE DEF item, count
    <3> QED BY <2>1, <2>2, <2>3, ItemsStayInBounds, Zenon
  <2>5. all.is \in {"ok", "error"}
    <3> HIDE DEF all
    <3> QED BY <2>4, ResultsFacts, Zenon
  <2>6. DecodeManifestEntries(d) = IF all.is # "ok" THEN all ELSE Ok(all.value)
    BY <1>3, Zenon DEF DecodeManifestEntries
  <2> HIDE DEF all
  <2> QED BY <1>1, <2>5, <2>6, Zenon
<1> QED BY <1>2, <1>3, Zenon

-----------------------------------------------------------------------------
(* The manifest reads back *)

\* Type and length of four strings one after the other.
LEMMA Concat4 ==
  ASSUME NEW X, NEW a, NEW b, NEW c, NEW e, a \in Seq(X), b \in Seq(X), c \in Seq(X), e \in Seq(X)
  PROVE  /\ ((a \o b) \o c) \o e \in Seq(X)
         /\ Len(((a \o b) \o c) \o e) = ((Len(a) + Len(b)) + Len(c)) + Len(e)
<1>1. a \o b \in Seq(X) /\ Len(a \o b) = Len(a) + Len(b)
  OBVIOUS
<1>2. (a \o b) \o c \in Seq(X) /\ Len((a \o b) \o c) = Len(a \o b) + Len(c)
  BY <1>1
<1>3. ((a \o b) \o c) \o e \in Seq(X) /\ Len(((a \o b) \o c) \o e) = Len((a \o b) \o c) + Len(e)
  BY <1>2
<1> QED BY <1>1, <1>2, <1>3, Zenon

\* Where each of four strings starts.
LEMMA At4 ==
  ASSUME NEW X, NEW d \in Seq(X), NEW o \in Nat,
         NEW a, NEW b, NEW c, NEW e, a \in Seq(X), b \in Seq(X), c \in Seq(X), e \in Seq(X),
         At(d, o, ((a \o b) \o c) \o e)
  PROVE  /\ At(d, o, a) /\ At(d, o + Len(a), b) /\ At(d, o + (Len(a) + Len(b)), c)
         /\ At(d, o + ((Len(a) + Len(b)) + Len(c)), e)
<1>1. /\ a \o b \in Seq(X) /\ (a \o b) \o c \in Seq(X) /\ Len(a \o b) = Len(a) + Len(b)
      /\ Len((a \o b) \o c) = Len(a \o b) + Len(c)
  OBVIOUS
<1>2. At(d, o, (a \o b) \o c) /\ At(d, o + Len((a \o b) \o c), e)
  BY <1>1, AtConcat, Zenon
<1>3. At(d, o, a \o b) /\ At(d, o + Len(a \o b), c)
  BY <1>1, <1>2, AtConcat, Zenon
<1>4. At(d, o, a) /\ At(d, o + Len(a), b)
  BY <1>3, AtConcat, Zenon
<1> QED BY <1>1, <1>2, <1>3, <1>4, Zenon

\* The metadata that an entry of the manifest can hold.
MetadataThatFits ==
  {m \in Metadata : m.startIndex <= MaxUint32 /\ m.ingestionTimeMs \in Int64 /\ Len(m.payload) <= MaxUint32}

\* Type and length of encoded metadata.
LEMMA EncodeMetadataType ==
  ASSUME NEW m \in Metadata
  PROVE  /\ encodeMetadata(m) \in Seq(Byte) /\ Len(encodeMetadata(m)) = 16 + Len(m.payload)
<1> DEFINE a == LE32(m.startIndex)
           b == LE64(m.ingestionTimeMs)
           c == LE32(Len(m.payload))
<1>1. m.startIndex \in Int /\ m.ingestionTimeMs \in Int /\ Len(m.payload) \in Int /\ m.payload \in Seq(Byte)
      /\ Len(m.payload) \in Nat
  BY DEF Metadata
<1>2. a \in Seq(Byte) /\ b \in Seq(Byte) /\ c \in Seq(Byte) /\ Len(a) = 4 /\ Len(b) = 8 /\ Len(c) = 4
  BY <1>1, LEType, Zenon
<1>3. encodeMetadata(m) = ((a \o b) \o c) \o m.payload
  BY Zenon DEF encodeMetadata
<1> HIDE DEF a, b, c
<1>4. /\ ((a \o b) \o c) \o m.payload \in Seq(Byte)
      /\ Len(((a \o b) \o c) \o m.payload) = ((Len(a) + Len(b)) + Len(c)) + Len(m.payload)
  <2>1. a \in Seq(Byte) /\ b \in Seq(Byte) /\ c \in Seq(Byte) /\ m.payload \in Seq(Byte)
    BY <1>1, <1>2, Zenon
  <2> QED BY <2>1, Concat4
<1>5. (Len(a) + Len(b)) + Len(c) = 16
  <2>1. (4 + 8) + 4 = 16
    OBVIOUS
  <2> QED BY <1>2, <2>1, Zenon
<1> QED BY <1>3, <1>4, <1>5, Zenon

\* What encodeQueueEntry wrote for one piece of metadata is what comes back.
LEMMA MetadataRoundTrip ==
  ASSUME NEW m \in MetadataThatFits, NEW d \in Seq(Byte), NEW p \in Nat, NEW entryEnd \in Nat,
         entryEnd <= Len(d), At(d, p, encodeMetadata(m)),
         p + Len(encodeMetadata(m)) <= entryEnd
  PROVE  decodeMetadata(d, p, entryEnd) = Read(m, p + Len(encodeMetadata(m)))
<1> DEFINE a == LE32(m.startIndex)
           b == LE64(m.ingestionTimeMs)
           c == LE32(Len(m.payload))
           start == p + mMetadataHeaderSize
           n == Uint32(d, start - mMetadataLenSize)
<1>1. /\ m \in Metadata /\ m.startIndex \in 0 .. Values32 - 1 /\ m.ingestionTimeMs \in Int64
      /\ Len(m.payload) \in 0 .. Values32 - 1 /\ m.payload \in Seq(Byte)
  BY ValuesType DEF MetadataThatFits, Metadata, MaxUint32
<1>2. m.startIndex \in Int /\ m.ingestionTimeMs \in Int /\ Len(m.payload) \in Int /\ Len(m.payload) \in Nat
  BY <1>1 DEF Metadata
<1>3. a \in Seq(Byte) /\ b \in Seq(Byte) /\ c \in Seq(Byte) /\ Len(a) = 4 /\ Len(b) = 8 /\ Len(c) = 4
  BY <1>2, LEType, Zenon
<1>4. Len(encodeMetadata(m)) = 16 + Len(m.payload)
  BY <1>1, EncodeMetadataType, Zenon
<1>5. At(d, p, a) /\ At(d, p + 4, b) /\ At(d, p + 12, c) /\ At(d, p + 16, m.payload)
  <2>1. At(d, p, ((a \o b) \o c) \o m.payload)
    BY Zenon DEF encodeMetadata
  <2> HIDE DEF a, b, c
  <2>2. /\ At(d, p, a) /\ At(d, p + Len(a), b) /\ At(d, p + (Len(a) + Len(b)), c)
        /\ At(d, p + ((Len(a) + Len(b)) + Len(c)), m.payload)
    BY <1>1, <1>3, <2>1, At4, Zenon
  <2>3. 4 + 8 = 12 /\ 12 + 4 = 16
    OBVIOUS
  <2> QED BY <1>3, <2>2, <2>3, Zenon
<1>6. /\ start = p + 16 /\ start - mMetadataLenSize = p + 12 /\ p + mStartIndexSize = p + 4
      /\ p + 12 \in Nat /\ p + 4 \in Nat /\ p + 16 \in Nat /\ start \in Nat
  BY Sizes
<1>7. /\ Values32 \in Nat \ {0}
      /\ Uint32(d, p) = m.startIndex % Values32
      /\ Uint64(d, p + 4) = m.ingestionTimeMs % Values64
      /\ Uint32(d, p + 12) = Len(m.payload) % Values32
  BY <1>2, <1>5, <1>6, UintAt, ValuesType, Zenon
<1>8. /\ Uint32(d, p) = m.startIndex /\ Signed(Uint64(d, p + 4)) = m.ingestionTimeMs
      /\ n = Len(m.payload)
  BY <1>1, <1>6, <1>7, FitsField, Zenon
<1>9. Slice(d, start, start + n) = m.payload /\ InBounds(d, start, start + n)
  <2>1. /\ Slice(d, p + 16, (p + 16) + Len(m.payload)) = m.payload
        /\ InBounds(d, p + 16, (p + 16) + Len(m.payload))
    BY <1>1, <1>5, <1>6, AtSlice, Zenon
  <2> QED BY <1>6, <1>8, <2>1, Zenon
<1>10. /\ ~(start > entryEnd) /\ InBounds(d, p, start) /\ PayloadFits(start, n, entryEnd)
       /\ start + n = p + Len(encodeMetadata(m))
  <2> DEFINE k == Len(encodeMetadata(m))
             l == Len(m.payload)
  <2>1. k = 16 + l /\ l \in Nat /\ n = l /\ p + k <= entryEnd /\ Len(d) \in Nat /\ start = p + 16
    BY <1>2, <1>4, <1>6, <1>8
  <2> HIDE DEF start, n, k, l
  <2>2. ~(start > entryEnd) /\ InBounds(d, p, start) /\ PayloadFits(start, n, entryEnd) /\ start + n = p + k
    BY <2>1 DEF InBounds, PayloadFits
  <2> QED BY <2>2, Zenon DEF k
<1>11. decodeMetadata(d, p, entryEnd)
         = Read([startIndex |-> Uint32(d, p), ingestionTimeMs |-> Signed(Uint64(d, p + mStartIndexSize)),
                 payload |-> Slice(d, start, start + n)], start + n)
  BY <1>9, <1>10, Zenon DEF decodeMetadata
<1>12. m = [startIndex |-> m.startIndex, ingestionTimeMs |-> m.ingestionTimeMs, payload |-> m.payload]
  BY <1>1, Zenon DEF Metadata
<1> HIDE DEF start, n
<1> QED BY <1>6, <1>8, <1>9, <1>10, <1>11, <1>12, Zenon

\* The entries that the manifest can hold.
EntryThatFits ==
  {e \in QueueEntry :
     /\ e.sequence < Values64 /\ Len(e.location) <= MaxUint16 /\ Len(e.metadata) <= MaxUint32
     /\ entryBodyLen(e) <= MaxUint32
     /\ \A i \in 1 .. Len(e.metadata) : e.metadata[i] \in MetadataThatFits}

\* The metadata of an entry are encoded one by one.
LEMMA EncodeAllMetadataType ==
  ASSUME NEW ms, ms \in Seq(Metadata)
  PROVE  /\ [i \in DOMAIN ms |-> encodeMetadata(ms[i])] \in Seq(Seq(Byte))
         /\ Len([i \in DOMAIN ms |-> encodeMetadata(ms[i])]) = Len(ms)
         /\ \A i \in 1 .. Len(ms) : [j \in DOMAIN ms |-> encodeMetadata(ms[j])][i] = encodeMetadata(ms[i])
         /\ encodeAllMetadata(ms) \in Seq(Byte)
<1> DEFINE f == [i \in DOMAIN ms |-> encodeMetadata(ms[i])]
<1>1. Len(ms) \in Nat /\ DOMAIN ms = 1 .. Len(ms) /\ \A i \in 1 .. Len(ms) : ms[i] \in Metadata
  OBVIOUS
<1>2. f \in [1 .. Len(ms) -> Seq(Byte)]
  BY <1>1, EncodeMetadataType, Zenon
<1>3. \A i \in 1 .. Len(ms) : f[i] = encodeMetadata(ms[i])
  BY <1>1, Zenon
<1>4. f \in Seq(Seq(Byte)) /\ Len(f) = Len(ms)
  <2> HIDE DEF f
  <2> QED BY <1>1, <1>2, FunctionSeq, Zenon
<1>5. Joined(f) \in Seq(Byte)
  <2> HIDE DEF f
  <2> QED BY <1>4, JoinedConcat, Zenon
<1> QED BY <1>3, <1>4, <1>5, Zenon DEF encodeAllMetadata

\* Type and length of an encoded entry: the body length that encodeQueueEntry
\* writes is the number of bytes that follow it.
LEMMA EncodeQueueEntryType ==
  ASSUME NEW e \in QueueEntry
  PROVE  /\ encodeQueueEntry(e) \in Seq(Byte) /\ entryBodyLen(e) \in Nat
         /\ entryBodyLen(e) = (14 + Len(e.location)) + Len(encodeAllMetadata(e.metadata))
         /\ Len(encodeQueueEntry(e)) = 4 + entryBodyLen(e)
<1> DEFINE A == LE32(entryBodyLen(e))
           B == LE64(e.sequence)
           C == LE16(Len(e.location))
           D == LE32(Len(e.metadata))
           M == encodeAllMetadata(e.metadata)
           H == ((A \o B) \o C) \o e.location
<1>1. /\ e.sequence \in Int /\ e.location \in Seq(Byte) /\ e.metadata \in Seq(Metadata)
      /\ Len(e.location) \in Nat /\ Len(e.metadata) \in Nat
  BY DEF QueueEntry
<1>2. M \in Seq(Byte) /\ Len(M) \in Nat
  <2>1. M \in Seq(Byte)
    BY <1>1, EncodeAllMetadataType, Zenon
  <2> HIDE DEF M
  <2> QED BY <2>1
<1>3. entryBodyLen(e) = (14 + Len(e.location)) + Len(M) /\ entryBodyLen(e) \in Nat
  <2> HIDE DEF M
  <2>1. entryBodyLen(e) = (((mSequenceSize + mLocationLenSize) + Len(e.location)) + mMetadataCountSize) + Len(M)
    BY Zenon DEF entryBodyLen, M
  <2> QED BY <1>1, <1>2, <2>1, Sizes
<1>4. /\ A \in Seq(Byte) /\ B \in Seq(Byte) /\ C \in Seq(Byte) /\ D \in Seq(Byte)
      /\ Len(A) = 4 /\ Len(B) = 8 /\ Len(C) = 2 /\ Len(D) = 4
  <2>1. entryBodyLen(e) \in Int /\ Len(e.location) \in Int /\ Len(e.metadata) \in Int
    BY <1>1, <1>3
  <2> QED BY <1>1, <2>1, LEType, Zenon
<1>5. encodeQueueEntry(e) = (H \o D) \o M
  BY Zenon DEF encodeQueueEntry
<1> HIDE DEF A, B, C, D, M
<1>6. H \in Seq(Byte) /\ Len(H) = ((Len(A) + Len(B)) + Len(C)) + Len(e.location)
  <2>1. A \in Seq(Byte) /\ B \in Seq(Byte) /\ C \in Seq(Byte) /\ e.location \in Seq(Byte)
    BY <1>1, <1>4, Zenon
  <2> QED BY <2>1, Concat4
<1> HIDE DEF H
<1>7. /\ H \o D \in Seq(Byte) /\ (H \o D) \o M \in Seq(Byte)
      /\ Len((H \o D) \o M) = (Len(H) + Len(D)) + Len(M)
  <2>0. H \in Seq(Byte) /\ D \in Seq(Byte)
    BY <1>4, <1>6, Zenon
  <2>1. H \o D \in Seq(Byte) /\ Len(H \o D) = Len(H) + Len(D)
    BY <2>0, ConcatLen, Zenon
  <2>2. (H \o D) \o M \in Seq(Byte) /\ Len((H \o D) \o M) = Len(H \o D) + Len(M)
    BY <1>2, <2>1
  <2> QED BY <2>1, <2>2, Zenon
<1>8. Len((H \o D) \o M) = 4 + entryBodyLen(e)
  <2> DEFINE x == Len((H \o D) \o M)
             h == Len(H)
  <2>1. x = (h + 4) + Len(M) /\ h = ((4 + 8) + 2) + Len(e.location)
    BY <1>4, <1>6, <1>7, Zenon
  <2> HIDE DEF x, h
  <2>2. x = 4 + entryBodyLen(e)
    BY <1>1, <1>2, <1>3, <2>1
  <2> QED BY <2>2, Zenon DEF x
<1> QED BY <1>3, <1>5, <1>7, <1>8, Zenon DEF M

\* The metadata of an entry come back, in order.
LEMMA AllMetadataRoundTrip ==
  ASSUME NEW ms, ms \in Seq(Metadata), \A i \in 1 .. Len(ms) : ms[i] \in MetadataThatFits,
         NEW d \in Seq(Byte), NEW p \in Nat, At(d, p, encodeAllMetadata(ms)),
         NEW entryEnd \in Nat, entryEnd <= Len(d), entryEnd = p + Len(encodeAllMetadata(ms))
  PROVE  Items([o \in Nat |-> decodeMetadata(d, o, entryEnd)], Len(ms), p) = Read(ms, entryEnd)
<1> DEFINE ss == [i \in DOMAIN ms |-> encodeMetadata(ms[i])]
           item == [o \in Nat |-> decodeMetadata(d, o, entryEnd)]
<1>1. /\ ss \in Seq(Seq(Byte)) /\ Len(ss) = Len(ms) /\ Joined(ss) = encodeAllMetadata(ms)
      /\ \A i \in 1 .. Len(ms) : ss[i] = encodeMetadata(ms[i])
  BY EncodeAllMetadataType, Zenon DEF encodeAllMetadata
<1>2. item \in [Nat -> Results(Metadata)]
  BY MetadataLoop, Zenon
<1>3. ASSUME NEW k \in 1 .. Len(ms), NEW q \in Nat, At(d, q, ss[k]),
             q + Len(ss[k]) <= p + Len(Joined(ss))
      PROVE  item[q] = Read(ms[k], q + Len(ss[k]))
  <2> HIDE DEF ss
  <2>1. ms[k] \in MetadataThatFits /\ ss[k] = encodeMetadata(ms[k])
    BY <1>1, Zenon
  <2>2. At(d, q, encodeMetadata(ms[k])) /\ q + Len(encodeMetadata(ms[k])) <= entryEnd
    BY <1>1, <1>3, <2>1, Zenon
  <2>3. decodeMetadata(d, q, entryEnd) = Read(ms[k], q + Len(encodeMetadata(ms[k])))
    BY <2>1, <2>2, MetadataRoundTrip, Zenon
  <2> QED BY <2>1, <2>3, Zenon
<1>4. At(d, p, Joined(ss))
  <2> HIDE DEF ss
  <2> QED BY <1>1, Zenon
<1> HIDE DEF ss, item
<1>5. Items(item, Len(ms), p) = Read(ms, p + Len(Joined(ss)))
  <2>1. ReadsBack(item, ms, ss, d, p + Len(Joined(ss)))
    BY <1>3, Zenon DEF ReadsBack
  <2> QED BY <1>1, <1>2, <1>4, <2>1, DecodeEncoded
<1> QED BY <1>1, <1>5, Zenon DEF item

\* What encodeQueueEntry wrote is what decodeQueueEntry returns.
LEMMA EntryRoundTrip ==
  ASSUME NEW e \in EntryThatFits, NEW d \in Seq(Byte), NEW p \in Nat,
         NEW end \in Nat, end + mFooterSize = Len(d),
         At(d, p, encodeQueueEntry(e)), p + Len(encodeQueueEntry(e)) <= end
  PROVE  decodeQueueEntry(d, p, end) = Read(e, p + Len(encodeQueueEntry(e)))
<1> DEFINE A == LE32(entryBodyLen(e))
           B == LE64(e.sequence)
           C == LE16(Len(e.location))
           D == LE32(Len(e.metadata))
           M == encodeAllMetadata(e.metadata)
           H == ((A \o B) \o C) \o e.location
           l == Len(e.location)
           start    == p + mEntryLenSize
           entryEnd == start + Uint32(d, p)
           loc      == (start + mSequenceSize) + mLocationLenSize
           locEnd   == loc + Uint16(d, start + mSequenceSize)
           first    == locEnd + mMetadataCountSize
           metadata == Items([o \in Nat |-> decodeMetadata(d, o, entryEnd)], Uint32(d, locEnd), first)
<1>1. /\ e \in QueueEntry /\ e.sequence \in 0 .. Values64 - 1 /\ e.location \in Seq(Byte)
      /\ e.metadata \in Seq(Metadata) /\ l \in Nat /\ l \in 0 .. Values16 - 1
      /\ Len(e.metadata) \in 0 .. Values32 - 1
      /\ \A i \in 1 .. Len(e.metadata) : e.metadata[i] \in MetadataThatFits
  BY ValuesType DEF EntryThatFits, QueueEntry, MaxUint16, MaxUint32
<1>2. /\ entryBodyLen(e) \in Nat /\ entryBodyLen(e) = (14 + l) + Len(M)
      /\ Len(encodeQueueEntry(e)) = 4 + entryBodyLen(e)
  BY <1>1, EncodeQueueEntryType, Zenon
<1>3. entryBodyLen(e) \in 0 .. Values32 - 1
  <2> DEFINE k == entryBodyLen(e)
  <2>1. k \in Nat /\ k <= Values32 - 1
    BY <1>2, Zenon DEF EntryThatFits, MaxUint32
  <2> HIDE DEF k
  <2>2. k \in 0 .. Values32 - 1
    BY <2>1, ValuesType
  <2> QED BY <2>2, Zenon DEF k
<1>4. M \in Seq(Byte) /\ Len(M) \in Nat
  <2>1. M \in Seq(Byte)
    BY <1>1, EncodeAllMetadataType, Zenon
  <2> HIDE DEF M
  <2> QED BY <2>1
<1>5. /\ A \in Seq(Byte) /\ B \in Seq(Byte) /\ C \in Seq(Byte) /\ D \in Seq(Byte)
      /\ Len(A) = 4 /\ Len(B) = 8 /\ Len(C) = 2 /\ Len(D) = 4
      /\ entryBodyLen(e) \in Int /\ e.sequence \in Int /\ l \in Int /\ Len(e.metadata) \in Int
  <2>1. entryBodyLen(e) \in Int /\ l \in Int /\ Len(e.metadata) \in Int /\ e.sequence \in Int
    BY <1>1, <1>2
  <2> QED BY <2>1, LEType, Zenon
<1>6. /\ At(d, p, A) /\ At(d, p + 4, B) /\ At(d, p + 12, C) /\ At(d, p + 14, e.location)
      /\ At(d, p + (14 + l), D) /\ At(d, p + (18 + l), M)
  <2>0. At(d, p, (H \o D) \o M)
    BY Zenon DEF encodeQueueEntry
  <2> HIDE DEF A, B, C, D, M
  <2>1. H \in Seq(Byte) /\ Len(H) = ((Len(A) + Len(B)) + Len(C)) + l
    <3>1. A \in Seq(Byte) /\ B \in Seq(Byte) /\ C \in Seq(Byte) /\ e.location \in Seq(Byte)
      BY <1>1, <1>5, Zenon
    <3> QED BY <3>1, Concat4
  <2>2. Len(H) = 14 + l
    BY <1>1, <1>5, <2>1
  <2>3. At(d, p, H \o D) /\ At(d, p + Len(H \o D), M) /\ Len(H \o D) = 18 + l
    <3> HIDE DEF H
    <3>1. H \in Seq(Byte) /\ D \in Seq(Byte)
      BY <1>5, <2>1, Zenon
    <3>2. H \o D \in Seq(Byte) /\ Len(H \o D) = Len(H) + Len(D)
      BY <3>1
    <3>3. At(d, p, H \o D) /\ At(d, p + Len(H \o D), M)
      BY <1>4, <2>0, <3>2, AtConcat, Zenon
    <3>4. Len(H \o D) = 18 + l
      <4>1. Len(H \o D) = (14 + l) + 4
        BY <1>5, <2>2, <3>2, Zenon
      <4>2. (14 + l) + 4 = 18 + l
        BY <1>1
      <4> QED BY <4>1, <4>2, Zenon
    <3> QED BY <3>3, <3>4, Zenon
  <2>4. At(d, p, H) /\ At(d, p + (14 + l), D)
    <3> HIDE DEF H
    <3>1. At(d, p, H) /\ At(d, p + Len(H), D)
      BY <1>5, <2>1, <2>3, AtConcat, Zenon
    <3> QED BY <2>2, <3>1, Zenon
  <2>5. /\ At(d, p, A) /\ At(d, p + Len(A), B) /\ At(d, p + (Len(A) + Len(B)), C)
        /\ At(d, p + ((Len(A) + Len(B)) + Len(C)), e.location)
    <3>1. A \in Seq(Byte) /\ B \in Seq(Byte) /\ C \in Seq(Byte)
      BY <1>5, Zenon
    <3> QED BY <1>1, <2>4, <3>1, At4, Zenon
  <2>6. 4 + 8 = 12 /\ 12 + 2 = 14
    OBVIOUS
  <2>7. At(d, p, A) /\ At(d, p + 4, B) /\ At(d, p + 12, C) /\ At(d, p + 14, e.location)
    BY <1>5, <2>5, <2>6, Zenon
  <2> QED BY <2>3, <2>4, <2>7, Zenon
<1>7. /\ start = p + 4 /\ start + mSequenceSize = p + 12 /\ loc = p + 14 /\ start \in Nat
      /\ p + 4 \in Nat /\ p + 12 \in Nat /\ p + 14 \in Nat
      /\ p + (14 + l) \in Nat /\ p + (18 + l) \in Nat /\ (p + 14) + l = p + (14 + l)
  <2>1. l \in Nat
    BY <1>1, Zenon
  <2> HIDE DEF l
  <2> QED BY <2>1, Sizes
<1>8. /\ Uint32(d, p) = entryBodyLen(e) % Values32 /\ Uint64(d, p + 4) = e.sequence % Values64
      /\ Uint16(d, p + 12) = l % Values16 /\ Uint32(d, p + (14 + l)) = Len(e.metadata) % Values32
  <2>1. entryBodyLen(e) \in Int /\ e.sequence \in Int /\ l \in Int /\ Len(e.metadata) \in Int
    BY <1>5, Zenon
  <2>2. p + 4 \in Nat /\ p + 12 \in Nat /\ p + (14 + l) \in Nat
    BY <1>7, Zenon
  <2>3. At(d, p, A) /\ At(d, p + 4, B) /\ At(d, p + 12, C) /\ At(d, p + (14 + l), D)
    BY <1>6, Zenon
  <2>4. Uint32(d, p) = entryBodyLen(e) % Values32
    BY <2>1, <2>3, UintAt, Zenon
  <2>5. Uint64(d, p + 4) = e.sequence % Values64
    BY <2>1, <2>2, <2>3, UintAt, Zenon
  <2>6. Uint16(d, p + 12) = l % Values16
    BY <2>1, <2>2, <2>3, UintAt, Zenon
  <2>7. Uint32(d, p + (14 + l)) = Len(e.metadata) % Values32
    BY <2>1, <2>2, <2>3, UintAt, Zenon
  <2> QED BY <2>4, <2>5, <2>6, <2>7, Zenon
<1>9. /\ Uint32(d, p) = entryBodyLen(e) /\ Uint64(d, start) = e.sequence
      /\ Uint16(d, start + mSequenceSize) = l /\ Uint32(d, p + (14 + l)) = Len(e.metadata)
  <2>1. Values16 \in Nat \ {0} /\ Values32 \in Nat \ {0} /\ Values64 \in Nat \ {0}
    BY ValuesType
  <2>2. /\ entryBodyLen(e) % Values32 = entryBodyLen(e) /\ e.sequence % Values64 = e.sequence
        /\ l % Values16 = l /\ Len(e.metadata) % Values32 = Len(e.metadata)
    <3>1. e.sequence \in 0 .. Values64 - 1 /\ l \in 0 .. Values16 - 1 /\ Len(e.metadata) \in 0 .. Values32 - 1
      BY <1>1, Zenon
    <3> QED BY <1>3, <2>1, <3>1, FitsField, Zenon
  <2>3. start = p + 4 /\ start + mSequenceSize = p + 12
    BY <1>7, Zenon
  <2> HIDE DEF l, start
  <2> QED BY <1>8, <2>2, <2>3, Zenon
<1>10. /\ locEnd = p + (14 + l) /\ first = p + (18 + l)
       /\ entryEnd = p + Len(encodeQueueEntry(e)) /\ entryEnd = first + Len(M)
  <2> DEFINE k == entryBodyLen(e)
             x == Len(encodeQueueEntry(e))
  <2>1. locEnd = (p + 14) + l
    BY <1>7, <1>9, Zenon
  <2>2. entryEnd = (p + 4) + k
    BY <1>7, <1>9, Zenon
  <2>3. k \in Nat /\ k = (14 + l) + Len(M) /\ x = 4 + k /\ l \in Nat /\ Len(M) \in Nat
    BY <1>1, <1>2, <1>4, Zenon
  <2> HIDE DEF entryEnd, locEnd, l, M, k, x
  <2>4. locEnd = p + (14 + l) /\ first = p + (18 + l) /\ entryEnd = p + x /\ entryEnd = first + Len(M)
    BY <2>1, <2>2, <2>3, Sizes
  <2> QED BY <2>4, Zenon DEF x
<1>11. Slice(d, loc, locEnd) = e.location
  <2>1. Slice(d, p + 14, (p + 14) + l) = e.location
    <3>1. e.location \in Seq(Byte) /\ p + 14 \in Nat /\ At(d, p + 14, e.location)
      BY <1>1, <1>6, <1>7, Zenon
    <3>2. /\ Slice(d, p + 14, (p + 14) + Len(e.location)) = e.location
          /\ InBounds(d, p + 14, (p + 14) + Len(e.location))
      BY <3>1, AtSlice, Zenon
    <3> QED BY <3>2, Zenon
  <2>2. loc = p + 14 /\ locEnd = (p + 14) + l
    BY <1>7, <1>10, Zenon
  <2> HIDE DEF loc, locEnd, l
  <2> QED BY <2>1, <2>2, Zenon
<1>12. /\ entryEnd \in Nat /\ entryEnd <= end /\ entryEnd <= Len(d) /\ start <= end
       /\ InBounds(d, p, start) /\ InBounds(d, start, loc) /\ InBounds(d, loc, first) /\ first <= entryEnd
  <2>1. entryEnd <= end
    <3>1. entryEnd = p + Len(encodeQueueEntry(e))
      BY <1>10, Zenon
    <3> HIDE DEF entryEnd
    <3> QED BY <3>1, Zenon
  <2> HIDE DEF entryEnd, locEnd, l, M, loc, start, first
  <2>2. start = p + 4 /\ loc = p + 14 /\ first = p + (18 + l) /\ entryEnd = first + Len(M)
    BY <1>7, <1>10, Zenon
  <2>3. end + 22 = Len(d) /\ Len(d) \in Nat
    BY Sizes
  <2>4. l \in Nat /\ Len(M) \in Nat
    BY <1>1, <1>4, Zenon
  <2> QED BY <2>1, <2>2, <2>3, <2>4 DEF InBounds
<1>13. metadata = Read(e.metadata, entryEnd)
  <2>1. Uint32(d, locEnd) = Len(e.metadata)
    BY <1>9, <1>10, Zenon
  <2>2. At(d, first, M) /\ first \in Nat
    BY <1>6, <1>7, <1>10, Zenon
  <2> HIDE DEF entryEnd, first, locEnd
  <2>3. Items([o \in Nat |-> decodeMetadata(d, o, entryEnd)], Len(e.metadata), first) = Read(e.metadata, entryEnd)
    <3>1. /\ e.metadata \in Seq(Metadata) /\ entryEnd \in Nat /\ entryEnd <= Len(d)
          /\ \A i \in 1 .. Len(e.metadata) : e.metadata[i] \in MetadataThatFits
          /\ entryEnd = first + Len(encodeAllMetadata(e.metadata))
      BY <1>1, <1>10, <1>12, Zenon
    <3> QED BY <2>2, <3>1, AllMetadataRoundTrip, Zenon
  <2> QED BY <2>1, <2>3, Zenon
<1>14. metadata.is = "ok" /\ metadata.value = e.metadata
  <2> HIDE DEF metadata
  <2> QED BY <1>13 DEF Read
<1>15. decodeQueueEntry(d, p, end)
         = Read([sequence |-> Uint64(d, start), location |-> Slice(d, loc, locEnd),
                 metadata |-> metadata.value], entryEnd)
  <2>1. ~(start > end) /\ ~(entryEnd > end) /\ ~(first > entryEnd)
    <3>1. start \in Nat /\ entryEnd \in Nat /\ first \in Nat
      BY <1>7, <1>10, <1>12, Zenon
    <3> HIDE DEF start, entryEnd, first
    <3> QED BY <1>12, <3>1
  <2> QED BY <1>12, <1>14, <2>1, Zenon DEF decodeQueueEntry
<1>16. e = [sequence |-> e.sequence, location |-> e.location, metadata |-> e.metadata]
  BY <1>1, Zenon DEF QueueEntry
<1> HIDE DEF metadata, start, loc, locEnd, entryEnd
<1> QED BY <1>9, <1>10, <1>11, <1>14, <1>15, <1>16, Zenon

\* Where each of two strings starts.
LEMMA AtEnds ==
  ASSUME NEW X, NEW a, NEW b, a \in Seq(X), b \in Seq(X)
  PROVE  At(a \o b, 0, a) /\ At(a \o b, Len(a), b)
BY DEF At

\* Concatenation after a slice at the front.
LEMMA SliceFront ==
  ASSUME NEW X, NEW a, NEW b, a \in Seq(X), b \in Seq(X)
  PROVE  Slice(a \o b, 0, Len(a)) = a
<1>1. At(a \o b, 0, a) /\ a \o b \in Seq(X) /\ 0 \in Nat /\ 0 + Len(a) = Len(a)
  BY AtEnds
<1>2. Slice(a \o b, 0, 0 + Len(a)) = a
  BY <1>1, AtSlice, Zenon
<1> QED BY <1>1, <1>2, Zenon

\* Type and length of the footer of a manifest.
LEMMA FooterType ==
  ASSUME NEW count \in Int, NEW next \in Int, NEW ep \in Int
  PROVE  Footer(count, next, ep) \in Seq(Byte) /\ Len(Footer(count, next, ep)) = 22
<1> DEFINE a == LE32(count)
           b == LE64(next)
           c == LE64(ep)
           v == LE16(manifestVersion)
<1>1. manifestVersion \in Int
  BY DEF manifestVersion
<1>2. /\ a \in Seq(Byte) /\ b \in Seq(Byte) /\ c \in Seq(Byte) /\ v \in Seq(Byte)
      /\ Len(a) = 4 /\ Len(b) = 8 /\ Len(c) = 8 /\ Len(v) = 2
  BY <1>1, LEType, Zenon
<1>3. Footer(count, next, ep) = ((a \o b) \o c) \o v
  BY Zenon DEF Footer
<1> HIDE DEF a, b, c, v
<1>4. ((a \o b) \o c) \o v \in Seq(Byte) /\ Len(((a \o b) \o c) \o v) = ((Len(a) + Len(b)) + Len(c)) + Len(v)
  <2>1. a \in Seq(Byte) /\ b \in Seq(Byte) /\ c \in Seq(Byte) /\ v \in Seq(Byte)
    BY <1>2, Zenon
  <2> QED BY <2>1, Concat4
<1>5. ((4 + 8) + 8) + 2 = 22
  OBVIOUS
<1> QED BY <1>2, <1>3, <1>4, <1>5, Zenon

\* d reads as the body of a manifest and its footer.
Splits(d, body, count, next, ep) ==
  /\ d \in Seq(Byte) /\ Len(d) = Len(body) + 22 /\ d # <<>> /\ At(d, 0, body)
  /\ existingEntriesCount(d) = count
  /\ manifestFromBytes(d) = Ok([epoch |-> ep, nextSequence |-> next])
  /\ Slice(d, 0, Len(d) - mFooterSize) = body

\* What toBytes wrote in the footer is what the producer and the decoder read there.
LEMMA FooterRoundTrip ==
  ASSUME NEW body \in Seq(Byte), NEW count \in 0 .. Values32 - 1,
         NEW next \in 0 .. Values64 - 1, NEW ep \in 0 .. Values64 - 1,
         NEW d, d = body \o Footer(count, next, ep)
  PROVE  Splits(d, body, count, next, ep)
<1> DEFINE L == Len(body)
           F == Footer(count, next, ep)
           a == LE32(count)
           b == LE64(next)
           c == LE64(ep)
           v == LE16(manifestVersion)
<1>1. count \in Int /\ next \in Int /\ ep \in Int /\ manifestVersion \in Int /\ L \in Nat
  BY ValuesType DEF manifestVersion
<1>2. F \in Seq(Byte) /\ Len(F) = 22
  BY <1>1, FooterType, Zenon
<1>3. d \in Seq(Byte) /\ Len(d) = L + 22 /\ d # <<>>
  <2> HIDE DEF F, L
  <2>1. d = body \o F
    BY Zenon DEF F
  <2>2. F \in Seq(Byte)
    BY <1>2, Zenon
  <2>3. body \o F \in Seq(Byte) /\ Len(body \o F) = Len(body) + Len(F)
    BY <2>2, ConcatLen, Zenon
  <2>4. d \in Seq(Byte) /\ Len(d) = L + 22
    BY <1>2, <2>1, <2>3, Zenon DEF L
  <2>5. Len(d) # 0
    BY <1>1, <2>4
  <2>6. d # <<>>
    BY <2>4, <2>5
  <2> QED BY <2>4, <2>6, Zenon
<1>4. Slice(d, 0, L) = body /\ Len(d) - mFooterSize = L
  <2>1. Slice(body \o F, 0, Len(body)) = body
    <3> HIDE DEF F
    <3> QED BY <1>2, SliceFront, Zenon
  <2>2. Slice(d, 0, L) = body
    BY <2>1, Zenon
  <2>3. Len(d) - mFooterSize = L
    <3> HIDE DEF L
    <3> QED BY <1>1, <1>3, Sizes
  <2> QED BY <2>2, <2>3, Zenon
<1>5. At(d, L, a) /\ At(d, L + 4, b) /\ At(d, L + 12, c) /\ At(d, L + 20, v)
  <2>1. /\ a \in Seq(Byte) /\ b \in Seq(Byte) /\ c \in Seq(Byte) /\ v \in Seq(Byte)
        /\ Len(a) = 4 /\ Len(b) = 8 /\ Len(c) = 8 /\ Len(v) = 2
    BY <1>1, LEType, Zenon
  <2>2. At(d, L, F)
    <3>1. F \in Seq(Byte)
      BY <1>2, Zenon
    <3> HIDE DEF F
    <3>2. At(body \o F, Len(body), F)
      BY <3>1, AtEnds, Zenon
    <3> QED BY <3>2, Zenon DEF F
  <2>3. At(d, L, ((a \o b) \o c) \o v)
    BY <2>2, Zenon DEF Footer
  <2> HIDE DEF a, b, c, v, L
  <2>4. /\ At(d, L, a) /\ At(d, L + Len(a), b) /\ At(d, L + (Len(a) + Len(b)), c)
        /\ At(d, L + ((Len(a) + Len(b)) + Len(c)), v)
    <3>1. a \in Seq(Byte) /\ b \in Seq(Byte) /\ c \in Seq(Byte) /\ v \in Seq(Byte) /\ d \in Seq(Byte) /\ L \in Nat
      BY <1>1, <1>3, <2>1, Zenon
    <3> QED BY <2>3, <3>1, At4, Zenon
  <2>5. 4 + 8 = 12 /\ 12 + 8 = 20
    OBVIOUS
  <2> QED BY <2>1, <2>4, <2>5, Zenon
<1>6. /\ Uint32(d, L) = count /\ Uint64(d, L + 4) = next /\ Uint64(d, L + 12) = ep
      /\ Uint16(d, L + 20) = manifestVersion
  <2>1. L + 4 \in Nat /\ L + 12 \in Nat /\ L + 20 \in Nat /\ L \in Nat /\ d \in Seq(Byte)
    BY <1>1, <1>3
  <2>2. Values16 \in Nat \ {0} /\ Values32 \in Nat \ {0} /\ Values64 \in Nat \ {0}
        /\ manifestVersion \in 0 .. Values16 - 1
    BY ValuesType DEF manifestVersion
  <2>3. /\ count % Values32 = count /\ next % Values64 = next /\ ep % Values64 = ep
        /\ manifestVersion % Values16 = manifestVersion
    BY <2>2, FitsField, Zenon
  <2> HIDE DEF L
  <2>4. Uint32(d, L) = count % Values32
    BY <1>1, <1>5, <2>1, UintAt, Zenon
  <2>5. Uint64(d, L + 4) = next % Values64
    BY <1>1, <1>5, <2>1, UintAt, Zenon
  <2>6. Uint64(d, L + 12) = ep % Values64
    BY <1>1, <1>5, <2>1, UintAt, Zenon
  <2>7. Uint16(d, L + 20) = manifestVersion % Values16
    BY <1>1, <1>5, <2>1, UintAt, Zenon
  <2> QED BY <2>3, <2>4, <2>5, <2>6, <2>7, Zenon
<1>7. existingEntriesCount(d) = count
  <2> HIDE DEF L
  <2> QED BY <1>4, <1>6, Zenon DEF existingEntriesCount
<1>8. manifestFromBytes(d) = Ok([epoch |-> ep, nextSequence |-> next])
  <2> HIDE DEF L
  <2>1. /\ ~(Len(d) < mFooterSize) /\ Len(d) - mVersionSize = L + 20
        /\ (Len(d) - mVersionSize) - mEpochSize = L + 12
        /\ ((Len(d) - mVersionSize) - mEpochSize) - mSequenceSize = L + 4
    BY <1>1, <1>3, Sizes
  <2> QED BY <1>6, <2>1, Zenon DEF manifestFromBytes
<1>9. At(d, 0, body)
  <2> HIDE DEF F
  <2>1. At(body \o F, 0, body)
    BY <1>2, AtEnds, Zenon
  <2> QED BY <2>1, Zenon DEF F
<1> HIDE DEF L
<1> QED BY <1>3, <1>4, <1>7, <1>8, <1>9, Zenon DEF L, Splits

\* The entries are encoded one by one.
LEMMA EncodeAllType ==
  ASSUME NEW es, es \in Seq(QueueEntry)
  PROVE  /\ [i \in DOMAIN es |-> encodeQueueEntry(es[i])] \in Seq(Seq(Byte))
         /\ Len([i \in DOMAIN es |-> encodeQueueEntry(es[i])]) = Len(es)
         /\ \A i \in 1 .. Len(es) : [j \in DOMAIN es |-> encodeQueueEntry(es[j])][i] = encodeQueueEntry(es[i])
         /\ encodeAll(es) \in Seq(Byte)
<1> DEFINE f == [i \in DOMAIN es |-> encodeQueueEntry(es[i])]
<1>1. Len(es) \in Nat /\ DOMAIN es = 1 .. Len(es) /\ \A i \in 1 .. Len(es) : es[i] \in QueueEntry
  OBVIOUS
<1>2. f \in [1 .. Len(es) -> Seq(Byte)]
  BY <1>1, EncodeQueueEntryType, Zenon
<1>3. \A i \in 1 .. Len(es) : f[i] = encodeQueueEntry(es[i])
  BY <1>1, Zenon
<1>4. f \in Seq(Seq(Byte)) /\ Len(f) = Len(es)
  <2> HIDE DEF f
  <2> QED BY <1>1, <1>2, FunctionSeq, Zenon
<1>5. Joined(f) \in Seq(Byte)
  <2> HIDE DEF f
  <2> QED BY <1>4, JoinedConcat, Zenon
<1> QED BY <1>3, <1>4, <1>5, Zenon DEF encodeAll

\* Appending the encoded entries to the old ones is encoding them together.
LEMMA EncodeAllConcat ==
  ASSUME NEW es, NEW fs, es \in Seq(QueueEntry), fs \in Seq(QueueEntry)
  PROVE  encodeAll(es \o fs) = encodeAll(es) \o encodeAll(fs)
<1> DEFINE Enc(x) == [i \in DOMAIN x |-> encodeQueueEntry(x[i])]
           gs == es \o fs
<1>1. /\ gs \in Seq(QueueEntry) /\ Len(gs) = Len(es) + Len(fs) /\ Len(es) \in Nat /\ Len(fs) \in Nat
      /\ \A i \in 1 .. Len(gs) : gs[i] = IF i <= Len(es) THEN es[i] ELSE fs[i - Len(es)]
  OBVIOUS
<1> HIDE DEF gs
<1>2. /\ Enc(gs) \in Seq(Seq(Byte)) /\ Len(Enc(gs)) = Len(gs)
      /\ \A i \in 1 .. Len(gs) : Enc(gs)[i] = encodeQueueEntry(gs[i])
  BY <1>1, EncodeAllType, Zenon
<1>3. /\ Enc(es) \in Seq(Seq(Byte)) /\ Len(Enc(es)) = Len(es)
      /\ \A i \in 1 .. Len(es) : Enc(es)[i] = encodeQueueEntry(es[i])
  BY EncodeAllType, Zenon
<1>4. /\ Enc(fs) \in Seq(Seq(Byte)) /\ Len(Enc(fs)) = Len(fs)
      /\ \A i \in 1 .. Len(fs) : Enc(fs)[i] = encodeQueueEntry(fs[i])
  BY EncodeAllType, Zenon
<1> HIDE DEF Enc
<1>5. Enc(gs) = Enc(es) \o Enc(fs)
  <2> DEFINE ab == Enc(es) \o Enc(fs)
  <2>1. /\ ab \in Seq(Seq(Byte)) /\ Len(ab) = Len(gs)
        /\ \A i \in 1 .. Len(gs) : ab[i] = IF i <= Len(es) THEN Enc(es)[i] ELSE Enc(fs)[i - Len(es)]
    <3>1. /\ ab \in Seq(Seq(Byte)) /\ Len(ab) = Len(Enc(es)) + Len(Enc(fs))
          /\ \A i \in 1 .. Len(Enc(es)) + Len(Enc(fs)) :
               ab[i] = IF i <= Len(Enc(es)) THEN Enc(es)[i] ELSE Enc(fs)[i - Len(Enc(es))]
      <4>1. Enc(es) \in Seq(Seq(Byte)) /\ Enc(fs) \in Seq(Seq(Byte))
        BY <1>3, <1>4, Zenon
      <4> QED BY <4>1, ConcatProperties
    <3>2. Len(Enc(es)) = Len(es) /\ Len(Enc(fs)) = Len(fs) /\ Len(gs) = Len(es) + Len(fs)
      BY <1>1, <1>3, <1>4, Zenon
    <3> HIDE DEF ab
    <3> QED BY <3>1, <3>2, Zenon
  <2> HIDE DEF ab
  <2>2. ASSUME NEW i \in 1 .. Len(gs) PROVE Enc(gs)[i] = ab[i]
    <3>1. CASE i <= Len(es)
      <4>1. i \in 1 .. Len(es)
        BY <1>1, <3>1
      <4> QED BY <1>1, <1>2, <1>3, <2>1, <3>1, <4>1, Zenon
    <3>2. CASE ~(i <= Len(es))
      <4>1. i - Len(es) \in 1 .. Len(fs)
        BY <1>1, <3>2
      <4>2. Enc(gs)[i] = encodeQueueEntry(fs[i - Len(es)])
        BY <1>1, <1>2, <3>2, Zenon
      <4>3. ab[i] = Enc(fs)[i - Len(es)]
        BY <2>1, <3>2, Zenon
      <4> QED BY <1>4, <4>1, <4>2, <4>3, Zenon
    <3> QED BY <3>1, <3>2, Zenon
  <2>3. Enc(gs) = ab
    BY <1>2, <2>1, <2>2, SeqEqual
  <2> QED BY <2>3, Zenon DEF ab
<1>6. Joined(Enc(es) \o Enc(fs)) = Joined(Enc(es)) \o Joined(Enc(fs))
  BY <1>3, <1>4, JoinedConcat, Zenon
<1> QED BY <1>5, <1>6, Zenon DEF encodeAll, Enc, gs

\* The loop over the entries of a manifest returns what was encoded there.
LEMMA EntriesRoundTrip ==
  ASSUME NEW es, es \in Seq(EntryThatFits), NEW d, d \in Seq(Byte), At(d, 0, encodeAll(es)),
         NEW end \in Nat, end + mFooterSize = Len(d), end = Len(encodeAll(es))
  PROVE  Items([o \in Nat |-> decodeQueueEntry(d, o, end)], Len(es), 0) = Read(es, end)
<1> DEFINE ss == [i \in DOMAIN es |-> encodeQueueEntry(es[i])]
           item == [o \in Nat |-> decodeQueueEntry(d, o, end)]
<1>1. es \in Seq(QueueEntry)
  <2>1. EntryThatFits \subseteq QueueEntry
    BY Zenon DEF EntryThatFits
  <2> QED BY <2>1, SeqMonotonic, Zenon
<1>2. /\ ss \in Seq(Seq(Byte)) /\ Len(ss) = Len(es) /\ Joined(ss) = encodeAll(es)
      /\ \A i \in 1 .. Len(es) : ss[i] = encodeQueueEntry(es[i])
  BY <1>1, EncodeAllType, Zenon DEF encodeAll
<1>3. 0 \in Nat /\ 0 + end = end
  OBVIOUS
<1>4. item \in [Nat -> Results(QueueEntry)]
  <2>1. \A o \in Nat : decodeQueueEntry(d, o, end) \in Results(QueueEntry)
    BY DecodeQueueEntryInBounds, Zenon
  <2> QED BY <2>1, Zenon
<1>5. ReadsBack(item, es, ss, d, 0 + Len(Joined(ss)))
  <2> HIDE DEF ss
  <2> SUFFICES ASSUME NEW k \in 1 .. Len(es), NEW q \in Nat, At(d, q, ss[k]),
                      q + Len(ss[k]) <= 0 + Len(Joined(ss))
               PROVE  item[q] = Read(es[k], q + Len(ss[k]))
    BY Zenon DEF ReadsBack
  <2>1. es[k] \in EntryThatFits /\ ss[k] = encodeQueueEntry(es[k])
    BY <1>2, ElementOfSeq, Zenon
  <2>2. At(d, q, encodeQueueEntry(es[k])) /\ q + Len(encodeQueueEntry(es[k])) <= end
    BY <1>2, <1>3, <2>1, Zenon
  <2>3. decodeQueueEntry(d, q, end) = Read(es[k], q + Len(encodeQueueEntry(es[k])))
    BY <2>1, <2>2, EntryRoundTrip, Zenon
  <2> QED BY <2>1, <2>3, Zenon
<1>6. Items(item, Len(es), 0) = Read(es, 0 + Len(Joined(ss)))
  <2> HIDE DEF ss, item
  <2>1. At(d, 0, Joined(ss))
    BY <1>2, Zenon
  <2> QED BY <1>1, <1>2, <1>3, <1>4, <1>5, <2>1, DecodeEncoded
<1> HIDE DEF ss
<1> QED BY <1>2, <1>3, <1>6, Zenon

\* DecodeManifestEntries returns the entries that were encoded before a footer
\* with their count.
THEOREM ManifestRoundTrip ==
  ASSUME NEW es, es \in Seq(EntryThatFits), Len(es) <= MaxUint32,
         NEW next \in 0 .. Values64 - 1, NEW ep \in 0 .. Values64 - 1,
         NEW d, d = encodeAll(es) \o Footer(Len(es), next, ep)
  PROVE  DecodeManifestEntries(d) = Ok(es) /\ Splits(d, encodeAll(es), Len(es), next, ep)
<1> DEFINE end == Len(d) - mFooterSize
           body == encodeAll(es)
<1>1. Len(es) \in 0 .. Values32 - 1
  BY ValuesType DEF MaxUint32
<1>2. body \in Seq(Byte)
  <2>1. EntryThatFits \subseteq QueueEntry
    BY Zenon DEF EntryThatFits
  <2>2. es \in Seq(QueueEntry)
    BY <2>1, SeqMonotonic, Zenon
  <2> QED BY <2>2, EncodeAllType, Zenon
<1>3. Splits(d, body, Len(es), next, ep)
  <2> HIDE DEF body
  <2>1. d = body \o Footer(Len(es), next, ep)
    BY Zenon DEF body
  <2> QED BY <1>1, <1>2, <2>1, FooterRoundTrip, Zenon
<1>4. /\ d \in Seq(Byte) /\ At(d, 0, body) /\ existingEntriesCount(d) = Len(es)
      /\ Len(d) = Len(body) + 22
  BY <1>3, Zenon DEF Splits
<1>5. end \in Nat /\ end + mFooterSize = Len(d) /\ end = Len(body) /\ ~(end < 0)
  <2> DEFINE x == Len(d)
             y == Len(body)
  <2>1. y \in Nat
    <3> HIDE DEF body
    <3> QED BY <1>2
  <2>2. x = y + 22
    BY <1>4, Zenon
  <2> HIDE DEF x, y
  <2>3. x - mFooterSize \in Nat /\ (x - mFooterSize) + mFooterSize = x /\ x - mFooterSize = y
        /\ ~(x - mFooterSize < 0)
    BY <2>1, <2>2, Sizes
  <2> QED BY <2>3, Zenon DEF x, y
<1>6. Items([o \in Nat |-> decodeQueueEntry(d, o, end)], Len(es), 0) = Read(es, end)
  <2> HIDE DEF end
  <2> QED BY <1>4, <1>5, EntriesRoundTrip, Zenon
<1>7. DecodeManifestEntries(d) = Ok(es)
  <2> DEFINE all == Items([o \in Nat |-> decodeQueueEntry(d, o, end)], existingEntriesCount(d), 0)
  <2>1. all = Read(es, end)
    BY <1>4, <1>6, Zenon
  <2>2. DecodeManifestEntries(d) = IF all.is # "ok" THEN all ELSE Ok(all.value)
    BY <1>5, Zenon DEF DecodeManifestEntries
  <2> HIDE DEF all, end
  <2>3. all.is = "ok" /\ all.value = es
    BY <2>1 DEF Read
  <2> QED BY <2>2, <2>3, Zenon
<1> QED BY <1>3, <1>7, Zenon

-----------------------------------------------------------------------------
(* The batch reads back *)

\* Type and length of a record.
LEMMA RecordType ==
  ASSUME NEW e \in Seq(Byte)
  PROVE  Record(e) \in Seq(Byte) /\ Len(Record(e)) = 4 + Len(e)
<1>1. Len(e) \in Int
  OBVIOUS
<1>2. LE32(Len(e)) \in Seq(Byte) /\ Len(LE32(Len(e))) = 4
  BY <1>1, LEType, Zenon
<1>3. LE32(Len(e)) \o e \in Seq(Byte) /\ Len(LE32(Len(e)) \o e) = Len(LE32(Len(e))) + Len(e)
  <2>1. LE32(Len(e)) \in Seq(Byte)
    BY <1>2, Zenon
  <2> QED BY <2>1, ConcatLen, Zenon
<1> QED BY <1>2, <1>3, Zenon DEF Record

\* The entries of a batch are encoded one by one.
LEMMA RecordsType ==
  ASSUME NEW es, es \in Seq(Seq(Byte))
  PROVE  /\ [i \in DOMAIN es |-> Record(es[i])] \in Seq(Seq(Byte))
         /\ Len([i \in DOMAIN es |-> Record(es[i])]) = Len(es)
         /\ \A i \in 1 .. Len(es) : [j \in DOMAIN es |-> Record(es[j])][i] = Record(es[i])
         /\ Records(es) \in Seq(Byte)
<1> DEFINE f == [i \in DOMAIN es |-> Record(es[i])]
<1>1. Len(es) \in Nat /\ DOMAIN es = 1 .. Len(es) /\ \A i \in 1 .. Len(es) : es[i] \in Seq(Byte)
  OBVIOUS
<1>2. f \in [1 .. Len(es) -> Seq(Byte)]
  BY <1>1, RecordType, Zenon
<1>3. \A i \in 1 .. Len(es) : f[i] = Record(es[i])
  BY <1>1, Zenon
<1>4. f \in Seq(Seq(Byte)) /\ Len(f) = Len(es)
  <2> HIDE DEF f
  <2> QED BY <1>1, <1>2, FunctionSeq, Zenon
<1>5. Joined(f) \in Seq(Byte)
  <2> HIDE DEF f
  <2> QED BY <1>4, JoinedConcat, Zenon
<1> QED BY <1>3, <1>4, <1>5, Zenon DEF Records

\* What EncodeBatch wrote for one entry is what comes back.
LEMMA RecordRoundTrip ==
  ASSUME NEW e \in Seq(Byte), Len(e) <= MaxUint32, NEW block \in Seq(Byte), NEW p \in Nat,
         At(block, p, Record(e)), p + Len(Record(e)) <= Len(block)
  PROVE  DecodeRecord(block, p) = Read(e, p + Len(Record(e)))
<1> DEFINE start == p + batchEntryLenSize
           n == Uint32(block, p)
<1>1. Len(e) \in Int /\ Len(e) \in Nat /\ Len(e) \in 0 .. Values32 - 1 /\ Values32 \in Nat \ {0}
  BY ValuesType DEF MaxUint32
<1>2. LE32(Len(e)) \in Seq(Byte) /\ Len(LE32(Len(e))) = 4
  BY <1>1, LEType, Zenon
<1>3. At(block, p, LE32(Len(e))) /\ At(block, p + 4, e)
  <2>1. At(block, p, LE32(Len(e)) \o e)
    BY Zenon DEF Record
  <2>2. At(block, p, LE32(Len(e))) /\ At(block, p + Len(LE32(Len(e))), e)
    <3> DEFINE a == LE32(Len(e))
    <3>1. a \in Seq(Byte) /\ At(block, p, a \o e)
      BY <1>2, <2>1, Zenon
    <3> HIDE DEF a
    <3>2. At(block, p, a) /\ At(block, p + Len(a), e)
      BY <3>1, AtConcat
    <3> QED BY <3>2, Zenon DEF a
  <2> QED BY <1>2, <2>2, Zenon
<1>4. n = Len(e)
  <2>1. n = Len(e) % Values32
    BY <1>1, <1>3, UintAt, Zenon
  <2>2. Len(e) % Values32 = Len(e)
    BY <1>1, FitsField, Zenon
  <2> QED BY <2>1, <2>2, Zenon
<1>5. start = p + 4 /\ p + 4 \in Nat /\ start + n = p + Len(Record(e)) /\ ~(start > Len(block))
      /\ RecordFits(start, n, block)
  <2> DEFINE x == Len(Record(e))
  <2>1. x = 4 + Len(e) /\ p + x <= Len(block) /\ Len(block) \in Nat
    BY RecordType
  <2> HIDE DEF x, n
  <2>2. start = p + 4 /\ p + 4 \in Nat /\ start + n = p + x /\ ~(start > Len(block))
        /\ RecordFits(start, n, block)
    BY <1>1, <1>4, <2>1, Sizes DEF RecordFits
  <2> QED BY <2>2, Zenon DEF x
<1>6. Slice(block, start, start + n) = e /\ InBounds(block, start, start + n)
  <2>1. Slice(block, p + 4, (p + 4) + Len(e)) = e /\ InBounds(block, p + 4, (p + 4) + Len(e))
    BY <1>3, <1>5, AtSlice
  <2> HIDE DEF start, n
  <2> QED BY <1>4, <1>5, <2>1, Zenon
<1>7. DecodeRecord(block, p) = Read(Slice(block, start, start + n), start + n)
  BY <1>5, <1>6, Zenon DEF DecodeRecord
<1> HIDE DEF start, n
<1> QED BY <1>5, <1>6, <1>7, Zenon

\* A sequence after one element.
LEMMA Prepend ==
  ASSUME NEW S, NEW m, NEW b, m \in Seq(S), b \in Seq(S), Len(m) = 1
  PROVE  m \o b \in Seq(S) /\ m \o b # <<>> /\ (m \o b)[1] = m[1] /\ Tail(m \o b) = b
<1>1. m \o b \in Seq(S) /\ Len(m \o b) = Len(m) + Len(b)
  BY ConcatLen, Zenon
<1>0. At(m \o b, 0, m) /\ At(m \o b, Len(m), b)
  BY AtEnds, Zenon
<1>2. Len(b) \in Nat /\ \A i \in 1 .. Len(b) : (m \o b)[1 + i] = b[i]
  <2>1. Len(b) \in Nat
    BY ElementOfSeq
  <2>2. \A i \in 1 .. Len(b) : (m \o b)[Len(m) + i] = b[i]
    BY <1>0, Zenon DEF At
  <2> QED BY <2>1, <2>2, Zenon
<1>3. (m \o b)[1] = m[1]
  <2>1. \A i \in 1 .. Len(m) : (m \o b)[0 + i] = m[i]
    BY <1>0, Zenon DEF At
  <2>2. 1 \in 1 .. Len(m) /\ 0 + 1 = 1
    OBVIOUS
  <2>3. (m \o b)[0 + 1] = m[1]
    BY <2>1, <2>2, Zenon
  <2> QED BY <2>2, <2>3, Zenon
<1>4. m \o b # <<>>
  BY <1>1, <1>2
<1>5. Tail(m \o b) \in Seq(S) /\ Len(Tail(m \o b)) = Len(b)
      /\ \A i \in 1 .. Len(b) : Tail(m \o b)[i] = b[i]
  <2> DEFINE c == m \o b
  <2>1. c \in Seq(S) /\ Len(c) = 1 + Len(b) /\ \A i \in 1 .. Len(b) : c[1 + i] = b[i]
    BY <1>1, <1>2, Zenon
  <2> HIDE DEF c
  <2>2. c # <<>>
    BY <1>2, <2>1
  <2>3. Tail(c) \in Seq(S) /\ Len(Tail(c)) = Len(c) - 1
        /\ \A i \in 1 .. Len(Tail(c)) : Tail(c)[i] = c[i + 1]
    BY <2>1, <2>2, HeadTailProperties
  <2>4. Tail(c) \in Seq(S) /\ Len(Tail(c)) = Len(b) /\ \A i \in 1 .. Len(b) : Tail(c)[i] = b[i]
    BY <1>2, <2>1, <2>3
  <2> QED BY <2>4, Zenon DEF c
<1>6. Tail(m \o b) = b
  <2> DEFINE t == Tail(m \o b)
  <2>1. t \in Seq(S) /\ Len(t) = Len(b) /\ \A i \in 1 .. Len(t) : t[i] = b[i]
    BY <1>5, Zenon
  <2> HIDE DEF t
  <2>2. t = b
    BY <2>1, SeqEqual
  <2> QED BY <2>2, Zenon DEF t
<1> QED BY <1>1, <1>3, <1>4, <1>6, Zenon

\* DecodeAll undoes EncodeAll.
LEMMA Lossless ==
  ASSUME NEW block \in Seq(Byte)
  PROVE  EncodeAll(block) \in Seq(Byte) /\ DecodeAll(EncodeAll(block)) = Ok(block)
<1>1. CASE block = <<>>
  BY <1>1, Zenon DEF EncodeAll, DecodeAll
<1>2. CASE block # <<>>
  <2> DEFINE z == <<Magic>> \o block
  <2>1. EncodeAll(block) = z
    BY <1>2, Zenon DEF EncodeAll
  <2>2. Magic \in Byte
    BY BaseAssumption DEF Magic, Byte
  <2>3. z \in Seq(Byte) /\ z # <<>> /\ z[1] = Magic /\ Tail(z) = block
    <3> DEFINE m == <<Magic>>
    <3>1. m \in Seq(Byte) /\ Len(m) = 1 /\ m[1] = Magic
      BY <2>2
    <3> HIDE DEF m
    <3>2. m \o block \in Seq(Byte) /\ m \o block # <<>> /\ (m \o block)[1] = m[1] /\ Tail(m \o block) = block
      BY <3>1, Prepend
    <3> QED BY <3>1, <3>2, Zenon DEF m
  <2> HIDE DEF z
  <2>4. DecodeAll(z) = Ok(block)
    BY <2>3, Zenon DEF DecodeAll
  <2> QED BY <2>1, <2>3, <2>4, Zenon
<1> QED BY <1>1, <1>2, Zenon

\* d reads as the record block of a batch and its footer.
BatchSplits(d, block, count, comp) ==
  /\ d \in Seq(Byte) /\ Len(d) = Len(block) + 7
  /\ Uint32(d, Len(block) + 1) = count /\ Uint16(d, (Len(block) + 1) + 4) = 1
  /\ d[Len(block) + 1] = comp /\ Slice(d, 0, Len(block)) = block

\* The footer of a batch, read back.
LEMMA BatchFooterRoundTrip ==
  ASSUME NEW block \in Seq(Byte), NEW es, Len(es) \in 0 .. Values32 - 1, NEW comp \in {0, 1},
         NEW d, d = block \o BatchFooter(es, comp)
  PROVE  BatchSplits(d, block, Len(es), comp)
<1> DEFINE L == Len(block)
           F == BatchFooter(es, comp)
           a == <<comp>>
           b == LE32(Len(es))
           c == LE16(batchVersion)
<1>1. L \in Nat /\ Len(es) \in Int /\ batchVersion \in Int /\ comp \in Byte
  BY BaseAssumption, ValuesType DEF batchVersion, Byte
<1>2. /\ a \in Seq(Byte) /\ b \in Seq(Byte) /\ c \in Seq(Byte)
  <2>1. a \in Seq(Byte)
    BY <1>1
  <2> QED BY <1>1, <2>1, LEType, Zenon
<1>3. Len(a) = 1 /\ Len(b) = 4 /\ Len(c) = 2 /\ a[1] = comp
  <2>1. Len(a) = 1 /\ a[1] = comp
    OBVIOUS
  <2> QED BY <1>1, <2>1, LEType, Zenon
<1>4. F = (a \o b) \o c
  BY Zenon DEF BatchFooter
<1> HIDE DEF a, b, c
<1>5. a \o b \in Seq(Byte) /\ (a \o b) \o c \in Seq(Byte) /\ Len(a \o b) = Len(a) + Len(b)
      /\ Len((a \o b) \o c) = Len(a \o b) + Len(c)
  BY <1>2
<1>6. F \in Seq(Byte) /\ Len(F) = 7
  <2>1. (1 + 4) + 2 = 7
    OBVIOUS
  <2> QED BY <1>3, <1>4, <1>5, <2>1, Zenon
<1>7. d \in Seq(Byte) /\ Len(d) = L + 7 /\ At(d, 0, block) /\ At(d, L, F) /\ Slice(d, 0, L) = block
  <2> HIDE DEF F
  <2>1. F \in Seq(Byte)
    BY <1>6, Zenon
  <2>2. block \o F \in Seq(Byte) /\ Len(block \o F) = L + Len(F)
    BY <2>1, ConcatLen, Zenon
  <2>3. At(block \o F, 0, block) /\ At(block \o F, L, F)
    BY <2>1, AtEnds, Zenon
  <2>4. Slice(block \o F, 0, L) = block
    BY <2>1, SliceFront, Zenon
  <2> QED BY <1>6, <2>2, <2>3, <2>4, Zenon DEF F
<1> HIDE DEF L, F
<1>8. At(d, L, (a \o b) \o c)
  BY <1>4, <1>7, Zenon
<1>9. At(d, L, a \o b) /\ At(d, L + Len(a \o b), c)
  BY <1>1, <1>2, <1>5, <1>7, <1>8, AtConcat, Zenon
<1>10. At(d, L, a) /\ At(d, L + Len(a), b)
  BY <1>1, <1>2, <1>7, <1>9, AtConcat, Zenon
<1>11. At(d, L + 1, b) /\ At(d, (L + 1) + 4, c) /\ L + 1 \in Nat /\ (L + 1) + 4 \in Nat
  <2>1. L + 1 \in Nat /\ (L + 1) + 4 \in Nat /\ L + (1 + 4) = (L + 1) + 4
    BY <1>1
  <2> QED BY <1>3, <1>5, <1>9, <1>10, <2>1, Zenon
<1>12. Uint32(d, L + 1) = Len(es)
  <2>1. Uint32(d, L + 1) = Len(es) % Values32
    BY <1>1, <1>7, <1>11, UintAt, Zenon DEF b
  <2>2. Len(es) % Values32 = Len(es)
    <3>1. Values32 \in Nat \ {0}
      BY ValuesType
    <3> QED BY <3>1, FitsField, Zenon
  <2> QED BY <2>1, <2>2, Zenon
<1>13. Uint16(d, (L + 1) + 4) = 1
  <2>1. Uint16(d, (L + 1) + 4) = batchVersion % Values16
    BY <1>1, <1>7, <1>11, UintAt, Zenon DEF c
  <2>2. batchVersion % Values16 = 1
    <3>1. Values16 \in Nat \ {0} /\ 1 \in 0 .. Values16 - 1
      BY ValuesType
    <3>2. 1 % Values16 = 1
      BY <3>1, FitsField, Zenon
    <3> QED BY <3>2, Zenon DEF batchVersion
  <2> QED BY <2>1, <2>2, Zenon
<1>14. d[L + 1] = comp
  <2>1. \A i \in 1 .. Len(a) : d[L + i] = a[i]
    BY <1>10, Zenon DEF At
  <2>2. 1 \in 1 .. Len(a)
    BY <1>3
  <2> QED BY <1>3, <2>1, <2>2, Zenon
<1> QED BY <1>7, <1>12, <1>13, <1>14, Zenon DEF L, BatchSplits

\* The loop over the records of a block returns what was encoded there.
LEMMA RecordLoopRoundTrip ==
  ASSUME NEW es, es \in Seq(Seq(Byte)), \A i \in DOMAIN es : Len(es[i]) <= MaxUint32
  PROVE  Items([o \in Nat |-> DecodeRecord(Records(es), o)], Len(es), 0) = Read(es, Len(Records(es)))
<1> DEFINE ss == [i \in DOMAIN es |-> Record(es[i])]
           block == Records(es)
           item == [o \in Nat |-> DecodeRecord(block, o)]
<1>1. DOMAIN es = 1 .. Len(es) /\ \A i \in 1 .. Len(es) : es[i] \in Seq(Byte)
  OBVIOUS
<1>2. /\ ss \in Seq(Seq(Byte)) /\ Len(ss) = Len(es) /\ Joined(ss) = block /\ block \in Seq(Byte)
      /\ \A i \in 1 .. Len(es) : ss[i] = Record(es[i])
  BY RecordsType, Zenon DEF Records
<1>3. 0 \in Nat /\ 0 + Len(block) = Len(block) /\ At(block, 0, block)
  <2> HIDE DEF block
  <2> QED BY <1>2 DEF At
<1>4. item \in [Nat -> Results(Seq(Byte))]
  <2>1. \A o \in Nat : DecodeRecord(block, o) \in Results(Seq(Byte))
    BY <1>2, DecodeRecordInBounds, Zenon
  <2> QED BY <2>1, Zenon
<1> HIDE DEF ss, block
<1>5. ReadsBack(item, es, ss, block, 0 + Len(Joined(ss)))
  <2> SUFFICES ASSUME NEW k \in 1 .. Len(es), NEW q \in Nat, At(block, q, ss[k]),
                      q + Len(ss[k]) <= 0 + Len(Joined(ss))
               PROVE  item[q] = Read(es[k], q + Len(ss[k]))
    BY Zenon DEF ReadsBack
  <2>1. es[k] \in Seq(Byte) /\ Len(es[k]) <= MaxUint32 /\ ss[k] = Record(es[k])
    BY <1>1, <1>2, Zenon
  <2>2. At(block, q, Record(es[k])) /\ q + Len(Record(es[k])) <= Len(block)
    BY <1>2, <1>3, <2>1, Zenon
  <2>3. DecodeRecord(block, q) = Read(es[k], q + Len(Record(es[k])))
    BY <1>2, <2>1, <2>2, RecordRoundTrip, Zenon
  <2> QED BY <2>1, <2>3, Zenon
<1>6. Items(item, Len(es), 0) = Read(es, 0 + Len(Joined(ss)))
  <2> HIDE DEF item
  <2>1. At(block, 0, Joined(ss))
    BY <1>2, <1>3, Zenon
  <2> QED BY <1>2, <1>3, <1>4, <1>5, <2>1, DecodeEncoded
<1> QED BY <1>2, <1>3, <1>6, Zenon DEF block

\* DecodeBatch returns the entries that EncodeBatch was given, compressed or not.
THEOREM BatchRoundTrip ==
  ASSUME NEW es, es \in Seq(Seq(Byte)), Len(es) <= MaxUint32, NEW comp \in Nat,
         EncodeBatch(es, comp).is = "ok"
  PROVE  /\ EncodeBatch(es, comp).value \in Seq(Byte)
         /\ DecodeBatch(EncodeBatch(es, comp).value) = Ok(es)
<1> DEFINE block == IF comp = 0 THEN Records(es) ELSE EncodeAll(Records(es))
           d == block \o BatchFooter(es, comp)
<1>1. Failed.is # "ok"
  BY DEF Failed
<1>2. comp \in {0, 1} /\ EncodeBatch(es, comp) = Ok(d) /\ \A i \in DOMAIN es : ~(Len(es[i]) > MaxUint32)
  <2>1. 1 # 0
    OBVIOUS
  <2> QED BY <1>1, <2>1, Zenon DEF EncodeBatch, CompressionNone, CompressionZstd
<1>3. EncodeBatch(es, comp).value = d
  <2> HIDE DEF d
  <2> QED BY <1>2 DEF Ok
<1>4. \A i \in DOMAIN es : Len(es[i]) <= MaxUint32
  <2>1. MaxUint32 \in Int /\ \A i \in DOMAIN es : Len(es[i]) \in Int
    BY ValuesType DEF MaxUint32
  <2> HIDE DEF d
  <2> QED BY <1>2, <2>1
<1>5. Records(es) \in Seq(Byte)
  BY RecordsType, Zenon
<1>6. block \in Seq(Byte)
  BY <1>5, Lossless, Zenon
<1>7. Len(es) \in 0 .. Values32 - 1
  BY ValuesType DEF MaxUint32
<1> HIDE DEF block
<1>8. /\ d \in Seq(Byte) /\ Len(d) = Len(block) + 7
      /\ Uint32(d, Len(block) + 1) = Len(es) /\ Uint16(d, (Len(block) + 1) + 4) = 1
      /\ d[Len(block) + 1] = comp /\ Slice(d, 0, Len(block)) = block
  <2>1. BatchSplits(d, block, Len(es), comp)
    BY <1>2, <1>6, <1>7, BatchFooterRoundTrip, Zenon
  <2> QED BY <2>1, Zenon DEF BatchSplits
<1> HIDE DEF d
<1>9. Len(d) - batchFooterSize = Len(block) /\ ~(Len(block) < 0) /\ batchCompSize = 1
      /\ batchCountSize = 4 /\ batchVersion = 1
  <2> DEFINE x == Len(d)
             y == Len(block)
  <2>1. x = y + 7 /\ y \in Nat
    BY <1>6, <1>8
  <2> HIDE DEF x, y
  <2>2. x - batchFooterSize = y /\ ~(y < 0)
    BY <2>1, Sizes
  <2> QED BY <2>2, Zenon DEF x, y, batchCompSize, batchCountSize, batchVersion
<1>10. RecordBlock(d, comp) = Ok(Records(es))
  <2>1. CASE comp = 0
    BY <1>8, <1>9, <2>1, Zenon DEF RecordBlock, block, CompressionNone
  <2>2. CASE comp = 1
    <3>1. comp # 0
      BY <2>2
    <3>2. block = EncodeAll(Records(es))
      BY <3>1, Zenon DEF block
    <3>3. RecordBlock(d, comp) = DecodeAll(block)
      BY <1>8, <1>9, <2>2, <3>1, Zenon DEF RecordBlock, CompressionNone, CompressionZstd
    <3> QED BY <1>5, <3>2, <3>3, Lossless, Zenon
  <2> QED BY <1>2, <2>1, <2>2, Zenon
<1>11. DecodeBatch(d) = Ok(es)
  <2> DEFINE b == RecordBlock(d, comp)
             r == Items([o \in Nat |-> DecodeRecord(b.value, o)], Len(es), 0)
  <2>1. DecodeBatch(d) = IF b.is # "ok" THEN b ELSE IF r.is # "ok" THEN r ELSE Ok(r.value)
    BY <1>8, <1>9, Zenon DEF DecodeBatch
  <2>2. b.is = "ok" /\ b.value = Records(es)
    <3> HIDE DEF b
    <3>1. b = Ok(Records(es))
      BY <1>10, Zenon DEF b
    <3> QED BY <3>1 DEF Ok
  <2>3. r = Read(es, Len(Records(es)))
    BY <1>4, <2>2, RecordLoopRoundTrip, Zenon
  <2> HIDE DEF b, r
  <2>4. r.is = "ok" /\ r.value = es
    BY <2>3 DEF Read
  <2> QED BY <2>1, <2>2, <2>4, Zenon
<1> QED BY <1>3, <1>8, <1>11, Zenon
=============================================================================
