-------------------------- MODULE KeyInputsProofs --------------------------
(***************************************************************************)
(* Proofs about KeyInputs for every set of runs, checkouts and inputs: two *)
(* runs that mean the same have one key, and two that have one key mean    *)
(* the same, unless one has a dependency with the other's command between  *)
(* two bytes 0, or a content that is the other's, cut short in front of a  *)
(* 0.  What is hashed is put together from the fields by FlattenSeq, and   *)
(* can be taken apart again: the builders and libraries field by field,    *)
(* and what is behind them once the dependencies are taken to be the       *)
(* pieces between their 0s.                                                *)
(***************************************************************************)
EXTENDS KeyInputs, SequenceTheorems, Minima

-----------------------------------------------------------------------------
(* FlattenSeq *)

\* g is the recursive function FlattenSeq is defined by, on the first n of s.
FlatStep(s, n, g) ==
  g = [i \in 1 .. n |-> IF i = 1 THEN s[i] ELSE g[i - 1] \o s[i]]

LEMMA FlatStepAt ==
  ASSUME NEW s, NEW n \in Nat, NEW g, FlatStep(s, n, g), NEW i \in 1 .. n
  PROVE  g[i] = IF i = 1 THEN s[i] ELSE g[i - 1] \o s[i]
<1> DEFINE F(j) == IF j = 1 THEN s[j] ELSE g[j - 1] \o s[j]
<1>1. g = [j \in 1 .. n |-> F(j)]
  BY DEF FlatStep
<1> HIDE DEF F
<1>2. g[i] = F(i)
  BY <1>1
<1> QED
  BY <1>2 DEF F

\* The recursive function exists ...
LEMMA FlatStepExists ==
  ASSUME NEW s
  PROVE  \A n \in Nat : \E g : FlatStep(s, n, g)
<1> DEFINE C == {n \in Nat : \E g : FlatStep(s, n, g)}
<1>1. 0 \in C
  <2>1. FlatStep(s, 0, [i \in 1 .. 0 |-> s])
    BY DEF FlatStep
  <2> QED
    BY <2>1
<1>2. ASSUME NEW n \in Nat, n \in C PROVE n + 1 \in C
  <2>1. PICK g : FlatStep(s, n, g)
    BY <1>2
  <2> DEFINE h == [i \in 1 .. n + 1 |-> IF i = 1 THEN s[i] ELSE g[i - 1] \o s[i]]
  <2>2. \A i \in 1 .. n : h[i] = g[i]
    <3> TAKE i \in 1 .. n
    <3>1. i \in 1 .. n + 1
      OBVIOUS
    <3> HIDE DEF h
    <3>2. h[i] = IF i = 1 THEN s[i] ELSE g[i - 1] \o s[i]
      BY <3>1 DEF h
    <3> QED
      BY <2>1, <3>2, FlatStepAt
  <2>3. h = [i \in 1 .. n + 1 |-> IF i = 1 THEN s[i] ELSE h[i - 1] \o s[i]]
    <3>1. \A i \in 1 .. n + 1 :
            (IF i = 1 THEN s[i] ELSE g[i - 1] \o s[i])
            = (IF i = 1 THEN s[i] ELSE h[i - 1] \o s[i])
      <4> HIDE DEF h
      <4> TAKE i \in 1 .. n + 1
      <4>1. i # 1 => i - 1 \in 1 .. n
        OBVIOUS
      <4>2. i # 1 => g[i - 1] = h[i - 1]
        BY <2>2, <4>1
      <4> QED
        BY <4>2
    <3> HIDE DEF h
    <3>2. h = [i \in 1 .. n + 1 |-> IF i = 1 THEN s[i] ELSE g[i - 1] \o s[i]]
      BY DEF h
    <3> QED
      BY <3>1, <3>2
  <2>4. FlatStep(s, n + 1, h)
    BY <2>3 DEF FlatStep
  <2> HIDE DEF h
  <2> QED
    BY <2>4
<1> HIDE DEF C
<1>3. \A n \in Nat : n \in C
  BY <1>1, <1>2, AllNumbers
<1> QED
  BY <1>3 DEF C

\* ... has sequences for values ...
LEMMA FlatStepTypes ==
  ASSUME NEW T, NEW s \in Seq(Seq(T)), NEW n \in 1 .. Len(s), NEW g, FlatStep(s, n, g)
  PROVE  \A i \in 1 .. n : g[i] \in Seq(T)
<1> DEFINE C == {i \in Nat : i \in 1 .. n => g[i] \in Seq(T)}
<1>1. \A i \in 1 .. n : s[i] \in Seq(T)
  BY ElementOfSeq
<1>2. 0 \in C
  OBVIOUS
<1>3. ASSUME NEW i \in Nat, i \in C PROVE i + 1 \in C
  <2> SUFFICES ASSUME i + 1 \in 1 .. n PROVE g[i + 1] \in Seq(T)
    OBVIOUS
  <2>1. g[i + 1] = IF i + 1 = 1 THEN s[i + 1] ELSE g[i] \o s[i + 1]
    BY FlatStepAt, (i + 1) - 1 = i
  <2>2. i + 1 # 1 => g[i] \in Seq(T)
    BY <1>3
  <2>3. s[i + 1] \in Seq(T)
    BY <1>1
  <2> QED
    BY <2>1, <2>2, <2>3, ConcatProperties
<1> HIDE DEF C
<1>4. \A i \in Nat : i \in C
  BY <1>2, <1>3, AllNumbers
<1> QED
  BY <1>4 DEF C

Agree(s, t, m) == \A i \in 1 .. m : s[i] = t[i]

\* ... and does not depend on what comes later.
LEMMA FlatStepAgree ==
  ASSUME NEW s, NEW t, NEW m \in Nat, NEW n \in Nat, m <= n, Agree(s, t, m)
  PROVE  \A g, h : FlatStep(s, m, g) /\ FlatStep(t, n, h) => Agree(g, h, m)
<1> SUFFICES ASSUME NEW g, NEW h, FlatStep(s, m, g), FlatStep(t, n, h)
             PROVE  Agree(g, h, m)
  OBVIOUS
<1> DEFINE C == {i \in Nat : i \in 1 .. m => g[i] = h[i]}
<1>1. 0 \in C
  OBVIOUS
<1>2. ASSUME NEW i \in Nat, i \in C PROVE i + 1 \in C
  <2> SUFFICES ASSUME i + 1 \in 1 .. m PROVE g[i + 1] = h[i + 1]
    OBVIOUS
  <2>1. g[i + 1] = IF i + 1 = 1 THEN s[i + 1] ELSE g[i] \o s[i + 1]
    BY FlatStepAt, (i + 1) - 1 = i
  <2>2. h[i + 1] = IF i + 1 = 1 THEN t[i + 1] ELSE h[i] \o t[i + 1]
    BY i + 1 \in 1 .. n, FlatStepAt, (i + 1) - 1 = i
  <2>3. s[i + 1] = t[i + 1]
    BY DEF Agree
  <2> QED
    BY <2>1, <2>2, <2>3, <1>2
<1> HIDE DEF C
<1>3. \A i \in Nat : i \in C
  BY <1>1, <1>2, AllNumbers
<1> QED
  BY <1>3 DEF C, Agree

LEMMA FlattenDef ==
  ASSUME NEW T, NEW s \in Seq(Seq(T)), s # <<>>
  PROVE  \E g : FlatStep(s, Len(s), g) /\ FlattenSeq(s) = g[Len(s)]
<1>1. Len(s) \in Nat /\ Len(s) # 0
  BY EmptySeq
<1>2. \E g : FlatStep(s, Len(s), g)
  BY <1>1, FlatStepExists
<1>3. FlattenSeq(s) = (CHOOSE g : FlatStep(s, Len(s), g))[Len(s)]
  BY <1>1 DEF FlattenSeq, FlatStep
<1> QED
  BY <1>2, <1>3

LEMMA FlattenEmpty == FlattenSeq(<<>>) = <<>>
  BY EmptySeq DEF FlattenSeq

LEMMA FlattenType ==
  ASSUME NEW T, NEW s \in Seq(Seq(T))
  PROVE  FlattenSeq(s) \in Seq(T)
<1>1. CASE s = <<>>
  BY <1>1, FlattenEmpty, EmptySeq
<1>2. CASE s # <<>>
  <2>1. PICK g : FlatStep(s, Len(s), g) /\ FlattenSeq(s) = g[Len(s)]
    BY <1>2, FlattenDef
  <2>2. Len(s) \in 1 .. Len(s)
    BY <1>2, EmptySeq
  <2> QED
    BY <2>1, <2>2, FlatStepTypes
<1> QED
  BY <1>1, <1>2

\* FlattenSeq, one sequence after the other.
LEMMA FlattenAppend ==
  ASSUME NEW T, NEW s \in Seq(Seq(T)), NEW x \in Seq(T)
  PROVE  FlattenSeq(Append(s, x)) = FlattenSeq(s) \o x
<1> DEFINE t == Append(s, x)
<1>1. /\ t \in Seq(Seq(T)) /\ t # <<>> /\ Len(t) = Len(s) + 1 /\ Len(s) \in Nat
      /\ \A i \in 1 .. Len(s) : t[i] = s[i]
      /\ t[Len(s) + 1] = x
  BY AppendProperties, LenProperties
<1> HIDE DEF t
<1>2. PICK h : FlatStep(t, Len(t), h) /\ FlattenSeq(t) = h[Len(t)]
  BY <1>1, FlattenDef
<1>3. FlattenSeq(t) = IF Len(s) = 0 THEN x ELSE h[Len(s)] \o x
  <2>1. Len(t) \in Nat /\ Len(t) \in 1 .. Len(t) /\ Len(t) - 1 = Len(s)
    BY <1>1
  <2>2. FlattenSeq(t) = IF Len(t) = 1 THEN t[Len(t)] ELSE h[Len(t) - 1] \o t[Len(t)]
    BY <1>2, <2>1, FlatStepAt
  <2> QED
    BY <1>1, <2>1, <2>2
<1>4. CASE s = <<>>
  <2>1. FlattenSeq(t) = x /\ FlattenSeq(s) = <<>>
    BY <1>3, <1>4, FlattenEmpty, EmptySeq
  <2> QED
    BY <2>1, ConcatEmptySeq DEF t
<1>5. CASE s # <<>>
  <2>1. PICK g : FlatStep(s, Len(s), g) /\ FlattenSeq(s) = g[Len(s)]
    BY <1>5, FlattenDef
  <2>2. Len(s) \in 1 .. Len(s)
    BY <1>5, EmptySeq
  <2>3. Agree(g, h, Len(s))
    <3>1. Len(t) \in Nat /\ Len(s) \in Nat /\ Len(s) <= Len(t)
      BY <1>1
    <3>2. Agree(s, t, Len(s))
      BY <1>1 DEF Agree
    <3> QED
      BY <3>1, <3>2, <1>2, <2>1, FlatStepAgree
  <2>4. FlattenSeq(t) = FlattenSeq(s) \o x
    <3>1. h[Len(s)] = FlattenSeq(s)
      BY <2>1, <2>2, <2>3 DEF Agree
    <3> QED
      BY <2>2, <3>1, <1>3
  <2> QED
    BY <2>4 DEF t
<1> QED
  BY <1>4, <1>5

-----------------------------------------------------------------------------
(* Sequences *)

\* Induction, for a set: C has all sequences if it has the empty one and each that
\* has one element more than one it has.
LEMMA AllSequences ==
  ASSUME NEW T, NEW C, <<>> \in C,
         \A s \in Seq(T), e \in T : s \in C => Append(s, e) \in C
  PROVE  \A s \in Seq(T) : s \in C
<1> DEFINE D == {n \in Nat : \A s \in Seq(T) : Len(s) = n => s \in C}
<1>1. 0 \in D
  BY EmptySeq
<1>2. ASSUME NEW n \in Nat, n \in D PROVE n + 1 \in D
  <2> SUFFICES ASSUME NEW s \in Seq(T), Len(s) = n + 1 PROVE s \in C
    OBVIOUS
  <2>1. s # <<>>
    BY EmptySeq
  <2>2. PICK t \in Seq(T), e \in T : s = Append(t, e)
    BY <2>1, SequenceEmptyOrAppend
  <2>3. Len(t) = n
    BY <2>2, AppendProperties, LenProperties
  <2> QED
    BY <1>2, <2>2, <2>3
<1> HIDE DEF D
<1>3. \A n \in Nat : n \in D
  BY <1>1, <1>2, AllNumbers
<1> QED
  BY <1>3, LenProperties DEF D

LEMMA ConcatAt ==
  ASSUME NEW T, NEW s \in Seq(T), NEW t \in Seq(T)
  PROVE  /\ s \o t \in Seq(T) /\ Len(s \o t) = Len(s) + Len(t)
         /\ Len(s) \in Nat /\ Len(t) \in Nat
         /\ \A i \in 1 .. Len(s) : (s \o t)[i] = s[i]
  BY ConcatProperties, LenProperties

LEMMA ConcatRight ==
  ASSUME NEW T, NEW s \in Seq(T), NEW t \in Seq(T), NEW i \in 1 .. Len(t)
  PROVE  (s \o t)[Len(s) + i] = t[i]
  BY ConcatProperties, LenProperties

\* Two sequences put together can be taken apart where the first one ends.
LEMMA Cancel ==
  ASSUME NEW T, NEW s \in Seq(T), NEW t \in Seq(T), NEW u \in Seq(T), NEW v \in Seq(T),
         s \o t = u \o v, Len(s) = Len(u)
  PROVE  s = u /\ t = v
<1>1. Len(s) \in Nat /\ Len(t) \in Nat /\ Len(v) \in Nat /\ Len(t) = Len(v)
  BY ConcatAt
<1>2. ASSUME NEW i \in 1 .. Len(s) PROVE s[i] = u[i]
  BY ConcatAt
<1>3. \A i \in 1 .. Len(t) : t[i] = v[i]
  <2>1. \A i \in 1 .. Len(t) : (s \o t)[Len(s) + i] = t[i]
    BY ConcatRight
  <2>2. \A i \in 1 .. Len(v) : (u \o v)[Len(u) + i] = v[i]
    BY ConcatRight
  <2> QED
    BY <1>1, <2>1, <2>2
<1> QED
  BY <1>1, <1>2, <1>3, SeqEqual

Bracketed(T, s, t, u) ==
  /\ (s \o t) \o u = s \o (t \o u)
  /\ s \o t \in Seq(T) /\ t \o u \in Seq(T) /\ s \o (t \o u) \in Seq(T)

LEMMA Bracket ==
  ASSUME NEW T, NEW s \in Seq(T), NEW t \in Seq(T), NEW u \in Seq(T)
  PROVE  Bracketed(T, s, t, u)
<1>1. s \o t \in Seq(T) /\ t \o u \in Seq(T)
  BY ConcatProperties
<1>2. s \o (t \o u) \in Seq(T)
  BY <1>1, ConcatProperties
<1> QED
  BY <1>1, <1>2, ConcatAssociative DEF Bracketed

-----------------------------------------------------------------------------
(* Frame *)

LEMMA FrameEmpty == Frame(<<>>) = <<>>
<1>1. [i \in DOMAIN <<>> |-> Append(<<>>[i], Nul)] = <<>>
  OBVIOUS
<1> QED
  BY <1>1, FlattenEmpty DEF Frame

LEMMA FrameAppend ==
  ASSUME NEW T, Nul \in T, NEW F \in Seq(Seq(T)), NEW a \in Seq(T)
  PROVE  /\ Frame(F) \in Seq(T)
         /\ Frame(Append(F, a)) = Frame(F) \o Append(a, Nul)
<1> DEFINE G == Append(F, a)
           Fields(H) == [i \in DOMAIN H |-> Append(H[i], Nul)]
<1>1. /\ G \in Seq(Seq(T)) /\ Len(G) = Len(F) + 1 /\ G[Len(F) + 1] = a
      /\ \A i \in 1 .. Len(F) : G[i] = F[i]
      /\ DOMAIN G = 1 .. Len(G) /\ DOMAIN F = 1 .. Len(F) /\ Len(F) \in Nat
  BY AppendProperties, LenProperties
<1>2. \A x \in Seq(T) : Append(x, Nul) \in Seq(T)
  BY AppendProperties
<1>3. \A i \in 1 .. Len(F) : Append(F[i], Nul) \in Seq(T)
  BY <1>2, ElementOfSeq
<1> HIDE DEF G
<1>4. Fields(F) \in Seq(Seq(T)) /\ Len(Fields(F)) = Len(F)
  BY <1>1, <1>3
<1>5. Fields(G) = Append(Fields(F), Append(a, Nul))
  <2>1. Fields(G) = [i \in 1 .. Len(F) + 1 |-> Append(G[i], Nul)]
    BY <1>1
  <2>2. \A i \in 1 .. Len(F) + 1 :
          Append(G[i], Nul) = IF i = Len(F) + 1 THEN Append(a, Nul) ELSE Fields(F)[i]
    BY <1>1
  <2>3. Fields(G) \in Seq(Seq(T)) /\ Len(Fields(G)) = Len(F) + 1
    BY <1>1, <1>2, <1>3, <2>1
  <2>4. Append(Fields(F), Append(a, Nul)) \in Seq(Seq(T))
        /\ Len(Append(Fields(F), Append(a, Nul))) = Len(F) + 1
    BY <1>2, <1>4, AppendProperties
  <2>5. \A i \in 1 .. Len(F) + 1 :
          Append(Fields(F), Append(a, Nul))[i]
            = IF i = Len(F) + 1 THEN Append(a, Nul) ELSE Fields(F)[i]
    BY <1>2, <1>4, <1>1, AppendProperties
  <2>6. \A i \in 1 .. Len(F) + 1 :
          Fields(G)[i] = IF i = Len(F) + 1 THEN Append(a, Nul) ELSE Fields(F)[i]
    BY <2>1, <2>2
  <2>7. \A i \in 1 .. Len(Fields(G)) :
          Fields(G)[i] = Append(Fields(F), Append(a, Nul))[i]
    BY <2>3, <2>5, <2>6
  <2> HIDE DEF Fields
  <2> QED
    BY <2>3, <2>4, <2>7, SeqEqual
<1>6. FlattenSeq(Append(Fields(F), Append(a, Nul))) = FlattenSeq(Fields(F)) \o Append(a, Nul)
  BY <1>2, <1>4, FlattenAppend
<1>7. FlattenSeq(Fields(F)) \in Seq(T)
  BY <1>4, FlattenType
<1> QED
  BY <1>5, <1>6, <1>7 DEF Frame, G

\* A framed sequence ends with a 0.
LEMMA FrameEnds ==
  ASSUME NEW T, Nul \in T, NEW F \in Seq(Seq(T)), F # <<>>
  PROVE  Len(Frame(F)) # 0 /\ Frame(F)[Len(Frame(F))] = Nul
<1>1. PICK G \in Seq(Seq(T)), a \in Seq(T) : F = Append(G, a)
  BY SequenceEmptyOrAppend
<1>2. Frame(G) \in Seq(T) /\ Frame(F) = Frame(G) \o Append(a, Nul)
  BY <1>1, FrameAppend
<1>3. /\ Append(a, Nul) \in Seq(T) /\ Len(Append(a, Nul)) = Len(a) + 1
      /\ Append(a, Nul)[Len(a) + 1] = Nul /\ Len(a) \in Nat
  BY AppendProperties, LenProperties
<1>4. /\ Len(Frame(F)) = Len(Frame(G)) + (Len(a) + 1) /\ Len(Frame(G)) \in Nat
      /\ Frame(F)[Len(Frame(G)) + (Len(a) + 1)] = Append(a, Nul)[Len(a) + 1]
  BY <1>2, <1>3, ConcatAt, ConcatRight
<1> QED
  BY <1>3, <1>4

\* The last field begins behind the last 0 but one.
LEMMA LastField ==
  ASSUME NEW S, NEW T, S \subseteq T, Nul \in T, Nul \notin S,
         NEW x \in Seq(T), NEW y \in Seq(T), NEW a \in Seq(S), NEW b \in Seq(S),
         y # <<>> => y[Len(y)] = Nul, x \o Append(a, Nul) = y \o Append(b, Nul)
  PROVE  ~ (Len(x) < Len(y))
<1> SUFFICES ASSUME Len(x) < Len(y) PROVE FALSE
  OBVIOUS
<1> DEFINE A == Append(a, Nul)
           B == Append(b, Nul)
<1>1. a \in Seq(T) /\ b \in Seq(T)
  BY SeqMonotonic
<1>2. /\ A \in Seq(T) /\ Len(A) = Len(a) + 1
      /\ \A i \in 1 .. Len(a) : A[i] = a[i]
      /\ B \in Seq(T) /\ Len(B) = Len(b) + 1
  BY <1>1, AppendProperties
<1>3. Len(x) \in Nat /\ Len(y) \in Nat /\ Len(a) \in Nat /\ Len(b) \in Nat
  BY LenProperties
<1> HIDE DEF A, B
<1>4. Len(x) + Len(a) + 1 = Len(y) + Len(b) + 1
  <2>1. Len(x \o A) = Len(x) + Len(A) /\ Len(y \o B) = Len(y) + Len(B)
    BY <1>2, ConcatAt
  <2>2. x \o A = y \o B
    BY DEF A, B
  <2> QED
    BY <1>2, <1>3, <2>1, <2>2
<1> DEFINE i == Len(y) - Len(x)
<1>5. i \in 1 .. Len(a) /\ i \in 1 .. Len(A) /\ Len(x) + i = Len(y) /\ Len(y) \in 1 .. Len(y)
  BY <1>2, <1>3, <1>4
<1> HIDE DEF i
<1>6. (x \o A)[Len(x) + i] = A[i]
  BY <1>2, <1>5, ConcatRight
<1>7. (y \o B)[Len(y)] = y[Len(y)]
  BY <1>2, <1>5, ConcatAt
<1>8. A[i] = a[i] /\ a[i] \in S
  BY <1>2, <1>5, ElementOfSeq
<1>9. y # <<>>
  BY <1>3, EmptySeq
<1> QED
  BY <1>5, <1>6, <1>7, <1>8, <1>9 DEF A, B

\* What fields without a 0 are framed to is what no others are.
LEMMA FrameUnique ==
  ASSUME NEW S, Nul \notin S, NEW F \in Seq(Seq(S)), NEW G \in Seq(Seq(S)),
         Frame(F) = Frame(G)
  PROVE  F = G
<1> DEFINE T == S \cup {Nul}
           C == {H \in Seq(Seq(S)) : \A K \in Seq(Seq(S)) : Frame(H) = Frame(K) => H = K}
<1>1. \A H \in Seq(Seq(S)) : H \in Seq(Seq(T))
  <2>1. Seq(S) \subseteq Seq(T)
    BY SeqMonotonic
  <2> QED
    BY <2>1, SeqMonotonic
<1>2. ASSUME NEW H \in Seq(Seq(S)), H # <<>> PROVE Frame(H) # <<>>
  BY <1>1, <1>2, FrameEnds, EmptySeq
<1>3. <<>> \in C
  BY <1>2, FrameEmpty, EmptySeq
<1>4. ASSUME NEW H \in Seq(Seq(S)), NEW a \in Seq(S), H \in C
      PROVE  Append(H, a) \in C
  <2>1. Append(H, a) \in Seq(Seq(S)) /\ Append(H, a) # <<>>
    BY AppendProperties, LenProperties
  <2> SUFFICES ASSUME NEW K \in Seq(Seq(S)), Frame(Append(H, a)) = Frame(K)
               PROVE  Append(H, a) = K
    BY <2>1
  <2>2. K # <<>>
    BY <2>1, <1>2, FrameEmpty
  <2>3. PICK L \in Seq(Seq(S)), b \in Seq(S) : K = Append(L, b)
    BY <2>2, SequenceEmptyOrAppend
  <2>4. /\ H \in Seq(Seq(T)) /\ L \in Seq(Seq(T)) /\ a \in Seq(T) /\ b \in Seq(T)
        /\ S \subseteq T /\ Nul \in T
    BY <1>1, SeqMonotonic
  <2> HIDE DEF T
  <2>5. /\ Frame(H) \in Seq(T) /\ Frame(L) \in Seq(T)
        /\ Append(a, Nul) \in Seq(T) /\ Append(b, Nul) \in Seq(T)
        /\ Frame(H) \o Append(a, Nul) = Frame(L) \o Append(b, Nul)
    <3>1. Frame(H) \in Seq(T) /\ Frame(Append(H, a)) = Frame(H) \o Append(a, Nul)
      BY <2>4, FrameAppend
    <3>2. Frame(L) \in Seq(T) /\ Frame(Append(L, b)) = Frame(L) \o Append(b, Nul)
      BY <2>4, FrameAppend
    <3>3. Append(a, Nul) \in Seq(T) /\ Append(b, Nul) \in Seq(T)
      BY <2>4, AppendProperties
    <3> QED
      BY <2>3, <3>1, <3>2, <3>3
  <2>6. /\ Frame(H) # <<>> => Frame(H)[Len(Frame(H))] = Nul
        /\ Frame(L) # <<>> => Frame(L)[Len(Frame(L))] = Nul
    BY <2>4, FrameEnds, FrameEmpty
  <2>7. ~ (Len(Frame(H)) < Len(Frame(L)))
    BY <2>4, <2>5, <2>6, LastField
  <2>8. ~ (Len(Frame(L)) < Len(Frame(H)))
    <3>1. Frame(L) \o Append(b, Nul) = Frame(H) \o Append(a, Nul)
      BY <2>5
    <3> QED
      BY <2>4, <2>5, <2>6, <3>1, LastField
  <2>9. Len(Frame(H)) = Len(Frame(L))
    BY <2>5, <2>7, <2>8, LenProperties
  <2>10. Frame(H) = Frame(L) /\ Append(a, Nul) = Append(b, Nul)
    BY <2>5, <2>9, Cancel
  <2>11. a = b
    BY <2>4, <2>10, AppendInjective
  <2>12. H = L
    BY <1>4, <2>10
  <2> QED
    BY <2>3, <2>11, <2>12
<1> HIDE DEF C
<1>5. \A H \in Seq(Seq(S)) : H \in C
  BY <1>3, <1>4, AllSequences
<1> QED
  BY <1>5 DEF C

\* Fields are framed one after the other.
LEMMA FrameConcat ==
  ASSUME NEW T, Nul \in T, NEW F \in Seq(Seq(T)), NEW G \in Seq(Seq(T))
  PROVE  /\ Frame(F) \in Seq(T) /\ Frame(G) \in Seq(T)
         /\ Frame(F \o G) = Frame(F) \o Frame(G)
<1> DEFINE C == {H \in Seq(Seq(T)) : Frame(F \o H) = Frame(F) \o Frame(H)}
<1>1. <<>> \in Seq(T)
  OBVIOUS
<1>2. \A H \in Seq(Seq(T)) : Frame(H) \in Seq(T)
  BY <1>1, FrameAppend
<1>3. <<>> \in C
  <2>1. F \o <<>> = F /\ Frame(F) \o <<>> = Frame(F)
    BY <1>2, ConcatEmptySeq
  <2>2. <<>> \in Seq(Seq(T))
    OBVIOUS
  <2> QED
    BY <2>1, <2>2, FrameEmpty
<1>4. ASSUME NEW H \in Seq(Seq(T)), NEW a \in Seq(T), H \in C
      PROVE  Append(H, a) \in C
  <2>1. Append(a, Nul) \in Seq(T) /\ <<a>> \in Seq(Seq(T)) /\ F \o H \in Seq(Seq(T))
    BY AppendProperties, ConcatProperties
  <2>2. F \o Append(H, a) = Append(F \o H, a)
    <3>1. Append(H, a) = H \o <<a>> /\ Append(F \o H, a) = (F \o H) \o <<a>>
      BY <2>1, AppendIsConcat
    <3> QED
      BY <2>1, <3>1, ConcatAssociative
  <2>3. /\ Frame(Append(H, a)) = Frame(H) \o Append(a, Nul)
        /\ Frame(Append(F \o H, a)) = Frame(F \o H) \o Append(a, Nul)
    BY <2>1, FrameAppend
  <2>4. (Frame(F) \o Frame(H)) \o Append(a, Nul) = Frame(F) \o (Frame(H) \o Append(a, Nul))
    <3>1. Bracketed(T, Frame(F), Frame(H), Append(a, Nul))
      BY <1>2, <2>1, Bracket
    <3> QED
      BY <3>1 DEF Bracketed
  <2>5. Append(H, a) \in Seq(Seq(T))
    BY AppendProperties
  <2> QED
    BY <1>4, <2>2, <2>3, <2>4, <2>5
<1> HIDE DEF C
<1>5. \A H \in Seq(Seq(T)) : H \in C
  BY <1>3, <1>4, AllSequences
<1> QED
  BY <1>2, <1>5 DEF C

\* Where a field is.
LEMMA FrameAt ==
  ASSUME NEW T, Nul \in T, NEW F \in Seq(Seq(T)), NEW k \in 1 .. Len(F)
  PROVE  /\ SubSeq(F, 1, k - 1) \in Seq(Seq(T))
         /\ \E w \in Seq(T) :
              Frame(F) = Frame(SubSeq(F, 1, k - 1)) \o (Append(F[k], Nul) \o w)
<1> DEFINE u == SubSeq(F, 1, k - 1)
           v == SubSeq(F, k + 1, Len(F))
<1>1. Len(F) \in Nat /\ \A i \in 1 .. Len(F) : F[i] \in Seq(T)
  BY LenProperties, ElementOfSeq
<1>2. u \in Seq(Seq(T)) /\ v \in Seq(Seq(T)) /\ F[k] \in Seq(T)
  BY <1>1, SubSeqProperties
<1>3. F = Append(u, F[k]) \o v
  <2>1. SubSeq(F, 1, k) = u \o <<F[k]>>
    BY <1>1, SubSeqRecursiveSecond
  <2>2. SubSeq(F, 1, k) \o v = SubSeq(F, 1, Len(F))
    BY <1>1, ConcatAdjacentSubSeq
  <2>3. Append(u, F[k]) = u \o <<F[k]>>
    BY <1>2, AppendIsConcat
  <2> QED
    BY <2>1, <2>2, <2>3, SubSeqFull
<1> HIDE DEF u, v
<1>4. Frame(F) = Frame(Append(u, F[k])) \o Frame(v) /\ Frame(v) \in Seq(T)
  BY <1>2, <1>3, AppendProperties, FrameConcat
<1>5. Frame(Append(u, F[k])) = Frame(u) \o Append(F[k], Nul) /\ Frame(u) \in Seq(T)
  BY <1>2, FrameAppend
<1>6. Append(F[k], Nul) \in Seq(T)
  BY <1>2, AppendProperties
<1>7. Frame(F) = Frame(u) \o (Append(F[k], Nul) \o Frame(v))
  <2>1. Bracketed(T, Frame(u), Append(F[k], Nul), Frame(v))
    BY <1>4, <1>5, <1>6, Bracket
  <2> QED
    BY <1>4, <1>5, <2>1 DEF Bracketed
<1> QED
  BY <1>2, <1>4, <1>7 DEF u

\* Of two contents that what is hashed may begin with, one is the other, cut short.
LEMMA CutShortOrSame ==
  ASSUME NEW T, Nul \in T, NEW a \in Seq(T), NEW b \in Seq(T),
         NEW x \in Seq(T), NEW y \in Seq(T), Append(a, Nul) \o x = Append(b, Nul) \o y,
         Len(a) < Len(b)
  PROVE  CutShort(a, b)
<1> DEFINE A == Append(a, Nul)
           B == Append(b, Nul)
           n == Len(a) + 1
<1>1. /\ A \in Seq(T) /\ Len(A) = n /\ Len(a) \in Nat
      /\ B \in Seq(T) /\ Len(B) = Len(b) + 1 /\ Len(b) \in Nat
      /\ \A i \in 1 .. Len(b) : B[i] = b[i]
  BY AppendProperties, LenProperties
<1>2. A \o x = B \o y
  OBVIOUS
<1> HIDE DEF A, B
<1>3. ASSUME NEW i \in 1 .. n PROVE A[i] = b[i]
  <2>1. i \in 1 .. Len(A) /\ i \in 1 .. Len(B) /\ i \in 1 .. Len(b)
    BY <1>1
  <2>2. (A \o x)[i] = A[i] /\ (B \o y)[i] = B[i]
    BY <1>1, <2>1, ConcatAt
  <2> QED
    BY <1>1, <1>2, <2>1, <2>2
<1>4. \A i \in 1 .. n : b[i] \in T
  BY <1>1, ElementOfSeq
<1>5. /\ SubSeq(b, 1, n) \in Seq(T) /\ Len(SubSeq(b, 1, n)) = n
      /\ \A i \in 1 .. n : SubSeq(b, 1, n)[i] = b[i]
  <2>1. 1 <= n /\ n - 1 + 1 = n /\ \A i \in 1 .. n : 1 + i - 1 = i
    BY <1>1
  <2> QED
    BY <1>1, <1>4, <2>1, SubSeqProperties
<1>6. SubSeq(b, 1, Len(A)) = A
  BY <1>1, <1>3, <1>5, SeqEqual
<1> QED
  BY <1>1, <1>6 DEF CutShort, IsPrefix, A

Differ(F, G, n) == n \in Nat /\ \E j \in 1 .. n : F[j] # G[j]

LEMMA FirstDifference ==
  ASSUME NEW F, NEW G, NEW n, Differ(F, G, n)
  PROVE  \E k \in 1 .. n : F[k] # G[k] /\ \A i \in 1 .. k - 1 : F[i] = G[i]
<1> PICK j \in 1 .. n : n \in Nat /\ F[j] # G[j]
  BY DEF Differ
<1> DEFINE C == {k \in Nat : k \in 1 .. n /\ F[k] # G[k]}
<1>1. PICK k \in C : \A m \in C : k <= m
  <2>1. C \in SUBSET Nat /\ j \in C
    OBVIOUS
  <2> HIDE DEF C
  <2> QED
    BY <2>1, LeastNumber
<1>2. k \in 1 .. n /\ F[k] # G[k]
  BY <1>1
<1>3. ASSUME NEW i \in 1 .. k - 1 PROVE F[i] = G[i]
  <2>1. i \in 1 .. n /\ ~ (k <= i) /\ i \in Nat
    BY <1>2
  <2> QED
    BY <1>1, <2>1
<1> QED
  BY <1>2, <1>3

\* The first n elements of a sequence.
LEMMA FirstOnes ==
  ASSUME NEW T, NEW F \in Seq(T), NEW n \in Nat, n <= Len(F)
  PROVE  /\ SubSeq(F, 1, n) \in Seq(T) /\ Len(SubSeq(F, 1, n)) = n
         /\ \A i \in 1 .. n : SubSeq(F, 1, n)[i] = F[i]
<1>1. \A i \in 1 .. n : F[i] \in T
  BY ElementOfSeq, LenProperties
<1>2. n \in Int /\ 1 \in Int /\ n - 1 + 1 = n /\ \A i \in 1 .. n : 1 + i - 1 = i
  OBVIOUS
<1>3. /\ SubSeq(F, 1, n) \in Seq(T)
      /\ Len(SubSeq(F, 1, n)) = IF 1 <= n THEN n - 1 + 1 ELSE 0
      /\ \A i \in 1 .. n - 1 + 1 : SubSeq(F, 1, n)[i] = F[1 + i - 1]
  BY <1>1, <1>2, SubSeqProperties
<1>4. Len(SubSeq(F, 1, n)) = n
  BY <1>3
<1> QED
  BY <1>2, <1>3, <1>4

LEMMA SameOnes ==
  ASSUME NEW T, NEW F \in Seq(T), NEW G \in Seq(T), NEW n \in Nat,
         n <= Len(F), n <= Len(G), \A i \in 1 .. n : F[i] = G[i]
  PROVE  SubSeq(F, 1, n) = SubSeq(G, 1, n)
<1>1. /\ SubSeq(F, 1, n) \in Seq(T) /\ Len(SubSeq(F, 1, n)) = n
      /\ \A i \in 1 .. n : SubSeq(F, 1, n)[i] = F[i]
  BY FirstOnes
<1>2. /\ SubSeq(G, 1, n) \in Seq(T) /\ Len(SubSeq(G, 1, n)) = n
      /\ \A i \in 1 .. n : SubSeq(G, 1, n)[i] = G[i]
  BY FirstOnes
<1> QED
  BY <1>1, <1>2, SeqEqual

\* Contents in the same place are the same, if neither is the other, cut short.
LEMMA SameContent ==
  ASSUME NEW T, Nul \in T, NEW a \in Seq(T), NEW b \in Seq(T),
         NEW x \in Seq(T), NEW y \in Seq(T), Append(a, Nul) \o x = Append(b, Nul) \o y,
         ~ CutShort(a, b), ~ CutShort(b, a)
  PROVE  a = b
<1>1. ~ (Len(a) < Len(b))
  BY CutShortOrSame
<1>2. ~ (Len(b) < Len(a))
  <2>1. Append(b, Nul) \o y = Append(a, Nul) \o x
    OBVIOUS
  <2> QED
    BY <2>1, CutShortOrSame
<1>3. Len(a) = Len(b)
  BY <1>1, <1>2, LenProperties
<1> DEFINE A == Append(a, Nul)
           B == Append(b, Nul)
<1>4. A \in Seq(T) /\ B \in Seq(T) /\ Len(A) = Len(B)
  BY <1>3, AppendProperties
<1>5. A \o x = B \o y
  OBVIOUS
<1>6. A = B => a = b
  BY AppendInjective
<1> HIDE DEF A, B
<1> QED
  BY <1>4, <1>5, <1>6, Cancel

\* Behind the same fields too.
LEMMA SameField ==
  ASSUME NEW T, Nul \in T, NEW f \in Seq(T), NEW a \in Seq(T), NEW b \in Seq(T),
         NEW w \in Seq(T), NEW x \in Seq(T), NEW z \in Seq(T), NEW y \in Seq(T),
         (f \o (Append(a, Nul) \o w)) \o x = (f \o (Append(b, Nul) \o z)) \o y,
         ~ CutShort(a, b), ~ CutShort(b, a)
  PROVE  a = b
<1> DEFINE A == Append(a, Nul)
           B == Append(b, Nul)
<1>1. A \in Seq(T) /\ B \in Seq(T)
  BY AppendProperties
<1>2. (f \o (A \o w)) \o x = (f \o (B \o z)) \o y
  OBVIOUS
<1> HIDE DEF A, B
<1>3. Bracketed(T, A, w, x) /\ Bracketed(T, B, z, y)
  BY <1>1, Bracket
<1>4. A \o w \in Seq(T) /\ B \o z \in Seq(T)
  BY <1>1, ConcatProperties
<1>5. Bracketed(T, f, A \o w, x) /\ Bracketed(T, f, B \o z, y)
  BY <1>4, Bracket
<1>6. /\ f \o ((A \o w) \o x) = f \o ((B \o z) \o y)
      /\ (A \o w) \o x \in Seq(T) /\ (B \o z) \o y \in Seq(T)
  BY <1>2, <1>5 DEF Bracketed
<1>7. (A \o w) \o x = (B \o z) \o y
  BY <1>6, Cancel
<1>8. w \o x \in Seq(T) /\ z \o y \in Seq(T) /\ A \o (w \o x) = B \o (z \o y)
  BY <1>3, <1>7 DEF Bracketed
<1> QED
  BY <1>8, SameContent DEF A, B

\* The first n fields of two are the same, up to contents that are cut short.
Alike(F, G, n) ==
  \A k \in 1 .. n :
    (\A i \in 1 .. k - 1 : F[i] = G[i])
      => ~ CutShort(F[k], G[k]) /\ ~ CutShort(G[k], F[k])

\* There is no first field in which they differ.
LEMMA FieldsAgree ==
  ASSUME NEW T, Nul \in T, NEW F \in Seq(Seq(T)), NEW G \in Seq(Seq(T)),
         NEW x \in Seq(T), NEW y \in Seq(T), Frame(F) \o x = Frame(G) \o y,
         NEW n \in Nat, n <= Len(F), n <= Len(G), Alike(F, G, n)
  PROVE  \A k \in 1 .. n : F[k] = G[k]
<1> SUFFICES ASSUME NEW j \in 1 .. n, F[j] # G[j] PROVE FALSE
  OBVIOUS
<1>1. PICK k \in 1 .. n : F[k] # G[k] /\ \A i \in 1 .. k - 1 : F[i] = G[i]
  <2>1. Differ(F, G, n)
    BY DEF Differ
  <2> QED
    BY <2>1, FirstDifference
<1>2. /\ k \in 1 .. Len(F) /\ k \in 1 .. Len(G)
      /\ k - 1 \in Nat /\ k - 1 <= Len(F) /\ k - 1 <= Len(G)
  <2>1. Len(F) \in Nat /\ Len(G) \in Nat
    BY ONLY F \in Seq(Seq(T)), G \in Seq(Seq(T)), LenProperties
  <2>2. n \in Nat /\ n <= Len(F) /\ n <= Len(G) /\ k \in 1 .. n
    OBVIOUS
  <2> QED
    BY ONLY <2>1, <2>2
<1>3. ~ CutShort(F[k], G[k]) /\ ~ CutShort(G[k], F[k])
  BY <1>1 DEF Alike
<1> DEFINE u == SubSeq(F, 1, k - 1)
           a == F[k]
           b == G[k]
<1>4. u \in Seq(Seq(T)) /\ u = SubSeq(G, 1, k - 1)
  <2> DEFINE m == k - 1
  <2>1. m \in Nat /\ m <= Len(F) /\ m <= Len(G)
    BY <1>2
  <2>2. \A i \in 1 .. m : F[i] = G[i]
    BY <1>1
  <2> HIDE DEF m
  <2>3. SubSeq(F, 1, m) \in Seq(Seq(T))
    BY ONLY F \in Seq(Seq(T)), <2>1, FirstOnes
  <2>4. SubSeq(F, 1, m) = SubSeq(G, 1, m)
    BY ONLY F \in Seq(Seq(T)), G \in Seq(Seq(T)), <2>1, <2>2, SameOnes
  <2> QED
    BY <2>3, <2>4 DEF m
<1>5. PICK w \in Seq(T) : Frame(F) = Frame(u) \o (Append(a, Nul) \o w)
  BY <1>2, FrameAt
<1>6. PICK z \in Seq(T) : Frame(G) = Frame(u) \o (Append(b, Nul) \o z)
  <2>1. \E z \in Seq(T) : Frame(G) = Frame(SubSeq(G, 1, k - 1)) \o (Append(G[k], Nul) \o z)
    BY <1>2, FrameAt
  <2> QED
    BY <1>4, <2>1
<1>7. a \in Seq(T) /\ b \in Seq(T) /\ a # b
  BY <1>1, <1>2, ElementOfSeq
<1>8. Frame(u) \in Seq(T)
  BY <1>4, FrameConcat
<1>9. ~ CutShort(a, b) /\ ~ CutShort(b, a)
  BY <1>3
<1> HIDE DEF u, a, b
<1>10. (Frame(u) \o (Append(a, Nul) \o w)) \o x = (Frame(u) \o (Append(b, Nul) \o z)) \o y
  BY <1>5, <1>6
<1>11. a = b
  <2>1. /\ Nul \in T /\ Frame(u) \in Seq(T) /\ a \in Seq(T) /\ b \in Seq(T)
        /\ w \in Seq(T) /\ x \in Seq(T) /\ z \in Seq(T) /\ y \in Seq(T)
    BY <1>7, <1>8
  <2> QED
    BY ONLY <2>1, <1>9, <1>10, SameField
<1> QED
  BY <1>7, <1>11

\* And so they are the same, if nothing comes behind them.
LEMMA FieldsSame ==
  ASSUME NEW T, Nul \in T, NEW F \in Seq(Seq(T)), NEW G \in Seq(Seq(T)),
         Frame(F) = Frame(G), Len(F) <= Len(G), Alike(F, G, Len(F))
  PROVE  F = G
<1>1. Len(F) \in Nat /\ Len(G) \in Nat /\ <<>> \in Seq(T) /\ Len(F) <= Len(F)
  BY LenProperties
<1>2. Frame(F) \o <<>> = Frame(G) \o <<>>
  OBVIOUS
<1>3. \A k \in 1 .. Len(F) : F[k] = G[k]
  BY <1>1, <1>2, FieldsAgree
<1>4. ASSUME Len(F) < Len(G) PROVE FALSE
  <2> DEFINE k == Len(F) + 1
             u == SubSeq(G, 1, k - 1)
  <2>1. k \in 1 .. Len(G) /\ k - 1 = Len(F)
    BY <1>1, <1>4
  <2>2. PICK w \in Seq(T) : Frame(G) = Frame(u) \o (Append(G[k], Nul) \o w)
    BY <2>1, FrameAt
  <2>3. u = F
    <3>1. SubSeq(F, 1, Len(F)) = SubSeq(G, 1, Len(F))
      <4> DEFINE m == Len(F)
      <4>1. m \in Nat /\ m <= Len(F) /\ m <= Len(G) /\ \A i \in 1 .. m : F[i] = G[i]
        BY <1>1, <1>3
      <4> HIDE DEF m
      <4>2. SubSeq(F, 1, m) = SubSeq(G, 1, m)
        BY ONLY F \in Seq(Seq(T)), G \in Seq(Seq(T)), <4>1, SameOnes
      <4> QED
        BY <4>2 DEF m
    <3>2. SubSeq(F, 1, Len(F)) = F
      BY ONLY F \in Seq(Seq(T)), SubSeqFull
    <3> QED
      BY <2>1, <3>1, <3>2
  <2>4. G[k] \in Seq(T)
    BY <2>1, ElementOfSeq
  <2> HIDE DEF k, u
  <2> DEFINE v == Append(G[k], Nul) \o w
  <2>5. v \in Seq(T) /\ v # <<>> /\ Frame(F) \in Seq(T) /\ Frame(F) \o v = Frame(F)
    <3> DEFINE h == Append(G[k], Nul)
    <3>1. h \in Seq(T) /\ h # <<>>
      BY <2>4, AppendProperties
    <3> HIDE DEF h
    <3>2. h \o w \in Seq(T) /\ h \o w # <<>>
      BY ONLY <3>1, w \in Seq(T), ConcatProperties, ConcatEqualIffEmpty
    <3>3. v \in Seq(T) /\ v # <<>>
      BY <3>2 DEF h
    <3>4. Frame(F) \in Seq(T)
      BY FrameConcat
    <3> QED
      BY <2>2, <2>3, <3>3, <3>4
  <2> HIDE DEF v
  <2> QED
    BY ONLY <2>5, ConcatEqualIffEmpty
<1>5. Len(F) = Len(G)
  BY <1>1, <1>4
<1> QED
  BY <1>3, <1>5, SeqEqual

-----------------------------------------------------------------------------
(* Pieces: contents with a 0 in them are framed as more than one field *)

LEMMA ConcatAppend ==
  ASSUME NEW T, NEW s \in Seq(T), NEW t \in Seq(T), NEW e \in T
  PROVE  s \o Append(t, e) = Append(s \o t, e)
<1>1. <<e>> \in Seq(T) /\ s \o t \in Seq(T)
  BY ConcatProperties
<1>2. Append(t, e) = t \o <<e>> /\ Append(s \o t, e) = (s \o t) \o <<e>>
  BY <1>1, AppendIsConcat
<1> QED
  BY <1>1, <1>2, ConcatAssociative

LEMMA FrameOne ==
  ASSUME NEW T, Nul \in T, NEW F \in Seq(Seq(T)), NEW a \in Seq(T)
  PROVE  Frame(Append(F, a)) = Append(Frame(F) \o a, Nul) /\ Frame(F) \in Seq(T)
<1>1. Frame(F) \in Seq(T) /\ Frame(Append(F, a)) = Frame(F) \o Append(a, Nul)
  BY FrameAppend
<1>2. Frame(F) \o Append(a, Nul) = Append(Frame(F) \o a, Nul)
  BY <1>1, ConcatAppend
<1> QED
  BY <1>1, <1>2

\* Every content is framed as some fields without a 0.
LEMMA Split ==
  ASSUME NEW S, Nul \notin S
  PROVE  \A y \in Seq(S \cup {Nul}) : \E P \in Seq(Seq(S)) : Frame(P) = Append(y, Nul)
<1> DEFINE T == S \cup {Nul}
           C == {y \in Seq(T) : \E P \in Seq(Seq(S)) : Frame(P) = Append(y, Nul)}
<1>1. Nul \in T /\ S \subseteq T
  OBVIOUS
<1>2. Seq(S) \subseteq Seq(T) /\ Seq(Seq(S)) \subseteq Seq(Seq(T))
  <2>1. Seq(S) \subseteq Seq(T)
    BY SeqMonotonic
  <2> QED
    BY <2>1, SeqMonotonic
<1> HIDE DEF T
<1>3. <<>> \in C
  <2>1. <<>> \in Seq(S) /\ <<>> \in Seq(Seq(S)) /\ <<>> \in Seq(T) /\ <<>> \in Seq(Seq(T))
    OBVIOUS
  <2> DEFINE P == Append(<<>>, <<>>)
  <2>2. P \in Seq(Seq(S))
    BY <2>1, AppendProperties
  <2>3. Frame(P) = Append(Frame(<<>>) \o <<>>, Nul)
    BY <1>1, <2>1, FrameOne
  <2>4. Frame(<<>>) \o <<>> = <<>>
    BY <2>1, FrameEmpty, ConcatEmptySeq
  <2> HIDE DEF P
  <2> QED
    BY <2>1, <2>2, <2>3, <2>4
<1>4. ASSUME NEW y \in Seq(T), NEW e \in T, y \in C
      PROVE  Append(y, e) \in C
  <2>1. Append(y, e) \in Seq(T)
    BY AppendProperties
  <2>2. PICK P \in Seq(Seq(S)) : Frame(P) = Append(y, Nul)
    BY <1>4
  <2>3. CASE e = Nul
    <3>1. <<>> \in Seq(S) /\ <<>> \in Seq(T) /\ P \in Seq(Seq(T))
      BY <1>2
    <3> DEFINE Q == Append(P, <<>>)
    <3>2. Q \in Seq(Seq(S))
      BY <3>1, AppendProperties
    <3>3. Frame(Q) = Append(Frame(P) \o <<>>, Nul) /\ Frame(P) \in Seq(T)
      BY <1>1, <3>1, FrameOne
    <3>4. Frame(P) \o <<>> = Append(y, e)
      BY <2>2, <2>3, <3>3, ConcatEmptySeq
    <3> HIDE DEF Q
    <3> QED
      BY <2>1, <3>2, <3>3, <3>4
  <2>4. CASE e \in S
    <3>1. P # <<>>
      <4>1. Append(y, Nul) # <<>>
        BY <1>1, AppendProperties
      <4> QED
        BY <2>2, <4>1, FrameEmpty
    <3>2. PICK Q \in Seq(Seq(S)), x \in Seq(S) : P = Append(Q, x)
      BY <3>1, SequenceEmptyOrAppend
    <3>3. Q \in Seq(Seq(T)) /\ x \in Seq(T)
      BY <1>2
    <3>4. Append(y, Nul) = Append(Frame(Q) \o x, Nul) /\ Frame(Q) \in Seq(T)
      BY <1>1, <2>2, <3>2, <3>3, FrameOne
    <3>5. Frame(Q) \o x \in Seq(T)
      BY <3>3, <3>4, ConcatProperties
    <3>6. y = Frame(Q) \o x
      <4> DEFINE z == Frame(Q) \o x
      <4>1. z \in Seq(T) /\ Append(y, Nul) = Append(z, Nul)
        BY <3>4, <3>5
      <4> HIDE DEF z
      <4>2. y = z
        BY ONLY <1>1, <1>4, <4>1, AppendInjective
      <4> QED
        BY <4>2 DEF z
    <3> DEFINE z == Append(x, e)
               R == Append(Q, z)
    <3>7. z \in Seq(S) /\ z \in Seq(T) /\ R \in Seq(Seq(S))
      <4>1. z \in Seq(S)
        BY <2>4, AppendProperties
      <4> HIDE DEF z
      <4> QED
        BY <1>2, <4>1, AppendProperties
    <3>8. Frame(Q) \o z = Append(y, e)
      BY <3>3, <3>4, <3>6, ConcatAppend
    <3> HIDE DEF z
    <3>9. Frame(R) = Append(Frame(Q) \o z, Nul)
      BY <1>1, <3>3, <3>7, FrameOne
    <3> HIDE DEF R
    <3> QED
      BY <2>1, <3>7, <3>8, <3>9
  <2> QED
    BY <2>3, <2>4 DEF T
<1> HIDE DEF C
<1>5. \A y \in Seq(T) : y \in C
  BY <1>3, <1>4, AllSequences
<1> QED
  BY <1>5 DEF C, T

\* What stands before a 0 at the start or behind another is a piece.
LEMMA PieceAt ==
  ASSUME NEW T, Nul \in T, NEW y \in Seq(T), NEW f \in Seq(T), NEW x \in Seq(T),
         NEW w \in Seq(T), f # <<>> => f[Len(f)] = Nul,
         Append(y, Nul) = f \o (Append(x, Nul) \o w)
  PROVE  Piece(x, y)
<1> DEFINE Y == Append(y, Nul)
           X == Append(x, Nul)
           i == Len(f)
           j == Len(f) + Len(x)
<1>1. /\ Y \in Seq(T) /\ Len(Y) = Len(y) + 1 /\ Len(y) \in Nat
      /\ \A k \in 1 .. Len(y) : Y[k] = y[k]
  BY ONLY Nul \in T, y \in Seq(T), AppendProperties, LenProperties
<1>2. /\ X \in Seq(T) /\ Len(X) = Len(x) + 1 /\ Len(x) \in Nat /\ X[Len(x) + 1] = Nul
      /\ \A k \in 1 .. Len(x) : X[k] = x[k]
  BY ONLY Nul \in T, x \in Seq(T), AppendProperties, LenProperties
<1>3. Y = f \o (X \o w)
  OBVIOUS
<1> HIDE DEF X, Y
<1>4. /\ X \o w \in Seq(T) /\ Len(X \o w) = Len(x) + 1 + Len(w) /\ Len(w) \in Nat
      /\ \A k \in 1 .. Len(x) + 1 : (X \o w)[k] = X[k]
  <2>1. X \in Seq(T) /\ w \in Seq(T)
    BY <1>2
  <2>2. /\ X \o w \in Seq(T) /\ Len(X \o w) = Len(X) + Len(w) /\ Len(w) \in Nat
        /\ \A k \in 1 .. Len(X) : (X \o w)[k] = X[k]
    BY ONLY <2>1, ConcatAt
  <2> QED
    BY <1>2, <2>2
<1>5. Len(Y) = Len(f) + (Len(x) + 1 + Len(w)) /\ Len(f) \in Nat
  <2>1. Len(f \o (X \o w)) = Len(f) + Len(X \o w)
    BY <1>4, ConcatAt
  <2> QED
    BY <1>3, <1>4, <2>1, LenProperties
<1>6. i \in 0 .. Len(y) /\ j \in 0 .. Len(y)
  BY <1>1, <1>2, <1>4, <1>5
<1>7. i = 0 \/ y[i] = Nul
  <2> SUFFICES ASSUME i # 0 PROVE y[i] = Nul
    OBVIOUS
  <2>1. f # <<>>
    BY EmptySeq
  <2>2. i \in 1 .. Len(f) /\ i \in 1 .. Len(y)
    BY <1>5, <1>6
  <2>3. Y[i] = f[i]
    BY <1>3, <1>4, <2>2, ConcatAt
  <2> QED
    BY <1>1, <2>1, <2>2, <2>3
<1>8. ASSUME NEW k \in 1 .. Len(x) + 1 PROVE Y[Len(f) + k] = X[k]
  <2>1. k \in 1 .. Len(X \o w)
    BY <1>2, <1>4
  <2>2. (f \o (X \o w))[Len(f) + k] = (X \o w)[k]
    BY <1>4, <2>1, ConcatRight
  <2> QED
    BY <1>3, <1>4, <2>2
<1>9. j = Len(y) \/ y[j + 1] = Nul
  <2> SUFFICES ASSUME j # Len(y) PROVE y[j + 1] = Nul
    OBVIOUS
  <2>1. j + 1 \in 1 .. Len(y) /\ j + 1 = Len(f) + (Len(x) + 1) /\ Len(x) + 1 \in 1 .. Len(x) + 1
    BY <1>2, <1>5, <1>6
  <2> HIDE DEF j
  <2>2. Y[j + 1] = X[Len(x) + 1]
    BY <1>8, <2>1
  <2> QED
    BY <1>1, <1>2, <2>1, <2>2
<1>10. x = SubSeq(y, i + 1, j)
  <2> DEFINE u == SubSeq(y, i + 1, j)
  <2>1. \A k \in i + 1 .. j : y[k] \in T
    <3>1. \A k \in i + 1 .. j : k \in 1 .. Len(y)
      BY <1>2, <1>5, <1>6
    <3> QED
      BY <3>1, ElementOfSeq
  <2>2. i + 1 \in Int /\ j \in Int /\ j - (i + 1) + 1 = Len(x)
    BY <1>2, <1>5
  <2>3. /\ u \in Seq(T) /\ Len(u) = IF i + 1 <= j THEN j - (i + 1) + 1 ELSE 0
        /\ \A k \in 1 .. j - (i + 1) + 1 : u[k] = y[i + 1 + k - 1]
    BY <2>1, <2>2, SubSeqProperties
  <2> HIDE DEF u
  <2>4. Len(u) = Len(x)
    BY <1>2, <1>5, <2>2, <2>3
  <2>5. ASSUME NEW k \in 1 .. Len(x) PROVE u[k] = x[k]
    <3>1. /\ k \in 1 .. Len(x) + 1 /\ i + 1 + k - 1 = Len(f) + k /\ Len(f) + k \in 1 .. Len(y)
      BY <1>2, <1>5, <1>6
    <3>2. u[k] = y[Len(f) + k]
      BY <2>2, <2>3, <3>1
    <3>3. Y[Len(f) + k] = X[k]
      BY <1>8, <3>1
    <3> QED
      BY <1>1, <1>2, <3>1, <3>2, <3>3
  <2> QED
    BY <2>3, <2>4, <2>5, SeqEqual DEF u
<1> HIDE DEF i, j
<1> QED
  BY <1>6, <1>7, <1>9, <1>10 DEF Piece

LEMMA FieldPiece ==
  ASSUME NEW T, Nul \in T, NEW y \in Seq(T), NEW P \in Seq(Seq(T)),
         Frame(P) = Append(y, Nul), NEW k \in 1 .. Len(P)
  PROVE  Piece(P[k], y)
<1> DEFINE u == SubSeq(P, 1, k - 1)
<1>1. u \in Seq(Seq(T)) /\ P[k] \in Seq(T)
  BY FrameAt, ElementOfSeq
<1>2. PICK w \in Seq(T) : Frame(P) = Frame(u) \o (Append(P[k], Nul) \o w)
  BY FrameAt
<1> HIDE DEF u
<1>3. Frame(u) \in Seq(T)
  BY <1>1, FrameConcat
<1>4. Frame(u) # <<>> => Frame(u)[Len(Frame(u))] = Nul
  BY <1>1, FrameEmpty, FrameEnds
<1>5. Append(y, Nul) = Frame(u) \o (Append(P[k], Nul) \o w)
  BY <1>2
<1> QED
  BY <1>1, <1>3, <1>4, <1>5, PieceAt

\* Contents are framed as their pieces are.
LEMMA Pieces ==
  ASSUME NEW S, Nul \notin S
  PROVE  \A D \in Seq(Seq(S \cup {Nul})) :
           \E P \in Seq(Seq(S)) :
             /\ Frame(P) = Frame(D)
             /\ \A k \in 1 .. Len(P) : \E i \in 1 .. Len(D) : Piece(P[k], D[i])
<1> DEFINE T == S \cup {Nul}
           Of(P, D) == /\ Frame(P) = Frame(D)
                       /\ \A k \in 1 .. Len(P) : \E i \in 1 .. Len(D) : Piece(P[k], D[i])
           C == {D \in Seq(Seq(T)) : \E P \in Seq(Seq(S)) : Of(P, D)}
<1>1. Nul \in T
  OBVIOUS
<1>2. Seq(Seq(S)) \subseteq Seq(Seq(T))
  <2>1. Seq(S) \subseteq Seq(T)
    BY SeqMonotonic
  <2> QED
    BY <2>1, SeqMonotonic
<1>3. \A y \in Seq(T) : \E P \in Seq(Seq(S)) : Frame(P) = Append(y, Nul)
  BY Split
<1> HIDE DEF T
<1>4. <<>> \in C
  <2>1. Of(<<>>, <<>>)
    BY EmptySeq
  <2>2. <<>> \in Seq(Seq(S)) /\ <<>> \in Seq(Seq(T))
    OBVIOUS
  <2> QED
    BY <2>1, <2>2
<1>5. ASSUME NEW D \in Seq(Seq(T)), NEW d \in Seq(T), D \in C
      PROVE  Append(D, d) \in C
  <2>1. PICK P \in Seq(Seq(S)) : Of(P, D)
    BY <1>5
  <2>2. PICK Q \in Seq(Seq(S)) : Frame(Q) = Append(d, Nul)
    BY <1>3
  <2>3. P \in Seq(Seq(T)) /\ Q \in Seq(Seq(T))
    BY <1>2
  <2> DEFINE E == Append(D, d)
             R == P \o Q
  <2>4. /\ E \in Seq(Seq(T)) /\ Len(E) = Len(D) + 1 /\ Len(D) \in Nat
        /\ \A i \in 1 .. Len(D) : E[i] = D[i]
        /\ E[Len(D) + 1] = d
    BY AppendProperties, LenProperties
  <2>5. /\ R \in Seq(Seq(S)) /\ Len(R) = Len(P) + Len(Q)
        /\ Len(P) \in Nat /\ Len(Q) \in Nat
        /\ \A i \in 1 .. Len(P) : R[i] = P[i]
    BY ConcatAt
  <2>6. \A i \in 1 .. Len(Q) : R[Len(P) + i] = Q[i]
    BY ConcatRight
  <2>7. Frame(R) = Frame(E)
    <3>1. Frame(R) = Frame(P) \o Frame(Q)
      BY <1>1, <2>3, FrameConcat
    <3>2. Frame(E) = Frame(D) \o Append(d, Nul)
      BY <1>1, FrameAppend
    <3> QED
      BY <2>1, <2>2, <3>1, <3>2
  <2>8. \A k \in 1 .. Len(Q) : Piece(Q[k], d)
    BY <1>1, <2>2, <2>3, FieldPiece
  <2> HIDE DEF E, R
  <2>9. ASSUME NEW k \in 1 .. Len(R) PROVE \E i \in 1 .. Len(E) : Piece(R[k], E[i])
    <3>1. CASE k <= Len(P)
      <4>1. k \in 1 .. Len(P)
        BY <2>5, <3>1
      <4>2. PICK i \in 1 .. Len(D) : Piece(P[k], D[i])
        BY <2>1, <4>1
      <4>3. i \in 1 .. Len(E)
        BY <2>4
      <4> QED
        BY <2>4, <2>5, <4>1, <4>2, <4>3
    <3>2. CASE k > Len(P)
      <4> DEFINE m == k - Len(P)
      <4>1. m \in 1 .. Len(Q) /\ Len(P) + m = k
        BY <2>5, <3>2
      <4> HIDE DEF m
      <4>2. R[k] = Q[m] /\ Piece(Q[m], d)
        BY <2>6, <2>8, <4>1
      <4>3. Len(D) + 1 \in 1 .. Len(E)
        BY <2>4
      <4> QED
        BY <2>4, <4>2, <4>3
    <3> QED
      BY <2>5, <3>1, <3>2
  <2>10. Of(R, E)
    BY <2>7, <2>9
  <2> HIDE DEF Of
  <2> QED
    BY <2>4, <2>5, <2>10 DEF E
<1> HIDE DEF C
<1>6. \A D \in Seq(Seq(T)) : D \in C
  BY <1>4, <1>5, AllSequences
<1> QED
  BY <1>6 DEF C, T

-----------------------------------------------------------------------------
(* Blocks: each is empty or begins with its own name *)

Tagged(N, w, bs) ==
  /\ Len(bs) <= Len(N)
  /\ \A i \in 1 .. Len(bs) : bs[i] = <<>> \/ (Len(bs[i]) = w /\ bs[i][1] = N[i])

LEMMA TaggedAppend ==
  ASSUME NEW T, NEW N \in Seq(T), NEW w, NEW bs \in Seq(Seq(T)), NEW x \in Seq(T),
         Tagged(N, w, Append(bs, x))
  PROVE  /\ Tagged(N, w, bs) /\ Len(bs) + 1 <= Len(N) /\ Len(bs) \in Nat
         /\ x = <<>> \/ (Len(x) = w /\ x[1] = N[Len(bs) + 1])
<1> DEFINE t == Append(bs, x)
<1>1. /\ Len(t) = Len(bs) + 1 /\ Len(bs) \in Nat /\ Len(N) \in Nat
      /\ \A i \in 1 .. Len(bs) : t[i] = bs[i]
      /\ t[Len(bs) + 1] = x
  BY AppendProperties, LenProperties
<1> HIDE DEF t
<1>2. Tagged(N, w, t)
  BY DEF t
<1> QED
  BY <1>1, <1>2 DEF Tagged

OneName(w, a, b) ==
  /\ (a + b) % w = 0
  /\ \A k \in a + 1 .. a + b : (k - 1) % w = 0 => k = a + 1

LEMMA Multiples ==
  ASSUME NEW w \in {1, 2}, NEW a \in Nat, a % w = 0, NEW b \in {0, w}
  PROVE  OneName(w, a, b)
<1>1. CASE w = 1
  BY <1>1 DEF OneName
<1>2. CASE w = 2
  <2>1. a % 2 = 0 /\ b \in {0, 2}
    BY <1>2
  <2>2. (a + b) % 2 = 0
    BY <2>1
  <2>3. \A k \in a + 1 .. a + b : (k - 1) % 2 = 0 => k = a + 1
    BY <2>1
  <2> QED
    BY <1>2, <2>2, <2>3 DEF OneName
<1> QED
  BY <1>1, <1>2

NamesAt(N, w, F, n) ==
  /\ Len(F) % w = 0
  /\ \A k \in 1 .. Len(F) : (k - 1) % w = 0 => \E j \in 1 .. n : F[k] = N[j]

\* The names are at every w-th place.
LEMMA TagsAt ==
  ASSUME NEW T, NEW N \in Seq(T), NEW w \in {1, 2}
  PROVE  \A bs \in Seq(Seq(T)) :
           Tagged(N, w, bs) => NamesAt(N, w, FlattenSeq(bs), Len(bs))
<1> DEFINE C == {bs \in Seq(Seq(T)) :
                   Tagged(N, w, bs) => NamesAt(N, w, FlattenSeq(bs), Len(bs))}
<1>1. <<>> \in C
  BY FlattenEmpty, EmptySeq DEF NamesAt
<1>2. ASSUME NEW bs \in Seq(Seq(T)), NEW x \in Seq(T), bs \in C
      PROVE  Append(bs, x) \in C
  <2>1. Append(bs, x) \in Seq(Seq(T)) /\ Len(Append(bs, x)) = Len(bs) + 1
    BY AppendProperties, LenProperties
  <2> SUFFICES ASSUME Tagged(N, w, Append(bs, x))
               PROVE  NamesAt(N, w, FlattenSeq(Append(bs, x)), Len(bs) + 1)
    BY <2>1
  <2> DEFINE F == FlattenSeq(bs)
             G == F \o x
  <2>2. F \in Seq(T) /\ FlattenSeq(Append(bs, x)) = G
    BY FlattenType, FlattenAppend
  <2>3. /\ Tagged(N, w, bs) /\ Len(bs) + 1 <= Len(N) /\ Len(bs) \in Nat
        /\ x = <<>> \/ (Len(x) = w /\ x[1] = N[Len(bs) + 1])
    BY TaggedAppend
  <2>4. NamesAt(N, w, F, Len(bs))
    BY <1>2, <2>3
  <2> HIDE DEF F
  <2>5. Len(G) = Len(F) + Len(x) /\ Len(F) \in Nat /\ Len(x) \in {0, w}
    BY <2>2, <2>3, ConcatAt, EmptySeq
  <2>6. \A k \in 1 .. Len(F) : G[k] = F[k]
    BY <2>2, ConcatAt
  <2>7. \A k \in 1 .. Len(x) : G[Len(F) + k] = x[k]
    BY <2>2, ConcatRight
  <2> HIDE DEF G
  <2> DEFINE a == Len(F)
             b == Len(x)
  <2> HIDE DEF a, b
  <2>8. a \in Nat /\ a % w = 0 /\ b \in {0, w} /\ Len(G) = a + b
    BY <2>4, <2>5 DEF a, b, NamesAt
  <2>9. OneName(w, a, b)
    BY <2>8, Multiples
  <2>10. Len(G) % w = 0
    BY <2>8, <2>9 DEF OneName
  <2>11. ASSUME NEW k \in 1 .. Len(G), (k - 1) % w = 0
        PROVE  \E j \in 1 .. Len(bs) + 1 : G[k] = N[j]
    <3>1. CASE k <= Len(F)
      <4>1. k \in 1 .. Len(F) /\ G[k] = F[k]
        BY <2>5, <2>6, <3>1
      <4>2. PICK j \in 1 .. Len(bs) : F[k] = N[j]
        BY <2>4, <2>11, <4>1 DEF NamesAt
      <4>3. j \in 1 .. Len(bs) + 1
        BY <2>3
      <4> QED
        BY <4>1, <4>2, <4>3
    <3>2. CASE k > Len(F)
      <4>1. k = Len(F) + 1 /\ Len(x) = w
        <5>1. k \in Len(F) + 1 .. Len(F) + Len(x)
          BY <2>5, <3>2
        <5>2. k = Len(F) + 1
          BY <5>1, <2>11, <2>9 DEF a, b, OneName
        <5> QED
          BY <5>1, <5>2, <2>5
      <4>2. G[k] = x[1] /\ x # <<>>
        BY <2>7, <4>1, EmptySeq
      <4> QED
        BY <2>3, <4>2
    <3> QED
      BY <2>5, <3>1, <3>2
  <2> QED
    BY <2>2, <2>10, <2>11 DEF NamesAt
<1> HIDE DEF C
<1>3. \A bs \in Seq(Seq(T)) : bs \in C
  BY <1>1, <1>2, AllSequences
<1> QED
  BY <1>3 DEF C

\* A block that is not empty shows.
LEMMA LastShows ==
  ASSUME NEW T, NEW N \in Seq(T), IsInjective(N), NEW w \in {1, 2},
         NEW bs \in Seq(Seq(T)), NEW x \in Seq(T), x # <<>>, Tagged(N, w, Append(bs, x)),
         NEW cs \in Seq(Seq(T)), Tagged(N, w, cs), Len(cs) = Len(bs)
  PROVE  FlattenSeq(bs) \o x # FlattenSeq(cs)
<1> SUFFICES ASSUME FlattenSeq(bs) \o x = FlattenSeq(cs) PROVE FALSE
  OBVIOUS
<1> DEFINE F == FlattenSeq(bs)
           K == FlattenSeq(cs)
           n == Len(bs) + 1
<1>1. /\ Tagged(N, w, bs) /\ n <= Len(N) /\ Len(bs) \in Nat
      /\ Len(x) = w /\ x[1] = N[n]
  BY TaggedAppend
<1>2. F \in Seq(T) /\ K \in Seq(T) /\ K = F \o x
  BY FlattenType
<1>3. NamesAt(N, w, F, Len(bs)) /\ NamesAt(N, w, K, Len(cs))
  BY <1>1, TagsAt
<1> HIDE DEF F, K
<1>4. Len(K) = Len(F) + w /\ Len(F) \in Nat
  BY <1>1, <1>2, ConcatAt
<1>5. K[Len(F) + 1] = x[1]
  BY <1>1, <1>2, ConcatRight
<1>6. Len(F) + 1 \in 1 .. Len(K) /\ (Len(F) + 1) - 1 = Len(F)
  BY <1>4
<1>7. Len(cs) = Len(bs)
  OBVIOUS
<1>8. PICK j \in 1 .. Len(bs) : K[Len(F) + 1] = N[j]
  BY <1>3, <1>6, <1>7 DEF NamesAt
<1>9. n \in DOMAIN N /\ j \in DOMAIN N /\ N[n] = N[j]
  BY <1>1, <1>5, <1>8, LenProperties
<1> QED
  BY <1>1, <1>9 DEF IsInjective

\* Blocks that are put together can be told apart.
LEMMA BlocksUnique ==
  ASSUME NEW T, NEW N \in Seq(T), IsInjective(N), NEW w \in {1, 2}
  PROVE  \A bs, cs \in Seq(Seq(T)) :
           /\ Tagged(N, w, bs) /\ Tagged(N, w, cs) /\ Len(bs) = Len(cs)
           /\ FlattenSeq(bs) = FlattenSeq(cs)
           => bs = cs
<1> DEFINE Same(bs, cs) == /\ Tagged(N, w, bs) /\ Tagged(N, w, cs) /\ Len(bs) = Len(cs)
                           /\ FlattenSeq(bs) = FlattenSeq(cs)
           C == {bs \in Seq(Seq(T)) : \A cs \in Seq(Seq(T)) : Same(bs, cs) => bs = cs}
<1>1. <<>> \in C
  BY EmptySeq
<1>2. ASSUME NEW bs \in Seq(Seq(T)), NEW x \in Seq(T), bs \in C
      PROVE  Append(bs, x) \in C
  <2>1. Append(bs, x) \in Seq(Seq(T)) /\ Len(Append(bs, x)) = Len(bs) + 1
    BY AppendProperties, LenProperties
  <2> SUFFICES ASSUME NEW es \in Seq(Seq(T)), Same(Append(bs, x), es)
               PROVE  Append(bs, x) = es
    BY <2>1
  <2>2. Len(es) = Len(bs) + 1 /\ Len(bs) \in Nat /\ es # <<>>
    <3>1. Len(Append(bs, x)) = Len(es)
      OBVIOUS
    <3>2. Len(bs) \in Nat
      BY LenProperties
    <3>3. Len(es) = Len(bs) + 1
      BY <2>1, <3>1
    <3> QED
      BY <3>2, <3>3, EmptySeq
  <2>3. PICK cs \in Seq(Seq(T)), y \in Seq(T) : es = Append(cs, y)
    BY <2>2, SequenceEmptyOrAppend
  <2>4. Len(cs) = Len(bs)
    <3>1. Len(Append(cs, y)) = Len(cs) + 1 /\ Len(cs) \in Nat
      BY AppendProperties, LenProperties
    <3> QED
      BY <2>2, <2>3, <3>1
  <2>5. Tagged(N, w, Append(bs, x)) /\ Tagged(N, w, Append(cs, y))
    BY <2>3
  <2>6. FlattenSeq(bs) \o x = FlattenSeq(cs) \o y
    BY <2>3, FlattenAppend
  <2>7. /\ Tagged(N, w, bs) /\ (x # <<>> => Len(x) = w)
        /\ Tagged(N, w, cs) /\ (y # <<>> => Len(y) = w)
    <3>1. Tagged(N, w, bs) /\ (x # <<>> => Len(x) = w)
      BY <2>5, TaggedAppend
    <3>2. Tagged(N, w, cs) /\ (y # <<>> => Len(y) = w)
      BY <2>5, TaggedAppend
    <3> QED
      BY <3>1, <3>2
  <2>8. FlattenSeq(bs) \in Seq(T) /\ FlattenSeq(cs) \in Seq(T)
    BY FlattenType
  <2>9. x = <<>> => FlattenSeq(bs) \o x = FlattenSeq(bs)
    BY <2>8, ConcatEmptySeq
  <2>10. y = <<>> => FlattenSeq(cs) \o y = FlattenSeq(cs)
    BY <2>8, ConcatEmptySeq
  <2>11. FlattenSeq(bs) = FlattenSeq(cs) /\ x = y
    <3>1. CASE x = <<>> /\ y = <<>>
      BY <2>6, <2>9, <2>10, <3>1
    <3>2. CASE x # <<>> /\ y # <<>>
      <4>1. Len(x) = Len(y)
        BY <2>7, <3>2
      <4>2. Len(FlattenSeq(bs)) = Len(FlattenSeq(cs))
        <5>1. /\ Len(FlattenSeq(bs) \o x) = Len(FlattenSeq(bs)) + Len(x)
              /\ Len(FlattenSeq(cs) \o y) = Len(FlattenSeq(cs)) + Len(y)
              /\ Len(FlattenSeq(bs)) \in Nat /\ Len(FlattenSeq(cs)) \in Nat
              /\ Len(x) \in Nat
          BY <2>8, ConcatAt
        <5> QED
          BY <2>6, <4>1, <5>1
      <4> QED
        BY <2>6, <2>8, <4>2, Cancel
    <3>3. CASE x # <<>> /\ y = <<>>
      BY <2>4, <2>5, <2>6, <2>7, <2>10, <3>3, LastShows
    <3>4. CASE x = <<>> /\ y # <<>>
      <4>1. FlattenSeq(cs) \o y # FlattenSeq(bs)
        BY <2>4, <2>5, <2>7, <3>4, LastShows
      <4> QED
        BY <2>6, <2>9, <3>4, <4>1
    <3> QED
      BY <3>1, <3>2, <3>3, <3>4
  <2>12. bs = cs
    BY <1>2, <2>4, <2>7, <2>11
  <2> QED
    BY <2>3, <2>11, <2>12
<1> HIDE DEF C
<1>3. \A bs \in Seq(Seq(T)) : bs \in C
  BY <1>1, <1>2, AllSequences
<1> QED
  BY <1>3 DEF C

-----------------------------------------------------------------------------
(* Stripping *)

\* What arguments are made of when they are passed.
Passed == Symbol \cup Checkout

\* And what contents are made of.
Byte == Passed \cup {Nul}

LEMMA Bytes ==
  /\ Nul \in Byte /\ Nul \notin Passed
  /\ Seq(Passed) \subseteq Seq(Byte) /\ Seq(Seq(Passed)) \subseteq Seq(Seq(Byte))
  /\ Text \subseteq Seq(Byte) /\ Seq(Text) \subseteq Seq(Seq(Byte))
<1>1. Passed \subseteq Byte /\ Symbol \cup {Nul} \subseteq Byte
  BY DEF Passed, Byte
<1>2. Seq(Passed) \subseteq Seq(Byte) /\ Text \subseteq Seq(Byte)
  BY <1>1, SeqMonotonic DEF Text
<1>3. Seq(Seq(Passed)) \subseteq Seq(Seq(Byte)) /\ Seq(Text) \subseteq Seq(Seq(Byte))
  BY <1>2, SeqMonotonic
<1>4. Nul \in Byte /\ Nul \notin Passed
  BY SymbolAssumption DEF Passed, Byte
<1> QED
  BY <1>2, <1>3, <1>4

Sub(c, e) == IF e # Base THEN e ELSE c

LEMMA InType ==
  ASSUME NEW c \in Checkout
  PROVE  \A s \in Argument : In(c, s) \in Seq(Passed)
<1> SUFFICES ASSUME NEW s \in Argument PROVE In(c, s) \in Seq(Passed)
  OBVIOUS
<1>1. \A i \in 1 .. Len(s) : s[i] \in Symbol \cup {Base}
  BY ElementOfSeq DEF Argument
<1>2. DOMAIN s = 1 .. Len(s) /\ Len(s) \in Nat
  BY LenProperties DEF Argument
<1> DEFINE b == [i \in DOMAIN s |-> IF s[i] # Base THEN <<s[i]>>
                                    ELSE IF c = Root THEN <<>> ELSE <<c>>]
<1>3. \A i \in 1 .. Len(s) : b[i] \in Seq(Passed)
  <2> TAKE i \in 1 .. Len(s)
  <2>1. b[i] = IF s[i] # Base THEN <<s[i]>> ELSE IF c = Root THEN <<>> ELSE <<c>>
    BY <1>2
  <2>2. s[i] # Base => s[i] \in Passed
    BY <1>1 DEF Passed
  <2>3. c \in Passed
    BY DEF Passed
  <2> HIDE DEF b
  <2> QED
    BY <2>1, <2>2, <2>3
<1>4. b \in Seq(Seq(Passed))
  BY <1>2, <1>3
<1> HIDE DEF b
<1>5. FlattenSeq(b) \in Seq(Passed)
  BY <1>4, FlattenType
<1> QED
  BY <1>5 DEF In, b

\* Anywhere but in "/", an argument gets the checkout for Base.
LEMMA InAt ==
  ASSUME NEW c \in Checkout, c # Root
  PROVE  \A s \in Argument :
           /\ Len(In(c, s)) = Len(s)
           /\ \A i \in 1 .. Len(s) : In(c, s)[i] = Sub(c, s[i])
<1> DEFINE A == Symbol \cup {Base}
           b(s) == [i \in DOMAIN s |-> IF s[i] # Base THEN <<s[i]>>
                                       ELSE IF c = Root THEN <<>> ELSE <<c>>]
           d(s) == [i \in DOMAIN s |-> <<Sub(c, s[i])>>]
           C == {s \in Seq(A) : /\ Len(FlattenSeq(d(s))) = Len(s)
                                /\ \A i \in 1 .. Len(s) : FlattenSeq(d(s))[i] = Sub(c, s[i])}
<1>1. \A s : b(s) = d(s)
  BY DEF Sub
<1>2. \A e \in A : <<Sub(c, e)>> \in Seq(Passed) /\ Len(<<Sub(c, e)>>) = 1
  BY DEF Sub, Passed
<1>3. <<>> \in C
  <2>1. d(<<>>) = <<>>
    OBVIOUS
  <2> QED
    BY <2>1, FlattenEmpty, EmptySeq
<1>4. ASSUME NEW s \in Seq(A), NEW e \in A, s \in C
      PROVE  Append(s, e) \in C
  <2> DEFINE t == Append(s, e)
  <2>1. /\ t \in Seq(A) /\ Len(t) = Len(s) + 1 /\ t[Len(s) + 1] = e
        /\ \A i \in 1 .. Len(s) : t[i] = s[i]
        /\ DOMAIN t = 1 .. Len(t) /\ DOMAIN s = 1 .. Len(s) /\ Len(s) \in Nat
    BY AppendProperties, LenProperties
  <2> HIDE DEF t
  <2>2. \A i \in 1 .. Len(s) : s[i] \in A
    BY ElementOfSeq
  <2>3. d(s) \in Seq(Seq(Passed)) /\ Len(d(s)) = Len(s)
    BY <1>2, <2>1, <2>2
  <2>4. d(t) = Append(d(s), <<Sub(c, e)>>)
    <3>1. d(t) \in Seq(Seq(Passed)) /\ Len(d(t)) = Len(s) + 1
      <4>1. \A i \in 1 .. Len(t) : t[i] \in A
        BY <2>1, ElementOfSeq
      <4> QED
        BY <1>2, <2>1, <4>1
    <3>2. Append(d(s), <<Sub(c, e)>>) \in Seq(Seq(Passed))
          /\ Len(Append(d(s), <<Sub(c, e)>>)) = Len(s) + 1
      BY <1>2, <2>3, AppendProperties
    <3>3. \A i \in 1 .. Len(s) + 1 :
            d(t)[i] = IF i = Len(s) + 1 THEN <<Sub(c, e)>> ELSE d(s)[i]
      BY <2>1
    <3>4. \A i \in 1 .. Len(s) + 1 :
            Append(d(s), <<Sub(c, e)>>)[i]
              = IF i = Len(s) + 1 THEN <<Sub(c, e)>> ELSE d(s)[i]
      BY <1>2, <2>1, <2>3, AppendProperties
    <3>5. \A i \in 1 .. Len(d(t)) : d(t)[i] = Append(d(s), <<Sub(c, e)>>)[i]
      BY <3>1, <3>3, <3>4
    <3> HIDE DEF d
    <3> QED
      BY <3>1, <3>2, <3>5, SeqEqual
  <2> DEFINE F == FlattenSeq(d(s))
             one == <<Sub(c, e)>>
  <2>5. F \in Seq(Passed) /\ FlattenSeq(d(t)) = F \o one
    BY <1>2, <2>3, <2>4, FlattenType, FlattenAppend
  <2>6. one \in Seq(Passed) /\ Len(one) = 1 /\ one[1] = Sub(c, e)
    BY <1>2
  <2>7. Len(F) = Len(s) /\ \A i \in 1 .. Len(s) : F[i] = Sub(c, s[i])
    BY <1>4
  <2> HIDE DEF F, one, d
  <2>8. /\ Len(F \o one) = Len(s) + 1
        /\ \A i \in 1 .. Len(s) : (F \o one)[i] = F[i]
        /\ (F \o one)[Len(s) + 1] = Sub(c, e)
    <3>1. F \in Seq(Passed) /\ one \in Seq(Passed)
      BY <2>5, <2>6
    <3>2. Len(F \o one) = Len(F) + Len(one) /\ \A i \in 1 .. Len(F) : (F \o one)[i] = F[i]
      BY <3>1, ConcatAt
    <3>3. 1 \in 1 .. Len(one)
      BY <2>6
    <3>4. (F \o one)[Len(F) + 1] = one[1]
      BY <3>1, <3>3, ConcatRight
    <3> QED
      BY <2>6, <2>7, <3>2, <3>4
  <2>9. \A i \in 1 .. Len(t) : (F \o one)[i] = Sub(c, t[i])
    BY <2>1, <2>7, <2>8
  <2> QED
    BY <2>1, <2>5, <2>8, <2>9 DEF t
<1> HIDE DEF C
<1>5. \A s \in Seq(A) : s \in C
  BY <1>3, <1>4, AllSequences
<1>6. \A s \in Argument : In(c, s) = FlattenSeq(d(s))
  BY <1>1 DEF In
<1> QED
  BY <1>5, <1>6 DEF C, Argument

\* g is the recursive function Without is defined by, on the places of s from i on.
RestStep(p, s, i, g) ==
  g = [k \in i .. Len(s) + 1 |->
         IF k > Len(s) THEN <<>>
         ELSE IF IsPrefix(p, SubSeq(s, k, Len(s))) THEN g[k + Len(p)]
         ELSE <<s[k]>> \o g[k + 1]]

LEMMA PairPrefix ==
  ASSUME NEW T, NEW a, NEW b, NEW s \in Seq(T), NEW k \in 1 .. Len(s)
  PROVE  IsPrefix(<<a, b>>, SubSeq(s, k, Len(s)))
           <=> k + 1 <= Len(s) /\ s[k] = a /\ s[k + 1] = b
<1> DEFINE u == SubSeq(s, k, Len(s))
<1>1. Len(s) \in Nat /\ \A i \in k .. Len(s) : s[i] \in T
  BY LenProperties, ElementOfSeq
<1>2. /\ u \in Seq(T) /\ Len(u) = Len(s) - k + 1
      /\ \A i \in 1 .. Len(s) - k + 1 : u[i] = s[k + i - 1]
  BY <1>1, SubSeqProperties
<1> HIDE DEF u
<1> DEFINE A == T \cup {a, b}
           p == <<a, b>>
<1>3. p \in Seq(A) /\ Len(p) = 2 /\ p[1] = a /\ p[2] = b
  OBVIOUS
<1>4. SubSeq(p, 1, 2) = p
  <2> HIDE DEF p
  <2> QED
    BY <1>3, SubSeqFull
<1> HIDE DEF p
<1>5. ASSUME 2 <= Len(u)
      PROVE  SubSeq(u, 1, 2) = p <=> s[k] = a /\ s[k + 1] = b
  <2>1. u[1] = s[k] /\ u[2] = s[k + 1]
    BY <1>1, <1>2, <1>5
  <2> DEFINE v == SubSeq(u, 1, 2)
  <2>2. \A i \in 1 .. 2 : u[i] \in T
    BY <1>2, <1>5, ElementOfSeq
  <2>3. v \in Seq(T) /\ Len(v) = 2 /\ v[1] = u[1] /\ v[2] = u[2]
    BY <2>2, SubSeqProperties
  <2>4. v \in Seq(A)
    BY <2>3, SeqMonotonic
  <2> HIDE DEF v, A
  <2>5. v[1] = p[1] /\ v[2] = p[2] => v = p
    BY <1>3, <2>3, <2>4, SeqEqual
  <2> QED
    BY <1>3, <2>1, <2>3, <2>5 DEF v
<1>6. 2 <= Len(u) <=> k + 1 <= Len(s)
  BY <1>1, <1>2
<1> QED
  BY <1>3, <1>5, <1>6, <1>4 DEF IsPrefix, u, p

LEMMA RestStepExists ==
  ASSUME NEW T, NEW a, NEW b, NEW s \in Seq(T)
  PROVE  \E g : RestStep(<<a, b>>, s, 1, g)
<1> DEFINE p == <<a, b>>
           L == Len(s)
           C == {n \in Nat : n <= L => \E g : RestStep(p, s, L + 1 - n, g)}
<1>1. L \in Nat /\ Len(p) = 2
  BY LenProperties
<1>2. 0 \in C
  <2>1. RestStep(p, s, L + 1, [k \in L + 1 .. L + 1 |-> <<>>])
    BY <1>1 DEF RestStep
  <2> QED
    BY <1>1, <2>1
<1>3. ASSUME NEW n \in Nat, n \in C PROVE n + 1 \in C
  <2> SUFFICES ASSUME n + 1 <= L PROVE \E g : RestStep(p, s, L + 1 - (n + 1), g)
    OBVIOUS
  <2> DEFINE i == L + 1 - n
  <2>1. PICK g : RestStep(p, s, i, g)
    BY <1>1, <1>3
  <2> DEFINE Step(f, k) == IF k > L THEN <<>>
                           ELSE IF IsPrefix(p, SubSeq(s, k, L)) THEN f[k + Len(p)]
                           ELSE <<s[k]>> \o f[k + 1]
             h == [k \in i - 1 .. L + 1 |-> Step(g, k)]
  <2>2. g = [k \in i .. L + 1 |-> Step(g, k)]
    BY <2>1 DEF RestStep
  <2>3. \A k \in i - 1 .. L + 1 : h[k] = Step(g, k)
    OBVIOUS
  <2>4. \A k \in i .. L + 1 : g[k] = Step(g, k)
    <3> HIDE DEF Step
    <3> QED
      BY <2>2
  <2>5. \A k \in i .. L + 1 : h[k] = g[k] /\ k \in Nat
    <3> HIDE DEF Step, h
    <3> QED
      BY <1>1, <2>3, <2>4
  <2> HIDE DEF h
  <2>6. \A k \in i - 1 .. L + 1 : Step(g, k) = Step(h, k)
    <3> TAKE k \in i - 1 .. L + 1
    <3>1. CASE k > L
      BY <3>1
    <3>2. CASE ~ (k > L) /\ IsPrefix(p, SubSeq(s, k, L))
      <4>1. k \in 1 .. L
        BY <1>1, <3>2
      <4>2. k + 1 <= L
        BY <3>2, <4>1, PairPrefix
      <4>3. k + 2 \in i .. L + 1
        BY <1>1, <4>1, <4>2
      <4>4. g[k + 2] = h[k + 2]
        BY <2>5, <4>3
      <4> QED
        BY <1>1, <3>2, <4>4
    <3>3. CASE ~ (k > L) /\ ~ IsPrefix(p, SubSeq(s, k, L))
      <4>1. k + 1 \in i .. L + 1
        BY <1>1, <3>3
      <4>2. g[k + 1] = h[k + 1]
        BY <2>5, <4>1
      <4> QED
        BY <3>3, <4>2
    <3> QED
      BY <3>1, <3>2, <3>3
  <2>7. h = [k \in i - 1 .. L + 1 |-> Step(h, k)]
    <3>1. h = [k \in i - 1 .. L + 1 |-> Step(g, k)]
      BY DEF h
    <3> HIDE DEF Step
    <3> QED
      BY <2>6, <3>1
  <2>8. RestStep(p, s, i - 1, h)
    BY <2>7 DEF RestStep
  <2>9. L + 1 - (n + 1) = i - 1
    BY <1>1
  <2> QED
    BY <2>8, <2>9
<1> HIDE DEF C
<1>4. L \in C
  BY <1>1, <1>2, <1>3, AllNumbers
<1>5. L + 1 - L = 1
  BY <1>1
<1> QED
  BY <1>1, <1>4, <1>5 DEF C

LEMMA WithoutDef ==
  ASSUME NEW T, NEW a, NEW b, NEW s \in Seq(T)
  PROVE  \E g : RestStep(<<a, b>>, s, 1, g) /\ Without(<<a, b>>, s) = g[1]
<1>1. \E g : RestStep(<<a, b>>, s, 1, g)
  BY RestStepExists
<1>2. Without(<<a, b>>, s) = (CHOOSE g : RestStep(<<a, b>>, s, 1, g))[1]
  BY DEF Without, RestStep
<1> QED
  BY <1>1, <1>2

LEMMA RestStepAt ==
  ASSUME NEW T, NEW a, NEW b, NEW s \in Seq(T), NEW g, RestStep(<<a, b>>, s, 1, g),
         NEW k \in 1 .. Len(s) + 1
  PROVE  g[k] = IF k > Len(s) THEN <<>>
                ELSE IF k + 1 <= Len(s) /\ s[k] = a /\ s[k + 1] = b THEN g[k + 2]
                ELSE <<s[k]>> \o g[k + 1]
<1> DEFINE p == <<a, b>>
           Step(i) == IF i > Len(s) THEN <<>>
                      ELSE IF IsPrefix(p, SubSeq(s, i, Len(s))) THEN g[i + Len(p)]
                      ELSE <<s[i]>> \o g[i + 1]
<1>1. g = [i \in 1 .. Len(s) + 1 |-> Step(i)]
  BY DEF RestStep
<1>2. g[k] = Step(k)
  <2> HIDE DEF Step
  <2> QED
    BY <1>1
<1>3. Len(s) \in Nat /\ Len(p) = 2
  BY LenProperties
<1>4. CASE k > Len(s)
  BY <1>2, <1>4
<1>5. CASE ~ (k > Len(s))
  <2>1. k \in 1 .. Len(s)
    BY <1>3, <1>5
  <2>2. IsPrefix(p, SubSeq(s, k, Len(s))) <=> k + 1 <= Len(s) /\ s[k] = a /\ s[k + 1] = b
    BY <2>1, PairPrefix
  <2> QED
    BY <1>2, <1>3, <1>5, <2>2
<1> QED
  BY <1>4, <1>5

LEMMA InEmpty ==
  ASSUME NEW c \in Checkout, c # Root
  PROVE  <<>> \in Argument /\ In(c, <<>>) = <<>>
<1>1. <<>> \in Argument /\ Len(<<>>) = 0
  BY EmptySeq DEF Argument
<1>2. In(c, <<>>) \in Seq(Passed) /\ Len(In(c, <<>>)) = 0
  BY <1>1, InAt, InType
<1> QED
  BY <1>1, <1>2, EmptySeq

LEMMA InCons ==
  ASSUME NEW c \in Checkout, c # Root, NEW e \in Symbol \cup {Base}, NEW s \in Argument
  PROVE  <<e>> \o s \in Argument /\ In(c, <<e>> \o s) = <<Sub(c, e)>> \o In(c, s)
<1> DEFINE t == <<e>> \o s
           u == In(c, s)
           v == <<Sub(c, e)>> \o u
<1>1. Sub(c, e) \in Passed
  BY DEF Sub, Passed
<1>2. /\ t \in Argument /\ Len(t) = 1 + Len(s) /\ Len(s) \in Nat /\ t[1] = e
      /\ \A i \in 1 .. Len(s) : t[1 + i] = s[i]
  <2>1. <<e>> \in Argument /\ Len(<<e>>) = 1 /\ <<e>>[1] = e
    BY DEF Argument
  <2> QED
    BY <2>1, ConcatAt, ConcatRight DEF Argument
<1>3. /\ u \in Seq(Passed) /\ Len(u) = Len(s)
      /\ \A i \in 1 .. Len(s) : u[i] = Sub(c, s[i])
  BY InAt, InType
<1> HIDE DEF u
<1>4. /\ v \in Seq(Passed) /\ Len(v) = 1 + Len(s) /\ v[1] = Sub(c, e)
      /\ \A i \in 1 .. Len(s) : v[1 + i] = u[i]
  <2>1. <<Sub(c, e)>> \in Seq(Passed) /\ Len(<<Sub(c, e)>>) = 1
        /\ <<Sub(c, e)>>[1] = Sub(c, e)
    BY <1>1
  <2> QED
    BY <1>3, <2>1, ConcatAt, ConcatRight
<1> HIDE DEF t, v
<1>5. /\ In(c, t) \in Seq(Passed) /\ Len(In(c, t)) = 1 + Len(s)
      /\ \A i \in 1 .. 1 + Len(s) : In(c, t)[i] = Sub(c, t[i])
  BY <1>2, InAt, InType
<1>6. ASSUME NEW i \in 1 .. 1 + Len(s) PROVE Sub(c, t[i]) = v[i]
  <2>1. CASE i = 1
    BY <1>2, <1>4, <2>1
  <2>2. CASE i # 1
    <3>1. i - 1 \in 1 .. Len(s) /\ 1 + (i - 1) = i
      BY <1>2, <2>2
    <3>2. t[i] = s[i - 1] /\ v[i] = u[i - 1]
      BY <1>2, <1>4, <3>1
    <3> QED
      BY <1>3, <3>1, <3>2
  <2> QED
    BY <2>1, <2>2
<1>7. \A i \in 1 .. Len(v) : In(c, t)[i] = v[i]
  BY <1>4, <1>5, <1>6
<1>8. In(c, t) = v
  BY <1>4, <1>5, <1>7, SeqEqual
<1> QED
  BY <1>2, <1>8 DEF t, u, v

\* What is left of an argument behind a place is the same whether the checkout is
\* stripped or Base is.
LEMMA RestIn ==
  ASSUME NEW c \in Checkout, c # Root, NEW s \in Argument,
         NEW g, RestStep(<<Base, "/">>, s, 1, g),
         NEW h, RestStep(<<c, "/">>, In(c, s), 1, h)
  PROVE  \A k \in 1 .. Len(s) + 1 : g[k] \in Argument /\ h[k] = In(c, g[k])
<1> DEFINE w == In(c, s)
           L == Len(s)
           Good(k) == g[k] \in Argument /\ h[k] = In(c, g[k])
           C == {n \in Nat : \A k \in 1 .. L + 1 : L + 1 - n <= k => Good(k)}
<1>1. /\ w \in Seq(Passed) /\ Len(w) = L /\ L \in Nat
      /\ \A i \in 1 .. L : w[i] = Sub(c, s[i]) /\ s[i] \in Symbol \cup {Base}
  BY InAt, InType, LenProperties, ElementOfSeq DEF Argument
<1>2. \A k \in 1 .. L + 1 :
        g[k] = IF k > L THEN <<>>
               ELSE IF k + 1 <= L /\ s[k] = Base /\ s[k + 1] = "/" THEN g[k + 2]
               ELSE <<s[k]>> \o g[k + 1]
  BY RestStepAt DEF Argument
<1>3. \A k \in 1 .. L + 1 :
        h[k] = IF k > L THEN <<>>
               ELSE IF k + 1 <= L /\ w[k] = c /\ w[k + 1] = "/" THEN h[k + 2]
               ELSE <<w[k]>> \o h[k + 1]
  <2> HIDE DEF w
  <2>1. RestStep(<<c, "/">>, w, 1, h)
    BY DEF w
  <2> QED
    BY <1>1, <2>1, RestStepAt
<1>4. \A k \in 1 .. L : /\ w[k] = c <=> s[k] = Base
                        /\ w[k] = "/" <=> s[k] = "/"
                        /\ w[k] = Sub(c, s[k])
  BY <1>1, SymbolAssumption DEF Sub
<1> HIDE DEF w
<1>5. Good(L + 1)
  <2>1. L + 1 \in 1 .. L + 1 /\ L + 1 > L
    BY <1>1
  <2>2. g[L + 1] = <<>> /\ h[L + 1] = <<>>
    BY <1>2, <1>3, <2>1
  <2> QED
    BY <2>2, InEmpty
<1>6. ASSUME NEW k \in 1 .. L, \A i \in k + 1 .. L + 1 : Good(i) PROVE Good(k)
  <2>1. k \in 1 .. L + 1 /\ ~ (k > L) /\ k + 1 \in k + 1 .. L + 1
    BY <1>1
  <2>2. CASE k + 1 <= L /\ s[k] = Base /\ s[k + 1] = "/"
    <3>1. k + 1 \in 1 .. L /\ k + 2 \in k + 1 .. L + 1
      BY <1>1, <2>2
    <3>2. w[k] = c /\ w[k + 1] = "/"
      BY <1>4, <2>2, <3>1
    <3>3. g[k] = g[k + 2]
      BY <1>2, <2>1, <2>2
    <3>4. h[k] = h[k + 2]
      BY <1>3, <2>1, <2>2, <3>2
    <3>5. Good(k + 2)
      BY <1>6, <3>1
    <3> QED
      BY <3>3, <3>4, <3>5
  <2>3. CASE ~ (k + 1 <= L /\ s[k] = Base /\ s[k + 1] = "/")
    <3>1. ~ (k + 1 <= L /\ w[k] = c /\ w[k + 1] = "/")
      <4>1. k + 1 <= L => k + 1 \in 1 .. L
        BY <1>1
      <4> QED
        BY <1>4, <2>3, <4>1
    <3>2. g[k] = <<s[k]>> \o g[k + 1]
      BY <1>2, <2>1, <2>3
    <3>3. h[k] = <<w[k]>> \o h[k + 1]
      BY <1>3, <2>1, <3>1
    <3>4. Good(k + 1)
      BY <1>6, <2>1
    <3>5. w[k] = Sub(c, s[k]) /\ s[k] \in Symbol \cup {Base}
      BY <1>1
    <3> QED
      BY <3>2, <3>3, <3>4, <3>5, InCons
  <2> QED
    BY <2>2, <2>3
<1> HIDE DEF Good
<1>7. 0 \in C
  BY <1>1, <1>5
<1>8. ASSUME NEW n \in Nat, n \in C PROVE n + 1 \in C
  <2> SUFFICES ASSUME NEW k \in 1 .. L + 1, L + 1 - (n + 1) <= k PROVE Good(k)
    OBVIOUS
  <2>1. \A i \in 1 .. L + 1 : L + 1 - n <= i => Good(i)
    BY <1>8
  <2>2. CASE k = L + 1
    BY <1>5, <2>2
  <2>3. CASE k # L + 1
    <3>1. k \in 1 .. L /\ \A i \in k + 1 .. L + 1 : i \in 1 .. L + 1 /\ L + 1 - n <= i
      BY <1>1, <2>3
    <3>2. \A i \in k + 1 .. L + 1 : Good(i)
      BY <2>1, <3>1
    <3> QED
      BY <1>6, <3>1, <3>2
  <2> QED
    BY <2>2, <2>3
<1> HIDE DEF C
<1>9. L + 1 \in C
  BY <1>1, <1>7, <1>8, AllNumbers
<1> QED
  BY <1>1, <1>9 DEF C, Good

\* Stripping an argument leaves what it means, wherever the checkout is.
LEMMA StripIn ==
  ASSUME NEW c \in Checkout, NEW s \in Argument
  PROVE  Strip(c, In(c, s)) = Portable(c, s) /\ Portable(c, s) \in Seq(Passed)
<1>1. CASE c = Root
  BY <1>1, InType DEF Strip, Prefix, Portable
<1>2. CASE c # Root
  <2>1. Prefix(c) = <<c, "/">> /\ Prefix(c) # <<"/">>
    <3>1. Len(<<c, "/">>) = 2 /\ Len(<<"/">>) = 1
      OBVIOUS
    <3> QED
      BY <1>2, <3>1 DEF Prefix
  <2>2. In(c, s) \in Seq(Passed) /\ Len(s) \in Nat /\ s \in Seq(Symbol \cup {Base})
    BY InType, LenProperties DEF Argument
  <2>3. PICK g : RestStep(<<Base, "/">>, s, 1, g) /\ Without(<<Base, "/">>, s) = g[1]
    BY <2>2, WithoutDef
  <2>4. PICK h : /\ RestStep(<<c, "/">>, In(c, s), 1, h)
                 /\ Without(<<c, "/">>, In(c, s)) = h[1]
    BY <2>2, WithoutDef
  <2>5. g[1] \in Argument /\ h[1] = In(c, g[1])
    <3>1. 1 \in 1 .. Len(s) + 1
      BY <2>2
    <3> QED
      BY <1>2, <2>3, <2>4, <3>1, RestIn
  <2>6. In(c, g[1]) \in Seq(Passed)
    BY <2>5, InType
  <2> QED
    BY <1>2, <2>1, <2>3, <2>4, <2>5, <2>6 DEF Strip, Portable
<1> QED
  BY <1>1, <1>2

-----------------------------------------------------------------------------
(* The groups of the key *)

\* The names of the entries of an ordered list, as fields.
Names(list) == [i \in DOMAIN list |-> <<list[i]>>]

LEMMA NamesInjective ==
  ASSUME NEW list \in Seq(Symbol), IsInjective(list)
  PROVE  /\ Names(list) \in Seq(Seq(Passed)) /\ IsInjective(Names(list))
         /\ Len(Names(list)) = Len(list)
         /\ \A i \in 1 .. Len(list) : Names(list)[i] = <<list[i]>>
<1>1. DOMAIN list = 1 .. Len(list) /\ Len(list) \in Nat
      /\ \A i \in 1 .. Len(list) : list[i] \in Passed
  BY LenProperties, ElementOfSeq DEF Passed
<1>2. \A i \in 1 .. Len(list) : <<list[i]>> \in Seq(Passed) /\ <<list[i]>>[1] = list[i]
  BY <1>1
<1>3. Names(list) = [i \in 1 .. Len(list) |-> <<list[i]>>]
  BY <1>1 DEF Names
<1>4. Names(list) \in Seq(Seq(Passed)) /\ Len(Names(list)) = Len(list)
      /\ DOMAIN Names(list) = 1 .. Len(list)
  BY <1>1, <1>2, <1>3
<1>5. ASSUME NEW i \in 1 .. Len(list), NEW j \in 1 .. Len(list), <<list[i]>> = <<list[j]>>
      PROVE  i = j
  <2>1. list[i] = list[j]
    BY <1>5
  <2> QED
    BY <1>1, <2>1 DEF IsInjective
<1> QED
  BY <1>3, <1>4, <1>5 DEF IsInjective

IsPackage(p) == DOMAIN p \subseteq Range(Files) /\ p \in [DOMAIN p -> Text]

PackageBlocks(p) ==
  [i \in DOMAIN Files |-> IF Files[i] \in Native \cap DOMAIN p
                          THEN <<<<Files[i]>>, p[Files[i]]>> ELSE <<>>]

LEMMA PackageTagged ==
  ASSUME NEW p, IsPackage(p)
  PROVE  /\ PackageBlocks(p) \in Seq(Seq(Seq(Byte)))
         /\ Len(PackageBlocks(p)) = Len(Files)
         /\ Tagged(Names(Files), 2, PackageBlocks(p))
<1> DEFINE b == PackageBlocks(p)
<1>1. DOMAIN Files = 1 .. Len(Files) /\ Len(Files) \in Nat
      /\ \A i \in 1 .. Len(Files) : Files[i] \in Symbol
  BY NamesAssumption, LenProperties, ElementOfSeq
<1>2. ASSUME NEW i \in 1 .. Len(Files), Files[i] \in Native \cap DOMAIN p
      PROVE  <<Files[i]>> \in Seq(Byte) /\ p[Files[i]] \in Seq(Byte)
  <2>1. p[Files[i]] \in Text /\ Files[i] \in Passed
    BY <1>1, <1>2 DEF IsPackage, Passed
  <2>2. <<Files[i]>> \in Seq(Passed)
    BY <2>1
  <2> QED
    BY <2>1, <2>2, Bytes
<1>3. \A i \in 1 .. Len(Files) :
        b[i] = IF Files[i] \in Native \cap DOMAIN p
               THEN <<<<Files[i]>>, p[Files[i]]>> ELSE <<>>
  BY <1>1 DEF PackageBlocks
<1>4. ASSUME NEW i \in 1 .. Len(Files)
      PROVE  /\ b[i] \in Seq(Seq(Byte))
             /\ b[i] = <<>> \/ (Len(b[i]) = 2 /\ b[i][1] = <<Files[i]>>)
  <2>1. CASE Files[i] \in Native \cap DOMAIN p
    <3> DEFINE one == <<Files[i]>>
               two == p[Files[i]]
    <3>1. one \in Seq(Byte) /\ two \in Seq(Byte) /\ b[i] = <<one, two>>
      BY <1>2, <1>3, <2>1
    <3> HIDE DEF one, two
    <3>2. b[i] \in Seq(Seq(Byte)) /\ Len(b[i]) = 2 /\ b[i][1] = one
      BY <3>1
    <3> QED
      BY <3>2 DEF one
  <2>2. CASE ~ (Files[i] \in Native \cap DOMAIN p)
    BY <1>3, <2>2, EmptySeq
  <2> QED
    BY <2>1, <2>2
<1>5. b = [i \in 1 .. Len(Files) |-> b[i]]
  BY <1>1 DEF PackageBlocks
<1> HIDE DEF b
<1>6. b \in Seq(Seq(Seq(Byte))) /\ Len(b) = Len(Files)
  BY <1>1, <1>4, <1>5
<1>7. Len(Names(Files)) = Len(Files)
      /\ \A i \in 1 .. Len(Files) : Names(Files)[i] = <<Files[i]>>
  BY NamesAssumption, NamesInjective
<1>8. \A i \in 1 .. Len(b) :
        b[i] = <<>> \/ (Len(b[i]) = 2 /\ b[i][1] = Names(Files)[i])
  BY <1>4, <1>6, <1>7
<1>9. Len(b) <= Len(Names(Files))
  BY <1>1, <1>6, <1>7
<1>10. Tagged(Names(Files), 2, b)
  BY <1>8, <1>9 DEF Tagged
<1> QED
  BY <1>6, <1>10 DEF b

LEMMA PackageType ==
  ASSUME NEW p, IsPackage(p)
  PROVE  HashPackage(p) \in Seq(Seq(Byte))
<1>1. HashPackage(p) = FlattenSeq(PackageBlocks(p))
  BY DEF HashPackage, PackageBlocks
<1>2. PackageBlocks(p) \in Seq(Seq(Seq(Byte)))
  BY PackageTagged
<1> QED
  BY <1>1, <1>2, FlattenType

\* The libraries as hashed are those of one package only.
LEMMA PackageUnique ==
  ASSUME NEW p, IsPackage(p), NEW q, IsPackage(q)
  PROVE  HashPackage(p) = HashPackage(q)
           <=> [f \in Native \cap DOMAIN p |-> p[f]] = [f \in Native \cap DOMAIN q |-> q[f]]
<1> DEFINE P == Native \cap DOMAIN p
           Q == Native \cap DOMAIN q
           b == PackageBlocks(p)
           d == PackageBlocks(q)
<1>1. HashPackage(p) = FlattenSeq(b) /\ HashPackage(q) = FlattenSeq(d)
  BY DEF HashPackage, PackageBlocks
<1>2. DOMAIN Files = 1 .. Len(Files)
  BY NamesAssumption, LenProperties
<1>3. \A i \in DOMAIN Files :
        /\ b[i] = IF Files[i] \in P THEN <<<<Files[i]>>, p[Files[i]]>> ELSE <<>>
        /\ d[i] = IF Files[i] \in Q THEN <<<<Files[i]>>, q[Files[i]]>> ELSE <<>>
  BY DEF PackageBlocks
<1>4. ASSUME HashPackage(p) = HashPackage(q)
      PROVE  [f \in P |-> p[f]] = [f \in Q |-> q[f]]
  <2>1. /\ b \in Seq(Seq(Seq(Byte))) /\ Tagged(Names(Files), 2, b)
        /\ d \in Seq(Seq(Seq(Byte))) /\ Tagged(Names(Files), 2, d)
        /\ Len(b) = Len(d) /\ FlattenSeq(b) = FlattenSeq(d)
    BY <1>1, <1>4, PackageTagged
  <2>2. Names(Files) \in Seq(Seq(Byte)) /\ IsInjective(Names(Files)) /\ 2 \in {1, 2}
    BY NamesAssumption, NamesInjective, Bytes
  <2> HIDE DEF b, d
  <2>3. b = d
    BY <2>1, <2>2, BlocksUnique
  <2>4. ASSUME NEW i \in DOMAIN Files
        PROVE  /\ Files[i] \in P <=> Files[i] \in Q
               /\ Files[i] \in P => p[Files[i]] = q[Files[i]]
    <3>1. \A x, y : <<x, y>> # <<>> /\ \A z : <<x, y>> = <<x, z>> => y = z
      OBVIOUS
    <3> QED
      BY <1>3, <2>3, <3>1
  <2>5. \A f \in DOMAIN p \cup DOMAIN q : \E i \in DOMAIN Files : f = Files[i]
    BY DEF IsPackage, Range
  <2>6. P = Q /\ \A f \in P : p[f] = q[f]
    BY <2>4, <2>5
  <2> QED
    BY <2>6
<1>5. ASSUME [f \in P |-> p[f]] = [f \in Q |-> q[f]]
      PROVE  HashPackage(p) = HashPackage(q)
  <2>1. P = Q /\ \A f \in P : p[f] = q[f]
    <3> DEFINE F == [f \in P |-> p[f]]
               G == [f \in Q |-> q[f]]
    <3>1. DOMAIN F = P /\ DOMAIN G = Q /\ \A f \in P : F[f] = p[f]
          /\ \A g \in Q : G[g] = q[g]
      OBVIOUS
    <3>2. F = G
      BY <1>5
    <3> HIDE DEF F, G, P, Q
    <3> QED
      BY <3>1, <3>2
  <2>2. \A i \in DOMAIN Files :
          (IF Files[i] \in Native \cap DOMAIN p THEN <<<<Files[i]>>, p[Files[i]]>> ELSE <<>>)
          = (IF Files[i] \in Native \cap DOMAIN q THEN <<<<Files[i]>>, q[Files[i]]>> ELSE <<>>)
    BY <2>1
  <2>3. b = d
    BY <2>2 DEF PackageBlocks
  <2> QED
    BY <1>1, <2>3
<1> QED
  BY <1>4, <1>5

VariableBlocks(e) ==
  [i \in DOMAIN Variables |-> IF Variables[i] \in e THEN <<<<Variables[i]>>>> ELSE <<>>]

LEMMA VariablesTagged ==
  ASSUME NEW e
  PROVE  /\ VariableBlocks(e) \in Seq(Seq(Seq(Passed)))
         /\ Len(VariableBlocks(e)) = Len(Variables)
         /\ Tagged(Names(Variables), 1, VariableBlocks(e))
<1> DEFINE b == VariableBlocks(e)
<1>1. DOMAIN Variables = 1 .. Len(Variables) /\ Len(Variables) \in Nat
      /\ \A i \in 1 .. Len(Variables) : Variables[i] \in Passed
  BY NamesAssumption, LenProperties, ElementOfSeq DEF Passed
<1>2. \A i \in 1 .. Len(Variables) :
        b[i] = IF Variables[i] \in e THEN <<<<Variables[i]>>>> ELSE <<>>
  BY <1>1 DEF VariableBlocks
<1>3. ASSUME NEW i \in 1 .. Len(Variables)
      PROVE  /\ b[i] \in Seq(Seq(Passed))
             /\ b[i] = <<>> \/ (Len(b[i]) = 1 /\ b[i][1] = <<Variables[i]>>)
  <2>1. CASE Variables[i] \in e
    <3> DEFINE one == <<Variables[i]>>
    <3>1. one \in Seq(Passed) /\ b[i] = <<one>>
      <4>1. Variables[i] \in Passed /\ b[i] = <<<<Variables[i]>>>>
        BY <1>1, <1>2, <2>1
      <4> HIDE DEF b
      <4> QED
        BY <4>1
    <3> HIDE DEF one
    <3>2. b[i] \in Seq(Seq(Passed)) /\ Len(b[i]) = 1 /\ b[i][1] = one
      BY <3>1
    <3> QED
      BY <3>2 DEF one
  <2>2. CASE ~ (Variables[i] \in e)
    BY <1>2, <2>2, EmptySeq
  <2> QED
    BY <2>1, <2>2
<1>4. b = [i \in 1 .. Len(Variables) |-> b[i]]
  BY <1>1 DEF VariableBlocks
<1> HIDE DEF b
<1>5. b \in Seq(Seq(Seq(Passed))) /\ Len(b) = Len(Variables)
  BY <1>1, <1>3, <1>4
<1>6. Len(Names(Variables)) = Len(Variables)
      /\ \A i \in 1 .. Len(Variables) : Names(Variables)[i] = <<Variables[i]>>
  BY NamesAssumption, NamesInjective
<1>7. \A i \in 1 .. Len(b) :
        b[i] = <<>> \/ (Len(b[i]) = 1 /\ b[i][1] = Names(Variables)[i])
  BY <1>3, <1>5, <1>6
<1>8. Len(b) <= Len(Names(Variables))
  BY <1>1, <1>5, <1>6
<1>9. Tagged(Names(Variables), 1, b)
  BY <1>7, <1>8 DEF Tagged
<1> QED
  BY <1>5, <1>9 DEF b

\* The variables as hashed are those of one environment only.
LEMMA VariablesUnique ==
  ASSUME NEW d, NEW e
  PROVE  ZividEnv(d) = ZividEnv(e) <=> d \cap Range(Variables) = e \cap Range(Variables)
<1>1. /\ ZividEnv(d) = FlattenSeq(VariableBlocks(d))
      /\ ZividEnv(e) = FlattenSeq(VariableBlocks(e))
  BY DEF ZividEnv, VariableBlocks
<1>2. ASSUME ZividEnv(d) = ZividEnv(e)
      PROVE  d \cap Range(Variables) = e \cap Range(Variables)
  <2>1. /\ VariableBlocks(d) \in Seq(Seq(Seq(Passed)))
        /\ Tagged(Names(Variables), 1, VariableBlocks(d))
        /\ VariableBlocks(e) \in Seq(Seq(Seq(Passed)))
        /\ Tagged(Names(Variables), 1, VariableBlocks(e))
        /\ Len(VariableBlocks(d)) = Len(VariableBlocks(e))
        /\ FlattenSeq(VariableBlocks(d)) = FlattenSeq(VariableBlocks(e))
    BY <1>1, <1>2, VariablesTagged
  <2>2. Names(Variables) \in Seq(Seq(Passed)) /\ IsInjective(Names(Variables)) /\ 1 \in {1, 2}
    BY NamesAssumption, NamesInjective
  <2>3. VariableBlocks(d) = VariableBlocks(e)
    BY <2>1, <2>2, BlocksUnique
  <2>4. ASSUME NEW i \in DOMAIN Variables
        PROVE  Variables[i] \in d <=> Variables[i] \in e
    <3>1. /\ VariableBlocks(d)[i] = IF Variables[i] \in d THEN <<<<Variables[i]>>>> ELSE <<>>
          /\ VariableBlocks(e)[i] = IF Variables[i] \in e THEN <<<<Variables[i]>>>> ELSE <<>>
      BY DEF VariableBlocks
    <3>2. <<<<Variables[i]>>>> # <<>>
      OBVIOUS
    <3> QED
      BY <2>3, <3>1, <3>2
  <2> QED
    BY <2>4 DEF Range
<1>3. ASSUME d \cap Range(Variables) = e \cap Range(Variables)
      PROVE  ZividEnv(d) = ZividEnv(e)
  <2>1. \A i \in DOMAIN Variables : Variables[i] \in d <=> Variables[i] \in e
    BY <1>3 DEF Range
  <2>2. VariableBlocks(d) = VariableBlocks(e)
    BY <2>1 DEF VariableBlocks
  <2> QED
    BY <1>1, <2>2
<1> QED
  BY <1>2, <1>3

-----------------------------------------------------------------------------
(* Reading the fields back *)

\* The fields of the groups behind the libraries, the last three in brackets.
Rest(O, D, V, A) == Group(O) \o (Group(D) \o (Group(V) \o Group(A)))

LEMMA GroupType ==
  ASSUME NEW T, <<>> \in T, NEW X \in Seq(T)
  PROVE  /\ Group(X) \in Seq(T) /\ Len(Group(X)) = Len(X) + 1 /\ Len(X) \in Nat
         /\ \A i \in 1 .. Len(X) : Group(X)[i] = X[i]
         /\ Group(X)[Len(X) + 1] = <<>>
  BY AppendProperties, LenProperties DEF Group

LEMMA GroupInjective ==
  ASSUME NEW T, <<>> \in T, NEW X \in Seq(T), NEW Y \in Seq(T), Group(X) = Group(Y)
  PROVE  X = Y
  BY AppendInjective DEF Group

\* A group that no field of which ends another one first is that other one.
LEMMA SameGroup ==
  ASSUME NEW T, <<>> \in T, NEW X \in Seq(T), NEW Y \in Seq(T),
         NEW R \in Seq(T), NEW Q \in Seq(T),
         Group(X) \o R = Group(Y) \o Q, Len(X) = Len(Y)
  PROVE  X = Y /\ R = Q
<1>1. Group(X) \in Seq(T) /\ Group(Y) \in Seq(T) /\ Len(Group(X)) = Len(Group(Y))
  BY GroupType
<1>2. Group(X) = Group(Y) /\ R = Q
  BY <1>1, Cancel
<1> QED
  BY <1>2, GroupInjective

\* No variable is an empty field.
Filled(V) == \A k \in 1 .. Len(V) : V[k] # <<>>

LEMMA VariablesFilled ==
  ASSUME NEW e
  PROVE  ZividEnv(e) \in Seq(Seq(Passed)) /\ Filled(ZividEnv(e))
<1> DEFINE V == ZividEnv(e)
           b == VariableBlocks(e)
<1>1. V = FlattenSeq(b)
  BY DEF ZividEnv, VariableBlocks
<1>2. /\ b \in Seq(Seq(Seq(Passed))) /\ Tagged(Names(Variables), 1, b)
      /\ Len(b) = Len(Variables)
  BY VariablesTagged
<1>3. /\ Names(Variables) \in Seq(Seq(Passed))
      /\ \A i \in 1 .. Len(Variables) : Names(Variables)[i] = <<Variables[i]>>
  BY NamesAssumption, NamesInjective
<1> HIDE DEF b, V
<1>4. V \in Seq(Seq(Passed)) /\ NamesAt(Names(Variables), 1, V, Len(b))
  <2>1. 1 \in {1, 2}
    OBVIOUS
  <2> QED
    BY <1>1, <1>2, <1>3, <2>1, FlattenType, TagsAt
<1>5. ASSUME NEW k \in 1 .. Len(V) PROVE V[k] # <<>>
  <2>1. Len(V) \in Nat
    BY <1>4, LenProperties
  <2>2. (k - 1) % 1 = 0
    BY <2>1
  <2>3. PICK j \in 1 .. Len(b) : V[k] = Names(Variables)[j]
    BY <1>4, <2>2 DEF NamesAt
  <2>4. V[k] = <<Variables[j]>> /\ <<Variables[j]>> # <<>>
    BY <1>2, <1>3, <2>3
  <2> QED
    BY <2>4
<1> QED
  BY <1>4, <1>5 DEF V, Filled

\* Where the arguments of one run begin, no field of the other's dependencies and
\* variables is.
LEMMA ArgumentsBegin ==
  ASSUME NEW T, <<>> \in T,
         NEW D \in Seq(T), NEW V \in Seq(T), NEW A \in Seq(T),
         NEW D2 \in Seq(T), NEW V2 \in Seq(T), NEW A2 \in Seq(T),
         (Group(D) \o Group(V)) \o Group(A) = (Group(D2) \o Group(V2)) \o Group(A2),
         A # <<>>, A[1] # <<>>, A[1] \notin Range(D2) \cup Range(V2)
  PROVE  ~ (Len(Group(D) \o Group(V)) < Len(Group(D2) \o Group(V2)))
<1> DEFINE X == Group(D) \o Group(V)
           d == Group(D2)
           v == Group(V2)
           a == Group(A)
           a2 == Group(A2)
<1>1. /\ d \in Seq(T) /\ Len(d) = Len(D2) + 1 /\ Len(D2) \in Nat
      /\ \A i \in 1 .. Len(D2) : d[i] = D2[i]
      /\ d[Len(D2) + 1] = <<>>
  BY GroupType
<1>2. /\ v \in Seq(T) /\ Len(v) = Len(V2) + 1 /\ Len(V2) \in Nat
      /\ \A i \in 1 .. Len(V2) : v[i] = V2[i]
      /\ v[Len(V2) + 1] = <<>>
  BY GroupType
<1>3. a \in Seq(T) /\ Len(a) = Len(A) + 1 /\ a[1] = A[1] /\ 1 \in 1 .. Len(a)
  <2>1. Len(A) \in Nat \ {0}
    BY EmptySeq
  <2>2. a \in Seq(T) /\ Len(a) = Len(A) + 1 /\ \A i \in 1 .. Len(A) : a[i] = A[i]
    BY GroupType
  <2>3. 1 \in 1 .. Len(A)
    BY <2>1
  <2> HIDE DEF a
  <2> QED
    BY <2>1, <2>2, <2>3
<1>4. a2 \in Seq(T) /\ X \in Seq(T) /\ Len(X) \in Nat
  BY GroupType, ConcatAt
<1>5. X \o a = (d \o v) \o a2
  OBVIOUS
<1>6. /\ DOMAIN D2 = 1 .. Len(D2) /\ DOMAIN V2 = 1 .. Len(V2)
      /\ \A i \in 1 .. Len(D2) : D2[i] \in Range(D2)
      /\ \A i \in 1 .. Len(V2) : V2[i] \in Range(V2)
  BY LenProperties DEF Range
<1> HIDE DEF X, d, v, a, a2
<1>7. d \o v \in Seq(T) /\ Len(d \o v) = Len(d) + Len(v)
  <2>1. d \in Seq(T) /\ v \in Seq(T)
    BY <1>1, <1>2
  <2> QED
    BY <2>1, ConcatAt
<1>8. \A i \in 1 .. Len(d) : (d \o v)[i] = d[i]
  BY <1>1, <1>2, ConcatAt
<1>9. ASSUME NEW i \in 1 .. Len(v) PROVE (d \o v)[Len(d) + i] = v[i]
  <2>1. d \in Seq(T) /\ v \in Seq(T)
    BY <1>1, <1>2
  <2> QED
    BY <2>1, ConcatRight
<1>10. ASSUME NEW i \in 1 .. Len(d \o v) PROVE (d \o v)[i] # A[1]
  <2>1. CASE i \in 1 .. Len(D2)
    BY <1>1, <1>6, <1>8, <2>1
  <2>2. CASE i = Len(d)
    BY <1>1, <1>8, <2>2
  <2>3. CASE i > Len(d)
    <3> DEFINE j == i - Len(d)
    <3>1. j \in 1 .. Len(v) /\ Len(d) + j = i
      BY <1>1, <1>2, <1>7, <2>3
    <3> HIDE DEF j
    <3>2. (d \o v)[i] = v[j]
      BY <1>9, <3>1
    <3>3. j = Len(V2) + 1 \/ j \in 1 .. Len(V2)
      BY <1>2, <3>1
    <3>4. v[j] = <<>> \/ (v[j] = V2[j] /\ V2[j] \in Range(V2))
      BY <1>2, <1>6, <3>3
    <3> QED
      BY <3>2, <3>4
  <2> QED
    BY <1>1, <1>7, <2>1, <2>2, <2>3
<1>11. ASSUME Len(X) < Len(d \o v) PROVE FALSE
  <2>1. Len(X) + 1 \in 1 .. Len(d \o v)
    BY <1>1, <1>2, <1>4, <1>7, <1>11
  <2>2. (X \o a)[Len(X) + 1] = a[1]
    BY <1>3, <1>4, ConcatRight
  <2>3. ((d \o v) \o a2)[Len(X) + 1] = (d \o v)[Len(X) + 1]
    BY <1>4, <1>7, <2>1, ConcatAt
  <2> QED
    BY <1>3, <1>5, <1>10, <2>1, <2>2, <2>3
<1> QED
  BY <1>11 DEF X, d, v

\* The group of dependencies ends at the last empty field before the one that ends
\* the variables.
LEMMA DependenciesEnd ==
  ASSUME NEW T, <<>> \in T,
         NEW D \in Seq(T), NEW V \in Seq(T), NEW D2 \in Seq(T), NEW V2 \in Seq(T),
         Group(D) \o Group(V) = Group(D2) \o Group(V2), Filled(V)
  PROVE  ~ (Len(D) < Len(D2))
<1> DEFINE d == Group(D)
           v == Group(V)
           d2 == Group(D2)
           v2 == Group(V2)
<1>1. /\ d \in Seq(T) /\ Len(d) = Len(D) + 1 /\ Len(D) \in Nat
      /\ d2 \in Seq(T) /\ Len(d2) = Len(D2) + 1 /\ Len(D2) \in Nat
      /\ d2[Len(D2) + 1] = <<>>
  BY GroupType
<1>2. /\ v \in Seq(T) /\ Len(v) = Len(V) + 1 /\ Len(V) \in Nat
      /\ \A i \in 1 .. Len(V) : v[i] = V[i]
      /\ v2 \in Seq(T) /\ Len(v2) = Len(V2) + 1 /\ Len(V2) \in Nat
  BY GroupType
<1>3. d \o v = d2 \o v2
  OBVIOUS
<1> HIDE DEF d, v, d2, v2
<1>4. Len(d) + Len(v) = Len(d2) + Len(v2)
  <2>1. Len(d \o v) = Len(d) + Len(v) /\ Len(d2 \o v2) = Len(d2) + Len(v2)
    BY <1>1, <1>2, ConcatAt
  <2> QED
    BY <1>3, <2>1
<1>5. ASSUME Len(D) < Len(D2) PROVE FALSE
  <2> DEFINE m == Len(D2) - Len(D)
  <2>1. m \in 1 .. Len(V) /\ m \in 1 .. Len(v) /\ Len(d) + m = Len(d2)
        /\ Len(d2) \in 1 .. Len(d2)
    BY <1>1, <1>2, <1>4, <1>5
  <2> HIDE DEF m
  <2>2. (d \o v)[Len(d) + m] = v[m]
    <3>1. d \in Seq(T) /\ v \in Seq(T) /\ m \in 1 .. Len(v)
      BY <1>1, <1>2, <2>1
    <3> QED
      BY <3>1, ConcatRight
  <2>3. (d2 \o v2)[Len(d2)] = d2[Len(d2)]
    BY <1>1, <1>2, <2>1, ConcatAt
  <2>4. v[m] # <<>>
    BY <1>2, <2>1 DEF Filled
  <2> QED
    BY <1>1, <1>3, <2>1, <2>2, <2>3, <2>4
<1> QED
  BY <1>5

\* Two groups of which neither ends before the other are one.
LEMMA GroupsEnd ==
  ASSUME NEW T, <<>> \in T, NEW X \in Seq(T), NEW Y \in Seq(T),
         NEW R \in Seq(T), NEW Q \in Seq(T),
         Group(X) \o R = Group(Y) \o Q, ~ (Len(X) < Len(Y)), ~ (Len(Y) < Len(X))
  PROVE  X = Y /\ R = Q
<1>1. Len(X) \in Nat /\ Len(Y) \in Nat
  BY LenProperties
<1>2. Len(X) = Len(Y)
  BY <1>1
<1> QED
  BY <1>2, SameGroup

Readable(T, O, D, V, A) ==
  /\ O \in Seq(T) /\ D \in Seq(T) /\ V \in Seq(T) /\ A \in Seq(T)
  /\ Len(O) = 2 /\ Filled(V) /\ A # <<>> /\ A[1] # <<>>

\* The command does not occur before the arguments.
Apart(A, D, V) == A[1] \notin Range(D) \cup Range(V)

\* The groups can be read back, as long as neither run has a dependency or variable
\* that is the other's command.
LEMMA ReadBack ==
  ASSUME NEW T, <<>> \in T,
         NEW O, NEW D, NEW V, NEW A, Readable(T, O, D, V, A),
         NEW O2, NEW D2, NEW V2, NEW A2, Readable(T, O2, D2, V2, A2),
         Apart(A, D2, V2), Apart(A2, D, V), Rest(O, D, V, A) = Rest(O2, D2, V2, A2)
  PROVE  O = O2 /\ D = D2 /\ V = V2 /\ A = A2
<1>1. /\ O \in Seq(T) /\ D \in Seq(T) /\ V \in Seq(T) /\ A \in Seq(T)
      /\ Len(O) = 2 /\ Filled(V) /\ A # <<>> /\ A[1] # <<>>
      /\ A[1] \notin Range(D2) \cup Range(V2)
      /\ O2 \in Seq(T) /\ D2 \in Seq(T) /\ V2 \in Seq(T) /\ A2 \in Seq(T)
      /\ Len(O2) = 2 /\ Filled(V2) /\ A2 # <<>> /\ A2[1] # <<>>
      /\ A2[1] \notin Range(D) \cup Range(V)
  BY DEF Readable, Apart
<1> DEFINE M == Group(D) \o Group(V)
           M2 == Group(D2) \o Group(V2)
           R == Group(D) \o (Group(V) \o Group(A))
           R2 == Group(D2) \o (Group(V2) \o Group(A2))
<1>2. /\ Group(O) \in Seq(T) /\ Group(D) \in Seq(T) /\ Group(V) \in Seq(T)
      /\ Group(A) \in Seq(T)
  BY <1>1, GroupType
<1>3. /\ Group(O2) \in Seq(T) /\ Group(D2) \in Seq(T) /\ Group(V2) \in Seq(T)
      /\ Group(A2) \in Seq(T)
  BY <1>1, GroupType
<1>4. M \in Seq(T) /\ R \in Seq(T) /\ R = M \o Group(A)
  <2>1. Bracketed(T, Group(D), Group(V), Group(A))
    BY <1>2, Bracket
  <2> QED
    BY <2>1 DEF Bracketed
<1>5. M2 \in Seq(T) /\ R2 \in Seq(T) /\ R2 = M2 \o Group(A2)
  <2>1. Bracketed(T, Group(D2), Group(V2), Group(A2))
    BY <1>3, Bracket
  <2> QED
    BY <2>1 DEF Bracketed
<1>6. Group(O) \o R = Group(O2) \o R2
  BY DEF Rest
<1> HIDE DEF M, M2, R, R2
<1>7. O = O2 /\ R = R2
  <2>1. Len(Group(O)) = Len(Group(O2))
    <3>1. Len(Group(O)) = Len(O) + 1 /\ Len(Group(O2)) = Len(O2) + 1
      BY <1>1, GroupType
    <3> QED
      BY <1>1, <3>1
  <2>2. Group(O) = Group(O2) /\ R = R2
    BY <1>2, <1>3, <1>4, <1>5, <1>6, <2>1, Cancel
  <2> QED
    BY <1>1, <2>2, GroupInjective
<1>8. M \o Group(A) = M2 \o Group(A2)
  BY <1>4, <1>5, <1>7
<1>9. ~ (Len(M) < Len(M2))
  <2>1. (Group(D) \o Group(V)) \o Group(A) = (Group(D2) \o Group(V2)) \o Group(A2)
    BY <1>8 DEF M, M2
  <2> QED
    BY <1>1, <2>1, ArgumentsBegin DEF M, M2
<1>10. ~ (Len(M2) < Len(M))
  <2>1. (Group(D2) \o Group(V2)) \o Group(A2) = (Group(D) \o Group(V)) \o Group(A)
    BY <1>8 DEF M, M2
  <2> QED
    BY <1>1, <2>1, ArgumentsBegin DEF M, M2
<1>11. M = M2 /\ A = A2
  <2>1. Len(M) = Len(M2)
    <3>1. Len(M) \in Nat /\ Len(M2) \in Nat
      BY <1>4, <1>5, LenProperties
    <3> QED
      BY <1>9, <1>10, <3>1
  <2>2. M = M2 /\ Group(A) = Group(A2)
    BY <1>2, <1>3, <1>4, <1>5, <1>8, <2>1, Cancel
  <2> QED
    BY <1>1, <2>2, GroupInjective
<1>12. D = D2 /\ V = V2
  <2>1. Group(D) \o Group(V) = Group(D2) \o Group(V2)
    BY <1>11 DEF M, M2
  <2>2. ~ (Len(D) < Len(D2))
    BY <1>1, <2>1, DependenciesEnd
  <2>3. ~ (Len(D2) < Len(D))
    <3>1. Group(D2) \o Group(V2) = Group(D) \o Group(V)
      BY <2>1
    <3> QED
      BY <1>1, <3>1, DependenciesEnd
  <2>4. D = D2 /\ Group(V) = Group(V2)
    BY <1>1, <1>2, <1>3, <2>1, <2>2, <2>3, GroupsEnd
  <2> QED
    BY <1>1, <2>4, GroupInjective
<1> QED
  BY <1>7, <1>11, <1>12

LEMMA RestType ==
  ASSUME NEW T, <<>> \in T, NEW O \in Seq(T), NEW D \in Seq(T),
         NEW V \in Seq(T), NEW A \in Seq(T)
  PROVE  Rest(O, D, V, A) \in Seq(T)
<1>1. Group(O) \in Seq(T) /\ Group(D) \in Seq(T) /\ Group(V) \in Seq(T) /\ Group(A) \in Seq(T)
  BY GroupType
<1>2. Group(V) \o Group(A) \in Seq(T)
  BY <1>1, ConcatProperties
<1>3. Group(D) \o (Group(V) \o Group(A)) \in Seq(T)
  BY <1>1, <1>2, ConcatProperties
<1> QED
  BY <1>1, <1>3, ConcatProperties DEF Rest

\* What is hashed behind the libraries is so for the pieces of the dependencies.
LEMMA RestFrames ==
  ASSUME NEW T, Nul \in T, NEW O \in Seq(Seq(T)), NEW V \in Seq(Seq(T)),
         NEW A \in Seq(Seq(T)), NEW D \in Seq(Seq(T)), NEW P \in Seq(Seq(T)),
         Frame(P) = Frame(D)
  PROVE  Frame(Rest(O, P, V, A)) = Frame(Rest(O, D, V, A))
<1>1. <<>> \in Seq(T)
  OBVIOUS
<1>2. /\ Group(O) \in Seq(Seq(T)) /\ Group(V) \in Seq(Seq(T)) /\ Group(A) \in Seq(Seq(T))
      /\ Group(D) \in Seq(Seq(T)) /\ Group(P) \in Seq(Seq(T))
  BY <1>1, GroupType
<1>3. Frame(Group(P)) = Frame(Group(D))
  <2>1. /\ Frame(Append(P, <<>>)) = Frame(P) \o Append(<<>>, Nul)
        /\ Frame(Append(D, <<>>)) = Frame(D) \o Append(<<>>, Nul)
    BY <1>1, FrameAppend
  <2> QED
    BY <2>1 DEF Group
<1> DEFINE X == Group(V) \o Group(A)
           K == Group(P) \o X
           L == Group(D) \o X
<1>4. X \in Seq(Seq(T))
  BY <1>2, ConcatProperties
<1>5. K \in Seq(Seq(T)) /\ L \in Seq(Seq(T)) /\ Frame(K) = Frame(L)
  <2> HIDE DEF X
  <2>1. K \in Seq(Seq(T)) /\ L \in Seq(Seq(T))
    BY <1>2, <1>4, ConcatProperties
  <2>2. Frame(K) = Frame(Group(P)) \o Frame(X) /\ Frame(L) = Frame(Group(D)) \o Frame(X)
    BY <1>2, <1>4, FrameConcat
  <2> QED
    BY <1>3, <2>1, <2>2
<1>6. Rest(O, P, V, A) = Group(O) \o K /\ Rest(O, D, V, A) = Group(O) \o L
  BY DEF Rest
<1> HIDE DEF K, L
<1>7. /\ Frame(Group(O) \o K) = Frame(Group(O)) \o Frame(K)
      /\ Frame(Group(O) \o L) = Frame(Group(O)) \o Frame(L)
  BY <1>2, <1>5, FrameConcat
<1> QED
  BY <1>5, <1>6, <1>7

-----------------------------------------------------------------------------
(* The builder and the libraries *)

\* A sequence of pairs, each of which is in R.
Pairs(F, R) ==
  /\ Len(F) % 2 = 0
  /\ \A k \in 1 .. Len(F) : k % 2 = 1 => k + 1 \in 1 .. Len(F) /\ <<F[k], F[k + 1]>> \in R

LEMMA OddPlace ==
  ASSUME NEW a \in Nat, a % 2 = 0, NEW k \in 1 .. a + 2, k % 2 = 1
  PROVE  k \in 1 .. a \/ k = a + 1
OBVIOUS

LEMMA EvenPlace ==
  ASSUME NEW a \in Nat, NEW n \in 1 .. 1 + a, n % 2 = 0
  PROVE  n - 1 \in 1 .. a /\ (n - 1) % 2 = 1 /\ 1 + (n - 1) = n
OBVIOUS

LEMMA OddLength ==
  ASSUME NEW a \in Nat, a % 2 = 0
  PROVE  (1 + a) % 2 = 1
OBVIOUS

LEMMA OddFirst ==
  ASSUME NEW a \in Nat, a % 2 = 1
  PROVE  1 \in 1 .. a
OBVIOUS

LEMMA OddBack ==
  ASSUME NEW a \in Nat, a % 2 = 1, NEW k \in 1 .. a + 1, k # 1, k % 2 = 1
  PROVE  (k - 1) % 2 = 0 /\ k - 1 \in 1 .. k - 1 /\ k - 1 \in 1 .. a /\ (k - 1) + 1 = k
OBVIOUS

LEMMA OddNext ==
  ASSUME NEW a \in Nat, a % 2 = 1, NEW b \in Nat, a <= b, a # b
  PROVE  (a + 1) % 2 = 0 /\ a + 1 \in 1 .. b
OBVIOUS

PairBlock(x, R) == x = <<>> \/ (Len(x) = 2 /\ <<x[1], x[2]>> \in R)

LEMMA PairsAt ==
  ASSUME NEW T, NEW R
  PROVE  \A bs \in Seq(Seq(T)) :
           (\A i \in 1 .. Len(bs) : PairBlock(bs[i], R)) => Pairs(FlattenSeq(bs), R)
<1> DEFINE Each(bs) == \A i \in 1 .. Len(bs) : PairBlock(bs[i], R)
           C == {bs \in Seq(Seq(T)) : Each(bs) => Pairs(FlattenSeq(bs), R)}
<1>1. <<>> \in C
  <2>1. Pairs(<<>>, R) /\ <<>> \in Seq(Seq(T))
    BY EmptySeq DEF Pairs
  <2> QED
    BY <2>1, FlattenEmpty
<1>2. ASSUME NEW bs \in Seq(Seq(T)), NEW x \in Seq(T), bs \in C
      PROVE  Append(bs, x) \in C
  <2>1. Append(bs, x) \in Seq(Seq(T))
    BY AppendProperties
  <2> SUFFICES ASSUME Each(Append(bs, x)) PROVE Pairs(FlattenSeq(Append(bs, x)), R)
    BY <2>1
  <2>2. Each(bs) /\ PairBlock(x, R)
    <3> DEFINE t == Append(bs, x)
    <3>1. /\ Len(t) = Len(bs) + 1 /\ Len(bs) \in Nat /\ t[Len(bs) + 1] = x
          /\ \A i \in 1 .. Len(bs) : t[i] = bs[i]
      BY AppendProperties, LenProperties
    <3>2. \A i \in 1 .. Len(t) : PairBlock(t[i], R)
      OBVIOUS
    <3> HIDE DEF t
    <3> QED
      BY <3>1, <3>2
  <2> DEFINE F == FlattenSeq(bs)
             G == F \o x
  <2>3. F \in Seq(T) /\ FlattenSeq(Append(bs, x)) = G
    BY FlattenType, FlattenAppend
  <2>4. Pairs(F, R)
    BY <1>2, <2>2
  <2> HIDE DEF F, Each
  <2>5. /\ Len(G) = Len(F) + Len(x) /\ Len(F) \in Nat
        /\ \A k \in 1 .. Len(F) : G[k] = F[k]
    BY <2>3, ConcatAt
  <2>6. \A k \in 1 .. Len(x) : G[Len(F) + k] = x[k]
    BY <2>3, ConcatRight
  <2>7. CASE x = <<>>
    <3>1. G = F
      BY <2>3, <2>7, ConcatEmptySeq
    <3> QED
      BY <2>3, <2>4, <3>1
  <2>8. CASE Len(x) = 2 /\ <<x[1], x[2]>> \in R
    <3> HIDE DEF G
    <3> DEFINE a == Len(F)
    <3>1. a \in Nat /\ a % 2 = 0 /\ Len(G) = a + 2 /\ (a + 2) % 2 = 0
      BY <2>4, <2>5, <2>8 DEF Pairs
    <3>2. G[a + 1] = x[1] /\ G[a + 2] = x[2]
      BY <2>6, <2>8
    <3>3. \A k \in 1 .. a : k % 2 = 1 => k + 1 \in 1 .. a /\ <<F[k], F[k + 1]>> \in R
      BY <2>4 DEF Pairs
    <3>4. \A k \in 1 .. a : G[k] = F[k]
      BY <2>5
    <3> HIDE DEF a
    <3>5. ASSUME NEW k \in 1 .. a + 2, k % 2 = 1
          PROVE  k + 1 \in 1 .. a + 2 /\ <<G[k], G[k + 1]>> \in R
      <4>1. CASE k \in 1 .. a
        <5>1. k + 1 \in 1 .. a /\ <<F[k], F[k + 1]>> \in R
          BY ONLY <3>3, <3>5, <4>1
        <5>2. G[k] = F[k] /\ G[k + 1] = F[k + 1]
          BY ONLY <3>4, <4>1, <5>1
        <5>3. k + 1 \in 1 .. a + 2
          BY ONLY <3>1, <5>1
        <5> QED
          BY ONLY <5>1, <5>2, <5>3
      <4>2. CASE k = a + 1
        <5>1. k + 1 = a + 2 /\ k + 1 \in 1 .. a + 2
          BY ONLY <3>1, <4>2
        <5> QED
          BY ONLY <2>8, <3>2, <4>2, <5>1
      <4>3. k \in 1 .. a \/ k = a + 1
        BY ONLY <3>1, <3>5, OddPlace
      <4> QED
        BY <4>1, <4>2, <4>3
    <3>6. Pairs(G, R)
      BY <3>1, <3>5 DEF Pairs
    <3> QED
      BY <2>3, <3>6
  <2> QED
    BY <2>2, <2>7, <2>8 DEF PairBlock
<1> HIDE DEF C
<1>3. \A bs \in Seq(Seq(T)) : bs \in C
  BY <1>1, <1>2, AllSequences
<1> QED
  BY <1>3 DEF C

\* The builder and the libraries of a run.
Begin(g) == <<g.exe>> \o HashPackage(g.package)

\* A library with its name.
Labelled(p) == {<<<<f>>, p[f]>> : f \in Native \cap DOMAIN p}

LEMMA LibrariesLabelled ==
  ASSUME NEW p, IsPackage(p)
  PROVE  Pairs(HashPackage(p), Labelled(p))
<1> DEFINE b == PackageBlocks(p)
<1>1. HashPackage(p) = FlattenSeq(b) /\ b \in Seq(Seq(Seq(Byte))) /\ Len(b) = Len(Files)
  BY PackageTagged DEF HashPackage, PackageBlocks
<1>2. \A i \in 1 .. Len(Files) :
        b[i] = IF Files[i] \in Native \cap DOMAIN p
               THEN <<<<Files[i]>>, p[Files[i]]>> ELSE <<>>
  BY NamesAssumption, LenProperties DEF PackageBlocks
<1> HIDE DEF b
<1>3. ASSUME NEW i \in 1 .. Len(b) PROVE PairBlock(b[i], Labelled(p))
  <2>1. CASE Files[i] \in Native \cap DOMAIN p
    <3> DEFINE x == <<Files[i]>>
               y == p[Files[i]]
    <3>1. b[i] = <<x, y>> /\ <<x, y>> \in Labelled(p)
      BY <1>1, <1>2, <2>1 DEF Labelled
    <3> HIDE DEF x, y
    <3> QED
      BY <3>1 DEF PairBlock
  <2>2. CASE ~ (Files[i] \in Native \cap DOMAIN p)
    BY <1>1, <1>2, <2>2 DEF PairBlock
  <2> QED
    BY <2>1, <2>2
<1> QED
  BY <1>1, <1>3, PairsAt

\* What a group of the builder and the libraries has at an even place: a name, with
\* the library behind it, or the end.
LEMMA BeginShape ==
  ASSUME NEW g, g.exe \in Text, IsPackage(g.package)
  PROVE  /\ Begin(g) \in Seq(Seq(Byte)) /\ Len(Begin(g)) \in Nat
         /\ Len(Begin(g)) % 2 = 1 /\ Begin(g)[1] = g.exe
         /\ \A n \in 1 .. Len(Begin(g)) : n % 2 = 0 =>
              \E f \in Native \cap DOMAIN g.package :
                /\ Begin(g)[n] = <<f>>
                /\ n + 1 \in 1 .. Len(Begin(g)) /\ Begin(g)[n + 1] = g.package[f]
<1> DEFINE H == HashPackage(g.package)
           one == <<g.exe>>
           E == one \o H
<1>1. H \in Seq(Seq(Byte)) /\ Pairs(H, Labelled(g.package))
  BY PackageType, LibrariesLabelled
<1>2. one \in Seq(Seq(Byte)) /\ Len(one) = 1 /\ one[1] = g.exe
  <2>1. g.exe \in Seq(Byte)
    BY Bytes
  <2> QED
    BY <2>1
<1> HIDE DEF H, one
<1>3. /\ E \in Seq(Seq(Byte)) /\ Len(E) = 1 + Len(H) /\ Len(H) \in Nat /\ E[1] = g.exe
      /\ Len(E) \in Nat
  <2>1. one \in Seq(Seq(Byte)) /\ H \in Seq(Seq(Byte)) /\ 1 \in 1 .. Len(one)
    BY <1>1, <1>2
  <2>2. /\ E \in Seq(Seq(Byte)) /\ Len(E) = Len(one) + Len(H) /\ Len(H) \in Nat
        /\ E[1] = one[1]
    BY ONLY <2>1, ConcatAt
  <2> QED
    BY <1>2, <2>2
<1>4. ASSUME NEW k \in 1 .. Len(H) PROVE E[1 + k] = H[k]
  <2>1. one \in Seq(Seq(Byte)) /\ H \in Seq(Seq(Byte)) /\ k \in 1 .. Len(H)
    BY <1>1, <1>2
  <2>2. E[Len(one) + k] = H[k]
    BY ONLY <2>1, ConcatRight
  <2> QED
    BY <1>2, <2>2
<1> HIDE DEF E
<1>5. Len(E) % 2 = 1
  <2>1. Len(H) % 2 = 0
    BY <1>1 DEF Pairs
  <2> QED
    BY ONLY <1>3, <2>1, OddLength
<1>6. ASSUME NEW n \in 1 .. Len(E), n % 2 = 0
      PROVE  \E f \in Native \cap DOMAIN g.package :
               E[n] = <<f>> /\ n + 1 \in 1 .. Len(E) /\ E[n + 1] = g.package[f]
  <2>1. n - 1 \in 1 .. Len(H) /\ (n - 1) % 2 = 1 /\ 1 + (n - 1) = n
    BY ONLY <1>3, <1>6, EvenPlace
  <2>2. n \in 1 .. Len(H) /\ <<H[n - 1], H[n]>> \in Labelled(g.package)
    <3>1. (n - 1) + 1 = n
      BY <2>1
    <3> QED
      BY <1>1, <2>1, <3>1 DEF Pairs
  <2>3. PICK f \in Native \cap DOMAIN g.package :
          <<H[n - 1], H[n]>> = <<<<f>>, g.package[f]>>
    BY <2>2 DEF Labelled
  <2>4. H[n - 1] = <<f>> /\ H[n] = g.package[f]
    BY <2>3
  <2>5. E[n] = H[n - 1] /\ E[n + 1] = H[n] /\ n + 1 \in 1 .. Len(E)
    <3>1. E[1 + (n - 1)] = H[n - 1] /\ E[1 + n] = H[n]
      BY <1>4, <2>1, <2>2
    <3>2. 1 + n = n + 1 /\ n + 1 \in 1 .. Len(E)
      BY <1>3, <2>2
    <3> QED
      BY <2>1, <3>1, <3>2
  <2> QED
    BY <2>4, <2>5
<1> QED
  BY <1>3, <1>5, <1>6 DEF Begin, E, H, one

\* A field without a 0 is not what another one is cut short from.
LEMMA NotCut ==
  ASSUME NEW a \in Seq(Byte), NEW b \in Seq(Passed)
  PROVE  ~ CutShort(a, b)
<1> SUFFICES ASSUME CutShort(a, b) PROVE FALSE
  OBVIOUS
<1> DEFINE n == Len(a) + 1
<1>1. /\ Len(Append(a, Nul)) = n /\ Append(a, Nul)[n] = Nul
      /\ Len(a) \in Nat /\ Len(b) \in Nat
  BY Bytes, AppendProperties, LenProperties
<1>2. n <= Len(b) /\ SubSeq(b, 1, n) = Append(a, Nul)
  <2> DEFINE A == Append(a, Nul)
  <2>1. IsPrefix(A, b) /\ Len(A) = n /\ SubSeq(A, 1, Len(A)) = A
    BY <1>1, Bytes, AppendProperties, SubSeqFull DEF CutShort
  <2> HIDE DEF A, n
  <2>2. n <= Len(b) /\ SubSeq(b, 1, n) = A
    BY <2>1 DEF IsPrefix
  <2> QED
    BY <2>2 DEF A
<1>3. SubSeq(b, 1, n)[n] = b[n] /\ n \in 1 .. Len(b)
  <2>1. n \in Nat /\ n \in 1 .. n
    BY <1>1
  <2> QED
    BY <1>1, <1>2, <2>1, FirstOnes
<1>4. b[n] \in Passed
  BY <1>3, ElementOfSeq
<1> QED
  BY <1>1, <1>2, <1>3, <1>4, Bytes

\* The builders and libraries of two runs are alike, if no content of one is the
\* other's, cut short.
LEMMA BeginsAlike ==
  ASSUME NEW g, g.exe \in Text, IsPackage(g.package),
         NEW h, h.exe \in Text, IsPackage(h.package),
         ~ Clash(g, h), ~ Clash(h, g), Len(Begin(g)) <= Len(Begin(h))
  PROVE  Alike(Group(Begin(g)), Group(Begin(h)), Len(Begin(g)) + 1)
<1> DEFINE E == Begin(g)
           E2 == Begin(h)
           F == Group(E)
           G == Group(E2)
           Shape(B, k, p) ==
             \A n \in 1 .. Len(B) : n % 2 = 0 =>
               \E f \in Native \cap DOMAIN p :
                 /\ B[n] = <<f>>
                 /\ n + 1 \in 1 .. Len(B) /\ B[n + 1] = p[f]
<1>1. /\ E \in Seq(Seq(Byte)) /\ Len(E) \in Nat /\ Len(E) % 2 = 1 /\ E[1] = g.exe
      /\ Shape(E, g.exe, g.package)
  BY BeginShape
<1>2. /\ E2 \in Seq(Seq(Byte)) /\ Len(E2) \in Nat /\ Len(E2) % 2 = 1 /\ E2[1] = h.exe
      /\ Shape(E2, h.exe, h.package)
  BY BeginShape
<1>3. <<>> \in Seq(Byte) /\ <<>> \in Seq(Passed)
  OBVIOUS
<1> HIDE DEF E, E2
<1>4. /\ \A n \in 1 .. Len(E) : F[n] = E[n]
      /\ F[Len(E) + 1] = <<>> /\ F \in Seq(Seq(Byte)) /\ Len(F) = Len(E) + 1
  BY ONLY <1>1, <1>3, GroupType
<1>5. /\ \A n \in 1 .. Len(E2) : G[n] = E2[n]
      /\ G[Len(E2) + 1] = <<>> /\ G \in Seq(Seq(Byte)) /\ Len(G) = Len(E2) + 1
  BY ONLY <1>2, <1>3, GroupType
<1>6. /\ Len(E) <= Len(E2) /\ Len(E) \in Nat /\ Len(E2) \in Nat
      /\ Len(E) % 2 = 1 /\ Len(E2) % 2 = 1
  <2>1. Len(E) <= Len(E2)
    BY DEF E, E2
  <2> QED
    BY <1>1, <1>2, <2>1
<1>7. \A f \in DOMAIN g.package \cup DOMAIN h.package : <<f>> \in Seq(Passed)
  <2> SUFFICES ASSUME NEW f \in DOMAIN g.package \cup DOMAIN h.package
               PROVE  <<f>> \in Seq(Passed)
    OBVIOUS
  <2>1. f \in Range(Files) /\ Files \in Seq(Symbol)
    BY NamesAssumption DEF IsPackage
  <2>2. f \in Symbol
    BY ONLY <2>1, RangeOfSeq
  <2> QED
    BY <2>2 DEF Passed
<1> HIDE DEF F, G, Shape
<1>8. ASSUME NEW k \in 1 .. Len(E) + 1, \A i \in 1 .. k - 1 : F[i] = G[i]
      PROVE  ~ CutShort(F[k], G[k]) /\ ~ CutShort(G[k], F[k])
  <2>1. CASE k = 1
    <3>1. 1 \in 1 .. Len(E) /\ 1 \in 1 .. Len(E2)
      BY ONLY <1>6, OddFirst
    <3>2. F[k] = g.exe /\ G[k] = h.exe
      BY ONLY <1>1, <1>2, <1>4, <1>5, <2>1, <3>1
    <3> QED
      BY <3>2 DEF Clash
  <2>2. CASE k % 2 = 0
    <3>1. F[k] \in Seq(Passed)
      <4>1. CASE k \in 1 .. Len(E)
        <5>1. PICK f \in Native \cap DOMAIN g.package : E[k] = <<f>>
          BY ONLY <1>1, <2>2, <4>1 DEF Shape
        <5> QED
          BY <1>4, <1>7, <4>1, <5>1
      <4>2. CASE k = Len(E) + 1
        BY <1>3, <1>4, <4>2
      <4>3. k \in 1 .. Len(E) \/ k = Len(E) + 1
        BY ONLY <1>1, <1>8
      <4> QED
        BY <4>1, <4>2, <4>3
    <3>2. G[k] \in Seq(Passed)
      <4>1. CASE k \in 1 .. Len(E2)
        <5>1. PICK f \in Native \cap DOMAIN h.package : E2[k] = <<f>>
          BY ONLY <1>2, <2>2, <4>1 DEF Shape
        <5> QED
          BY <1>5, <1>7, <4>1, <5>1
      <4>2. CASE k = Len(E2) + 1
        BY <1>3, <1>5, <4>2
      <4>3. k \in 1 .. Len(E2) \/ k = Len(E2) + 1
        BY ONLY <1>1, <1>2, <1>6, <1>8
      <4> QED
        BY <4>1, <4>2, <4>3
    <3>3. F[k] \in Seq(Byte) /\ G[k] \in Seq(Byte)
      BY <3>1, <3>2, Bytes
    <3> QED
      BY <3>1, <3>2, <3>3, NotCut
  <2>3. CASE k # 1 /\ k % 2 = 1
    <3> DEFINE n == k - 1
    <3>1. n % 2 = 0 /\ n \in 1 .. k - 1 /\ n \in 1 .. Len(E) /\ n + 1 = k
      <4>1. k \in 1 .. Len(E) + 1
        OBVIOUS
      <4> QED
        BY ONLY <1>6, <2>3, <4>1, OddBack
    <3> HIDE DEF n
    <3>2. n \in 1 .. Len(E2)
      BY ONLY <1>6, <3>1
    <3>3. PICK f \in Native \cap DOMAIN g.package :
            E[n] = <<f>> /\ n + 1 \in 1 .. Len(E) /\ E[n + 1] = g.package[f]
      BY ONLY <1>1, <3>1 DEF Shape
    <3>4. PICK e \in Native \cap DOMAIN h.package :
            E2[n] = <<e>> /\ n + 1 \in 1 .. Len(E2) /\ E2[n + 1] = h.package[e]
      BY ONLY <1>2, <3>1, <3>2 DEF Shape
    <3>5. F[n] = G[n] /\ F[n] = E[n] /\ G[n] = E2[n]
      BY ONLY <1>4, <1>5, <1>8, <3>1, <3>2
    <3>6. e = f
      <4>1. <<e>> = <<f>>
        BY ONLY <3>3, <3>4, <3>5
      <4> QED
        BY ONLY <4>1
    <3>7. F[k] = g.package[f] /\ G[k] = h.package[f]
      BY ONLY <1>4, <1>5, <3>1, <3>3, <3>4, <3>6
    <3>8. f \in Native \cap DOMAIN g.package \cap DOMAIN h.package
      BY ONLY <3>3, <3>4, <3>6, f \in Native \cap DOMAIN g.package,
              e \in Native \cap DOMAIN h.package
    <3> QED
      BY <3>7, <3>8 DEF Clash
  <2>4. k = 1 \/ k % 2 = 0 \/ (k # 1 /\ k % 2 = 1)
    BY ONLY <1>8
  <2> QED
    BY <2>1, <2>2, <2>3, <2>4
<1>9. Alike(F, G, Len(E) + 1)
  BY ONLY <1>8 DEF Alike
<1> QED
  BY <1>9 DEF E, E2, F, G

\* The builder and the libraries are the same, and what is hashed behind them is.
LEMMA BeginsSame ==
  ASSUME NEW g, g.exe \in Text, IsPackage(g.package),
         NEW h, h.exe \in Text, IsPackage(h.package), ~ Clash(g, h), ~ Clash(h, g),
         Len(Begin(g)) <= Len(Begin(h)), NEW x \in Seq(Byte), NEW y \in Seq(Byte),
         Frame(Group(Begin(g))) \o x = Frame(Group(Begin(h))) \o y
  PROVE  Begin(g) = Begin(h) /\ x = y
<1> DEFINE E == Begin(g)
           E2 == Begin(h)
           F == Group(E)
           G == Group(E2)
           n == Len(E) + 1
<1>1. /\ E \in Seq(Seq(Byte)) /\ E2 \in Seq(Seq(Byte))
      /\ Len(E) \in Nat /\ Len(E2) \in Nat /\ Len(E) % 2 = 1
  BY BeginShape
<1>2. \A k \in 1 .. Len(E2) : k % 2 = 0 => \E f : E2[k] = <<f>>
  BY BeginShape
<1>3. Alike(F, G, n)
  BY BeginsAlike
<1>4. Nul \in Byte /\ <<>> \in Seq(Byte)
  BY Bytes
<1>5. Len(E) <= Len(E2) /\ Frame(F) \o x = Frame(G) \o y
  OBVIOUS
<1> HIDE DEF E, E2
<1>6. F \in Seq(Seq(Byte)) /\ Len(F) = n /\ F[n] = <<>>
  BY ONLY <1>1, <1>4, GroupType
<1>7. /\ G \in Seq(Seq(Byte)) /\ Len(G) = Len(E2) + 1
      /\ \A k \in 1 .. Len(E2) : G[k] = E2[k]
  BY ONLY <1>1, <1>4, GroupType
<1> HIDE DEF F, G
<1>8. n \in Nat /\ n <= Len(F) /\ n <= Len(G) /\ n \in 1 .. n
  BY ONLY <1>1, <1>5, <1>6, <1>7
<1>9. \A k \in 1 .. n : F[k] = G[k]
  <2>1. x \in Seq(Byte) /\ y \in Seq(Byte)
    OBVIOUS
  <2> HIDE DEF n
  <2> QED
    BY ONLY <1>3, <1>4, <1>5, <1>6, <1>7, <1>8, <2>1, FieldsAgree
<1>10. Len(E) = Len(E2)
  <2> SUFFICES ASSUME Len(E) # Len(E2) PROVE FALSE
    OBVIOUS
  <2>1. n \in 1 .. Len(E2) /\ n % 2 = 0
    <3>1. /\ Len(E) \in Nat /\ Len(E2) \in Nat /\ Len(E) % 2 = 1
          /\ Len(E) <= Len(E2) /\ Len(E) # Len(E2)
      BY <1>1, <1>5
    <3> QED
      BY ONLY <3>1, OddNext
  <2>2. PICK f : E2[n] = <<f>>
    BY ONLY <1>2, <2>1
  <2>3. <<f>> = <<>>
    BY ONLY <1>6, <1>7, <1>8, <1>9, <2>1, <2>2
  <2> QED
    BY ONLY <2>3
<1>11. F = G
  BY ONLY <1>6, <1>7, <1>9, <1>10, SeqEqual
<1>12. x = y
  <2>1. Frame(F) \in Seq(Byte)
    BY ONLY <1>4, <1>6, FrameConcat
  <2>2. Frame(F) \o x = Frame(F) \o y /\ x \in Seq(Byte) /\ y \in Seq(Byte)
    BY <1>5, <1>11
  <2> QED
    BY ONLY <2>1, <2>2, Cancel
<1>13. E = E2
  BY <1>1, <1>4, <1>11, GroupInjective DEF F, G
<1> QED
  BY <1>12, <1>13 DEF E, E2

\* The dependencies are the same that are framed as one.
LEMMA DependenciesSame ==
  ASSUME NEW g, g.deps \in Seq(Text), NEW h, h.deps \in Seq(Text),
         ~ Clash(g, h), ~ Clash(h, g), Frame(g.deps) = Frame(h.deps),
         Len(g.deps) <= Len(h.deps)
  PROVE  g.deps = h.deps
<1> DEFINE D == g.deps
           D2 == h.deps
<1>1. /\ D \in Seq(Seq(Byte)) /\ D2 \in Seq(Seq(Byte)) /\ Nul \in Byte
      /\ Len(D) <= Len(D2) /\ Frame(D) = Frame(D2)
  BY Bytes
<1>2. /\ DOMAIN D = 1 .. Len(D) /\ DOMAIN D2 = 1 .. Len(D2)
      /\ Len(D) \in Nat /\ Len(D2) \in Nat
  BY <1>1, LenProperties
<1>3. ASSUME NEW k \in 1 .. Len(D)
      PROVE  ~ CutShort(D[k], D2[k]) /\ ~ CutShort(D2[k], D[k])
  <2>1. k \in DOMAIN D \cap DOMAIN D2
    BY <1>1, <1>2
  <2> QED
    BY <2>1 DEF Clash
<1> HIDE DEF D, D2
<1>4. Alike(D, D2, Len(D))
  BY ONLY <1>3 DEF Alike
<1>5. D = D2
  BY ONLY <1>1, <1>4, FieldsSame
<1> QED
  BY <1>5 DEF D, D2

-----------------------------------------------------------------------------
(* Meanings and keys *)

LEMMA StrippedMeans ==
  ASSUME NEW c \in Checkout, NEW strings \in Seq(Argument)
  PROVE  /\ Stripped(c, strings) = [i \in DOMAIN strings |-> Portable(c, strings[i])]
         /\ Stripped(c, strings) \in Seq(Seq(Passed))
         /\ Len(Stripped(c, strings)) = Len(strings)
<1>1. DOMAIN strings = 1 .. Len(strings) /\ Len(strings) \in Nat
      /\ \A i \in 1 .. Len(strings) : strings[i] \in Argument
  BY LenProperties, ElementOfSeq
<1>2. \A i \in 1 .. Len(strings) :
        /\ Strip(c, In(c, strings[i])) = Portable(c, strings[i])
        /\ Portable(c, strings[i]) \in Seq(Passed)
  BY <1>1, StripIn
<1>3. Stripped(c, strings) = [i \in 1 .. Len(strings) |-> Portable(c, strings[i])]
  BY <1>1, <1>2 DEF Stripped
<1> QED
  BY <1>1, <1>2, <1>3

\* The fields of a run behind the libraries, and all of them.
RunRest(c, g) == Rest(Stripped(c, g.outputs), g.deps, ZividEnv(g.env), Stripped(c, g.args))

RunFields(c, g) == Group(Begin(g)) \o RunRest(c, g)

LEMMA GroupsTyped ==
  ASSUME NEW c \in Checkout, NEW g, IsInput(g)
  PROVE  /\ g.exe \in Text /\ g.exe \in Seq(Byte) /\ IsPackage(g.package)
         /\ Begin(g) \in Seq(Seq(Byte))
         /\ Stripped(c, g.outputs) \in Seq(Seq(Passed)) /\ Len(Stripped(c, g.outputs)) = 2
         /\ g.deps \in Seq(Text) /\ g.deps \in Seq(Seq(Byte))
         /\ ZividEnv(g.env) \in Seq(Seq(Passed)) /\ Filled(ZividEnv(g.env))
         /\ Stripped(c, g.args) \in Seq(Seq(Passed))
<1>1. g.exe \in Text /\ g.exe \in Seq(Byte)
  BY Bytes DEF IsInput
<1>2. IsPackage(g.package)
  BY DEF IsInput, IsPackage
<1>3. g.deps \in Seq(Text) /\ g.deps \in Seq(Seq(Byte))
  BY Bytes DEF IsInput
<1>4. Begin(g) \in Seq(Seq(Byte))
  BY <1>1, <1>2, BeginShape
<1>5. Stripped(c, g.outputs) \in Seq(Seq(Passed)) /\ Len(Stripped(c, g.outputs)) = 2
  BY StrippedMeans DEF IsInput
<1>6. Stripped(c, g.args) \in Seq(Seq(Passed))
  BY StrippedMeans DEF IsInput
<1>7. ZividEnv(g.env) \in Seq(Seq(Passed)) /\ Filled(ZividEnv(g.env))
  BY VariablesFilled
<1> QED
  BY <1>1, <1>2, <1>3, <1>4, <1>5, <1>6, <1>7

LEMMA AddressFrames ==
  ASSUME NEW c \in Checkout, NEW g, IsInput(g)
  PROVE  /\ Group(Begin(g)) \in Seq(Seq(Byte)) /\ RunRest(c, g) \in Seq(Seq(Byte))
         /\ Address(c, g) = Frame(RunFields(c, g))
<1> DEFINE T == Seq(Byte)
           E == Group(Begin(g))
           O == Group(Stripped(c, g.outputs))
           D == Group(g.deps)
           V == Group(ZividEnv(g.env))
           A == Group(Stripped(c, g.args))
<1>1. <<>> \in T
  OBVIOUS
<1>2. /\ Begin(g) \in Seq(T) /\ Stripped(c, g.outputs) \in Seq(T) /\ g.deps \in Seq(T)
      /\ ZividEnv(g.env) \in Seq(T) /\ Stripped(c, g.args) \in Seq(T)
  BY GroupsTyped, Bytes
<1> HIDE DEF T
<1>3. E \in Seq(T) /\ O \in Seq(T) /\ D \in Seq(T) /\ V \in Seq(T) /\ A \in Seq(T)
  BY <1>1, <1>2, GroupType
<1>4. Address(c, g) = Frame((((E \o O) \o D) \o V) \o A)
  BY DEF Address, Begin
<1>5. RunFields(c, g) = E \o (O \o (D \o (V \o A))) /\ RunRest(c, g) = O \o (D \o (V \o A))
  BY DEF RunFields, RunRest, Rest
<1> HIDE DEF E, O, D, V, A
<1>6. Bracketed(T, D, V, A) /\ E \o O \in Seq(T)
  BY <1>3, Bracket, ConcatProperties
<1>7. Bracketed(T, E \o O, D, V \o A) /\ Bracketed(T, E, O, D \o (V \o A))
  <2>1. V \o A \in Seq(T) /\ D \o (V \o A) \in Seq(T)
    BY <1>6 DEF Bracketed
  <2> QED
    BY <1>3, <1>6, <2>1, Bracket
<1>8. Bracketed(T, (E \o O) \o D, V, A)
  <2>1. (E \o O) \o D \in Seq(T)
    BY <1>7 DEF Bracketed
  <2> QED
    BY <1>3, <2>1, Bracket
<1>9. /\ (((E \o O) \o D) \o V) \o A = ((E \o O) \o D) \o (V \o A)
      /\ ((E \o O) \o D) \o (V \o A) = (E \o O) \o (D \o (V \o A))
      /\ (E \o O) \o (D \o (V \o A)) = E \o (O \o (D \o (V \o A)))
      /\ O \o (D \o (V \o A)) \in Seq(T)
  BY <1>7, <1>8 DEF Bracketed
<1> QED
  BY <1>3, <1>4, <1>5, <1>9 DEF T, E

\* Two runs mean the same when their groups are the same.
LEMMA MeaningGroups ==
  ASSUME NEW c \in Checkout, NEW g, IsInput(g), NEW d \in Checkout, NEW h, IsInput(h)
  PROVE  Meaning(c, g) = Meaning(d, h)
           <=> /\ Begin(g) = Begin(h) /\ Stripped(c, g.outputs) = Stripped(d, h.outputs)
               /\ g.deps = h.deps /\ ZividEnv(g.env) = ZividEnv(h.env)
               /\ Stripped(c, g.args) = Stripped(d, h.args)
<1> DEFINE Libs(p) == [f \in Native \cap DOMAIN p |-> p[f]]
           Ported(e, s) == [i \in DOMAIN s |-> Portable(e, s[i])]
<1>1. Meaning(c, g) = Meaning(d, h)
        <=> /\ g.exe = h.exe /\ Libs(g.package) = Libs(h.package)
            /\ Ported(c, g.outputs) = Ported(d, h.outputs) /\ g.deps = h.deps
            /\ g.env \cap Range(Variables) = h.env \cap Range(Variables)
            /\ Ported(c, g.args) = Ported(d, h.args)
  <2> DEFINE Record(e, k) ==
               [exe |-> k.exe, deps |-> k.deps, libraries |-> Libs(k.package),
                env |-> k.env \cap Range(Variables),
                args |-> Ported(e, k.args), outputs |-> Ported(e, k.outputs)]
  <2>1. Meaning(c, g) = Record(c, g) /\ Meaning(d, h) = Record(d, h)
    BY DEF Meaning
  <2> HIDE DEF Libs, Ported
  <2> QED
    BY <2>1
<1>2. /\ Stripped(c, g.outputs) = Ported(c, g.outputs)
      /\ Stripped(c, g.args) = Ported(c, g.args)
  BY StrippedMeans DEF IsInput
<1>3. /\ Stripped(d, h.outputs) = Ported(d, h.outputs)
      /\ Stripped(d, h.args) = Ported(d, h.args)
  BY StrippedMeans DEF IsInput
<1>4. Libs(g.package) = Libs(h.package) <=> HashPackage(g.package) = HashPackage(h.package)
  <2>1. IsPackage(g.package) /\ IsPackage(h.package)
    BY GroupsTyped
  <2> QED
    BY <2>1, PackageUnique
<1>5. g.env \cap Range(Variables) = h.env \cap Range(Variables)
        <=> ZividEnv(g.env) = ZividEnv(h.env)
  BY VariablesUnique
<1>6. Begin(g) = Begin(h)
        <=> g.exe = h.exe /\ HashPackage(g.package) = HashPackage(h.package)
  <2>1. ASSUME Begin(g) = Begin(h)
        PROVE  g.exe = h.exe /\ HashPackage(g.package) = HashPackage(h.package)
    <3> DEFINE T == Seq(Byte)
               x == <<g.exe>>
               y == <<h.exe>>
    <3>1. x \in Seq(T) /\ y \in Seq(T) /\ Len(x) = Len(y) /\ (x = y => g.exe = h.exe)
      <4>1. g.exe \in T /\ h.exe \in T
        BY GroupsTyped
      <4> QED
        BY <4>1
    <3>2. HashPackage(g.package) \in Seq(T) /\ HashPackage(h.package) \in Seq(T)
      BY GroupsTyped, PackageType
    <3>3. x \o HashPackage(g.package) = y \o HashPackage(h.package)
      BY <2>1 DEF Begin
    <3> HIDE DEF T, x, y
    <3>4. x = y /\ HashPackage(g.package) = HashPackage(h.package)
      BY <3>1, <3>2, <3>3, Cancel
    <3> QED
      BY <3>1, <3>4
  <2> QED
    BY <2>1 DEF Begin
<1> HIDE DEF Libs, Ported
<1> QED
  BY <1>1, <1>2, <1>3, <1>4, <1>5, <1>6

\* A command is not an empty field, and no field before the arguments unless it is
\* one of the dependencies and variables.
LEMMA CommandShows ==
  ASSUME NEW c \in Checkout, NEW g \in Given
  PROVE  /\ Stripped(c, g.args) # <<>> /\ Stripped(c, g.args)[1] # <<>>
         /\ Stripped(c, g.args)[1] = Strip(c, In(c, g.args[1]))
<1>1. g.args # <<>> /\ Strip(c, In(c, g.args[1])) # <<>>
  BY CommandAssumption
<1>2. g.args \in Seq(Argument)
  BY GivenAssumption DEF IsInput
<1>3. 1 \in DOMAIN g.args /\ Len(g.args) # 0
  BY <1>1, <1>2, EmptySeq, LenProperties
<1>4. Stripped(c, g.args)[1] = Strip(c, In(c, g.args[1]))
  BY <1>3 DEF Stripped
<1>5. Len(Stripped(c, g.args)) # 0
  BY <1>2, <1>3, StrippedMeans
<1>6. Stripped(c, g.args) # <<>>
  BY <1>5, EmptySeq
<1> QED
  BY <1>1, <1>4, <1>6

\* No command of the one is between the 0s of a dependency or among the variables of
\* the other, and no content of the one is the other's, cut short.
Told(c, g, h) ==
  /\ ~ Clash(g, h)
  /\ \A i \in DOMAIN h.deps : ~ Piece(Strip(c, In(c, g.args[1])), h.deps[i])
  /\ Strip(c, In(c, g.args[1])) \notin Range(ZividEnv(h.env))

\* The dependencies' fields can be taken to be without 0s: what is hashed of a run
\* is what is hashed of one with the pieces for dependencies, which do not have the
\* other's command.
LEMMA PiecesApart ==
  ASSUME NEW c \in Checkout, NEW g \in Given, NEW d \in Checkout, NEW h \in Given,
         Told(c, g, h)
  PROVE  \E P \in Seq(Seq(Passed)) :
           /\ Frame(P) = Frame(h.deps)
           /\ Frame(Rest(Stripped(d, h.outputs), P, ZividEnv(h.env), Stripped(d, h.args)))
                = Frame(RunRest(d, h))
           /\ Apart(Stripped(c, g.args), P, ZividEnv(h.env))
<1> DEFINE A == Stripped(c, g.args)
           D == h.deps
<1>1. A[1] = Strip(c, In(c, g.args[1]))
  BY CommandShows
<1>2. IsInput(h)
  BY GivenAssumption
<1>3. D \in Seq(Seq(Byte)) /\ Nul \notin Passed
  BY <1>2, GroupsTyped, Bytes
<1>4. /\ \A i \in 1 .. Len(D) : ~ Piece(A[1], D[i])
      /\ A[1] \notin Range(ZividEnv(h.env))
  <2>1. DOMAIN D = 1 .. Len(D)
    BY <1>3, LenProperties
  <2> QED
    BY <1>1, <2>1 DEF Told
<1> HIDE DEF A, D
<1>5. PICK P \in Seq(Seq(Passed)) :
        /\ Frame(P) = Frame(D)
        /\ \A k \in 1 .. Len(P) : \E i \in 1 .. Len(D) : Piece(P[k], D[i])
  BY ONLY <1>3, Pieces DEF Byte
<1>6. A[1] \notin Range(P)
  <2> SUFFICES ASSUME A[1] \in Range(P) PROVE FALSE
    OBVIOUS
  <2>1. PICK k \in DOMAIN P : A[1] = P[k]
    BY DEF Range
  <2>2. k \in 1 .. Len(P)
    BY <1>5, LenProperties
  <2> QED
    BY <1>4, <1>5, <2>1, <2>2
<1>7. Apart(A, P, ZividEnv(h.env))
  BY <1>4, <1>6 DEF Apart
<1>8. Frame(Rest(Stripped(d, h.outputs), P, ZividEnv(h.env), Stripped(d, h.args)))
        = Frame(RunRest(d, h))
  <2>1. /\ Stripped(d, h.outputs) \in Seq(Seq(Byte)) /\ ZividEnv(h.env) \in Seq(Seq(Byte))
        /\ Stripped(d, h.args) \in Seq(Seq(Byte)) /\ P \in Seq(Seq(Byte)) /\ Nul \in Byte
    BY <1>2, <1>5, GroupsTyped, Bytes
  <2>2. Frame(Rest(Stripped(d, h.outputs), P, ZividEnv(h.env), Stripped(d, h.args)))
          = Frame(Rest(Stripped(d, h.outputs), D, ZividEnv(h.env), Stripped(d, h.args)))
    BY <1>3, <1>5, <2>1, RestFrames
  <2> QED
    BY <2>2 DEF RunRest, D
<1> QED
  BY <1>5, <1>7, <1>8 DEF A, D

\* The builders and libraries are the same, and what is hashed behind them is,
\* whichever run has fewer libraries.
LEMMA BeginsEqual ==
  ASSUME NEW c \in Checkout, NEW g, IsInput(g), NEW d \in Checkout, NEW h, IsInput(h),
         ~ Clash(g, h), ~ Clash(h, g), Address(c, g) = Address(d, h)
  PROVE  Begin(g) = Begin(h) /\ Frame(RunRest(c, g)) = Frame(RunRest(d, h))
<1>1. /\ g.exe \in Text /\ IsPackage(g.package) /\ h.exe \in Text /\ IsPackage(h.package)
      /\ Nul \in Byte
  BY GroupsTyped, Bytes
<1> DEFINE x == Frame(RunRest(c, g))
           y == Frame(RunRest(d, h))
<1>2. /\ Address(c, g) = Frame(Group(Begin(g))) \o x /\ x \in Seq(Byte)
      /\ Address(d, h) = Frame(Group(Begin(h))) \o y /\ y \in Seq(Byte)
  BY <1>1, AddressFrames, FrameConcat DEF RunFields
<1> HIDE DEF x, y
<1>3. Frame(Group(Begin(g))) \o x = Frame(Group(Begin(h))) \o y
  BY <1>2
<1>4. Len(Begin(g)) \in Nat /\ Len(Begin(h)) \in Nat
  BY <1>1, BeginShape
<1>5. CASE Len(Begin(g)) <= Len(Begin(h))
  <2>1. Begin(g) = Begin(h) /\ x = y
    BY <1>1, <1>2, <1>3, <1>5, BeginsSame
  <2> QED
    BY <2>1 DEF x, y
<1>6. CASE Len(Begin(h)) <= Len(Begin(g))
  <2>1. Begin(h) = Begin(g) /\ y = x
    BY <1>1, <1>2, <1>3, <1>6, BeginsSame
  <2> QED
    BY <2>1 DEF x, y
<1> QED
  BY <1>4, <1>5, <1>6

\* Two runs with one key have the same groups, if they are told apart.
LEMMA KeyRead ==
  ASSUME NEW c \in Checkout, NEW g \in Given, NEW d \in Checkout, NEW h \in Given,
         Told(c, g, h), Told(d, h, g), Address(c, g) = Address(d, h)
  PROVE  Meaning(c, g) = Meaning(d, h)
<1> DEFINE T == Seq(Passed)
           O == Stripped(c, g.outputs)
           A == Stripped(c, g.args)
           V == ZividEnv(g.env)
           O2 == Stripped(d, h.outputs)
           A2 == Stripped(d, h.args)
           V2 == ZividEnv(h.env)
<1>1. IsInput(g) /\ IsInput(h) /\ ~ Clash(g, h) /\ ~ Clash(h, g)
  BY GivenAssumption DEF Told
<1>2. Begin(g) = Begin(h) /\ Frame(RunRest(c, g)) = Frame(RunRest(d, h))
  BY <1>1, BeginsEqual
<1>3. PICK P \in Seq(T) :
        /\ Frame(P) = Frame(g.deps) /\ Frame(Rest(O, P, V, A)) = Frame(RunRest(c, g))
        /\ Apart(A2, P, V)
  BY PiecesApart
<1>4. PICK P2 \in Seq(T) :
        /\ Frame(P2) = Frame(h.deps) /\ Frame(Rest(O2, P2, V2, A2)) = Frame(RunRest(d, h))
        /\ Apart(A, P2, V2)
  BY PiecesApart
<1>5. Readable(T, O, P, V, A) /\ Readable(T, O2, P2, V2, A2)
  <2>1. /\ O \in Seq(T) /\ Len(O) = 2 /\ V \in Seq(T) /\ Filled(V) /\ A \in Seq(T)
        /\ O2 \in Seq(T) /\ Len(O2) = 2 /\ V2 \in Seq(T) /\ Filled(V2) /\ A2 \in Seq(T)
    BY <1>1, GroupsTyped
  <2>2. A # <<>> /\ A[1] # <<>> /\ A2 # <<>> /\ A2[1] # <<>>
    BY CommandShows
  <2> HIDE DEF T, O, V, A, O2, V2, A2
  <2> QED
    BY <2>1, <2>2 DEF Readable
<1>6. <<>> \in T
  OBVIOUS
<1> HIDE DEF T, O, V, A, O2, V2, A2
<1>7. Rest(O, P, V, A) \in Seq(T) /\ Rest(O2, P2, V2, A2) \in Seq(T)
  <2>1. /\ O \in Seq(T) /\ P \in Seq(T) /\ V \in Seq(T) /\ A \in Seq(T)
        /\ O2 \in Seq(T) /\ P2 \in Seq(T) /\ V2 \in Seq(T) /\ A2 \in Seq(T)
    BY <1>5 DEF Readable
  <2> QED
    BY ONLY <1>6, <2>1, RestType
<1>8. Rest(O, P, V, A) = Rest(O2, P2, V2, A2)
  <2>1. Frame(Rest(O, P, V, A)) = Frame(Rest(O2, P2, V2, A2)) /\ Nul \notin Passed
    BY <1>2, <1>3, <1>4, Bytes
  <2> QED
    BY ONLY <1>7, <2>1, FrameUnique DEF T
<1>9. O = O2 /\ P = P2 /\ V = V2 /\ A = A2
  BY ONLY <1>3, <1>4, <1>5, <1>6, <1>8, ReadBack
<1>10. g.deps = h.deps
  <2>1. g.deps \in Seq(Text) /\ h.deps \in Seq(Text) /\ Frame(g.deps) = Frame(h.deps)
    BY <1>1, <1>3, <1>4, <1>9, GroupsTyped
  <2>2. Len(g.deps) \in Nat /\ Len(h.deps) \in Nat
    BY <2>1, LenProperties
  <2>3. CASE Len(g.deps) <= Len(h.deps)
    BY <1>1, <2>1, <2>3, DependenciesSame
  <2>4. CASE Len(h.deps) <= Len(g.deps)
    BY <1>1, <2>1, <2>4, DependenciesSame
  <2> QED
    BY <2>2, <2>3, <2>4
<1> QED
  BY <1>1, <1>2, <1>9, <1>10, MeaningGroups DEF O, V, A, O2, V2, A2

-----------------------------------------------------------------------------
(* The specification *)

\* What a run has hashed is the key of what it is given, where it is.
KeysRight ==
  /\ at \in [Run -> Checkout \cup {None}]
  /\ given \in [Run -> Given \cup {None}]
  /\ DOMAIN key = Run /\ key = [r \in Run |-> key[r]]
  /\ \A r \in Run : key[r] # None =>
       /\ at[r] \in Checkout /\ given[r] \in Given
       /\ key[r] = Address(at[r], given[r])

LEMMA RunStarts ==
  ASSUME KeysRight, NEW r \in Run, Hash(r)
  PROVE  KeysRight'
<1>1. PICK c \in Checkout, g \in Given :
        /\ at' = [at EXCEPT ![r] = c]
        /\ given' = [given EXCEPT ![r] = g]
        /\ IF HashPackage(g.package) = <<>> THEN UNCHANGED key
           ELSE key' = [key EXCEPT ![r] = Address(c, g)]
  BY DEF Hash
<1>2. at[r] = None /\ key[r] = None
  BY GivenAssumption DEF Hash, KeysRight
<1>3. /\ at' \in [Run -> Checkout \cup {None}] /\ given' \in [Run -> Given \cup {None}]
      /\ at'[r] = c /\ given'[r] = g
      /\ \A s \in Run \ {r} : at'[s] = at[s] /\ given'[s] = given[s]
  BY <1>1 DEF KeysRight
<1>4. /\ DOMAIN key' = Run /\ key' = [s \in Run |-> key'[s]]
      /\ key'[r] = None \/ key'[r] = Address(c, g)
      /\ \A s \in Run \ {r} : key'[s] = key[s]
  <2>1. CASE HashPackage(g.package) = <<>>
    BY <1>1, <1>2, <2>1 DEF KeysRight
  <2>2. CASE HashPackage(g.package) # <<>>
    <3>1. key' = [key EXCEPT ![r] = Address(c, g)] /\ DOMAIN key = Run
      BY <1>1, <2>2 DEF KeysRight
    <3> QED
      BY <3>1
  <2> QED
    BY <2>1, <2>2
<1>5. ASSUME NEW s \in Run, key'[s] # None
      PROVE  /\ at'[s] \in Checkout /\ given'[s] \in Given
             /\ key'[s] = Address(at'[s], given'[s])
  <2>1. CASE s = r
    BY <1>3, <1>4, <1>5, <2>1
  <2>2. CASE s # r
    BY <1>3, <1>4, <1>5, <2>2 DEF KeysRight
  <2> QED
    BY <2>1, <2>2
<1> QED
  BY <1>3, <1>4, <1>5 DEF KeysRight

LEMMA KeysStayRight == Spec => []KeysRight
<1>1. Init => KeysRight
  BY DEF Init, KeysRight
<1>2. KeysRight /\ [Next]_vars => KeysRight'
  <2> SUFFICES ASSUME KeysRight, [Next]_vars PROVE KeysRight'
    OBVIOUS
  <2>1. CASE Next
    BY <2>1, RunStarts DEF Next
  <2>2. CASE UNCHANGED vars
    BY <2>2 DEF vars, KeysRight
  <2> QED
    BY <2>1, <2>2
<1> QED
  BY <1>1, <1>2, PTL DEF Spec

\* Keys are stable across machines: whatever a checkout is called, "/" too, and
\* however often and wherever its path is in the arguments, the runs that mean the
\* same compute the same key (PathStripper, KeyInputs::address).
THEOREM KeysArePortable == Spec => []KeysPortable
<1>1. KeysRight => KeysPortable
  <2> SUFFICES ASSUME KeysRight, NEW r \in Run, NEW s \in Run, Hashed(r), Hashed(s),
                      Meaning(at[r], given[r]) = Meaning(at[s], given[s])
               PROVE  key[r] = key[s]
    BY DEF KeysPortable
  <2>1. /\ at[r] \in Checkout /\ IsInput(given[r]) /\ key[r] = Address(at[r], given[r])
        /\ at[s] \in Checkout /\ IsInput(given[s]) /\ key[s] = Address(at[s], given[s])
    BY GivenAssumption DEF KeysRight, Hashed
  <2>2. RunFields(at[r], given[r]) = RunFields(at[s], given[s])
    BY <2>1, MeaningGroups DEF RunFields, RunRest
  <2> QED
    BY <2>1, <2>2, AddressFrames
<1> QED
  BY <1>1, KeysStayRight, PTL

\* A key is that of one build only: the fields can be read back from what is hashed
\* (field, group, hash_package, collect_zivid_env), although executables, libraries
\* and dependencies have 0s in them, and an empty file, an empty argument and one
\* that is all stripped away are each the field that ends a group, unless one of the
\* runs has a dependency with the other's command between 0s, or a content that is
\* the other's for it, cut short in front of a 0.
THEOREM KeysAreDistinct == Spec => []KeysDistinct
<1>1. KeysRight => KeysDistinct
  <2> SUFFICES ASSUME KeysRight, NEW r \in Run, NEW s \in Run, Hashed(r), Hashed(s),
                      ~ Confusable(r, s), ~ Confusable(s, r),
                      ~ Clash(given[r], given[s]), ~ Clash(given[s], given[r]),
                      key[r] = key[s]
               PROVE  Meaning(at[r], given[r]) = Meaning(at[s], given[s])
    BY DEF KeysDistinct
  <2>1. /\ at[r] \in Checkout /\ given[r] \in Given /\ key[r] = Address(at[r], given[r])
        /\ at[s] \in Checkout /\ given[s] \in Given /\ key[s] = Address(at[s], given[s])
    BY DEF KeysRight, Hashed
  <2>2. Told(at[r], given[r], given[s]) /\ Told(at[s], given[s], given[r])
    BY DEF Confusable, Told
  <2>3. Address(at[r], given[r]) = Address(at[s], given[s])
    BY <2>1
  <2> QED
    BY ONLY <2>1, <2>2, <2>3, KeyRead
<1> QED
  BY <1>1, KeysStayRight, PTL
=============================================================================
