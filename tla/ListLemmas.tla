----------------------------- MODULE ListLemmas -----------------------------
(***************************************************************************)
(* Facts about naturals and sequences that the proofs about programs of    *)
(* statements, layouts, pages of a list and JSON values share.             *)
(***************************************************************************)
EXTENDS Naturals, Sequences, SequencesExt, WellFoundedInduction, TLAPS

\* A set of naturals that is not empty has a least element.
LEMMA Least ==
  ASSUME NEW S \in SUBSET Nat, S # {}
  PROVE  \E n \in S : \A m \in S : n <= m
<1> DEFINE R == OpToRel(<, Nat)
<1>1. IsWellFoundedOn(R, Nat)
  BY NatLessThanWellFounded
<1>2. PICK n \in S : \A m \in S : <<m, n>> \notin R
  BY <1>1, WFMin, Zenon
<1>3. \A m \in S : ~ (m < n)
  BY <1>2 DEF OpToRel
<1> QED
  BY <1>3

\* What holds at 0, and at n if at n - 1, holds up to N.
LEMMA UpTo ==
  ASSUME NEW N \in Nat, NEW G, 0 \in G, \A n \in 1..N : n - 1 \in G => n \in G
  PROVE  \A n \in 0..N : n \in G
<1> DEFINE Bad == {n \in 0..N : n \notin G}
<1> SUFFICES ASSUME Bad # {}
             PROVE  FALSE
  OBVIOUS
<1>1. Bad \in SUBSET Nat
  OBVIOUS
<1>2. PICK n \in Bad : \A m \in Bad : n <= m
  <2> HIDE DEF Bad
  <2> QED
    BY <1>1, Least
<1>3. n \in 1..N /\ n - 1 \in 0..N
  BY <1>2
<1>4. n - 1 \in G
  BY <1>2, <1>3
<1> QED
  BY <1>2, <1>3, <1>4

\* Two sequences, one after the other.
LEMMA Concatenated ==
  ASSUME NEW S, NEW q \in Seq(S), NEW r \in Seq(S)
  PROVE  /\ q \o r \in Seq(S)
         /\ Len(q) \in Nat /\ Len(r) \in Nat /\ Len(q \o r) = Len(q) + Len(r)
         /\ \A k \in 1..Len(q) : (q \o r)[k] = q[k]
         /\ \A k \in 1..Len(r) : (q \o r)[Len(q) + k] = r[k]
         /\ \A k \in 1..Len(q \o r) : k > Len(q) =>
              k - Len(q) \in 1..Len(r) /\ (q \o r)[k] = r[k - Len(q)]
  OBVIOUS

\* The function that FlattenSeq is defined by exists, if there is a sequence.
LEMMA FlattenIsDefined ==
  ASSUME NEW N \in Nat, N # 0, NEW chunks, Len(chunks) = N
  PROVE  \E flat : /\ flat = [n \in 1..N |-> IF n = 1 THEN chunks[n] ELSE flat[n - 1] \o chunks[n]]
                   /\ FlattenSeq(chunks) = flat[N]
<1> DEFINE IsFlat(flat, M) ==
             flat = [n \in 1..M |-> IF n = 1 THEN chunks[n] ELSE flat[n - 1] \o chunks[n]]
           G == {M \in 0..N : \E flat : IsFlat(flat, M)}
<1>1. 0 \in G
  <2>1. IsFlat([n \in 1..0 |-> chunks[n]], 0)
    OBVIOUS
  <2> HIDE DEF IsFlat
  <2>2. \E flat : IsFlat(flat, 0)
    BY <2>1
  <2> QED
    BY <2>2
<1>2. ASSUME NEW M \in 1..N, M - 1 \in G
      PROVE  M \in G
  <2>1. PICK flat : IsFlat(flat, M - 1)
    BY <1>2
  <2>0. \A n \in 1..(M - 1) : flat[n] = IF n = 1 THEN chunks[n] ELSE flat[n - 1] \o chunks[n]
    BY <2>1
  <2> DEFINE next == [n \in 1..M |->
                        IF n = M THEN IF n = 1 THEN chunks[n] ELSE flat[M - 1] \o chunks[M]
                        ELSE flat[n]]
  <2>2. \A n \in 1..(M - 1) : next[n] = flat[n]
    OBVIOUS
  <2>3. \A n \in 1..M : next[n] = IF n = 1 THEN chunks[n] ELSE next[n - 1] \o chunks[n]
    <3>1. ASSUME NEW n \in 1..M, n = M
          PROVE  next[n] = IF n = 1 THEN chunks[n] ELSE next[n - 1] \o chunks[n]
      BY <2>2, <3>1
    <3>2. ASSUME NEW n \in 1..M, n # M
          PROVE  next[n] = IF n = 1 THEN chunks[n] ELSE next[n - 1] \o chunks[n]
      <4>1. next[n] = flat[n] /\ (n # 1 => next[n - 1] = flat[n - 1])
        BY <2>2, <3>2
      <4>2. flat[n] = IF n = 1 THEN chunks[n] ELSE flat[n - 1] \o chunks[n]
        BY <2>0, <3>2
      <4> QED
        BY <4>1, <4>2
    <3> QED
      BY <3>1, <3>2
  <2>4. IsFlat(next, M)
    BY <2>3
  <2> HIDE DEF IsFlat, next
  <2>5. \E any : IsFlat(any, M)
    BY <2>4
  <2> QED
    BY <2>5
<1>3. \E flat : IsFlat(flat, N)
  <2>1. \A M \in 0..N : M \in G
    <3> HIDE DEF G
    <3> QED
      BY <1>1, <1>2, UpTo
  <2>2. N \in G
    <3> HIDE DEF G
    <3> QED
      BY <2>1
  <2> HIDE DEF IsFlat
  <2> QED
    BY <2>2
<1> DEFINE chosen == CHOOSE flat : IsFlat(flat, N)
<1>4. IsFlat(chosen, N)
  BY <1>3
<1>5. FlattenSeq(chunks) = chosen[N]
  BY DEF FlattenSeq
<1> QED
  BY <1>4, <1>5

\* flat[n] is what FlattenSeq makes of the first n sequences.
IsFlattening(flat, chunks, N, S) ==
  /\ flat \in [0..N -> Seq(S)]
  /\ flat[0] = << >>
  /\ \A n \in 1..N : flat[n] = flat[n - 1] \o chunks[n]
  /\ FlattenSeq(chunks) = flat[N]

\* FlattenSeq appends one sequence after the other.
LEMMA FlattenSteps ==
  ASSUME NEW N \in Nat, NEW S, NEW chunks \in [1..N -> Seq(S)]
  PROVE  \E flat : IsFlattening(flat, chunks, N, S)
<1>1. Len(chunks) = N
  OBVIOUS
<1>2. CASE N = 0
  <2>1. FlattenSeq(chunks) = chunks
    BY <1>1, <1>2 DEF FlattenSeq
  <2>2. chunks = << >>
    BY <1>1, <1>2
  <2> DEFINE flat == [n \in 0..N |-> << >>]
  <2>3. flat \in [0..N -> Seq(S)] /\ flat[0] = << >> /\ flat[N] = << >>
    OBVIOUS
  <2> HIDE DEF flat
  <2> QED
    BY <1>2, <2>1, <2>2, <2>3 DEF IsFlattening
<1>3. CASE N # 0
  <2>1. PICK f : /\ f = [n \in 1..N |-> IF n = 1 THEN chunks[n] ELSE f[n - 1] \o chunks[n]]
                 /\ FlattenSeq(chunks) = f[N]
    BY <1>1, <1>3, FlattenIsDefined
  <2>2. \A n \in 1..N : f[n] = IF n = 1 THEN chunks[n] ELSE f[n - 1] \o chunks[n]
    BY <2>1
  <2> DEFINE flat == [n \in 0..N |-> IF n = 0 THEN << >> ELSE f[n]]
             G == {n \in 0..N : flat[n] \in Seq(S)}
  <2>3. 0 \in G
    OBVIOUS
  <2>4. ASSUME NEW n \in 1..N, n - 1 \in G
        PROVE  n \in G /\ flat[n] = flat[n - 1] \o chunks[n]
    <3>1. CASE n = 1
      <4>1. n \in 0..N /\ flat[n] = chunks[n] /\ flat[n - 1] = << >>
        BY <2>2, <3>1
      <4>2. chunks[n] \in Seq(S)
        OBVIOUS
      <4>3. flat[n] = flat[n - 1] \o chunks[n] /\ flat[n] \in Seq(S)
        <5> HIDE DEF flat
        <5> QED
          BY <4>1, <4>2
      <4> QED
        BY <4>1, <4>3
    <3>2. CASE n # 1
      <4>0. n \in 0..N /\ n - 1 \in 0..N /\ n # 0 /\ n - 1 # 0
        BY <3>2
      <4>1. flat[n] = f[n] /\ flat[n - 1] = f[n - 1]
        BY <4>0
      <4>2. f[n] = f[n - 1] \o chunks[n]
        BY <2>2, <3>2
      <4>3. flat[n - 1] \in Seq(S) /\ chunks[n] \in Seq(S)
        BY <2>4
      <4>4. flat[n] = flat[n - 1] \o chunks[n]
        BY <4>1, <4>2
      <4>5. flat[n] \in Seq(S)
        <5> HIDE DEF flat
        <5> QED
          BY <4>3, <4>4
      <4> QED
        BY <4>0, <4>4, <4>5
    <3> QED
      BY <3>1, <3>2
  <2>5. \A n \in 0..N : n \in G
    <3> HIDE DEF G
    <3> QED
      BY <2>3, <2>4, UpTo
  <2>6. flat \in [0..N -> Seq(S)]
    BY <2>5
  <2>7. flat[0] = << >> /\ flat[N] = f[N]
    BY <1>3
  <2>8. \A n \in 1..N : flat[n] = flat[n - 1] \o chunks[n]
    <3>1. \A n \in 1..N : n - 1 \in G
      BY <2>5
    <3> HIDE DEF G, flat
    <3> QED
      BY <2>4, <3>1
  <2> HIDE DEF flat
  <2> QED
    BY <2>1, <2>6, <2>7, <2>8 DEF IsFlattening
<1> QED
  BY <1>2, <1>3
=============================================================================
