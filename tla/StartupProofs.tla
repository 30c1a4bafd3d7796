--------------------------- MODULE StartupProofs ---------------------------
(***************************************************************************)
(* What the start-up and the updates of Startup guarantee for every        *)
(* configuration file, command line and update: an update is decoded as it *)
(* was sent, the processing process runs as configured, and its timers     *)
(* keep the periods.                                                       *)
(***************************************************************************)
EXTENDS Startup, SumProofs, SequenceTheorems

(***************************************************************************)
(* Functions defined by recursion on the natural numbers.                  *)
(***************************************************************************)
\* the first m steps of a recursion
Steps(V, base, step, m) ==
    {f \in [0 .. m -> V] : f[0] = base /\ \A n \in 1 .. m : f[n] = step[<<f[n - 1], n>>]}

\* A recursion with values in a set can be followed for any number of steps.
LEMMA StepsExist ==
    ASSUME NEW V, NEW base \in V, NEW step \in [V \X Nat -> V], NEW m \in Nat
    PROVE  Steps(V, base, step, m) # {}
<1> SUFFICES ASSUME Steps(V, base, step, m) = {} PROVE FALSE
  OBVIOUS
<1> DEFINE P == {k \in Nat : Steps(V, base, step, k) = {}}
<1>1. PICK k \in P : \A i \in P : k <= i
  <2>1. P \subseteq Nat /\ P # {}
    OBVIOUS
  <2> HIDE DEF P
  <2> QED
    BY <2>1, NatMinimum
<1>2. k \in Nat /\ Steps(V, base, step, k) = {}
  OBVIOUS
<1>3. CASE k = 0
  <2>1. [n \in 0 .. 0 |-> base] \in Steps(V, base, step, 0)
    BY DEF Steps
  <2> QED
    BY <1>2, <1>3, <2>1
<1>4. CASE k # 0
  <2>1. k - 1 \in Nat /\ k - 1 \notin P
    BY <1>1, <1>2, <1>4
  <2>2. PICK f \in Steps(V, base, step, k - 1) : TRUE
    BY <2>1
  <2> HIDE DEF P
  <2>3. /\ f \in [0 .. k - 1 -> V] /\ f[0] = base
        /\ \A n \in 1 .. k - 1 : f[n] = step[<<f[n - 1], n>>]
    BY <2>2 DEF Steps
  <2> DEFINE g == [n \in 0 .. k |-> IF n < k THEN f[n] ELSE step[<<f[k - 1], k>>]]
  <2>4. f[k - 1] \in V /\ step[<<f[k - 1], k>>] \in V
    BY <1>2, <2>1, <2>3
  <2>5. g \in [0 .. k -> V] /\ g[0] = base
    BY <1>2, <1>4, <2>1, <2>3, <2>4
  <2>6. ASSUME NEW n \in 1 .. k PROVE g[n] = step[<<g[n - 1], n>>]
    <3>1. g[n - 1] = f[n - 1]
      BY <1>2, <2>6
    <3>2. CASE n = k
      BY <1>2, <3>1, <3>2
    <3>3. CASE n # k
      <4>1. n \in 1 .. k - 1 /\ g[n] = f[n]
        BY <1>2, <3>3
      <4> QED
        BY <2>3, <3>1, <4>1
    <3> QED
      BY <3>2, <3>3
  <2>7. g \in Steps(V, base, step, k)
    BY <2>5, <2>6 DEF Steps
  <2> QED
    BY <1>2, <2>7
<1> QED
  BY <1>3, <1>4

\* Two of them agree as far as both go.
LEMMA StepsAgree ==
    ASSUME NEW V, NEW base, NEW step, NEW l \in Nat, NEW m \in Nat
    PROVE  \A f \in Steps(V, base, step, l), g \in Steps(V, base, step, m), n \in Nat :
               n <= l /\ n <= m => f[n] = g[n]
<1> SUFFICES ASSUME NEW f \in Steps(V, base, step, l), NEW g \in Steps(V, base, step, m), NEW n \in Nat, n <= l, n <= m,
                    f[n] # g[n]
             PROVE  FALSE
  OBVIOUS
<1> DEFINE P == {k \in Nat : k <= l /\ k <= m /\ f[k] # g[k]}
<1>1. PICK k \in P : \A i \in P : k <= i
  <2>1. P \subseteq Nat /\ P # {}
    OBVIOUS
  <2> HIDE DEF P
  <2> QED
    BY <2>1, NatMinimum
<1>2. k \in Nat /\ k <= l /\ k <= m /\ f[k] # g[k]
  OBVIOUS
<1>3. k # 0
  BY <1>2 DEF Steps
<1>4. k - 1 \in Nat /\ k - 1 \notin P
  BY <1>1, <1>2, <1>3
<1>5. f[k - 1] = g[k - 1]
  BY <1>2, <1>4
<1> HIDE DEF P
<1>6. k \in 1 .. l /\ k \in 1 .. m
  BY <1>2, <1>3
<1>7. f[k] = step[<<f[k - 1], k>>] /\ g[k] = step[<<g[k - 1], k>>]
  BY <1>6 DEF Steps
<1> QED
  BY <1>2, <1>5, <1>7

\* all steps of a recursion
Follows(f, base, step) == f[0] = base /\ \A n \in Nat \ {0} : f[n] = step[<<f[n - 1], n>>]

\* A recursion with values in a set defines a function.
LEMMA RecursionDefines ==
    ASSUME NEW V, NEW base \in V, NEW step \in [V \X Nat -> V]
    PROVE  \E f \in [Nat -> V] : Follows(f, base, step)
<1> DEFINE F(n) == CHOOSE f \in Steps(V, base, step, n) : TRUE
           f == [n \in Nat |-> F(n)[n]]
<1>1. \A n \in Nat : F(n) \in Steps(V, base, step, n)
  BY StepsExist
<1> HIDE DEF F
<1>2. \A n \in Nat : F(n) \in [0 .. n -> V] /\ F(n)[0] = base
  BY <1>1 DEF Steps
<1>3. f \in [Nat -> V] /\ f[0] = base
  BY <1>2
<1>4. ASSUME NEW n \in Nat \ {0} PROVE f[n] = step[<<f[n - 1], n>>]
  <2>1. n - 1 \in Nat /\ n \in Nat /\ n \in 1 .. n /\ n - 1 <= n
    OBVIOUS
  <2>2. F(n)[n] = step[<<F(n)[n - 1], n>>]
    BY <1>1, <2>1 DEF Steps
  <2>3. F(n)[n - 1] = F(n - 1)[n - 1]
    <3>1. F(n) \in Steps(V, base, step, n) /\ F(n - 1) \in Steps(V, base, step, n - 1)
      BY <1>1, <2>1
    <3>2. \A a \in Steps(V, base, step, n), b \in Steps(V, base, step, n - 1), k \in Nat :
             k <= n /\ k <= n - 1 => a[k] = b[k]
      BY <2>1, StepsAgree
    <3> HIDE DEF f
    <3> QED
      BY <2>1, <3>1, <3>2
  <2> QED
    BY <2>1, <2>2, <2>3
<1> QED
  BY <1>3, <1>4 DEF Follows
-----------------------------------------------------------------------------
(***************************************************************************)
(* Sequences of sequences laid end to end.                                 *)
(***************************************************************************)
\* A set of sequences that can be laid end to end.
OfSequences(S) ==
    /\ <<>> \in S
    /\ \A s, t \in S :
           /\ s \o t \in S /\ <<>> \o t = t
           /\ Len(s) \in Nat /\ Len(s \o t) = Len(s) + Len(t)
           /\ \A i \in 1 .. Len(s) + Len(t) : (s \o t)[i] = IF i <= Len(s) THEN s[i] ELSE t[i - Len(s)]

\* The sequences over any set are such a set.
LEMMA SeqOfSequences == ASSUME NEW C PROVE OfSequences(Seq(C))
<1>1. <<>> \in Seq(C)
  BY EmptySeq
<1>2. ASSUME NEW s \in Seq(C), NEW t \in Seq(C)
      PROVE  /\ s \o t \in Seq(C) /\ <<>> \o t = t
             /\ Len(s) \in Nat /\ Len(s \o t) = Len(s) + Len(t)
             /\ \A i \in 1 .. Len(s) + Len(t) : (s \o t)[i] = IF i <= Len(s) THEN s[i] ELSE t[i - Len(s)]
  BY ConcatProperties, ConcatEmptySeq, LenProperties
<1> QED
  BY <1>1, <1>2 DEF OfSequences

\* The recursion of FlattenSeq, at its first i sequences.
Laid(e) == CHOOSE h : h = [i \in 1 .. Len(e) |-> IF i = 1 THEN e[i] ELSE h[i - 1] \o e[i]]

EndToEnd(h, e, N) == h[1] = e[1] /\ \A i \in 2 .. N : h[i] = h[i - 1] \o e[i]

\* The recursion defines a function to sequences.
LEMMA LaidDefined ==
    ASSUME NEW S, OfSequences(S), NEW N \in Nat \ {0}, NEW e \in [1 .. N -> S]
    PROVE  FlattenSeq(e) = Laid(e)[N] /\ Laid(e) \in [1 .. N -> S] /\ EndToEnd(Laid(e), e, N)
<1>1. Len(e) = N
  <2>1. N \in Nat
    OBVIOUS
  <2> QED
    BY <2>1, LenProperties
<1> DEFINE step == [x \in S \X Nat |-> IF x[2] \in 1 .. N THEN x[1] \o e[x[2]] ELSE x[1]]
<1>2. step \in [S \X Nat -> S]
  <2>1. ASSUME NEW x \in S \X Nat PROVE (IF x[2] \in 1 .. N THEN x[1] \o e[x[2]] ELSE x[1]) \in S
    <3>1. x[1] \in S
      OBVIOUS
    <3>2. CASE x[2] \in 1 .. N
      <4>1. e[x[2]] \in S
        BY <3>2
      <4> QED
        BY <3>1, <3>2, <4>1 DEF OfSequences
    <3> QED
      BY <3>1, <3>2
  <2> QED
    BY <2>1
<1>3. <<>> \in S
  BY DEF OfSequences
<1>4. PICK f \in [Nat -> S] : f[0] = <<>> /\ \A n \in Nat \ {0} : f[n] = step[<<f[n - 1], n>>]
  <2> HIDE DEF step
  <2>1. PICK f \in [Nat -> S] : Follows(f, <<>>, step)
    BY <1>2, <1>3, RecursionDefines
  <2> QED
    BY <2>1 DEF Follows
<1>5. ASSUME NEW n \in 1 .. N PROVE f[n] = f[n - 1] \o e[n]
  <2>1. n \in Nat \ {0} /\ n - 1 \in Nat
    OBVIOUS
  <2>2. f[n - 1] \in S
    BY <1>4, <2>1
  <2>3. <<f[n - 1], n>> \in S \X Nat
    BY <2>1, <2>2
  <2>4. step[<<f[n - 1], n>>] = f[n - 1] \o e[n]
    BY <2>3
  <2> QED
    BY <1>4, <2>1, <2>4
<1> HIDE DEF step
<1>6. f[1] = e[1]
  <2>1. 1 \in 1 .. N /\ e[1] \in S
    OBVIOUS
  <2>2. f[1] = <<>> \o e[1]
    <3>1. f[1] = f[1 - 1] \o e[1] /\ 1 - 1 = 0
      BY <1>5, <2>1
    <3> QED
      BY <1>4, <3>1
  <2> QED
    BY <1>3, <2>1, <2>2 DEF OfSequences
<1> DEFINE g == [i \in 1 .. N |-> f[i]]
<1>7. ASSUME NEW i \in 1 .. N PROVE g[i] = IF i = 1 THEN e[i] ELSE g[i - 1] \o e[i]
  <2>1. CASE i = 1
    BY <1>6, <2>1
  <2>2. CASE i # 1
    <3>1. i - 1 \in 1 .. N
      BY <2>2
    <3> QED
      BY <1>5, <2>2, <3>1
  <2> QED
    BY <2>1, <2>2
<1>8. g = [i \in 1 .. Len(e) |-> IF i = 1 THEN e[i] ELSE g[i - 1] \o e[i]]
  <2>1. g = [i \in 1 .. N |-> g[i]]
    OBVIOUS
  <2> HIDE DEF g
  <2> QED
    BY <1>1, <1>7, <2>1
<1>9. Laid(e) = [i \in 1 .. N |-> IF i = 1 THEN e[i] ELSE Laid(e)[i - 1] \o e[i]]
  <2> HIDE DEF g
  <2> QED
    BY <1>1, <1>8 DEF Laid
<1>10. /\ Laid(e)[1] = e[1]
       /\ \A i \in 2 .. N : Laid(e)[i] = Laid(e)[i - 1] \o e[i]
  <2>1. \A i \in 1 .. N : Laid(e)[i] = IF i = 1 THEN e[i] ELSE Laid(e)[i - 1] \o e[i]
    BY <1>9
  <2>2. 1 \in 1 .. N /\ \A i \in 2 .. N : i \in 1 .. N /\ i # 1
    OBVIOUS
  <2> QED
    BY <2>1, <2>2
<1>11. ASSUME NEW i \in 1 .. N, Laid(e)[i] \notin S PROVE FALSE
  <2> DEFINE P == {k \in 1 .. N : Laid(e)[k] \notin S}
  <2>1. PICK k \in P : \A j \in P : k <= j
    <3>1. P \subseteq Nat /\ P # {}
      BY <1>11
    <3> HIDE DEF P
    <3> QED
      BY <3>1, NatMinimum
  <2>2. k \in 1 .. N /\ Laid(e)[k] \notin S
    OBVIOUS
  <2>3. k # 1
    BY <1>10, <2>2
  <2>4. k - 1 \in 1 .. N /\ k - 1 \notin P /\ k \in 2 .. N
    BY <2>1, <2>2, <2>3
  <2>5. Laid(e)[k - 1] \in S /\ e[k] \in S
    BY <2>2, <2>4
  <2> QED
    <3>1. Laid(e)[k] = Laid(e)[k - 1] \o e[k]
      BY <1>10, <2>4
    <3> QED
      BY <2>2, <2>5, <3>1 DEF OfSequences
<1>12. Laid(e) \in [1 .. N -> S]
  BY <1>9, <1>11
<1>13. FlattenSeq(e) = Laid(e)[N]
  BY <1>1 DEF FlattenSeq, Laid
<1> QED
  BY <1>10, <1>12, <1>13 DEF EndToEnd

\* What is laid first stays where it is.
LEMMA LaidPrefix ==
    ASSUME NEW S, OfSequences(S), NEW N \in Nat \ {0}, NEW e \in [1 .. N -> S], NEW i \in 1 .. N, NEW k \in 1 .. N, i <= k
    PROVE  /\ Len(Laid(e)[i]) <= Len(Laid(e)[k])
           /\ \A j \in 1 .. Len(Laid(e)[i]) : Laid(e)[k][j] = Laid(e)[i][j]
<1> DEFINE Prefix(m) == /\ Len(Laid(e)[i]) <= Len(Laid(e)[m])
                        /\ \A j \in 1 .. Len(Laid(e)[i]) : Laid(e)[m][j] = Laid(e)[i][j]
           P == {m \in 1 .. N : i <= m /\ ~Prefix(m)}
<1> SUFFICES ASSUME ~Prefix(k) PROVE FALSE
  OBVIOUS
<1>1. PICK m \in P : \A j \in P : m <= j
  <2>1. P \subseteq Nat /\ P # {}
    OBVIOUS
  <2> HIDE DEF P
  <2> QED
    BY <2>1, NatMinimum
<1>2. m \in 1 .. N /\ i <= m /\ ~Prefix(m)
  OBVIOUS
<1>3. \A n \in 1 .. N : Len(Laid(e)[n]) \in Nat /\ Laid(e)[n] \in S /\ e[n] \in S
  <2>1. Laid(e) \in [1 .. N -> S]
    BY LaidDefined
  <2>2. \A s \in S : Len(s) \in Nat
    BY DEF OfSequences
  <2> QED
    BY <2>1, <2>2
<1>4. m # i
  BY <1>2, <1>3
<1>5. m - 1 \in 1 .. N /\ i <= m - 1 /\ m - 1 \notin P /\ m \in 2 .. N
  BY <1>1, <1>2, <1>4
<1>6. Prefix(m - 1)
  BY <1>5
<1>7. Laid(e)[m] = Laid(e)[m - 1] \o e[m]
  <2>1. EndToEnd(Laid(e), e, N)
    BY LaidDefined
  <2> QED
    BY <1>5, <2>1 DEF EndToEnd
<1>8. /\ Len(Laid(e)[m]) = Len(Laid(e)[m - 1]) + Len(e[m])
      /\ \A j \in 1 .. Len(Laid(e)[m - 1]) : Laid(e)[m][j] = Laid(e)[m - 1][j]
  <2>1. Laid(e)[m - 1] \in S /\ e[m] \in S
    BY <1>2, <1>3, <1>5
  <2> QED
    BY <1>7, <2>1 DEF OfSequences
<1>9. Len(e[m]) \in Nat /\ Len(Laid(e)[m - 1]) \in Nat /\ Len(Laid(e)[i]) \in Nat
  BY <1>2, <1>3, <1>5
<1>10. Prefix(m)
  <2>1. Len(Laid(e)[i]) <= Len(Laid(e)[m])
    BY <1>6, <1>8, <1>9
  <2>2. ASSUME NEW j \in 1 .. Len(Laid(e)[i]) PROVE Laid(e)[m][j] = Laid(e)[i][j]
    <3>1. j \in 1 .. Len(Laid(e)[m - 1])
      BY <1>6, <1>9
    <3> QED
      BY <1>6, <1>8, <3>1
  <2> QED
    BY <2>1, <2>2
<1> QED
  BY <1>2, <1>10

\* start[i]: how long the first i sequences of e are together; buffer: all of them
Places(start, buffer, e, N) ==
    /\ start \in [0 .. N -> Nat] /\ start[0] = 0 /\ start[N] = Len(buffer)
    /\ \A i \in 1 .. N : /\ start[i] = start[i - 1] + Len(e[i])
                         /\ \A j \in 1 .. Len(e[i]) : buffer[start[i - 1] + j] = e[i][j]

\* Where the elements of a sequence are when all sequences are laid end to end.
LEMMA FlattenedAt ==
    ASSUME NEW S, OfSequences(S), NEW N \in Nat \ {0}, NEW e \in [1 .. N -> S]
    PROVE  \E start : Places(start, FlattenSeq(e), e, N)
<1> DEFINE start == [i \in 0 .. N |-> IF i = 0 THEN 0 ELSE Len(Laid(e)[i])]
<1>1. FlattenSeq(e) = Laid(e)[N] /\ Laid(e) \in [1 .. N -> S] /\ EndToEnd(Laid(e), e, N)
  BY LaidDefined
<1>2. \A s \in S : Len(s) \in Nat
  BY DEF OfSequences
<1>3. \A i \in 1 .. N : Laid(e)[i] \in S /\ e[i] \in S /\ Len(Laid(e)[i]) \in Nat /\ Len(e[i]) \in Nat
  BY <1>1, <1>2
<1>4. start \in [0 .. N -> Nat] /\ start[0] = 0 /\ start[N] = Len(FlattenSeq(e))
  BY <1>1, <1>3
<1>5. ASSUME NEW i \in 1 .. N
      PROVE  /\ start[i] = start[i - 1] + Len(e[i])
             /\ \A j \in 1 .. Len(e[i]) : FlattenSeq(e)[start[i - 1] + j] = e[i][j]
  <2>1. start[i] = start[i - 1] + Len(e[i]) /\ \A j \in 1 .. Len(e[i]) : Laid(e)[i][start[i - 1] + j] = e[i][j]
    <3>1. CASE i = 1
      <4>1. start[i - 1] = 0 /\ start[i] = Len(Laid(e)[1]) /\ Laid(e)[1] = e[1]
        BY <1>1, <3>1 DEF EndToEnd
      <4> HIDE DEF start
      <4> QED
        BY <1>3, <3>1, <4>1
    <3>2. CASE i # 1
      <4>1. i - 1 \in 1 .. N /\ i \in 2 .. N
        BY <3>2
      <4>2. start[i] = Len(Laid(e)[i]) /\ start[i - 1] = Len(Laid(e)[i - 1])
        BY <4>1
      <4> HIDE DEF start
      <4>3. Laid(e)[i] = Laid(e)[i - 1] \o e[i]
        BY <1>1, <4>1 DEF EndToEnd
      <4>4. Laid(e)[i - 1] \in S /\ e[i] \in S /\ Len(Laid(e)[i - 1]) \in Nat /\ Len(e[i]) \in Nat
        BY <1>3, <4>1
      <4>5. /\ Len(Laid(e)[i]) = Len(Laid(e)[i - 1]) + Len(e[i])
            /\ \A j \in 1 .. Len(Laid(e)[i - 1]) + Len(e[i]) :
                  Laid(e)[i][j] = IF j <= Len(Laid(e)[i - 1]) THEN Laid(e)[i - 1][j] ELSE e[i][j - Len(Laid(e)[i - 1])]
        <5>1. PICK s \in S, t \in S : s = Laid(e)[i - 1] /\ t = e[i]
          BY <4>4
        <5>2. /\ Len(s \o t) = Len(s) + Len(t)
              /\ \A j \in 1 .. Len(s) + Len(t) : (s \o t)[j] = IF j <= Len(s) THEN s[j] ELSE t[j - Len(s)]
          BY <5>1 DEF OfSequences
        <5> QED
          BY <4>3, <5>1, <5>2
      <4>6. ASSUME NEW j \in 1 .. Len(e[i]) PROVE Laid(e)[i][start[i - 1] + j] = e[i][j]
        <5>1. /\ start[i - 1] + j \in 1 .. Len(Laid(e)[i - 1]) + Len(e[i])
              /\ ~(start[i - 1] + j <= Len(Laid(e)[i - 1])) /\ (start[i - 1] + j) - Len(Laid(e)[i - 1]) = j
          BY <4>2, <4>4
        <5> QED
          BY <4>5, <5>1
      <4> QED
        BY <4>2, <4>5, <4>6
    <3> QED
      BY <3>1, <3>2
  <2>2. start[i] = Len(Laid(e)[i]) /\ start[i - 1] \in Nat /\ i <= N /\ N \in 1 .. N
    BY <1>3
  <2> HIDE DEF start
  <2>3. \A j \in 1 .. Len(Laid(e)[i]) : Laid(e)[N][j] = Laid(e)[i][j]
    BY <2>2, LaidPrefix
  <2>4. ASSUME NEW j \in 1 .. Len(e[i]) PROVE FlattenSeq(e)[start[i - 1] + j] = e[i][j]
    <3>1. start[i - 1] + j \in 1 .. Len(Laid(e)[i])
      BY <1>3, <2>1, <2>2
    <3> QED
      BY <1>1, <2>1, <2>3, <3>1
  <2> QED
    BY <2>1, <2>4
<1> HIDE DEF start
<1>6. Places(start, FlattenSeq(e), e, N)
  BY <1>4, <1>5 DEF Places
<1> QED
  BY <1>6
-----------------------------------------------------------------------------
(***************************************************************************)
(* An update is decoded as it was sent.                                    *)
(***************************************************************************)
\* the cells of one encoded parameter
Cells(line) ==
    {Num(line.ident), Num(Lengths[line.text] + 1), Nul} \cup {Char(line.text, i) : i \in 1 .. Lengths[line.text]}

\* What _parse_update_parameters writes for one parameter, cell by cell.
LEMMA EncodedCells ==
    ASSUME NEW line, line.text \in DOMAIN Lengths, NEW C, Cells(line) \subseteq C
    PROVE  /\ EncodeParameter(line) \in Seq(C)
           /\ Len(EncodeParameter(line)) = Lengths[line.text] + 3
           /\ EncodeParameter(line)[1] = Num(line.ident)
           /\ EncodeParameter(line)[2] = Num(Lengths[line.text] + 1)
           /\ \A i \in 1 .. Lengths[line.text] : EncodeParameter(line)[i + 2] = Char(line.text, i)
           /\ EncodeParameter(line)[Lengths[line.text] + 3] = Nul
<1> DEFINE n == Lengths[line.text]
           a == <<Num(line.ident), Num(n + 1)>>
           b == [i \in 1 .. n |-> Char(line.text, i)]
           c == <<Nul>>
<1>1. n \in Nat
  BY ConfigurationAssumption
<1>2. Num(line.ident) \in C /\ Num(n + 1) \in C /\ Nul \in C /\ \A i \in 1 .. n : Char(line.text, i) \in C
  BY DEF Cells
<1>3. EncodeParameter(line) = (a \o b) \o c
  BY DEF EncodeParameter
<1> HIDE DEF n
<1>4. a \in Seq(C) /\ Len(a) = 2 /\ a[1] = Num(line.ident) /\ a[2] = Num(n + 1)
  BY <1>2
<1>5. b \in Seq(C) /\ Len(b) = n /\ \A i \in 1 .. n : b[i] = Char(line.text, i)
  <2>1. b \in [1 .. n -> C]
    BY <1>2
  <2>2. \A i \in 1 .. n : b[i] = Char(line.text, i)
    OBVIOUS
  <2> HIDE DEF b
  <2> QED
    BY <1>1, <2>1, <2>2
<1>6. c \in Seq(C) /\ Len(c) = 1 /\ c[1] = Nul
  BY <1>2
<1> HIDE DEF a, b, c
<1>7. /\ a \o b \in Seq(C) /\ Len(a \o b) = n + 2
      /\ \A i \in 1 .. n + 2 : (a \o b)[i] = IF i <= 2 THEN a[i] ELSE b[i - 2]
  <2>1. /\ a \o b \in Seq(C) /\ Len(a \o b) = Len(a) + Len(b)
        /\ \A i \in 1 .. Len(a) + Len(b) : (a \o b)[i] = IF i <= Len(a) THEN a[i] ELSE b[i - Len(a)]
    BY <1>4, <1>5, ConcatProperties
  <2>2. Len(a) + Len(b) = n + 2 /\ Len(a) = 2
    BY <1>1, <1>4, <1>5
  <2> QED
    BY <2>1, <2>2
<1> DEFINE ab == a \o b
<1> HIDE DEF ab
<1>8. /\ ab \o c \in Seq(C) /\ Len(ab \o c) = n + 3
      /\ \A i \in 1 .. n + 3 : (ab \o c)[i] = IF i <= n + 2 THEN ab[i] ELSE c[i - (n + 2)]
  <2>1. ab \in Seq(C) /\ Len(ab) = n + 2
    BY <1>7 DEF ab
  <2>2. /\ ab \o c \in Seq(C) /\ Len(ab \o c) = Len(ab) + Len(c)
        /\ \A i \in 1 .. Len(ab) + Len(c) : (ab \o c)[i] = IF i <= Len(ab) THEN ab[i] ELSE c[i - Len(ab)]
    BY <1>6, <2>1, ConcatProperties
  <2>3. Len(ab) + Len(c) = n + 3
    BY <1>1, <1>6, <2>1
  <2> QED
    BY <2>1, <2>2, <2>3
<1>9. EncodeParameter(line) = ab \o c
  BY <1>3 DEF ab
<1>10. ab[1] = a[1] /\ ab[2] = a[2] /\ \A i \in 1 .. n : ab[i + 2] = b[i]
  <2>1. \A i \in 1 .. n + 2 : ab[i] = IF i <= 2 THEN a[i] ELSE b[i - 2]
    BY <1>7 DEF ab
  <2>2. 1 \in 1 .. n + 2 /\ 2 \in 1 .. n + 2
    BY <1>1
  <2>3. ASSUME NEW i \in 1 .. n PROVE ab[i + 2] = b[i]
    <3>1. i + 2 \in 1 .. n + 2 /\ ~(i + 2 <= 2) /\ (i + 2) - 2 = i
      BY <1>1
    <3> QED
      BY <2>1, <3>1
  <2> QED
    BY <2>1, <2>2, <2>3
<1> DEFINE e == ab \o c
<1>11. e[1] = ab[1] /\ e[2] = ab[2] /\ (\A i \in 1 .. n : e[i + 2] = ab[i + 2]) /\ e[n + 3] = c[1]
  <2>1. \A i \in 1 .. n + 3 : e[i] = IF i <= n + 2 THEN ab[i] ELSE c[i - (n + 2)]
    BY <1>8
  <2> HIDE DEF e
  <2>2. 1 \in 1 .. n + 3 /\ 2 \in 1 .. n + 3 /\ 1 <= n + 2 /\ 2 <= n + 2
    BY <1>1
  <2>3. n + 3 \in 1 .. n + 3 /\ ~(n + 3 <= n + 2) /\ (n + 3) - (n + 2) = 1
    BY <1>1
  <2>4. \A i \in 1 .. n : i + 2 \in 1 .. n + 3 /\ i + 2 <= n + 2
    BY <1>1
  <2> QED
    BY <2>1, <2>2, <2>3, <2>4
<1>12. EncodeParameter(line) = e
  BY <1>9
<1>13. e \in Seq(C) /\ Len(e) = n + 3
  BY <1>8
<1> HIDE DEF e
<1>14. /\ e[1] = Num(line.ident) /\ e[2] = Num(n + 1) /\ e[n + 3] = Nul
       /\ \A i \in 1 .. n : e[i + 2] = Char(line.text, i)
  BY <1>4, <1>5, <1>6, <1>10, <1>11
<1> QED
  BY <1>12, <1>13, <1>14 DEF n

\* A string that ends where it should is read as it was written.
LEMMA StringFound ==
    ASSUME NEW buffer, Len(buffer) \in Nat, NEW o \in Nat, NEW text \in DOMAIN Lengths, Lengths[text] # 0,
           o + Lengths[text] + 1 <= Len(buffer), \A i \in 1 .. Lengths[text] : buffer[o + i] = Char(text, i),
           buffer[o + Lengths[text] + 1] = Nul
    PROVE  StringAt(buffer, o) = text
<1> DEFINE n == Lengths[text]
           end == {i \in (o + 1) .. Len(buffer) : buffer[i].kind = "nul"}
           first == CHOOSE i \in end : \A j \in end : i <= j
           found(k) == {t \in DOMAIN Lengths : Lengths[t] = k /\ \A i \in 1 .. k : buffer[o + i] = Char(t, i)}
<1>1. n \in Nat \ {0}
  BY ConfigurationAssumption
<1>2. o + n + 1 \in end
  <2>1. buffer[o + n + 1].kind = "nul"
    BY DEF Nul
  <2> QED
    BY <1>1, <2>1
<1>3. ASSUME NEW j \in end PROVE o + n + 1 <= j
  <2>1. j \in (o + 1) .. Len(buffer) /\ buffer[j].kind = "nul"
    BY <1>3
  <2>2. ASSUME j < o + n + 1 PROVE FALSE
    <3>1. j - o \in 1 .. n /\ o + (j - o) = j
      BY <1>1, <2>1, <2>2
    <3>2. buffer[j] = Char(text, j - o)
      BY <3>1
    <3> QED
      BY <2>1, <3>2 DEF Char
  <2> QED
    BY <1>1, <2>1, <2>2
<1>4. end \subseteq Nat
  OBVIOUS
<1> HIDE DEF end
<1>5. first \in end /\ first <= o + n + 1
  BY <1>2, <1>3
<1>6. first = o + n + 1
  <2> HIDE DEF first, n
  <2>1. first \in Nat /\ o + n + 1 <= first
    BY <1>3, <1>4, <1>5
  <2> QED
    BY <1>1, <1>5, <2>1
<1> HIDE DEF first
<1>7. first - o - 1 = n /\ end # {}
  BY <1>1, <1>2, <1>6
<1>8. found(n) = {text}
  <2>1. text \in found(n)
    OBVIOUS
  <2>2. ASSUME NEW t \in found(n) PROVE t = text
    <3>1. 1 \in 1 .. n
      BY <1>1
    <3>2. buffer[o + 1] = Char(t, 1) /\ buffer[o + 1] = Char(text, 1)
      BY <2>2, <3>1
    <3> QED
      BY <3>2 DEF Char
  <2> QED
    BY <2>1, <2>2
<1>9. StringAt(buffer, o) = IF end = {} THEN (IF {} = {} THEN "garbage" ELSE The({}))
                            ELSE IF first - o - 1 = 0 THEN "garbage"
                            ELSE IF found(first - o - 1) = {} THEN "garbage" ELSE The(found(first - o - 1))
  BY DEF StringAt, first, end
<1>10. The({text}) = text
  BY DEF The
<1> HIDE DEF found
<1> QED
  BY <1>1, <1>7, <1>8, <1>9, <1>10

\* one step of parse_command_parameters
OffsetStep(buffer, o) == IF o >= Len(buffer) THEN o ELSE o + 2 + buffer[o + 2].v

\* The recursion of Offsets defines one function: the one that satisfies it.
LEMMA OffsetsAre ==
    ASSUME NEW buffer, NEW g, g = [n \in Nat |-> IF n = 0 THEN 0 ELSE OffsetStep(buffer, g[n - 1])]
    PROVE  \A n \in Nat : Offsets(buffer)[n] = g[n]
<1>1. Offsets(buffer) = [n \in Nat |-> IF n = 0 THEN 0 ELSE OffsetStep(buffer, Offsets(buffer)[n - 1])]
  <2>1. Offsets(buffer) = CHOOSE h : h = [n \in Nat |-> IF n = 0 THEN 0 ELSE OffsetStep(buffer, h[n - 1])]
    BY DEF Offsets, OffsetStep
  <2> QED
    BY <2>1
<1> DEFINE h == Offsets(buffer)
<1> HIDE DEF h
<1>2. \A n \in Nat : /\ h[n] = IF n = 0 THEN 0 ELSE OffsetStep(buffer, h[n - 1])
                     /\ g[n] = IF n = 0 THEN 0 ELSE OffsetStep(buffer, g[n - 1])
  BY <1>1 DEF h
<1> SUFFICES ASSUME NEW n \in Nat, h[n] # g[n] PROVE FALSE
  BY DEF h
<1> DEFINE P == {k \in Nat : h[k] # g[k]}
<1>3. PICK k \in P : \A j \in P : k <= j
  <2>1. P \subseteq Nat /\ P # {}
    OBVIOUS
  <2> HIDE DEF P
  <2> QED
    BY <2>1, NatMinimum
<1>4. k \in Nat /\ h[k] # g[k]
  OBVIOUS
<1>5. k # 0
  BY <1>2, <1>4
<1>6. k - 1 \in Nat /\ k - 1 \notin P
  BY <1>3, <1>4, <1>5
<1>7. h[k - 1] = g[k - 1]
  BY <1>6
<1> QED
  BY <1>2, <1>4, <1>5, <1>7

\* What the monitor finds in an update: its lines, as many as it has room for.
Sent(message) ==
    [i \in {k \in DOMAIN message.lines : k <= NbIdentities} |->
        [id |-> message.lines[i].ident, text |-> message.lines[i].text]]

\* An update of no cell has no parameter.
LEMMA NothingDecoded == ParseParameters(<<>>) = <<>>
<1> DEFINE g == [n \in Nat |-> 0]
<1>1. Len(<<>>) = 0
  BY EmptySeq
<1>2. \A n \in Nat : g[n] = IF n = 0 THEN 0 ELSE OffsetStep(<<>>, g[n - 1])
  BY <1>1 DEF OffsetStep
<1>3. g = [n \in Nat |-> IF n = 0 THEN 0 ELSE OffsetStep(<<>>, g[n - 1])]
  <2>1. g = [n \in Nat |-> g[n]]
    OBVIOUS
  <2> HIDE DEF g
  <2> QED
    BY <1>2, <2>1
<1>4. \A n \in Nat : Offsets(<<>>)[n] = 0
  <2>1. \A n \in Nat : Offsets(<<>>)[n] = g[n]
    <3> HIDE DEF g
    <3> QED
      BY <1>3, OffsetsAre
  <2> QED
    BY <2>1
<1>5. {k \in 1 .. NbIdentities : Offsets(<<>>)[k - 1] < Len(<<>>)} = {}
  <2>1. ASSUME NEW k \in 1 .. NbIdentities PROVE Offsets(<<>>)[k - 1] = 0
    <3>1. k - 1 \in Nat
      BY StartupAssumption
    <3> QED
      BY <1>4, <3>1
  <2> QED
    BY <1>1, <2>1
<1>6. ParseParameters(<<>>) = [n \in {} |-> [id |-> <<>>[Offsets(<<>>)[n - 1] + 1].v, text |-> StringAt(<<>>, Offsets(<<>>)[n - 1] + 2)]]
  BY <1>5 DEF ParseParameters
<1> QED
  BY <1>6

\* The lines of an update that the server accepts, and where their cells are.
LEMMA AcceptedUpdate ==
    ASSUME NEW message \in Messages, ParseUpdate(message) # <<>>
    PROVE  LET N == Len(message.lines)
               e == [i \in 1 .. N |-> EncodeParameter(message.lines[i])]
           IN  /\ N \in Nat \ {0} /\ DOMAIN message.lines = 1 .. N
               /\ \A i \in 1 .. N : message.lines[i].text \in DOMAIN Lengths /\ ~BadLine(message.lines[i])
               /\ \E start : Places(start, ParseUpdate(message), e, N)
<1> DEFINE lines == message.lines
           N == Len(lines)
           e == [i \in 1 .. N |-> EncodeParameter(lines[i])]
           C == UNION {Cells(lines[i]) : i \in 1 .. N}
<1>1. lines \in Seq({lines[i] : i \in DOMAIN lines}) /\ \A i \in DOMAIN lines : lines[i].text \in DOMAIN Lengths
  BY StartupAssumption
<1>2. /\ lines # <<>> /\ \A i \in DOMAIN lines : ~BadLine(lines[i])
      /\ ParseUpdate(message) = FlattenSeq([i \in DOMAIN lines |-> EncodeParameter(lines[i])])
  BY DEF ParseUpdate
<1> HIDE DEF lines
<1>3. N \in Nat /\ DOMAIN lines = 1 .. N /\ N # 0
  BY <1>1, <1>2, LenProperties, EmptySeq
<1> HIDE DEF N
<1>4. e \in [1 .. N -> Seq(C)]
  <2>1. ASSUME NEW i \in 1 .. N PROVE EncodeParameter(lines[i]) \in Seq(C)
    <3>1. lines[i].text \in DOMAIN Lengths
      BY <1>1, <1>3
    <3>2. Cells(lines[i]) \subseteq C
      OBVIOUS
    <3> HIDE DEF C
    <3> QED
      BY <3>1, <3>2, EncodedCells
  <2> HIDE DEF C
  <2> QED
    BY <2>1
<1>5. ParseUpdate(message) = FlattenSeq(e)
  BY <1>2, <1>3
<1> HIDE DEF e, C
<1>6. \E start : Places(start, FlattenSeq(e), e, N)
  <2> DEFINE S == Seq(C)
  <2>1. OfSequences(S)
    BY SeqOfSequences
  <2>2. e \in [1 .. N -> S]
    BY <1>4
  <2> HIDE DEF S
  <2>3. N \in Nat \ {0}
    BY <1>3
  <2> QED
    BY <2>1, <2>2, <2>3, FlattenedAt
<1> QED
  BY <1>1, <1>2, <1>3, <1>5, <1>6 DEF lines, N, e

\* Where the monitor stands after n parameters of a well laid out buffer.
LEMMA OffsetsFollow ==
    ASSUME NEW buffer, NEW start, NEW e, NEW N \in Nat \ {0}, Places(start, buffer, e, N),
           \A i \in 1 .. N : \E w \in Nat : Len(e[i]) = w + 2 /\ e[i][2].v = w
    PROVE  \A n \in Nat : Offsets(buffer)[n] = IF n <= N THEN start[n] ELSE start[N]
<1> DEFINE g == [n \in Nat |-> IF n <= N THEN start[n] ELSE start[N]]
<1>1. /\ start \in [0 .. N -> Nat] /\ start[0] = 0 /\ start[N] = Len(buffer)
      /\ \A i \in 1 .. N : /\ start[i] = start[i - 1] + Len(e[i])
                           /\ \A j \in 1 .. Len(e[i]) : buffer[start[i - 1] + j] = e[i][j]
  BY DEF Places
<1>2. \A i \in 0 .. N : start[i] \in Nat /\ start[i] <= start[N] /\ (i # N => start[i] < start[N])
  <2> DEFINE Below(i) == start[i] <= start[N] /\ (i # N => start[i] < start[N])
             P == {i \in Nat : i <= N /\ ~Below(N - i)}
  <2>1. ASSUME P # {} PROVE FALSE
    <3>1. PICK k \in P : \A j \in P : k <= j
      <4>1. P \subseteq Nat
        OBVIOUS
      <4> HIDE DEF P
      <4> QED
        BY <2>1, <4>1, NatMinimum
    <3>2. k \in Nat /\ k <= N /\ ~Below(N - k)
      OBVIOUS
    <3>3. k # 0
      BY <1>1, <3>2
    <3>4. k - 1 \in Nat /\ k - 1 \notin P
      <4>1. k - 1 \in Nat /\ ~(k <= k - 1)
        BY <3>2, <3>3
      <4> HIDE DEF P
      <4> QED
        BY <3>1, <4>1
    <3>5. Below(N - (k - 1))
      BY <3>2, <3>4
    <3>6. PICK i \in 1 .. N : i = N - (k - 1) /\ i - 1 = N - k
      BY <3>2, <3>3
    <3>7. PICK w \in Nat : Len(e[i]) = w + 2
      BY <3>6
    <3>8. start[i] = start[i - 1] + (w + 2) /\ start[i] \in Nat /\ start[i - 1] \in Nat /\ start[N] \in Nat /\ start[i] <= start[N]
      BY <1>1, <3>5, <3>6, <3>7
    <3>9. Below(i - 1)
      BY <3>7, <3>8
    <3> QED
      BY <3>2, <3>6, <3>9
  <2>2. ASSUME NEW i \in 0 .. N PROVE Below(i)
    <3>1. N - i \in Nat /\ N - i <= N /\ N - (N - i) = i
      OBVIOUS
    <3> QED
      BY <2>1, <3>1
  <2>3. \A i \in 0 .. N : start[i] \in Nat
    BY <1>1
  <2> QED
    BY <2>2, <2>3
<1>3. ASSUME NEW n \in Nat PROVE g[n] = IF n = 0 THEN 0 ELSE OffsetStep(buffer, g[n - 1])
  <2>1. CASE n = 0
    BY <1>1, <2>1
  <2>2. CASE n # 0 /\ n <= N
    <3>1. n \in 1 .. N /\ n - 1 \in 0 .. N /\ n - 1 # N /\ g[n] = start[n] /\ g[n - 1] = start[n - 1]
      BY <2>2
    <3> HIDE DEF g
    <3>2. PICK w \in Nat : Len(e[n]) = w + 2 /\ e[n][2].v = w
      BY <3>1
    <3>3. 2 \in 1 .. Len(e[n]) /\ start[n] = start[n - 1] + (w + 2)
      BY <1>1, <3>1, <3>2
    <3>4. buffer[start[n - 1] + 2] = e[n][2]
      BY <1>1, <3>1, <3>3
    <3>5. start[n - 1] \in Nat /\ start[n - 1] < start[N] /\ start[N] \in Nat
      BY <1>1, <1>2, <3>1
    <3>6. OffsetStep(buffer, start[n - 1]) = start[n - 1] + 2 + w
      <4>1. ~(start[n - 1] >= Len(buffer)) /\ buffer[start[n - 1] + 2].v = w
        BY <1>1, <3>2, <3>4, <3>5
      <4> QED
        BY <4>1 DEF OffsetStep
    <3>7. start[n - 1] + (w + 2) = start[n - 1] + 2 + w
      <4>1. \A a, b \in Nat : a + (b + 2) = a + 2 + b
        OBVIOUS
      <4> QED
        BY ONLY <3>2, <3>5, <4>1
    <3>8. g[n] = OffsetStep(buffer, g[n - 1])
      BY <3>1, <3>3, <3>6, <3>7
    <3> QED
      BY <2>2, <3>8
  <2>3. CASE n > N
    <3>1. n # 0 /\ n - 1 \in Nat /\ n - 1 >= N /\ (n - 1 <= N => n - 1 = N)
      BY <2>3
    <3>2. g[n] = start[N] /\ g[n - 1] = start[N]
      <4>1. n \in Nat /\ ~(n <= N)
        BY <2>3
      <4>2. g[n] = start[N]
        BY <4>1
      <4>3. g[n - 1] = IF n - 1 <= N THEN start[n - 1] ELSE start[N]
        BY <3>1
      <4> QED
        BY <3>1, <4>2, <4>3
    <3> HIDE DEF g
    <3>3. OffsetStep(buffer, start[N]) = start[N]
      <4>1. start[N] \in Nat
        BY <1>1
      <4> QED
        BY <1>1, <4>1 DEF OffsetStep
    <3> QED
      BY <3>1, <3>2, <3>3
  <2> QED
    BY <2>1, <2>2, <2>3
<1>4. g = [n \in Nat |-> IF n = 0 THEN 0 ELSE OffsetStep(buffer, g[n - 1])]
  <2>1. g = [n \in Nat |-> g[n]]
    OBVIOUS
  <2> HIDE DEF g
  <2> QED
    BY <1>3, <2>1
<1>5. \A n \in Nat : Offsets(buffer)[n] = g[n]
  <2> HIDE DEF g
  <2> QED
    BY ONLY <1>4, OffsetsAre
<1> QED
  BY <1>5

\* Start of every parameter: strictly before the end of the buffer, and room for all its cells.
LEMMA PlacesWithin ==
    ASSUME NEW buffer, NEW start, NEW e, NEW N \in Nat \ {0}, Places(start, buffer, e, N),
           \A i \in 1 .. N : Len(e[i]) \in Nat \ {0}, NEW i \in 1 .. N
    PROVE  start[i - 1] \in Nat /\ start[i] \in Nat /\ start[i] <= Len(buffer) /\ Len(buffer) \in Nat
<1>1. /\ start \in [0 .. N -> Nat] /\ start[N] = Len(buffer)
      /\ \A k \in 1 .. N : start[k] = start[k - 1] + Len(e[k])
  BY DEF Places
<1>2. start[i - 1] \in Nat /\ start[i] \in Nat /\ start[N] \in Nat
  BY <1>1
<1>3. ASSUME ~(start[i] <= start[N]) PROVE FALSE
  <2> DEFINE P == {k \in Nat : k <= N /\ ~(start[N - k] <= start[N])}
  <2>1. PICK k \in P : \A j \in P : k <= j
    <3>1. N - i \in Nat /\ N - i <= N /\ N - (N - i) = i
      OBVIOUS
    <3>2. P \subseteq Nat /\ P # {}
      BY <1>3, <3>1
    <3> HIDE DEF P
    <3> QED
      BY <3>2, NatMinimum
  <2>2. k \in Nat /\ k <= N /\ ~(start[N - k] <= start[N])
    OBVIOUS
  <2>3. k # 0
    BY <1>2, <2>2
  <2>4. k - 1 \in Nat /\ k - 1 \notin P
    <3>1. k - 1 \in Nat /\ ~(k <= k - 1)
      BY <2>2, <2>3
    <3> HIDE DEF P
    <3> QED
      BY <2>1, <3>1
  <2>5. PICK m \in 1 .. N : m = N - (k - 1) /\ m - 1 = N - k
    BY <2>2, <2>3
  <2>6. start[m] <= start[N]
    BY <2>2, <2>4, <2>5
  <2>7. start[m] = start[m - 1] + Len(e[m]) /\ start[m] \in Nat /\ start[m - 1] \in Nat /\ Len(e[m]) \in Nat
    BY <1>1
  <2>8. start[m - 1] <= start[N]
    BY <1>2, <2>6, <2>7
  <2> QED
    BY <2>2, <2>5, <2>8
<1> QED
  BY <1>1, <1>2, <1>3

\* The monitor decodes what the server encoded: the identities and the texts of the lines, in
\* the order in which the client sent them.
LEMMA DecodedUpdate ==
    ASSUME NEW message \in Messages, ParseUpdate(message) # <<>>
    PROVE  ParseParameters(ParseUpdate(message)) = Sent(message)
<1> DEFINE lines == message.lines
           N == Len(lines)
           e == [i \in 1 .. N |-> EncodeParameter(lines[i])]
           buffer == ParseUpdate(message)
<1>1. /\ N \in Nat \ {0} /\ DOMAIN lines = 1 .. N
      /\ \A i \in 1 .. N : lines[i].text \in DOMAIN Lengths /\ ~BadLine(lines[i])
      /\ \E start : Places(start, buffer, e, N)
  BY AcceptedUpdate
<1>2. PICK start : Places(start, buffer, e, N)
  BY <1>1
<1>3. \A i \in 1 .. N : e[i] = EncodeParameter(lines[i])
  OBVIOUS
<1> HIDE DEF buffer, e, lines, N
<1>4. ASSUME NEW i \in 1 .. N
      PROVE  /\ Lengths[lines[i].text] \in Nat \ {0}
             /\ Len(e[i]) = Lengths[lines[i].text] + 3
             /\ e[i][1] = Num(lines[i].ident)
             /\ e[i][2] = Num(Lengths[lines[i].text] + 1)
             /\ \A j \in 1 .. Lengths[lines[i].text] : e[i][j + 2] = Char(lines[i].text, j)
             /\ e[i][Lengths[lines[i].text] + 3] = Nul
  <2>1. lines[i].text \in DOMAIN Lengths /\ ~BadLine(lines[i])
    BY <1>1
  <2>2. Lengths[lines[i].text] \in Nat
    BY <2>1, ConfigurationAssumption
  <2>3. Lengths[lines[i].text] # 0
    BY <2>1 DEF BadLine
  <2>4. Cells(lines[i]) \subseteq Cells(lines[i])
    OBVIOUS
  <2> QED
    BY <1>3, <2>1, <2>2, <2>3, <2>4, EncodedCells
<1>5. \A i \in 1 .. N : \E w \in Nat : Len(e[i]) = w + 2 /\ e[i][2].v = w
  <2> SUFFICES ASSUME NEW i \in 1 .. N PROVE \E w \in Nat : Len(e[i]) = w + 2 /\ e[i][2].v = w
    OBVIOUS
  <2>1. PICK n \in Nat \ {0} : n = Lengths[lines[i].text]
    BY <1>4
  <2>2. Len(e[i]) = n + 3 /\ e[i][2] = Num(n + 1)
    BY <1>4, <2>1
  <2>3. n + 1 \in Nat /\ n + 3 = (n + 1) + 2 /\ e[i][2].v = n + 1
    BY <2>2 DEF Num
  <2> QED
    BY <2>2, <2>3
<1>6. \A n \in Nat : Offsets(buffer)[n] = IF n <= N THEN start[n] ELSE start[N]
  BY <1>1, <1>2, <1>5, OffsetsFollow
<1>7. \A i \in 1 .. N : Len(e[i]) \in Nat \ {0}
  BY <1>4
<1>8. \A i \in 1 .. N : start[i - 1] \in Nat /\ start[i] \in Nat /\ start[i] <= Len(buffer) /\ Len(buffer) \in Nat
  BY <1>1, <1>2, <1>7, PlacesWithin
<1>9. /\ start[N] = Len(buffer)
      /\ \A i \in 1 .. N : /\ start[i] = start[i - 1] + Len(e[i])
                           /\ \A j \in 1 .. Len(e[i]) : buffer[start[i - 1] + j] = e[i][j]
  BY <1>2 DEF Places
<1>10. {k \in 1 .. NbIdentities : Offsets(buffer)[k - 1] < Len(buffer)} = {k \in 1 .. N : k <= NbIdentities}
  <2>1. ASSUME NEW k \in 1 .. N PROVE Offsets(buffer)[k - 1] < Len(buffer) /\ Offsets(buffer)[k - 1] = start[k - 1]
    <3>1. k - 1 \in Nat /\ k - 1 <= N
      BY <1>1
    <3>2. Offsets(buffer)[k - 1] = start[k - 1]
      BY <1>6, <3>1
    <3>3. start[k - 1] < start[k]
      BY <1>7, <1>8, <1>9
    <3> QED
      BY <1>8, <3>2, <3>3
  <2>2. ASSUME NEW k \in 1 .. NbIdentities, k \notin 1 .. N PROVE ~(Offsets(buffer)[k - 1] < Len(buffer))
    <3>1. k - 1 \in Nat /\ N <= k - 1 /\ (k - 1 <= N => k - 1 = N)
      BY <1>1, <2>2, StartupAssumption
    <3>2. Offsets(buffer)[k - 1] = start[N]
      BY <1>6, <3>1
    <3>3. Len(buffer) \in Nat
      <4>1. N \in 1 .. N
        BY <1>1
      <4> QED
        BY <1>8, <4>1
    <3> QED
      BY <1>9, <3>2, <3>3
  <2> QED
    BY <1>1, <2>1, <2>2, StartupAssumption
<1>11. ASSUME NEW i \in 1 .. N
       PROVE  /\ buffer[Offsets(buffer)[i - 1] + 1].v = lines[i].ident
              /\ StringAt(buffer, Offsets(buffer)[i - 1] + 2) = lines[i].text
  <2> DEFINE n == Lengths[lines[i].text]
             o == start[i - 1]
  <2>1. n \in Nat \ {0} /\ Len(e[i]) = n + 3 /\ o \in Nat
    BY <1>4, <1>8
  <2>2. Offsets(buffer)[i - 1] = o
    <3>1. i - 1 \in Nat /\ i - 1 <= N
      BY <1>1
    <3> QED
      BY <1>6, <3>1
  <2>3. \A j \in 1 .. n + 3 : buffer[o + j] = e[i][j]
    BY <1>9, <2>1
  <2>4. o + (n + 3) <= Len(buffer) /\ Len(buffer) \in Nat
    BY <1>8, <1>9, <2>1
  <2>5. /\ e[i][1] = Num(lines[i].ident) /\ e[i][n + 3] = Nul
        /\ \A j \in 1 .. n : e[i][j + 2] = Char(lines[i].text, j)
    BY <1>4
  <2>6. lines[i].text \in DOMAIN Lengths
    BY <1>1
  <2> HIDE DEF o
  <2>7. buffer[o + 1].v = lines[i].ident
    <3>1. 1 \in 1 .. n + 3
      BY <2>1
    <3> QED
      BY <2>3, <2>5, <3>1 DEF Num
  <2>8. \A j \in 1 .. n : buffer[(o + 2) + j] = Char(lines[i].text, j)
    <3> SUFFICES ASSUME NEW j \in 1 .. n PROVE buffer[(o + 2) + j] = Char(lines[i].text, j)
      OBVIOUS
    <3>1. j + 2 \in 1 .. n + 3 /\ (o + 2) + j = o + (j + 2)
      BY <2>1
    <3> QED
      BY <2>3, <2>5, <3>1
  <2>9. buffer[(o + 2) + n + 1] = Nul
    <3>1. n + 3 \in 1 .. n + 3 /\ (o + 2) + n + 1 = o + (n + 3)
      <4> HIDE DEF n
      <4> QED
        BY <2>1
    <3> QED
      BY <2>3, <2>5, <3>1
  <2>10. o + 2 \in Nat /\ (o + 2) + n + 1 <= Len(buffer) /\ n # 0
    BY <2>1, <2>4
  <2>11. StringAt(buffer, o + 2) = lines[i].text
    BY <2>4, <2>6, <2>8, <2>9, <2>10, StringFound
  <2> QED
    BY <2>2, <2>7, <2>11
<1>12. ParseParameters(buffer) =
         [i \in {k \in 1 .. N : k <= NbIdentities} |->
            [id |-> buffer[Offsets(buffer)[i - 1] + 1].v, text |-> StringAt(buffer, Offsets(buffer)[i - 1] + 2)]]
  BY <1>10 DEF ParseParameters
<1>13. ParseParameters(buffer) =
         [i \in {k \in 1 .. N : k <= NbIdentities} |-> [id |-> lines[i].ident, text |-> lines[i].text]]
  BY <1>11, <1>12
<1> QED
  BY <1>1, <1>13 DEF Sent, buffer, lines

\* An update is applied as it was sent, or not at all: whatever the identities, the lengths of
\* the texts and the number of lines, parse_command_parameters gets back what
\* _parse_update_parameters wrote, up to the room that the monitor has.
THEOREM DecodesAsSent ==
    ASSUME NEW message \in Messages
    PROVE  ParseParameters(ParseUpdate(message)) = IF ParseUpdate(message) = <<>> THEN <<>> ELSE Sent(message)
<1>1. CASE ParseUpdate(message) = <<>>
  BY <1>1, NothingDecoded
<1>2. CASE ParseUpdate(message) # <<>>
  BY <1>2, DecodedUpdate
<1> QED
  BY <1>1, <1>2

\* How many parameters the monitor finds, and what they and the history of them are.
LEMMA SentAre ==
    ASSUME NEW message \in Messages, ParseUpdate(message) # <<>>
    PROVE  \E k \in Nat \ {0} :
              /\ DOMAIN Sent(message) = 1 .. k /\ Len(Sent(message)) = k /\ Sent(message) # <<>>
              /\ DOMAIN Considered(message) = 1 .. k
              /\ \A i \in 1 .. k :
                    /\ Sent(message)[i].id = Considered(message)[i].ident
                    /\ Sent(message)[i].text = Considered(message)[i].text
                    /\ Sent(message)[i].id \in Idents /\ Sent(message)[i].id # "no-support"
                    /\ Considered(message)[i].update
<1> DEFINE lines == message.lines
           N == Len(lines)
           k == IF N <= NbIdentities THEN N ELSE NbIdentities
<1>1. /\ N \in Nat \ {0} /\ DOMAIN lines = 1 .. N
      /\ \A i \in 1 .. N : ~BadLine(lines[i])
  BY AcceptedUpdate
<1>2. k \in Nat \ {0} /\ {j \in DOMAIN lines : j <= NbIdentities} = 1 .. k /\ k <= N
  BY <1>1, StartupAssumption
<1> HIDE DEF k
<1>3. /\ Sent(message) = [i \in 1 .. k |-> [id |-> lines[i].ident, text |-> lines[i].text]]
      /\ Considered(message) = [i \in 1 .. k |-> [ident |-> lines[i].ident, text |-> lines[i].text, update |-> TRUE]]
  BY <1>2 DEF Sent, Considered
<1> HIDE DEF lines
<1>4. Len(Sent(message)) = k
  <2>1. DOMAIN Sent(message) = 1 .. k /\ k \in Nat
    BY <1>2, <1>3
  <2> QED
    BY <2>1
<1>5. DOMAIN <<>> = {} /\ 1 \in 1 .. k
  BY <1>2
<1>6. \A i \in 1 .. k : lines[i].ident \in Idents /\ lines[i].ident # "no-support"
  <2> SUFFICES ASSUME NEW i \in 1 .. k PROVE lines[i].ident \in Idents /\ lines[i].ident # "no-support"
    OBVIOUS
  <2>1. i \in 1 .. N
    BY <1>1, <1>2
  <2> QED
    BY <1>1, <2>1 DEF BadLine, Known
<1>7. DOMAIN Sent(message) = 1 .. k /\ DOMAIN Considered(message) = 1 .. k
  BY <1>3
<1>8. Sent(message) # <<>>
  BY <1>5, <1>7
<1>9. \A i \in 1 .. k :
         /\ Sent(message)[i].id = lines[i].ident /\ Sent(message)[i].text = lines[i].text
         /\ Considered(message)[i].ident = lines[i].ident /\ Considered(message)[i].text = lines[i].text
         /\ Considered(message)[i].update
  BY <1>3
<1> QED
  BY <1>2, <1>4, <1>6, <1>7, <1>8, <1>9
-----------------------------------------------------------------------------
(***************************************************************************)
(* Overriding parameters of a configuration.                               *)
(***************************************************************************)
IsConf(conf) == conf = [p \in Parameters |-> conf[p]]

\* A parsed value is one of the values parsed.
LEMMA TheIsOne == ASSUME NEW values, values # {} PROVE The(values) \in values
  BY DEF The

\* the recursion of ApplyUpdate, and its steps
Applied(conf, params) ==
    CHOOSE h : h = [n \in Nat |-> IF n = 0 THEN conf ELSE OverrideById(h[n - 1], params[n].id, params[n].text)]
InOrder(h, params) == \A n \in Nat \ {0} : h[n] = OverrideById(h[n - 1], params[n].id, params[n].text)

\* The recursion of ApplyUpdate defines a function: the parameters are applied in their order.
LEMMA AppliedDefined ==
    ASSUME NEW conf, IsConf(conf), NEW params
    PROVE  /\ ApplyUpdate(conf, params) = Applied(conf, params)[Len(params)]
           /\ Applied(conf, params)[0] = conf
           /\ InOrder(Applied(conf, params), params)
<1> DEFINE Val == {conf[p] : p \in Parameters} \cup UNION {Overriding(params[n].id, params[n].text) : n \in Nat}
           V == [Parameters -> Val]
           step == [x \in V \X Nat |-> OverrideById(x[1], params[x[2]].id, params[x[2]].text)]
<1>1. conf \in V
  BY DEF IsConf
<1>2. ASSUME NEW c \in V, NEW n \in Nat PROVE OverrideById(c, params[n].id, params[n].text) \in V
  <2> DEFINE new == Overriding(params[n].id, params[n].text)
  <2>1. new \subseteq Val
    OBVIOUS
  <2> HIDE DEF Val, new
  <2>2. CASE params[n].id \notin Idents \/ new = {}
    BY <2>2 DEF OverrideById, OverrideByIdent, new
  <2>3. CASE params[n].id \in Idents /\ new # {}
    <3>1. The(new) \in Val
      BY <2>1, <2>3, TheIsOne
    <3>2. OverrideById(c, params[n].id, params[n].text) = [c EXCEPT ![Field(params[n].id)] = The(new)]
      BY <2>3 DEF OverrideById, OverrideByIdent, new
    <3> QED
      BY <3>1, <3>2
  <2> QED
    BY <2>2, <2>3
<1> HIDE DEF V
<1>3. step \in [V \X Nat -> V]
  BY <1>2
<1>4. PICK f \in [Nat -> V] : Follows(f, conf, step)
  <2> HIDE DEF step
  <2> QED
    BY <1>1, <1>3, RecursionDefines
<1>5. \A n \in Nat : f[n] = IF n = 0 THEN conf ELSE OverrideById(f[n - 1], params[n].id, params[n].text)
  <2> SUFFICES ASSUME NEW n \in Nat, n # 0 PROVE f[n] = OverrideById(f[n - 1], params[n].id, params[n].text)
    BY <1>4 DEF Follows
  <2>1. n - 1 \in Nat /\ f[n - 1] \in V /\ <<f[n - 1], n>> \in V \X Nat
    BY <1>4
  <2>2. f[n] = step[<<f[n - 1], n>>]
    BY <1>4 DEF Follows
  <2> QED
    BY <2>1, <2>2
<1>6. f = [n \in Nat |-> IF n = 0 THEN conf ELSE OverrideById(f[n - 1], params[n].id, params[n].text)]
  <2>1. f = [n \in Nat |-> f[n]]
    BY <1>4
  <2> QED
    BY <1>5, <2>1
<1>7. Applied(conf, params) =
        [n \in Nat |-> IF n = 0 THEN conf ELSE OverrideById(Applied(conf, params)[n - 1], params[n].id, params[n].text)]
  BY <1>6 DEF Applied
<1>8. ApplyUpdate(conf, params) = Applied(conf, params)[Len(params)]
  BY DEF ApplyUpdate, Applied
<1>9. InOrder(Applied(conf, params), params)
  BY <1>7 DEF InOrder
<1> QED
  BY <1>7, <1>8, <1>9

\* the value of the parameter of a line of the tables
Fits(p, text, value) == \A v \in FileValues(TypeTable[p], text) : Matches(p, value, v)

\* A text that means something in the file is stored by an override with the same meaning.
LEMMA OverridingFits ==
    ASSUME NEW ident \in Idents, ident # "system-report.output-channel", Field(ident) \in Parameters \ FileOnly,
           NEW text, FileValues(TypeTable[Field(ident)], text) # {}
    PROVE  /\ Overriding(ident, text) # {}
           /\ Fits(Field(ident), text, The(Overriding(ident, text)))
<1> DEFINE p == Field(ident)
           type == TypeTable[p]
<1> USE DEF ParseInputMode
<1>1. /\ \/ type = "bool" /\ DataTypes[ident] = "BOOL"
         \/ type \in {"int", "mode", "rtt"} /\ DataTypes[ident] \in {"UINT16_T", "UINT32_T"}
         \/ type = "str" /\ DataTypes[ident] = "CHAR_STAR"
         \/ type = "channels" /\ DataTypes[ident] = "LIST"
      /\ type = "mode" <=> ident = "input.mode"
      /\ type = "rtt" <=> ident = "session-report.rtt-base"
      /\ ident \notin {"dump-pcap.protocols", "output.format", "socket-output.type"}
  BY TablesAgree, Zenon
<1>2. p \notin {"output.format", "socket-output.type"}
  BY <1>1 DEF Field
<1> HIDE DEF p, type
<1>3. FileValues(type, text) # {}
  BY DEF p, type
<1> SUFFICES Overriding(ident, text) # {} /\ \A v \in FileValues(type, text) : Matches(p, The(Overriding(ident, text)), v)
  BY DEF Fits, p, type
<1>4. ASSUME Overriding(ident, text) # {}, \A v \in FileValues(type, text) : \A x \in Overriding(ident, text) : Matches(p, x, v)
      PROVE  Overriding(ident, text) # {} /\ \A v \in FileValues(type, text) : Matches(p, The(Overriding(ident, text)), v)
  <2>1. The(Overriding(ident, text)) \in Overriding(ident, text)
    BY <1>4, TheIsOne
  <2> QED
    BY <1>4, <2>1
<1>5. CASE type = "bool"
  <2>1. DataTypes[ident] = "BOOL" /\ ident # "input.mode" /\ ident # "session-report.rtt-base"
    BY <1>1, <1>5
  <2>2. Overriding(ident, text) = {text = "true"}
    BY <2>1 DEF Overriding
  <2>3. FileValues(type, text) = {text = "true" : x \in {text} \cap {"true", "false"}}
    BY <1>5 DEF FileValues
  <2>4. \A v \in FileValues(type, text) : \A x \in Overriding(ident, text) : Matches(p, x, v)
    BY <1>5, <2>2, <2>3 DEF Matches, type
  <2> QED
    BY <1>4, <2>2, <2>4
<1>6. CASE type = "int"
  <2>1. DataTypes[ident] \in {"UINT16_T", "UINT32_T"} /\ ident # "input.mode" /\ ident # "session-report.rtt-base"
    BY <1>1, <1>6
  <2>2. Overriding(ident, text) = {EnumOf(p, Narrowed(p, Atoi(text)))}
    BY <2>1 DEF Overriding, p
  <2>3. EnumOf(p, Narrowed(p, Atoi(text))) = Narrowed(p, Atoi(text))
    BY <1>2 DEF EnumOf
  <2>4. FileValues(type, text) = {Numbers[x] : x \in {text} \cap DOMAIN Numbers}
    BY <1>6 DEF FileValues
  <2>5. text \in DOMAIN Numbers /\ FileValues(type, text) = {Atoi(text)}
    BY <1>3, <2>4 DEF Atoi
  <2>6. Matches(p, Narrowed(p, Atoi(text)), Atoi(text))
    BY <1>6 DEF Matches, type
  <2> QED
    <3>1. \A v \in FileValues(type, text) : \A x \in Overriding(ident, text) : Matches(p, x, v)
      BY <2>2, <2>3, <2>5, <2>6
    <3> QED
      BY <1>4, <2>2, <3>1
<1>7. CASE type = "mode"
  <2>1. ident = "input.mode" /\ DataTypes[ident] \in {"UINT16_T", "UINT32_T"}
    BY <1>1, <1>7
  <2>2. Overriding(ident, text) = {text} \cap {"ONLINE", "OFFLINE"}
    BY <2>1 DEF Overriding
  <2>3. FileValues(type, text) = {text} \cap {"ONLINE", "OFFLINE"}
    BY <1>7 DEF FileValues
  <2>4. \A v \in FileValues(type, text) : \A x \in Overriding(ident, text) : Matches(p, x, v)
    BY <1>7, <2>2, <2>3 DEF Matches, type
  <2> QED
    BY <1>3, <1>4, <2>2, <2>3, <2>4
<1>8. CASE type = "rtt"
  <2>1. ident = "session-report.rtt-base" /\ DataTypes[ident] \in {"UINT16_T", "UINT32_T"}
    BY <1>1, <1>8
  <2>2. Overriding(ident, text) = {text} \cap {"PREFER_SENDER", "SENDER", "CAPTOR"}
    BY <2>1 DEF Overriding, ParseRttBase
  <2>3. FileValues(type, text) = {text} \cap {"PREFER_SENDER", "SENDER", "CAPTOR"}
    BY <1>8 DEF FileValues, ParseRttBase
  <2>4. \A v \in FileValues(type, text) : \A x \in Overriding(ident, text) : Matches(p, x, v)
    BY <1>8, <2>2, <2>3 DEF Matches, type
  <2> QED
    BY <1>3, <1>4, <2>2, <2>3, <2>4
<1>9. CASE type = "str"
  <2>1. DataTypes[ident] = "CHAR_STAR" /\ ident # "input.mode" /\ ident # "session-report.rtt-base"
    BY <1>1, <1>9
  <2>2. Overriding(ident, text) = {text}
    BY <2>1 DEF Overriding
  <2>3. FileValues(type, text) = {text}
    BY <1>9 DEF FileValues
  <2>4. \A v \in FileValues(type, text) : \A x \in Overriding(ident, text) : Matches(p, x, v)
    BY <1>9, <2>2, <2>3 DEF Matches, type
  <2> QED
    BY <1>4, <2>2, <2>4
<1>10. CASE type = "channels"
  <2>1. /\ DataTypes[ident] = "LIST" /\ ident # "dump-pcap.protocols"
        /\ ident # "input.mode" /\ ident # "session-report.rtt-base"
    BY <1>1, <1>10
  <2>2. Overriding(ident, text) = {ParseOutputChannel(text)}
    BY <2>1 DEF Overriding
  <2>3. FileValues(type, text) = {ParseOutputChannel(text)}
    BY <1>10 DEF FileValues
  <2>4. \A v \in FileValues(type, text) : \A x \in Overriding(ident, text) : Matches(p, x, v)
    BY <1>10, <2>2, <2>3 DEF Matches, type
  <2> QED
    BY <1>4, <2>2, <2>4
<1> QED
  BY <1>1, <1>5, <1>6, <1>7, <1>8, <1>9, <1>10
-----------------------------------------------------------------------------
(***************************************************************************)
(* A configuration that agrees with the file and with what was written.    *)
(***************************************************************************)
Agrees(conf, w) == \A p \in Parameters \ FileOnly : \A v \in Expected(w, p) : Matches(p, conf[p], v)

\* Longer by one: w2 is w with one more text.
Extends(w2, w, n) == DOMAIN w = 1 .. n /\ DOMAIN w2 = 1 .. n + 1 /\ \A i \in 1 .. n : w2[i] = w[i]

\* The last text that was written counts for its parameter, and for no other.
LEMMA LastWritten ==
    ASSUME NEW n \in Nat, NEW w, NEW w2, Extends(w2, w, n), NEW p
    PROVE  LastWrite(w2, p) = IF Field(w2[n + 1].ident) = p THEN {w2[n + 1]} ELSE LastWrite(w, p)
<1> DEFINE at(u) == {i \in DOMAIN u : Field(u[i].ident) = p}
           last(u) == CHOOSE i \in at(u) : \A j \in at(u) : j <= i
<1>1. \A u : LastWrite(u, p) = IF at(u) = {} THEN {} ELSE {u[last(u)]}
  BY DEF LastWrite
<1>2. DOMAIN w = 1 .. n /\ DOMAIN w2 = 1 .. n + 1 /\ \A i \in 1 .. n : w2[i] = w[i]
  BY DEF Extends
<1>3. CASE Field(w2[n + 1].ident) = p
  <2>1. n + 1 \in at(w2) /\ \A i \in at(w2) : i \in Nat /\ i <= n + 1
    BY <1>2, <1>3
  <2> HIDE DEF at
  <2>2. last(w2) \in at(w2) /\ n + 1 <= last(w2)
    BY <2>1
  <2> HIDE DEF last
  <2>3. last(w2) = n + 1
    BY <2>1, <2>2
  <2>4. LastWrite(w2, p) = {w2[last(w2)]}
    BY <1>1, <2>1
  <2> QED
    BY <1>3, <2>3, <2>4
<1>4. CASE Field(w2[n + 1].ident) # p
  <2>1. at(w2) = at(w) /\ at(w) \subseteq 1 .. n
    BY <1>2, <1>4
  <2> HIDE DEF at
  <2>2. last(w2) = last(w)
    BY <2>1
  <2>3. CASE at(w) = {}
    BY <1>1, <1>4, <2>1, <2>3
  <2>4. CASE at(w) # {}
    <3>1. PICK m \in at(w) : \A j \in at(w) : j <= m
      <4> DEFINE P == {n - j : j \in at(w)}
      <4>1. P \subseteq Nat /\ P # {}
        BY <2>1, <2>4
      <4>2. PICK d \in P : \A i \in P : d <= i
        <5> HIDE DEF P
        <5> QED
          BY <4>1, NatMinimum
      <4>3. PICK m \in at(w) : d = n - m
        BY <4>2
      <4>4. ASSUME NEW j \in at(w) PROVE j <= m
        <5>1. n - m <= n - j
          BY <4>2, <4>3
        <5> QED
          BY <2>1, <5>1
      <4> QED
        BY <4>4
    <3>2. last(w) \in at(w)
      BY <3>1
    <3> HIDE DEF last
    <3>3. w2[last(w)] = w[last(w)]
      BY <1>2, <2>1, <3>2
    <3> QED
      BY <1>1, <1>4, <2>1, <2>2, <2>4, <3>3
  <2> QED
    BY <2>3, <2>4
<1> QED
  BY <1>3, <1>4

\* A configuration in which one parameter gets the value of a text agrees when the text is written.
LEMMA WriteAgrees ==
    ASSUME NEW n \in Nat, NEW w, NEW w2, Extends(w2, w, n), NEW conf, NEW conf2, Agrees(conf, w),
           \A q \in Parameters : q # Field(w2[n + 1].ident) => conf2[q] = conf[q],
           Field(w2[n + 1].ident) \in Parameters \ FileOnly =>
               Fits(Field(w2[n + 1].ident), w2[n + 1].text, conf2[Field(w2[n + 1].ident)])
    PROVE  Agrees(conf2, w2)
<1> SUFFICES ASSUME NEW q \in Parameters \ FileOnly, NEW v \in Expected(w2, q) PROVE Matches(q, conf2[q], v)
  BY DEF Agrees
<1> DEFINE p == Field(w2[n + 1].ident)
<1>1. CASE q = p
  <2>1. LastWrite(w2, q) = {w2[n + 1]}
    BY <1>1, LastWritten
  <2>2. The({w2[n + 1]}) = w2[n + 1]
    BY DEF The
  <2>3. v \in FileValues(TypeTable[q], w2[n + 1].text)
    BY <2>1, <2>2 DEF Expected
  <2>4. Fits(q, w2[n + 1].text, conf2[q])
    BY <1>1
  <2> QED
    BY <2>3, <2>4 DEF Fits
<1>2. CASE q # p
  <2>1. LastWrite(w2, q) = LastWrite(w, q)
    BY <1>2, LastWritten
  <2>2. Expected(w2, q) = Expected(w, q)
    BY <2>1 DEF Expected
  <2>3. conf2[q] = conf[q]
    BY <1>2
  <2> QED
    BY <2>2, <2>3 DEF Agrees
<1> QED
  BY <1>1, <1>2

\* The same for an override, of a known parameter that is no address.
LEMMA OverrideAgrees ==
    ASSUME NEW n \in Nat, NEW w, NEW w2, Extends(w2, w, n), NEW conf, IsConf(conf), Agrees(conf, w),
           NEW ident \in Idents, ident # "system-report.output-channel", NEW text,
           w2[n + 1].ident = ident, w2[n + 1].text = text
    PROVE  Agrees(OverrideByIdent(conf, ident, text), w2) /\ IsConf(OverrideByIdent(conf, ident, text))
<1> DEFINE p == Field(ident)
           new == Overriding(ident, text)
           conf2 == OverrideByIdent(conf, ident, text)
<1>1. conf2 = IF new = {} THEN conf ELSE [conf EXCEPT ![p] = The(new)]
  BY DEF OverrideByIdent
<1>2. IsConf(conf2)
  <2> HIDE DEF p, new, conf2
  <2> QED
    BY <1>1 DEF IsConf
<1>3. \A q \in Parameters : q # p => conf2[q] = conf[q]
  <2> HIDE DEF p, new, conf2
  <2> QED
    BY <1>1 DEF IsConf
<1>4. ASSUME p \in Parameters \ FileOnly PROVE Fits(p, text, conf2[p])
  <2>1. CASE FileValues(TypeTable[p], text) = {}
    BY <2>1 DEF Fits
  <2>2. CASE FileValues(TypeTable[p], text) # {}
    <3>1. new # {} /\ Fits(p, text, The(new))
      BY <1>4, <2>2, OverridingFits
    <3> HIDE DEF p, new, conf2
    <3>2. conf2[p] = The(new)
      BY <1>1, <1>4, <3>1 DEF IsConf
    <3> QED
      BY <3>1, <3>2
  <2> QED
    BY <2>1, <2>2
<1> HIDE DEF conf2
<1>5. Agrees(conf2, w2)
  BY <1>3, <1>4, WriteAgrees
<1> QED
  BY <1>2, <1>5 DEF conf2

\* The two periods are numbers.
Period == {"stats-period", "output.cache-period"}
PeriodsNat(conf) == \A p \in Period : conf[p] \in Nat

\* A number stored in 16 bits is one of them.
LEMMA NarrowedNat == ASSUME NEW p \in Period, NEW n \in Int PROVE Narrowed(p, n) \in Nat
<1>1. p \in Narrow
  BY DEF Period, Narrow
<1>2. Narrowed(p, n) = n % 65536
  BY <1>1 DEF Narrowed, U16
<1> QED
  BY <1>2

\* An override of a period stores a number.
LEMMA OverridePeriods ==
    ASSUME NEW conf, IsConf(conf), PeriodsNat(conf), NEW ident \in Idents, ident # "system-report.output-channel", NEW text
    PROVE  PeriodsNat(OverrideByIdent(conf, ident, text))
<1> SUFFICES ASSUME NEW p \in Period PROVE OverrideByIdent(conf, ident, text)[p] \in Nat
  BY DEF PeriodsNat
<1> DEFINE new == Overriding(ident, text)
<1>1. p \in Parameters /\ TypeTable[p] = "int"
  BY TablesAgree DEF Period
<1>2. p \notin FileOnly
  BY <1>1 DEF FileOnly
<1>3. conf[p] \in Nat
  BY DEF PeriodsNat
<1>4. CASE new = {} \/ Field(ident) # p
  <2>1. OverrideByIdent(conf, ident, text) = IF new = {} THEN conf ELSE [conf EXCEPT ![Field(ident)] = The(new)]
    BY DEF OverrideByIdent
  <2> HIDE DEF new
  <2> QED
    BY <1>1, <1>3, <1>4, <2>1 DEF IsConf
<1>5. CASE new # {} /\ Field(ident) = p
  <2>1. DataTypes[ident] \in {"UINT16_T", "UINT32_T"} /\ ident # "input.mode" /\ ident # "session-report.rtt-base"
    <3>1. Field(ident) \in Parameters \ FileOnly /\ TypeTable[Field(ident)] = "int"
      BY <1>1, <1>2, <1>5
    <3> QED
      BY <3>1, TablesAgree
  <2>2. new = {EnumOf(p, Narrowed(p, Atoi(text)))}
    BY <1>5, <2>1 DEF Overriding
  <2>3. p \notin {"output.format", "socket-output.type"}
    BY DEF Period
  <2>4. EnumOf(p, Narrowed(p, Atoi(text))) = Narrowed(p, Atoi(text))
    BY <2>3 DEF EnumOf
  <2>5. Atoi(text) \in Int
    BY ConfigurationAssumption DEF Atoi
  <2>6. Narrowed(p, Atoi(text)) \in Nat
    BY <2>5, NarrowedNat
  <2>7. The(new) \in Nat
    BY <1>5, <2>2, <2>4, <2>6, TheIsOne
  <2>8. OverrideByIdent(conf, ident, text) = [conf EXCEPT ![p] = The(new)]
    BY <1>5 DEF OverrideByIdent
  <2> HIDE DEF new
  <2> QED
    BY <1>1, <2>7, <2>8 DEF IsConf
<1> QED
  BY <1>4, <1>5

\* What holds of the configuration in memory, with the texts w that were written.
Sound(conf, w) == IsConf(conf) /\ PeriodsNat(conf) /\ Agrees(conf, w)

\* An update leaves a sound configuration.
LEMMA UpdateSound ==
    ASSUME NEW message \in Messages, ParseUpdate(message) # <<>>, NEW conf, NEW w, Sound(conf, w),
           w \in Seq({w[i] : i \in DOMAIN w}),
           \A i \in DOMAIN Sent(message) : Sent(message)[i].id # "system-report.output-channel"
    PROVE  /\ Sound(ApplyUpdate(conf, Sent(message)), w \o Considered(message))
           /\ w \o Considered(message) \in Seq({(w \o Considered(message))[i] : i \in DOMAIN (w \o Considered(message))})
           /\ \E i \in DOMAIN (w \o Considered(message)) : (w \o Considered(message))[i].update
<1> DEFINE s == Sent(message)
           t == Considered(message)
           h == Applied(conf, s)
           n == Len(w)
           part(j) == [i \in 1 .. n + j |-> IF i <= n THEN w[i] ELSE t[i - n]]
<1>1. PICK k \in Nat \ {0} :
         /\ DOMAIN s = 1 .. k /\ Len(s) = k /\ DOMAIN t = 1 .. k
         /\ \A i \in 1 .. k : s[i].id = t[i].ident /\ s[i].text = t[i].text /\ s[i].id \in Idents /\ t[i].update
  BY SentAre
<1>2. n \in Nat /\ w \in [1 .. n -> {w[i] : i \in DOMAIN w}] /\ DOMAIN w = 1 .. n
  BY LenProperties
<1>3. ApplyUpdate(conf, s) = h[k] /\ h[0] = conf /\ \A j \in Nat \ {0} : h[j] = OverrideById(h[j - 1], s[j].id, s[j].text)
  <2>1. IsConf(conf)
    BY DEF Sound
  <2> HIDE DEF s
  <2>2. ApplyUpdate(conf, s) = Applied(conf, s)[Len(s)] /\ Applied(conf, s)[0] = conf
    BY <2>1, AppliedDefined
  <2>3. InOrder(Applied(conf, s), s)
    BY <2>1, AppliedDefined
  <2> QED
    BY <1>1, <2>2, <2>3 DEF InOrder
<1>4. \A i \in 1 .. k : s[i].id # "system-report.output-channel"
  BY <1>1
<1>5. t \in [1 .. k -> {t[i] : i \in 1 .. k}]
  BY <1>1 DEF Considered
<1> HIDE DEF s, t, h, n
<1>6. part(0) = w
  BY <1>2
<1>7. ASSUME NEW j \in 1 .. k, Sound(h[j - 1], part(j - 1)) PROVE Sound(h[j], part(j))
  <2>1. n + (j - 1) \in Nat /\ (n + (j - 1)) + 1 = n + j
    BY <1>1, <1>2
  <2>2. Extends(part(j), part(j - 1), n + (j - 1))
    BY <1>2, <2>1 DEF Extends
  <2>3. part(j)[n + j] = t[j]
    BY <1>2
  <2>4. j \in Nat \ {0} /\ s[j].id \in Idents /\ s[j].id # "system-report.output-channel"
        /\ s[j].id = t[j].ident /\ s[j].text = t[j].text
    BY <1>1, <1>4
  <2>5. h[j] = OverrideByIdent(h[j - 1], s[j].id, s[j].text)
    BY <1>3, <2>4 DEF OverrideById
  <2>6. IsConf(h[j - 1]) /\ PeriodsNat(h[j - 1]) /\ Agrees(h[j - 1], part(j - 1))
    BY <1>7 DEF Sound
  <2> HIDE DEF part
  <2>7. Agrees(h[j], part(j)) /\ IsConf(h[j])
    <3>1. PICK a \in Nat : a = n + (j - 1)
      BY <2>1
    <3>2. part(j)[a + 1].ident = s[j].id /\ part(j)[a + 1].text = s[j].text
      BY <2>1, <2>3, <2>4, <3>1
    <3>3. Extends(part(j), part(j - 1), a)
      BY <2>2, <3>1
    <3> QED
      BY <2>4, <2>5, <2>6, <3>2, <3>3, OverrideAgrees
  <2>8. PeriodsNat(h[j])
    BY <2>4, <2>5, <2>6, OverridePeriods
  <2> QED
    BY <2>7, <2>8 DEF Sound
<1>8. Sound(h[k], part(k))
  <2> DEFINE P == {j \in Nat : j <= k /\ ~Sound(h[j], part(j))}
  <2>1. ASSUME P # {} PROVE FALSE
    <3>1. PICK j \in P : \A i \in P : j <= i
      <4>1. P \subseteq Nat
        OBVIOUS
      <4> HIDE DEF P
      <4> QED
        BY <2>1, <4>1, NatMinimum
    <3>2. j \in Nat /\ j <= k /\ ~Sound(h[j], part(j))
      OBVIOUS
    <3>3. Sound(h[0], part(0))
      BY <1>3, <1>6
    <3> HIDE DEF part
    <3>4. j # 0
      BY <3>2, <3>3
    <3>5. j - 1 \in Nat /\ j - 1 <= k /\ j \in 1 .. k /\ ~(j <= j - 1)
      BY <1>1, <3>2, <3>4
    <3>6. j - 1 \notin P
      <4> HIDE DEF P
      <4> QED
        BY <3>1, <3>5
    <3>7. Sound(h[j - 1], part(j - 1))
      BY <3>5, <3>6
    <3> QED
      BY <1>7, <3>2, <3>5, <3>7
  <2>2. k \notin P /\ k \in Nat
    BY <1>1, <2>1
  <2> HIDE DEF part
  <2> QED
    BY <2>2
<1>9. w \o t = part(k) /\ DOMAIN part(k) = 1 .. n + k /\ part(k) \in Seq({part(k)[i] : i \in DOMAIN part(k)})
  <2> DEFINE S == {w[i] : i \in DOMAIN w} \cup {t[i] : i \in 1 .. k}
  <2>1. w \in Seq(S) /\ Len(w) = n
    <3>1. w \in [1 .. n -> S]
      BY <1>2
    <3> HIDE DEF S
    <3> QED
      BY <1>2, <3>1
  <2>2. t \in Seq(S) /\ Len(t) = k
    <3>1. t \in [1 .. k -> S]
      BY <1>5
    <3> HIDE DEF S
    <3> QED
      BY <1>1, <3>1
  <2> HIDE DEF S
  <2>3. /\ w \o t \in Seq(S) /\ Len(w \o t) = n + k
        /\ \A i \in 1 .. n + k : (w \o t)[i] = IF i <= n THEN w[i] ELSE t[i - n]
    BY <2>1, <2>2, ConcatProperties
  <2>4. w \o t = [i \in 1 .. n + k |-> (w \o t)[i]]
    BY <2>3, LenProperties
  <2>5. w \o t = part(k) /\ DOMAIN part(k) = 1 .. n + k
    BY <2>3, <2>4
  <2> HIDE DEF part
  <2>6. part(k) \in [1 .. n + k -> {part(k)[i] : i \in DOMAIN part(k)}]
    BY <2>3, <2>4, <2>5
  <2>7. n + k \in Nat
    BY <1>1, <1>2
  <2> DEFINE R == {part(k)[i] : i \in DOMAIN part(k)}
  <2> HIDE DEF R
  <2>8. part(k) \in [1 .. n + k -> R]
    BY <2>6 DEF R
  <2>9. part(k) \in Seq(R)
    BY <2>7, <2>8
  <2> QED
    BY <2>5, <2>9 DEF R
<1>10. \E i \in DOMAIN part(k) : part(k)[i].update
  <2>1. n + 1 \in 1 .. n + k /\ ~(n + 1 <= n) /\ (n + 1) - n = 1 /\ 1 \in 1 .. k
    BY <1>1, <1>2
  <2>2. part(k)[n + 1] = t[1]
    BY <2>1
  <2>3. t[1].update
    BY <1>1, <2>1
  <2> HIDE DEF part
  <2> QED
    BY <1>9, <2>1, <2>2, <2>3
<1> HIDE DEF part
<1> QED
  BY <1>3, <1>8, <1>9, <1>10 DEF s, t

\* The memory of a process that has a configuration.
IsMemory(m) == m = [result |-> m.result, conf |-> m.conf, outputs |-> m.outputs, null |-> m.null]

\* A number read from a file fits its field.
LEMMA LoadedNarrowed ==
    ASSUME NEW file, Parsed(file), NEW p \in Parameters, TypeTable[p] = "int"
    PROVE  /\ Narrowed(p, Loaded(file, p)) = Loaded(file, p)
           /\ p \in Period => Loaded(file, p) \in Nat
<1> DEFINE n == Numbers[Text(file, p)]
<1>1. Text(file, p) \in DOMAIN Numbers
  <2>1. CASE p \in DOMAIN file.given
    <3>1. FileValues(TypeTable[p], file.given[p]) # {}
      BY <2>1 DEF Parsed
    <3>2. FileValues("int", file.given[p]) = {Numbers[x] : x \in {file.given[p]} \cap DOMAIN Numbers}
      BY DEF FileValues
    <3> QED
      BY <2>1, <3>1, <3>2 DEF Text
  <2>2. CASE p \notin DOMAIN file.given
    BY <2>2, ConfigurationAssumption DEF Text
  <2> QED
    BY <2>1, <2>2
<1>2. n \in Int
  BY <1>1, ConfigurationAssumption
<1>3. LoadedInt(file, p) = Narrowed(p, n)
  BY DEF LoadedInt
<1> HIDE DEF n
<1>4. CASE p \notin Narrow
  <2>1. p \notin Period
    BY <1>4 DEF Period, Narrow
  <2> QED
    BY <1>4, <2>1 DEF Narrowed
<1>5. CASE p \in Narrow
  <2>1. p \notin Timeouts
    BY <1>5, TablesAgree
  <2>2. LoadedInt(file, p) = n % 65536
    BY <1>3, <1>5 DEF Narrowed, U16
  <2>3. \/ Loaded(file, p) = LoadedInt(file, p)
        \/ Loaded(file, p) = SnapLen(LoadedInt(file, p)) /\ p = "input.snap-len"
        \/ Loaded(file, p) = SystemPeriod(LoadedInt(file, p)) /\ p = "system-report.period"
    BY <2>1 DEF Loaded
  <2>4. Loaded(file, p) \in Nat /\ Loaded(file, p) < 65536
    <3>1. PICK x \in Nat : x = LoadedInt(file, p) /\ x < 65536
      BY <1>2, <2>2
    <3>2. SnapLen(x) \in Nat /\ SnapLen(x) < 65536 /\ SystemPeriod(x) \in Nat /\ SystemPeriod(x) < 65536
      BY <3>1 DEF SnapLen, SystemPeriod, U16
    <3> QED
      BY <2>3, <3>1, <3>2
  <2>5. Narrowed(p, Loaded(file, p)) = Loaded(file, p) % 65536
    BY <1>5 DEF Narrowed, U16
  <2>6. \A x \in Nat : x < 65536 => x % 65536 = x
    OBVIOUS
  <2> QED
    BY ONLY <2>4, <2>5, <2>6
<1> QED
  BY <1>4, <1>5

\* A file that is loaded gives a sound configuration.
LEMMA LoadedSound ==
    ASSUME ReadFile(launch).result = "ok"
    PROVE  IsMemory(ReadFile(launch)) /\ Sound(ReadFile(launch).conf, <<>>)
<1>1. ASSUME NEW f
      PROVE  /\ LoadFromFile(f).result = "ok" =>
                   /\ Parsed(f) /\ IsMemory(LoadFromFile(f))
                   /\ LoadFromFile(f).conf = [p \in Parameters |-> Loaded(f, p)]
             /\ LoadFromFile(f).result = "null" => ~Parsed(f)
  <2>1. CASE ~Parsed(f)
    BY <2>1 DEF LoadFromFile
  <2>2. CASE Parsed(f) /\ EventRunsAway(f)
    BY <2>2 DEF LoadFromFile
  <2>3. CASE Parsed(f) /\ ~EventRunsAway(f) /\ (TargetsRefused(f.targets) \/ f.reconstruct = {})
    BY <2>3 DEF LoadFromFile
  <2>4. CASE Parsed(f) /\ ~EventRunsAway(f) /\ ~(TargetsRefused(f.targets) \/ f.reconstruct = {})
    <3> DEFINE o == \E x \in {"file", "mongodb", "redis", "kafka", "socket"} : Loaded(f, x \o "-output.enable")
               u == {t \in {"ftp", "http"} : ReconstructMissing(f, t)}
               c == [p \in Parameters |-> Loaded(f, p)]
    <3>1. LoadFromFile(f) = [result |-> "ok", conf |-> c, outputs |-> o, null |-> u]
      BY <2>4 DEF LoadFromFile
    <3> HIDE DEF o, u, c
    <3>2. IsMemory(LoadFromFile(f)) /\ LoadFromFile(f).conf = c /\ LoadFromFile(f).result = "ok"
      BY <3>1 DEF IsMemory
    <3> QED
      BY <2>4, <3>2 DEF c
  <2> QED
    BY <2>1, <2>2, <2>3, <2>4
<1>2. PICK file : Parsed(file) /\ file = FileRead /\ IsMemory(ReadFile(launch)) /\ ReadFile(launch).conf = [p \in Parameters |-> Loaded(file, p)]
  <2>1. CASE LoadFromFile(launch.files[1]).result = "null" /\ ~launch.user
    <3>1. ReadFile(launch) = LoadFromFile(launch.files[2])
      BY <2>1 DEF ReadFile
    <3> QED
      BY <1>1, <2>1, <3>1 DEF FileRead
  <2>2. CASE ~(LoadFromFile(launch.files[1]).result = "null" /\ ~launch.user)
    <3>1. ReadFile(launch) = LoadFromFile(launch.files[1])
      BY <2>2 DEF ReadFile
    <3> QED
      BY <1>1, <3>1 DEF FileRead
  <2> QED
    BY <2>1, <2>2
<1> DEFINE conf == [p \in Parameters |-> Loaded(file, p)]
<1>3. IsConf(conf)
  BY DEF IsConf
<1>4. PeriodsNat(conf)
  <2> SUFFICES ASSUME NEW p \in Period PROVE conf[p] \in Nat
    BY DEF PeriodsNat
  <2>1. p \in Parameters /\ TypeTable[p] = "int"
    BY TablesAgree DEF Period
  <2> QED
    BY <1>2, <2>1, LoadedNarrowed
<1>5. Agrees(conf, <<>>)
  <2> SUFFICES ASSUME NEW p \in Parameters \ FileOnly, NEW v \in Expected(<<>>, p) PROVE Matches(p, conf[p], v)
    BY DEF Agrees
  <2>1. LastWrite(<<>>, p) = {}
    BY DEF LastWrite
  <2>2. v = Loaded(file, p) /\ conf[p] = v
    BY <1>2, <2>1 DEF Expected
  <2>3. TypeTable[p] = "int" => Narrowed(p, v) = v
    BY <1>2, <2>2, LoadedNarrowed
  <2> QED
    BY <2>2, <2>3 DEF Matches
<1> HIDE DEF conf
<1> QED
  BY <1>2, <1>3, <1>4, <1>5 DEF Sound, conf

\* conf_validate replaces zeros by defaults, in numbers only.
LEMMA NormalisedSound ==
    ASSUME NEW conf, NEW w, Sound(conf, w)
    PROVE  /\ Sound(Normalised(conf), w)
           /\ \A p \in {"session-report.enable"} \cup {SessionReport(a) : a \in {"gtp", "http", "ssl", "rtp"}} :
                 Normalised(conf)[p] = conf[p]
<1> DEFINE Zero == {"micro-flows.report-byte-count", "micro-flows.byte-threshold", "dump-pcap.period"}
           c == Normalised(conf)
<1>1. IsConf(conf) /\ PeriodsNat(conf) /\ Agrees(conf, w)
  BY DEF Sound
<1>2. IsConf(c) /\ \A p \in Parameters : (p \notin Zero => c[p] = conf[p]) /\ (c[p] # conf[p] => conf[p] = 0)
  <2> DEFINE a == IF conf["micro-flows.report-byte-count"] = 0 THEN Int32Max ELSE conf["micro-flows.report-byte-count"]
             b == IF conf["micro-flows.byte-threshold"] = 0 THEN Int32Max ELSE conf["micro-flows.byte-threshold"]
             d == IF conf["dump-pcap.period"] = 0 THEN 3600 ELSE conf["dump-pcap.period"]
             Value(p) == CASE p = "micro-flows.report-byte-count" -> a
                           [] p = "micro-flows.byte-threshold" -> b
                           [] p = "dump-pcap.period" -> d
                           [] OTHER -> conf[p]
  <2>1. conf = [p \in Parameters |-> conf[p]]
    BY <1>1 DEF IsConf
  <2>2. c = [p \in Parameters |-> Value(p)]
    BY <2>1 DEF Normalised
  <2>3. \A p \in Parameters : (p \notin Zero => Value(p) = conf[p]) /\ (Value(p) # conf[p] => conf[p] = 0)
    OBVIOUS
  <2> HIDE DEF Value, c
  <2> QED
    BY <2>2, <2>3 DEF IsConf
<1>3. \A p \in Zero : TypeTable[p] = "int" /\ p \in ZeroIsDefault
  BY TablesAgree DEF ZeroIsDefault
<1> HIDE DEF c
<1>4. PeriodsNat(c)
  <2> SUFFICES ASSUME NEW p \in Period PROVE c[p] \in Nat
    BY DEF PeriodsNat
  <2>1. p \in Parameters /\ p \notin Zero /\ conf[p] \in Nat
    BY <1>1, TablesAgree DEF Period, PeriodsNat
  <2> QED
    BY <1>2, <2>1
<1>5. Agrees(c, w)
  <2> SUFFICES ASSUME NEW p \in Parameters \ FileOnly, NEW v \in Expected(w, p) PROVE Matches(p, c[p], v)
    BY DEF Agrees
  <2>1. Matches(p, conf[p], v)
    BY <1>1 DEF Agrees
  <2>2. CASE c[p] = conf[p]
    BY <2>1, <2>2
  <2>3. CASE c[p] # conf[p]
    <3>1. p \in Zero /\ conf[p] = 0
      BY <1>2, <2>3
    <3>2. TypeTable[p] = "int" /\ p \in ZeroIsDefault
      BY <1>3, <3>1
    <3> QED
      BY <2>1, <3>1, <3>2 DEF Matches
  <2> QED
    BY <2>2, <2>3
<1>6. ASSUME NEW p \in {"session-report.enable"} \cup {SessionReport(a) : a \in {"gtp", "http", "ssl", "rtp"}}
      PROVE  c[p] = conf[p]
  <2>1. p \in Parameters /\ TypeTable[p] = "bool"
    BY TablesAgree
  <2>2. p \notin Zero
    BY <1>3, <2>1
  <2> QED
    BY <1>2, <2>1, <2>2
<1> QED
  BY <1>2, <1>4, <1>5, <1>6 DEF Sound, c
-----------------------------------------------------------------------------
(***************************************************************************)
(* The inductive invariant.                                                *)
(***************************************************************************)
Updated == \E i \in DOMAIN written : written[i].update

\* what conf_validate refuses: reports on GTP and on an application above IP
Clash(conf) ==
    /\ conf["session-report.enable"] /\ conf[SessionReport("gtp")]
    /\ \E a \in {"http", "ssl", "rtp"} : conf[SessionReport(a)]

\* A timer: not started, or its milestones are one period behind what it has counted.
TimerOk(t, conf, moment) ==
    /\ t \in [next_stat : Nat, next_output : Nat, first : Nat, stats : Nat, samples : Nat]
    /\ t.next_output = 0 => t.stats = 0 /\ t.samples = 0
    /\ t.next_output # 0 => /\ t.next_stat = t.first + (t.stats + 1) * conf["stats-period"]
                            /\ t.next_output = t.first + (t.samples + 1) * conf["output.cache-period"]
    /\ t.stats > 0 => t.first + t.stats * conf["stats-period"] < moment
    /\ t.samples > 0 => t.first + t.samples * conf["output.cache-period"] < moment

\* The main process: what it has written and what it has in memory.
MainInv ==
    /\ now \in Nat \ {0}
    /\ written \in Seq({written[i] : i \in DOMAIN written})
    /\ pc = "load" => written = <<>>
    /\ pc \in {"load", "options", "start"} => ~restart
    /\ restart \in BOOLEAN
    /\ pc \in {"options", "start", "capture", "monitor"} => IsMemory(memory) /\ Sound(memory.conf, written)
    /\ (pc \in {"start", "capture", "monitor"} /\ ~Updated) => ~Clash(memory.conf)

\* The processing process: a copy of the configuration, old only when a restart is under way.
ProcInv ==
    Running =>
        /\ proc = [state |-> proc.state, conf |-> proc.conf, reader |-> proc.reader, worker |-> proc.worker]
        /\ proc.state \in {"run", "impossible"}
        /\ PeriodsNat(proc.conf)
        /\ restart => Updated
        /\ ~restart => proc.conf = memory.conf
        /\ proc.state = "impossible" => Updated
        /\ TimerOk(proc.reader, proc.conf, now) /\ TimerOk(proc.worker, proc.conf, now)

StartInv == MainInv /\ ProcInv

\* What is expected of a parameter depends on the launch, which never changes.
LEMMA SoundNext ==
    ASSUME launch' = launch, Sound(memory'.conf, written') PROVE Sound(memory.conf, written)'
<1>1. FileRead' = FileRead
  BY DEF FileRead
<1>2. \A p : Expected(written, p)' = Expected(written', p)
  BY <1>1 DEF Expected
<1> QED
  BY <1>2 DEF Sound, Agrees

\* Steps that leave the configuration in memory and the texts alone.
LEMMA MainKept ==
    ASSUME MainInv, launch' = launch, memory' = memory, written' = written,
           restart' \in BOOLEAN, now' \in Nat \ {0},
           pc' = "load" => pc = "load",
           pc' \in {"load", "options", "start"} => ~restart',
           pc' \in {"options", "start", "capture", "monitor"} => pc \in {"options", "start", "capture", "monitor"},
           pc' \in {"start", "capture", "monitor"} => pc \in {"start", "capture", "monitor"}
    PROVE  MainInv'
<1>1. pc' \in {"options", "start", "capture", "monitor"} => IsMemory(memory)' /\ Sound(memory.conf, written)'
  <2> SUFFICES ASSUME pc' \in {"options", "start", "capture", "monitor"}
               PROVE  IsMemory(memory') /\ Sound(memory.conf, written)'
    OBVIOUS
  <2>1. IsMemory(memory) /\ Sound(memory.conf, written)
    BY DEF MainInv
  <2>2. Sound(memory'.conf, written')
    BY <2>1
  <2> QED
    BY <2>1, <2>2, SoundNext
<1>2. Updated' <=> Updated
  BY DEF Updated
<1>3. Clash(memory.conf)' <=> Clash(memory.conf)
  BY DEF Clash
<1>4. written' \in Seq({written'[i] : i \in DOMAIN written'})
  BY DEF MainInv
<1> QED
  BY <1>1, <1>2, <1>3, <1>4 DEF MainInv

\* Steps that leave the processing process alone, or end the probe.
LEMMA ProcKept ==
    ASSUME ProcInv, UNCHANGED <<pc, memory, proc, restart, written, now>>
    PROVE  ProcInv'
  BY DEF ProcInv, Running, TimerOk, Updated, PeriodsNat

\* A probe that has ended, or has not started, has no processing process.
LEMMA NotRunning == ASSUME pc' \notin {"capture", "monitor"} PROVE ProcInv'
  BY DEF ProcInv, Running

\* The configuration is sound at the start: there is none.
LEMMA InitStart == ASSUME Init PROVE StartInv
<1>1. written \in Seq({written[i] : i \in DOMAIN written})
  BY DEF Init
<1>2. pc = "load" /\ written = <<>> /\ restart = FALSE /\ now = 1
  BY DEF Init
<1>3. now \in Nat \ {0} /\ pc \notin {"options", "start", "capture", "monitor"}
  BY <1>2
<1>4. MainInv
  <2>1. restart \in BOOLEAN /\ ~restart
    BY <1>2, Zenon
  <2> QED
    BY <1>1, <1>2, <1>3, <2>1, Zenon DEF MainInv
<1> QED
  BY <1>4 DEF Init, ProcInv, StartInv, Running

\* -v, -h and -x: nothing is started.
LEMMA PrintAndExitStep == ASSUME StartInv, PrintAndExit PROVE StartInv'
<1> USE DEF StartInv, PrintAndExit, Ends
<1>1. MainInv'
  BY MainKept DEF MainInv
<1> QED
  BY <1>1, NotRunning

\* A file is loaded: what the process has in memory is what the file says.
LEMMA LoadConfigurationStep == ASSUME StartInv, LoadConfiguration PROVE StartInv'
<1>1. ProcInv'
  <2>1. pc' \in {"options", "crash", "abort"}
    BY DEF LoadConfiguration
  <2> QED
    BY <2>1, NotRunning
<1>2. written = <<>> /\ written' = written /\ launch' = launch /\ now' = now /\ restart' = restart /\ restart = FALSE /\ now \in Nat \ {0}
  BY DEF LoadConfiguration, StartInv, MainInv
<1>3. pc' \in {"options", "crash", "abort"} /\ memory' = ReadFile(launch) /\ (pc' = "options" => ReadFile(launch).result = "ok")
  BY DEF LoadConfiguration
<1>4. pc' = "options" => IsMemory(memory)' /\ Sound(memory.conf, written)'
  <2> SUFFICES ASSUME pc' = "options" PROVE IsMemory(memory') /\ Sound(memory.conf, written)'
    OBVIOUS
  <2>1. IsMemory(ReadFile(launch)) /\ Sound(ReadFile(launch).conf, <<>>)
    BY <1>3, LoadedSound
  <2>2. Sound(memory'.conf, written')
    BY <1>2, <1>3, <2>1
  <2> QED
    BY <1>2, <1>3, <2>1, <2>2, SoundNext
<1>5. written' \in Seq({written'[i] : i \in DOMAIN written'})
  BY <1>2
<1>6. MainInv'
  BY <1>2, <1>3, <1>4, <1>5 DEF MainInv
<1> QED
  BY <1>1, <1>6 DEF StartInv

\* One more text is written.
LEMMA AppendExtends ==
    ASSUME NEW w, w \in Seq({w[i] : i \in DOMAIN w}), NEW r
    PROVE  /\ Len(w) \in Nat /\ Extends(Append(w, r), w, Len(w)) /\ Append(w, r)[Len(w) + 1] = r
           /\ Append(w, r) \in Seq({Append(w, r)[i] : i \in DOMAIN Append(w, r)})
<1> DEFINE S == {w[i] : i \in DOMAIN w} \cup {r}
<1>1. w \in Seq(S) /\ r \in S
  <2>1. {w[i] : i \in DOMAIN w} \subseteq S
    OBVIOUS
  <2> HIDE DEF S
  <2>2. w \in [1 .. Len(w) -> {w[i] : i \in DOMAIN w}] /\ Len(w) \in Nat
    BY LenProperties
  <2>3. w \in [1 .. Len(w) -> S]
    BY <2>1, <2>2
  <2> QED
    BY <2>2, <2>3 DEF S
<1> HIDE DEF S
<1>2. /\ Len(w) \in Nat /\ DOMAIN w = 1 .. Len(w)
      /\ DOMAIN Append(w, r) = 1 .. Len(w) + 1 /\ Len(Append(w, r)) = Len(w) + 1
      /\ \A i \in 1 .. Len(w) : Append(w, r)[i] = w[i]
      /\ Append(w, r)[Len(w) + 1] = r
  BY <1>1
<1>3. Append(w, r) \in Seq({Append(w, r)[i] : i \in DOMAIN Append(w, r)})
  <2> DEFINE u == Append(w, r)
             T == {u[i] : i \in DOMAIN u}
  <2>1. u \in Seq(S)
    BY <1>1
  <2> HIDE DEF u
  <2>2. Len(u) \in Nat /\ u \in [1 .. Len(u) -> S] /\ DOMAIN u = 1 .. Len(u)
    BY <2>1
  <2>3. u \in [1 .. Len(u) -> T]
    BY <2>2
  <2> HIDE DEF T
  <2>4. u \in Seq(T)
    BY <2>2, <2>3
  <2> QED
    BY <2>4 DEF T, u
<1> QED
  BY <1>2, <1>3 DEF Extends

\* Two texts written at once are one and then the other.
LEMMA AppendTwo ==
    ASSUME NEW w, w \in Seq({w[i] : i \in DOMAIN w}), NEW r, NEW s
    PROVE  w \o <<r, s>> = Append(Append(w, r), s)
<1> DEFINE S == {w[i] : i \in DOMAIN w} \cup {r, s}
<1>1. Len(w) \in Nat /\ w \in [1 .. Len(w) -> {w[i] : i \in DOMAIN w}]
  BY LenProperties
<1>2. w \in [1 .. Len(w) -> S]
  BY <1>1
<1>3. w \in Seq(S) /\ r \in S /\ s \in S
  <2>1. r \in S /\ s \in S
    OBVIOUS
  <2> HIDE DEF S
  <2> QED
    BY <1>1, <1>2, <2>1
<1> HIDE DEF S
<1> QED
  BY <1>3

\* What is not an option of the build is skipped.
LEMMA SkipOptionStep == ASSUME StartInv, SkipOption PROVE StartInv'
<1>1. /\ MainInv /\ pc = "options" /\ pc' = pc /\ launch' = launch /\ memory' = memory /\ written' = written
      /\ restart' = restart /\ now' = now
  BY DEF SkipOption, StartInv
<1>2. MainInv'
  BY <1>1, MainKept DEF MainInv
<1> QED
  BY <1>1, <1>2, NotRunning DEF StartInv

\* -t and -i: the source and the mode that goes with it.
LEMMA OverrideInputStep == ASSUME StartInv, OverrideInput PROVE StartInv'
<1>1. ProcInv'
  <2>1. pc' = "options"
    BY DEF OverrideInput
  <2> QED
    BY <2>1, NotRunning
<1>2. MainInv /\ pc = "options" /\ pc' = pc /\ launch' = launch /\ restart' = restart /\ now' = now
  BY DEF OverrideInput, StartInv
<1>3. PICK text, mode :
         /\ mode \in {"OFFLINE", "ONLINE"}
         /\ memory' = [memory EXCEPT !.conf["input.source"] = text, !.conf["input.mode"] = mode]
         /\ written' = written \o <<[ident |-> "input.source", text |-> text, update |-> FALSE],
                                    [ident |-> "input.mode", text |-> mode, update |-> FALSE]>>
  BY DEF OverrideInput
<1> DEFINE c1 == [memory.conf EXCEPT !["input.source"] = text]
           c2 == [c1 EXCEPT !["input.mode"] = mode]
           r1 == [ident |-> "input.source", text |-> text, update |-> FALSE]
           r2 == [ident |-> "input.mode", text |-> mode, update |-> FALSE]
<1>4. IsMemory(memory) /\ Sound(memory.conf, written) /\ written \in Seq({written[i] : i \in DOMAIN written})
  BY <1>2 DEF MainInv
<1>5. IsMemory(memory') /\ memory'.conf = c2
  <2>1. memory = [result |-> memory.result, conf |-> memory.conf, outputs |-> memory.outputs, null |-> memory.null]
    BY <1>4 DEF IsMemory
  <2>2. memory' = [result |-> memory.result, conf |-> c2, outputs |-> memory.outputs, null |-> memory.null]
    BY <1>3, <2>1
  <2> HIDE DEF c2
  <2> QED
    BY <2>2 DEF IsMemory
<1>6. {"input.source", "input.mode"} \subseteq Parameters /\ TypeTable["input.source"] = "str" /\ TypeTable["input.mode"] = "mode"
  BY TablesAgree
<1>7. /\ IsConf(c1) /\ c1["input.source"] = text /\ \A q \in Parameters : q # "input.source" => c1[q] = memory.conf[q]
      /\ IsConf(c2) /\ c2["input.mode"] = mode /\ \A q \in Parameters : q # "input.mode" => c2[q] = c1[q]
  BY <1>4, <1>6 DEF Sound, IsConf
<1>8. Fits("input.source", text, text) /\ Fits("input.mode", mode, mode)
  BY <1>6 DEF Fits, FileValues, Matches, ParseInputMode
<1>9. PeriodsNat(c2)
  <2> SUFFICES ASSUME NEW p \in Period PROVE c2[p] \in Nat
    BY DEF PeriodsNat
  <2>1. p \in Parameters /\ p # "input.source" /\ p # "input.mode" /\ memory.conf[p] \in Nat
    BY <1>4, TablesAgree DEF Period, Sound, PeriodsNat
  <2> HIDE DEF c1, c2
  <2> QED
    BY <1>7, <2>1
<1> DEFINE w1 == Append(written, r1)
           w2 == Append(w1, r2)
           n == Len(written)
<1>10. written' = w2
  <2> HIDE DEF r1, r2
  <2>1. written' = written \o <<r1, r2>>
    BY <1>3 DEF r1, r2
  <2> QED
    BY <1>4, <2>1, AppendTwo
<1> HIDE DEF c1, c2
<1>11. Field(r1.ident) = "input.source" /\ r1.text = text /\ Field(r2.ident) = "input.mode" /\ r2.text = mode
  BY DEF Field
<1> HIDE DEF r1, r2
<1>12. /\ n \in Nat /\ Extends(w1, written, n) /\ w1[n + 1] = r1 /\ w1 \in Seq({w1[i] : i \in DOMAIN w1})
  BY <1>4, AppendExtends
<1>13. Agrees(c1, w1)
  <2> HIDE DEF w1, n
  <2>1. Agrees(memory.conf, written)
    BY <1>4 DEF Sound
  <2>2. Field(w1[n + 1].ident) = "input.source" /\ w1[n + 1].text = text
    BY <1>11, <1>12
  <2>3. \A q \in Parameters : q # Field(w1[n + 1].ident) => c1[q] = memory.conf[q]
    BY <1>7, <2>2
  <2>4. Fits(Field(w1[n + 1].ident), w1[n + 1].text, c1[Field(w1[n + 1].ident)])
    BY <1>7, <1>8, <2>2
  <2> QED
    BY <1>12, <2>1, <2>3, <2>4, WriteAgrees
<1> DEFINE m == Len(w1)
<1>14. /\ m \in Nat /\ Extends(w2, w1, m) /\ w2[m + 1] = r2 /\ w2 \in Seq({w2[i] : i \in DOMAIN w2})
  <2> HIDE DEF w1
  <2> QED
    BY <1>12, AppendExtends
<1> HIDE DEF w1, w2, n, m
<1>15. Agrees(c2, w2)
  BY <1>7, <1>8, <1>11, <1>13, <1>14, WriteAgrees
<1>16. Sound(memory'.conf, written')
  BY <1>5, <1>7, <1>9, <1>10, <1>15 DEF Sound
<1>17. Sound(memory.conf, written)'
  BY <1>2, <1>16, SoundNext
<1>18. written' \in Seq({written'[i] : i \in DOMAIN written'})
  BY <1>10, <1>14
<1>19. MainInv'
  BY <1>2, <1>5, <1>17, <1>18 DEF MainInv
<1> QED
  BY <1>1, <1>19 DEF StartInv

\* -X: one parameter, unless its name is unknown or its value is an address.
LEMMA OverrideOptionStep == ASSUME StartInv, OverrideOption PROVE StartInv'
<1> DEFINE o == Head(todo)
<1>1. MainInv /\ pc = "options" /\ launch' = launch /\ restart' = restart /\ now' = now
  BY DEF OverrideOption, StartInv
<1> DEFINE known == Known(o.ident, Build)
           bad == BadPointer(memory, o.ident)
           ignored == NotSupported(memory, o.ident)
<1>2. CASE ~known \/ bad
  <2>1. pc' \in {"failure", "crash"} /\ memory' = memory /\ written' = written
    BY <1>2 DEF OverrideOption, Ends
  <2>2. MainInv'
    BY <1>1, <2>1, MainKept DEF MainInv
  <2> QED
    BY <2>1, <2>2, NotRunning DEF StartInv
<1>3. CASE known /\ ~bad /\ ~ignored
  <2>1. PICK ident, text :
           /\ ident \in Idents /\ ident # "system-report.output-channel"
           /\ memory' = [memory EXCEPT !.conf = OverrideByIdent(memory.conf, ident, text)]
           /\ written' = Append(written, [ident |-> ident, text |-> text, update |-> FALSE])
    <3>1. known /\ ~bad /\ ~ignored
      BY <1>3
    <3>2. /\ memory' = [memory EXCEPT !.conf = OverrideByIdent(@, o.ident, o.text)]
          /\ written' = Append(written, [ident |-> o.ident, text |-> o.text, update |-> FALSE])
      BY <3>1 DEF OverrideOption
    <3>3. o.ident \in Idents /\ o.ident # "system-report.output-channel"
      BY <3>1 DEF Known, BadPointer
    <3> QED
      BY <3>2, <3>3
  <2>2. pc' = pc
    <3>1. known /\ ~bad /\ ~ignored
      BY <1>3
    <3> QED
      BY <3>1 DEF OverrideOption
  <2> DEFINE c == OverrideByIdent(memory.conf, ident, text)
             r == [ident |-> ident, text |-> text, update |-> FALSE]
             n == Len(written)
  <2>3. IsMemory(memory) /\ Sound(memory.conf, written) /\ written \in Seq({written[i] : i \in DOMAIN written})
    BY <1>1 DEF MainInv
  <2>4. IsMemory(memory') /\ memory'.conf = c
    <3>1. memory = [result |-> memory.result, conf |-> memory.conf, outputs |-> memory.outputs, null |-> memory.null]
      BY <2>3 DEF IsMemory
    <3> HIDE DEF c
    <3>2. memory' = [result |-> memory.result, conf |-> c, outputs |-> memory.outputs, null |-> memory.null]
      BY <2>1, <3>1 DEF c
    <3> QED
      BY <3>2 DEF IsMemory
  <2>5. r.ident = ident /\ r.text = text
    OBVIOUS
  <2>6. written' = Append(written, r)
    BY <2>1
  <2> HIDE DEF r
  <2>7. /\ n \in Nat /\ Extends(written', written, n) /\ written'[n + 1] = r
        /\ written' \in Seq({written'[i] : i \in DOMAIN written'})
    <3> DEFINE u == Append(written, r)
    <3>1. n \in Nat /\ Extends(u, written, n) /\ u[n + 1] = r /\ u \in Seq({u[i] : i \in DOMAIN u})
      BY <2>3, AppendExtends
    <3> HIDE DEF u, n
    <3>2. written' = u
      BY <2>6 DEF u
    <3> QED
      BY <3>1, <3>2
  <2> HIDE DEF n
  <2>8. written'[n + 1].ident = ident /\ written'[n + 1].text = text
    BY <2>5, <2>7
  <2>9. IsConf(memory.conf) /\ PeriodsNat(memory.conf) /\ Agrees(memory.conf, written)
    BY <2>3 DEF Sound
  <2>10. Agrees(c, written') /\ IsConf(c)
    BY <2>1, <2>7, <2>8, <2>9, OverrideAgrees
  <2>11. PeriodsNat(c)
    BY <2>1, <2>9, OverridePeriods
  <2>12. Sound(memory'.conf, written')
    BY <2>4, <2>10, <2>11 DEF Sound
  <2>13. Sound(memory.conf, written)'
    BY <1>1, <2>12, SoundNext
  <2>14. MainInv'
    BY <1>1, <2>2, <2>4, <2>7, <2>13 DEF MainInv
  <2> QED
    BY <1>1, <2>2, <2>14, NotRunning DEF StartInv
<1>4. CASE known /\ ~bad /\ ignored
  <2>1. pc' = pc /\ memory' = memory /\ written' = written
    BY <1>4 DEF OverrideOption
  <2>2. MainInv'
    BY <1>1, <2>1, MainKept DEF MainInv
  <2> QED
    BY <1>1, <2>1, <2>2, NotRunning DEF StartInv
<1> QED
  BY <1>2, <1>3, <1>4

\* conf_validate: zeros get their defaults, and the handlers of two applications cannot meet.
LEMMA ValidateStep == ASSUME StartInv, Validate PROVE StartInv'
<1>1. MainInv /\ pc = "options" /\ launch' = launch /\ restart' = restart /\ now' = now /\ written' = written
  BY DEF Validate, StartInv
<1>2. pc' \in {"abort", "crash", "start"} /\ (pc' = "start" => Errors(memory.conf, Build) = {})
  BY DEF Validate
<1>3. memory' = IF pc' = "start" THEN [memory EXCEPT !.conf = Normalised(memory.conf)] ELSE memory
  BY DEF Validate
<1>4. CASE pc' # "start"
  <2>1. memory' = memory
    BY <1>3, <1>4
  <2>2. MainInv'
    BY <1>1, <1>2, <1>4, <2>1, MainKept DEF MainInv
  <2> QED
    BY <1>2, <1>4, <2>2, NotRunning DEF StartInv
<1>5. CASE pc' = "start"
  <2> DEFINE c == Normalised(memory.conf)
  <2>1. IsMemory(memory) /\ Sound(memory.conf, written)
    BY <1>1 DEF MainInv
  <2>2. Sound(c, written) /\ \A p \in {"session-report.enable"} \cup {SessionReport(a) : a \in {"gtp", "http", "ssl", "rtp"}} :
                                 c[p] = memory.conf[p]
    BY <2>1, NormalisedSound
  <2>3. ~Clash(memory.conf)
    BY <1>2, <1>5 DEF Clash, Errors
  <2>4. ~Clash(c)
    <3> HIDE DEF c
    <3> QED
      BY <2>2, <2>3 DEF Clash
  <2> HIDE DEF c
  <2>5. IsMemory(memory') /\ memory'.conf = c
    <3>1. memory = [result |-> memory.result, conf |-> memory.conf, outputs |-> memory.outputs, null |-> memory.null]
      BY <2>1 DEF IsMemory
    <3>2. memory' = [result |-> memory.result, conf |-> c, outputs |-> memory.outputs, null |-> memory.null]
      BY <1>3, <1>5, <3>1 DEF c
    <3> QED
      BY <3>2 DEF IsMemory
  <2>6. Sound(memory.conf, written)'
    BY <1>1, <2>2, <2>5, SoundNext
  <2>7. ~Clash(memory.conf)'
    BY <2>4, <2>5 DEF Clash
  <2>8. written' \in Seq({written'[i] : i \in DOMAIN written'})
    BY <1>1 DEF MainInv
  <2>9. MainInv'
    BY <1>1, <1>5, <2>5, <2>6, <2>7, <2>8 DEF MainInv
  <2> QED
    BY <1>5, <2>9, NotRunning DEF StartInv
<1> QED
  BY <1>4, <1>5

\* A timer that was not started counts nothing.
LEMMA FreshTimer == ASSUME NEW conf, NEW moment PROVE TimerOk(Timers, conf, moment)
  BY DEF TimerOk, Timers

\* A process that is started has the configuration in memory and timers that have not started.
LEMMA ProcessStarts ==
    ASSUME NEW conf, NEW build, NEW license, NEW initialised, NEW opened,
           MainProcessing(conf, build, license, initialised, opened) # NoProcess
    PROVE  MainProcessing(conf, build, license, initialised, opened)
              = [state |-> "run", conf |-> conf, reader |-> Timers, worker |-> Timers]
  BY DEF MainProcessing

\* The start, and the start of a process that replaces one.
LEMMA ForkedProc ==
    ASSUME MainInv, pc \in {"start", "monitor"}, memory' = memory, restart' = FALSE,
           proc' = [state |-> "run", conf |-> memory.conf, reader |-> Timers, worker |-> Timers]
    PROVE  ProcInv'
<1>1. PeriodsNat(memory.conf)
  BY DEF MainInv, Sound
<1>2. /\ proc'.state = "run" /\ proc'.conf = memory.conf /\ proc'.reader = Timers /\ proc'.worker = Timers
      /\ proc' = [state |-> proc'.state, conf |-> proc'.conf, reader |-> proc'.reader, worker |-> proc'.worker]
  OBVIOUS
<1>3. TimerOk(proc'.reader, proc'.conf, now') /\ TimerOk(proc'.worker, proc'.conf, now')
  BY <1>2, FreshTimer
<1>4. PeriodsNat(proc'.conf)
  BY <1>1, <1>2
<1> QED
  BY <1>2, <1>3, <1>4 DEF ProcInv

\* The probe starts to process, or ends.
LEMMA StartStep == ASSUME StartInv, Start PROVE StartInv'
<1>1. MainInv /\ pc = "start" /\ launch' = launch /\ restart' = restart /\ now' = now /\ written' = written /\ memory' = memory
  BY DEF Start, StartInv
<1>2. PICK initialised \in BOOLEAN, opened \in BOOLEAN :
         LET p == MainProcessing(memory.conf, Build, launch.license, initialised, opened)
         IN  \/ proc' = NoProcess /\ pc' \in {"success", "respawning"}
             \/ proc' = p /\ p # NoProcess /\ pc' \in {"capture", "monitor"}
  BY DEF Start
<1>3. restart' = FALSE
  BY <1>1, Zenon DEF MainInv
<1>4. MainInv'
  BY <1>1, <1>2, MainKept DEF MainInv
<1>5. ProcInv'
  <2>1. CASE proc' = NoProcess
    BY <1>2, <2>1, NotRunning
  <2>2. CASE proc' # NoProcess
    <3>1. proc' = [state |-> "run", conf |-> memory.conf, reader |-> Timers, worker |-> Timers]
      BY <1>2, <2>2, ProcessStarts
    <3> QED
      BY <1>1, <1>3, <3>1, ForkedProc
  <2> QED
    BY <2>1, <2>2
<1> QED
  BY <1>4, <1>5 DEF StartInv

\* The monitor forks a process from its own memory.
LEMMA RestartStep == ASSUME StartInv, Restart PROVE StartInv'
<1>1. MainInv /\ pc = "monitor" /\ launch' = launch /\ restart' = FALSE /\ now' = now /\ written' = written /\ memory' = memory
  BY DEF Restart, StartInv
<1>2. PICK opened \in BOOLEAN :
         LET p == MainProcessing(memory.conf, Build, launch.license, TRUE, opened)
         IN  /\ proc' = p
             /\ pc' = IF p = NoProcess THEN "success" ELSE pc
  BY DEF Restart
<1>3. restart' \in BOOLEAN /\ ~restart'
  BY <1>1, Zenon
<1>4. MainInv'
  BY <1>1, <1>2, <1>3, MainKept DEF MainInv
<1>5. ProcInv'
  <2>1. CASE proc' = NoProcess
    BY <1>2, <2>1, NotRunning
  <2>2. CASE proc' # NoProcess
    <3>1. proc' = [state |-> "run", conf |-> memory.conf, reader |-> Timers, worker |-> Timers]
      BY <1>2, <2>2, ProcessStarts
    <3> QED
      BY <1>1, <3>1, ForkedProc
  <2> QED
    BY <2>1, <2>2
<1> QED
  BY <1>4, <1>5 DEF StartInv

\* An update without parameters changes nothing.
LEMMA NothingApplied == ASSUME NEW conf, IsConf(conf) PROVE ApplyUpdate(conf, <<>>) = conf /\ ~NeedRestart(<<>>)
<1>1. Len(<<>>) = 0 /\ DOMAIN <<>> = {}
  BY EmptySeq
<1>2. ApplyUpdate(conf, <<>>) = Applied(conf, <<>>)[Len(<<>>)] /\ Applied(conf, <<>>)[0] = conf
  BY AppliedDefined
<1> QED
  BY <1>1, <1>2 DEF NeedRestart

\* An update is refused, ends the probe, or changes the configuration and asks for a restart.
LEMMA UpdateStep == ASSUME StartInv, NEW message \in Messages, Update(message) PROVE StartInv'
<1> DEFINE params == ParseParameters(ParseUpdate(message))
           bad == \E i \in DOMAIN params : BadPointer(memory, params[i].id)
<1>1. /\ MainInv /\ ProcInv /\ pc = "monitor" /\ launch' = launch /\ now' = now /\ proc' = proc
      /\ IsMemory(memory) /\ Sound(memory.conf, written) /\ IsConf(memory.conf)
      /\ written \in Seq({written[i] : i \in DOMAIN written})
  BY DEF Update, StartInv, MainInv, Sound
<1>2. /\ bad => pc' = "crash" /\ memory' = memory /\ written' = written /\ restart' = restart
      /\ ~bad => /\ memory' = [memory EXCEPT !.conf = ApplyUpdate(memory.conf, params)]
                 /\ restart' = (restart \/ NeedRestart(params))
                 /\ written' = IF params = <<>> THEN written ELSE written \o Considered(message)
                 /\ pc' = pc
  BY DEF Update, Ends
<1>3. memory = [result |-> memory.result, conf |-> memory.conf, outputs |-> memory.outputs, null |-> memory.null]
  BY <1>1 DEF IsMemory
<1>4. CASE bad
  <2> HIDE DEF bad
  <2>1. MainInv'
    BY <1>1, <1>2, <1>4, MainKept DEF MainInv
  <2> QED
    BY <1>2, <1>4, <2>1, NotRunning DEF StartInv
<1>5. CASE ~bad /\ ParseUpdate(message) = <<>>
  <2>1. params = <<>>
    BY <1>5, DecodesAsSent
  <2>2. ApplyUpdate(memory.conf, params) = memory.conf /\ ~NeedRestart(params)
    BY <1>1, <2>1, NothingApplied
  <2> HIDE DEF params, bad
  <2>3. written' = written /\ pc' = pc /\ memory' = memory
    BY <1>2, <1>3, <1>5, <2>1, <2>2
  <2>4. restart' = restart
    <3>1. restart \in BOOLEAN
      BY <1>1 DEF MainInv
    <3> QED
      BY <1>2, <1>5, <2>2, <3>1, Zenon
  <2>5. MainInv'
    BY <1>1, <2>3, <2>4, MainKept DEF MainInv
  <2> QED
    BY <1>1, <2>3, <2>4, <2>5, ProcKept DEF StartInv
<1>6. CASE ~bad /\ ParseUpdate(message) # <<>>
  <2> DEFINE s == Sent(message)
  <2>1. params = s
    BY <1>6, DecodesAsSent
  <2>2. PICK k \in Nat \ {0} : DOMAIN s = 1 .. k /\ s # <<>> /\ \A i \in 1 .. k : s[i].id # "no-support"
    BY <1>6, SentAre
  <2>3. \A i \in DOMAIN s : s[i].id # "system-report.output-channel"
    BY <1>6, <2>1 DEF BadPointer
  <2> DEFINE c == ApplyUpdate(memory.conf, s)
             w == written \o Considered(message)
  <2>4. /\ Sound(c, w) /\ w \in Seq({w[i] : i \in DOMAIN w}) /\ \E i \in DOMAIN w : w[i].update
    BY <1>1, <1>6, <2>3, UpdateSound
  <2>5. NeedRestart(s)
    <3>1. 1 \in DOMAIN s
      BY <2>2
    <3> QED
      BY <2>2, <3>1 DEF NeedRestart
  <2> HIDE DEF params, bad, s
  <2>6. /\ memory' = [memory EXCEPT !.conf = c] /\ restart' = (restart \/ NeedRestart(s)) /\ written' = w /\ pc' = pc
    BY <1>2, <1>6, <2>1, <2>2
  <2>7. restart' \in BOOLEAN /\ restart'
    BY <2>5, <2>6, Zenon
  <2> HIDE DEF c, w
  <2>8. IsMemory(memory') /\ memory'.conf = c
    <3>1. memory' = [result |-> memory.result, conf |-> c, outputs |-> memory.outputs, null |-> memory.null]
      BY <1>3, <2>6
    <3> QED
      BY <3>1 DEF IsMemory
  <2>9. Sound(memory.conf, written)'
    BY <1>1, <2>4, <2>6, <2>8, SoundNext
  <2>10. Updated'
    BY <2>4, <2>6 DEF Updated
  <2>11. written' \in Seq({written'[i] : i \in DOMAIN written'})
    BY <2>4, <2>6
  <2>12. MainInv'
    BY <1>1, <2>6, <2>7, <2>8, <2>9, <2>10, <2>11 DEF MainInv
  <2>13. ProcInv'
    <3>1. /\ proc = [state |-> proc.state, conf |-> proc.conf, reader |-> proc.reader, worker |-> proc.worker]
          /\ proc.state \in {"run", "impossible"} /\ PeriodsNat(proc.conf)
          /\ TimerOk(proc.reader, proc.conf, now) /\ TimerOk(proc.worker, proc.conf, now)
      BY <1>1 DEF ProcInv, Running
    <3> QED
      BY <1>1, <2>7, <2>10, <3>1 DEF ProcInv
  <2> QED
    BY <2>12, <2>13 DEF StartInv
<1> QED
  BY <1>4, <1>5, <1>6
-----------------------------------------------------------------------------
(***************************************************************************)
(* The timers.                                                             *)
(***************************************************************************)
IsTimer(t) == t \in [next_stat : Nat, next_output : Nat, first : Nat, stats : Nat, samples : Nat]

\* The milestones are set once, one period ahead.
LEMMA MilestonesOk ==
    ASSUME NEW t, NEW conf, NEW moment \in Nat, PeriodsNat(conf), TimerOk(t, conf, moment)
    PROVE  TimerOk(Milestones(t, conf, moment), conf, moment) /\ (moment # 0 => Milestones(t, conf, moment).next_output # 0)
<1>1. conf["stats-period"] \in Nat /\ conf["output.cache-period"] \in Nat
  BY DEF PeriodsNat, Period
<1>2. CASE t.next_output # 0 \/ moment = 0
  BY <1>2 DEF Milestones
<1>3. CASE t.next_output = 0 /\ moment # 0
  <2> DEFINE a == conf["stats-period"]
             b == conf["output.cache-period"]
             u == [t EXCEPT !.next_stat = moment + a, !.next_output = moment + b, !.first = moment]
  <2>1. Milestones(t, conf, moment) = u
    BY <1>3 DEF Milestones
  <2>2. IsTimer(t) /\ t.stats = 0 /\ t.samples = 0
    BY <1>3 DEF TimerOk, IsTimer
  <2>3. a \in Nat /\ b \in Nat
    BY <1>1
  <2> HIDE DEF a, b
  <2>4. /\ IsTimer(u) /\ u.stats = 0 /\ u.samples = 0 /\ u.next_stat = moment + a /\ u.next_output = moment + b /\ u.first = moment
    <3>1. moment + a \in Nat /\ moment + b \in Nat
      BY <2>3
    <3>0. IsTimer(t) /\ moment \in Nat
      BY <2>2
    <3>2. PICK x \in Nat, y \in Nat : x = moment + a /\ y = moment + b
      BY <3>1
    <3>3. u = [t EXCEPT !.next_stat = x, !.next_output = y, !.first = moment]
      BY <3>2
    <3> HIDE DEF u
    <3>4. IsTimer(u) /\ u.next_stat = x /\ u.next_output = y /\ u.first = moment /\ u.stats = t.stats /\ u.samples = t.samples
      BY ONLY <3>0, <3>2, <3>3 DEF IsTimer
    <3> QED
      BY <3>2, <2>2, <3>4
  <2> HIDE DEF u
  <2>5. TimerOk(u, conf, moment)
    BY <2>3, <2>4 DEF TimerOk, IsTimer, a, b
  <2> QED
    BY <1>3, <2>1, <2>3, <2>4, <2>5
<1> QED
  BY <1>2, <1>3

\* One period is one period, however many are over.
LEMMA OneMore == ASSUME NEW s \in Nat, NEW p \in Nat PROVE (s + 1) * p + p = (s + 1 + 1) * p /\ (s + 1) * p \in Nat
  OBVIOUS

\* A report on statistics moves its milestone by one period.
LEMMA StatTimerOk ==
    ASSUME NEW t, NEW conf, NEW moment \in Nat, PeriodsNat(conf), TimerOk(t, conf, moment), t.next_output # 0
    PROVE  TimerOk(StatTimer(t, conf, moment), conf, moment) /\ StatTimer(t, conf, moment).next_output # 0
<1> DEFINE a == conf["stats-period"]
           b == conf["output.cache-period"]
           u == [t EXCEPT !.next_stat = t.next_stat + a, !.stats = t.stats + 1]
<1>1. a \in Nat /\ b \in Nat
  BY DEF PeriodsNat, Period
<1>2. /\ IsTimer(t) /\ t.next_stat = t.first + (t.stats + 1) * a /\ t.next_output = t.first + (t.samples + 1) * b
      /\ t.samples > 0 => t.first + t.samples * b < moment
  BY DEF TimerOk, IsTimer
<1>3. CASE ~(moment > t.next_stat)
  BY <1>3 DEF StatTimer
<1>4. CASE moment > t.next_stat
  <2>1. StatTimer(t, conf, moment) = u
    BY <1>4 DEF StatTimer
  <2> HIDE DEF a, b
  <2> HIDE DEF u
  <2>4. /\ t.next_stat \in Nat /\ t.next_output \in Nat /\ t.first \in Nat /\ t.stats \in Nat /\ t.samples \in Nat
    BY <1>2 DEF IsTimer
  <2>5. t.next_stat + a \in Nat /\ t.stats + 1 \in Nat
    BY <1>1, <2>4
  <2>6. /\ IsTimer(u) /\ u.stats = t.stats + 1 /\ u.samples = t.samples /\ u.first = t.first /\ u.next_output = t.next_output
        /\ u.next_stat = t.next_stat + a
    <3>1. PICK x \in Nat, y \in Nat : x = t.next_stat + a /\ y = t.stats + 1
      BY <2>5
    <3>2. u = [t EXCEPT !.next_stat = x, !.stats = y]
      BY <3>1 DEF u
    <3>3. IsTimer(t)
      BY <1>2
    <3>4. IsTimer(u) /\ u.next_stat = x /\ u.stats = y /\ u.next_output = t.next_output /\ u.first = t.first /\ u.samples = t.samples
      BY ONLY <3>1, <3>2, <3>3 DEF IsTimer
    <3> QED
      BY <3>1, <1>2, <3>4
  <2>7. (t.stats + 1) * a + a = (t.stats + 1 + 1) * a /\ (t.stats + 1) * a \in Nat
    BY <1>1, <2>4, OneMore
  <2>8. u.next_stat = u.first + (u.stats + 1) * a
    BY <1>1, <1>2, <2>4, <2>6, <2>7
  <2>9. u.first + u.stats * a < moment
    BY <1>2, <1>4, <2>4, <2>6
  <2>10. TimerOk(u, conf, moment)
    BY <1>2, <2>6, <2>8, <2>9 DEF TimerOk, IsTimer, a, b
  <2> QED
    BY <2>1, <2>6, <2>10
<1> QED
  BY <1>3, <1>4

\* The same for the sampling of files.
LEMMA SampleTimerOk ==
    ASSUME NEW t, NEW conf, NEW moment \in Nat, PeriodsNat(conf), TimerOk(t, conf, moment), t.next_output # 0
    PROVE  TimerOk(SampleTimer(t, conf, moment), conf, moment)
<1> DEFINE a == conf["stats-period"]
           b == conf["output.cache-period"]
           u == [t EXCEPT !.next_output = t.next_output + b, !.samples = t.samples + 1]
<1>1. a \in Nat /\ b \in Nat
  BY DEF PeriodsNat, Period
<1>2. /\ IsTimer(t) /\ t.next_stat = t.first + (t.stats + 1) * a /\ t.next_output = t.first + (t.samples + 1) * b
      /\ t.stats > 0 => t.first + t.stats * a < moment
  BY DEF TimerOk, IsTimer
<1>3. CASE ~(conf["file-output.sample-file"] /\ moment > t.next_output)
  BY <1>3 DEF SampleTimer
<1>4. CASE conf["file-output.sample-file"] /\ moment > t.next_output
  <2>1. SampleTimer(t, conf, moment) = u
    BY <1>4 DEF SampleTimer
  <2> HIDE DEF a, b
  <2> HIDE DEF u
  <2>4. /\ t.next_stat \in Nat /\ t.next_output \in Nat /\ t.first \in Nat /\ t.stats \in Nat /\ t.samples \in Nat
    BY <1>2 DEF IsTimer
  <2>5. t.next_output + b \in Nat /\ t.samples + 1 \in Nat /\ t.next_output + b # 0
    BY <1>1, <2>4
  <2>6. /\ IsTimer(u) /\ u.stats = t.stats /\ u.samples = t.samples + 1 /\ u.first = t.first /\ u.next_output = t.next_output + b
        /\ u.next_stat = t.next_stat
    <3>1. PICK x \in Nat, y \in Nat : x = t.next_output + b /\ y = t.samples + 1
      BY <2>5
    <3>2. u = [t EXCEPT !.next_output = x, !.samples = y]
      BY <3>1 DEF u
    <3>3. IsTimer(t)
      BY <1>2
    <3>4. IsTimer(u) /\ u.next_output = x /\ u.samples = y /\ u.next_stat = t.next_stat /\ u.first = t.first /\ u.stats = t.stats
      BY ONLY <3>1, <3>2, <3>3 DEF IsTimer
    <3> QED
      BY <3>1, <1>2, <3>4
  <2>7. (t.samples + 1) * b + b = (t.samples + 1 + 1) * b /\ (t.samples + 1) * b \in Nat
    BY <1>1, <2>4, OneMore
  <2>8. u.next_output = u.first + (u.samples + 1) * b
    BY <1>1, <1>2, <2>4, <2>6, <2>7
  <2>9. u.first + u.samples * b < moment
    BY <1>2, <1>4, <2>4, <2>6
  <2>10. TimerOk(u, conf, moment)
    BY <1>2, <2>5, <2>6, <2>8, <2>9 DEF TimerOk, IsTimer, a, b
  <2> QED
    BY <2>1, <2>10
<1> QED
  BY <1>3, <1>4

\* Both threads.
LEMMA TimersOk ==
    ASSUME NEW t, NEW conf, NEW moment \in Nat \ {0}, PeriodsNat(conf), TimerOk(t, conf, moment)
    PROVE  TimerOk(ReaderTimers(t, conf, moment), conf, moment) /\ TimerOk(WorkerTimers(t, conf, moment), conf, moment)
<1>1. TimerOk(ReaderTimers(t, conf, moment), conf, moment)
  <2> DEFINE m == Milestones(t, conf, moment)
             s == StatTimer(m, conf, moment)
  <2>1. TimerOk(m, conf, moment) /\ m.next_output # 0
    BY MilestonesOk
  <2> HIDE DEF m
  <2>2. TimerOk(s, conf, moment) /\ s.next_output # 0
    BY <2>1, StatTimerOk
  <2> HIDE DEF s
  <2>3. TimerOk(SampleTimer(s, conf, moment), conf, moment)
    BY <2>2, SampleTimerOk
  <2>4. ReaderTimers(t, conf, moment) = IF SmpMode(conf) THEN s ELSE SampleTimer(s, conf, moment)
    BY DEF ReaderTimers, s, m
  <2> QED
    BY <2>2, <2>3, <2>4
<1>2. TimerOk(WorkerTimers(t, conf, moment), conf, moment)
  <2>1. CASE t.next_output = 0
    BY <2>1, MilestonesOk DEF WorkerTimers
  <2>2. CASE t.next_output # 0
    <3> DEFINE s == StatTimer(t, conf, moment)
    <3>1. TimerOk(s, conf, moment) /\ s.next_output # 0
      BY <2>2, StatTimerOk
    <3>2. WorkerTimers(t, conf, moment) = SampleTimer(s, conf, moment)
      BY <2>2 DEF WorkerTimers
    <3> HIDE DEF s
    <3> QED
      BY <3>1, <3>2, SampleTimerOk
  <2> QED
    BY <2>1, <2>2
<1> QED
  BY <1>1, <1>2

\* Time goes by.
LEMMA TimerLater ==
    ASSUME NEW t, NEW conf, NEW moment \in Nat, NEW later \in Nat, moment <= later, PeriodsNat(conf), TimerOk(t, conf, moment)
    PROVE  TimerOk(t, conf, later)
<1> DEFINE x == t.first + t.stats * conf["stats-period"]
           y == t.first + t.samples * conf["output.cache-period"]
<1>1. /\ IsTimer(t)
      /\ t.stats > 0 => x < moment
      /\ t.samples > 0 => y < moment
  BY DEF TimerOk, IsTimer
<1>2. x \in Nat /\ y \in Nat
  BY <1>1 DEF IsTimer, PeriodsNat, Period
<1> HIDE DEF x, y
<1>3. (t.stats > 0 => x < later) /\ (t.samples > 0 => y < later)
  BY <1>1, <1>2
<1> QED
  BY <1>3 DEF TimerOk, x, y
-----------------------------------------------------------------------------
(***************************************************************************)
(* A capture at work.                                                      *)
(***************************************************************************)
\* Counting in a report on RTP leaves the type of the session alone.
LEMMA RtpCounts ==
    ASSUME NEW y, NEW st, st = [app_type |-> "RTP", app |-> y], NEW a, NEW b, NEW c, NEW d, NEW e
    PROVE  [st EXCEPT !.app.packets_nb = a, !.app.jitter = b, !.app.lost = c, !.app.order_error = d, !.app.bursts = e].app_type = "RTP"
  OBVIOUS

\* The handlers of two applications meet only when reports on both are enabled.
LEMMA AnalyseClash ==
    ASSUME NEW conf, NEW app, Analyse(conf, app).app_type = "exit" PROVE Clash(conf)
<1> DEFINE st == [app_type |-> "IP", app |-> NoApp]
           g == GtpIpSrc(st, 4, 1)
           v == [jitter |-> 0, loss |-> 0, order |-> 0, burst |-> 0]
<1>1. CASE ~(conf["session-report.enable"] /\ conf[SessionReport("gtp")])
  <2>1. \/ Analyse(conf, app) = st
        \/ Analyse(conf, app) = WebSession(st)
        \/ Analyse(conf, app) = SslServerName(st, TRUE)
        \/ Analyse(conf, app) = RtpPacket(st, v)
    BY <1>1 DEF Analyse
  <2>2. /\ st.app_type # "exit" /\ WebSession(st).app_type # "exit"
    BY DEF WebSession
  <2>3. SslServerName(st, TRUE).app_type # "exit"
    BY DEF SslServerName
  <2>4. RtpPacket(st, v).app_type # "exit"
    <3>1. RtpSession(st).app_type # "exit"
      BY DEF RtpSession
    <3>2. RtpSession(st) = [app_type |-> "RTP", app |-> RtpReset]
      BY DEF RtpSession
    <3> QED
      BY <3>1, <3>2, RtpCounts DEF RtpPacket
  <2> QED
    BY <2>1, <2>2, <2>3, <2>4
<1>2. CASE conf["session-report.enable"] /\ conf[SessionReport("gtp")]
  <2>1. CASE \E a \in {"http", "ssl", "rtp"} : conf[SessionReport(a)]
    BY <1>2, <2>1 DEF Clash
  <2>2. CASE ~\E a \in {"http", "ssl", "rtp"} : conf[SessionReport(a)]
    <3>1. Analyse(conf, app) = g
      BY <1>2, <2>2 DEF Analyse
    <3>2. g.app_type = "GTP"
      BY DEF GtpIpSrc, GtpSession
    <3> QED
      BY <3>1, <3>2
  <2> QED
    BY <2>1, <2>2
<1> QED
  BY <1>1, <1>2

\* A process record, and what a step of a thread makes of it.
Process(state, conf, reader, worker) == [state |-> state, conf |-> conf, reader |-> reader, worker |-> worker]

\* One turn of a thread: new timers, and the end only when two handlers met.
LEMMA ThreadStep ==
    ASSUME StartInv, UNCHANGED <<launch, pc, memory, restart, written, now>>, Running,
           NEW r, NEW k, NEW st \in {"run", "impossible"}, TimerOk(r, proc.conf, now), TimerOk(k, proc.conf, now),
           st = "impossible" => Clash(proc.conf), proc' = Process(st, proc.conf, r, k)
    PROVE  StartInv'
<1>1. MainInv /\ ProcInv
  BY DEF StartInv
<1>2. MainInv'
  BY <1>1, MainKept DEF MainInv
<1>3. /\ PeriodsNat(proc.conf) /\ (restart => Updated) /\ (~restart => proc.conf = memory.conf)
  BY <1>1 DEF ProcInv
<1>4. Clash(proc.conf) => Updated
  <2>1. CASE restart
    BY <1>3, <2>1
  <2>2. CASE ~restart
    BY <1>1, <1>3, <2>2 DEF MainInv, Running
  <2> QED
    BY <2>1, <2>2
<1>5. Updated' <=> Updated
  BY DEF Updated
<1>6. proc'.state = st /\ proc'.conf = proc.conf /\ proc'.reader = r /\ proc'.worker = k
      /\ proc' = Process(proc'.state, proc'.conf, proc'.reader, proc'.worker)
  BY DEF Process
<1>7. TimerOk(proc'.reader, proc'.conf, now') /\ TimerOk(proc'.worker, proc'.conf, now') /\ PeriodsNat(proc'.conf)
  BY <1>3, <1>6
<1>8. ProcInv'
  BY <1>3, <1>4, <1>5, <1>6, <1>7 DEF ProcInv, Process
<1> QED
  BY <1>2, <1>8 DEF StartInv

\* A process whose handlers have run.
LEMMA RanProcess ==
    ASSUME NEW conf, NEW r, NEW k, NEW app
    PROVE  \E st \in {"run", "impossible"} :
               Ran(Process("run", conf, r, k), app) = Process(st, conf, r, k) /\ (st = "impossible" => Clash(conf))
<1>1. CASE Analyse(conf, app).app_type = "exit"
  <2>1. Ran(Process("run", conf, r, k), app) = Process("impossible", conf, r, k)
    BY <1>1 DEF Ran, Process
  <2> QED
    BY <1>1, <2>1, AnalyseClash
<1>2. CASE Analyse(conf, app).app_type # "exit"
  BY <1>2 DEF Ran, Process
<1> QED
  BY <1>1, <1>2

\* The process at work, with the timers of one thread advanced.
LEMMA ProcessAtWork ==
    ASSUME StartInv, Capturing
    PROVE  /\ Running /\ now \in Nat \ {0}
           /\ \A r : [proc EXCEPT !.reader = r] = Process("run", proc.conf, r, proc.worker)
           /\ \A k : [proc EXCEPT !.worker = k] = Process("run", proc.conf, proc.reader, k)
           /\ TimerOk(proc.reader, proc.conf, now) /\ TimerOk(proc.worker, proc.conf, now)
           /\ TimerOk(ReaderTimers(proc.reader, proc.conf, now), proc.conf, now)
           /\ TimerOk(WorkerTimers(proc.worker, proc.conf, now), proc.conf, now)
<1>1. Running /\ proc.state = "run"
  BY DEF Capturing
<1>2. /\ proc = [state |-> proc.state, conf |-> proc.conf, reader |-> proc.reader, worker |-> proc.worker]
      /\ PeriodsNat(proc.conf) /\ TimerOk(proc.reader, proc.conf, now) /\ TimerOk(proc.worker, proc.conf, now)
  BY <1>1 DEF StartInv, ProcInv
<1>3. now \in Nat \ {0}
  BY DEF StartInv, MainInv
<1>4. PICK c, r0, k0 : proc = [state |-> "run", conf |-> c, reader |-> r0, worker |-> k0]
  BY <1>1, <1>2
<1>5. /\ \A r : [proc EXCEPT !.reader = r] = Process("run", proc.conf, r, proc.worker)
      /\ \A k : [proc EXCEPT !.worker = k] = Process("run", proc.conf, proc.reader, k)
  BY ONLY <1>4 DEF Process
<1> QED
  BY <1>1, <1>2, <1>3, <1>5, TimersOk

\* A packet in the reading thread.
LEMMA GotAPacketStep == ASSUME StartInv, NEW app, GotAPacket(app) PROVE StartInv'
<1> DEFINE r == ReaderTimers(proc.reader, proc.conf, now)
           p == Process("run", proc.conf, r, proc.worker)
<1>1. Capturing
  BY DEF GotAPacket
<1>2. /\ Running /\ TimerOk(r, proc.conf, now) /\ TimerOk(proc.worker, proc.conf, now) /\ [proc EXCEPT !.reader = r] = p
  BY <1>1, ProcessAtWork
<1>3. proc' = IF SmpMode(proc.conf) THEN [proc EXCEPT !.reader = r] ELSE Ran([proc EXCEPT !.reader = r], app)
  BY DEF GotAPacket
<1> HIDE DEF r
<1>4. PICK st \in {"run", "impossible"} : proc' = Process(st, proc.conf, r, proc.worker) /\ (st = "impossible" => Clash(proc.conf))
  <2>1. proc' = p \/ proc' = Ran(p, app)
    BY <1>2, <1>3
  <2> QED
    BY <2>1, RanProcess
<1>5. UNCHANGED <<launch, pc, memory, restart, written, now>>
  BY DEF GotAPacket
<1> QED
  BY <1>2, <1>4, <1>5, ThreadStep

\* A line of a stream.
LEMMA GotALineStep == ASSUME StartInv, NEW app, GotALine(app) PROVE StartInv'
<1> DEFINE r == ReaderTimers(proc.reader, proc.conf, now)
           p == Process("run", proc.conf, r, proc.worker)
<1>1. Capturing
  BY DEF GotALine
<1>2. /\ Running /\ TimerOk(r, proc.conf, now) /\ TimerOk(proc.worker, proc.conf, now) /\ [proc EXCEPT !.reader = r] = p
  BY <1>1, ProcessAtWork
<1>3. proc' = Ran([proc EXCEPT !.reader = r], app)
  BY DEF GotALine
<1> HIDE DEF r
<1>4. PICK st \in {"run", "impossible"} : proc' = Process(st, proc.conf, r, proc.worker) /\ (st = "impossible" => Clash(proc.conf))
  <2>1. proc' = Ran(p, app)
    BY <1>2, <1>3
  <2> QED
    BY <2>1, RanProcess
<1>5. UNCHANGED <<launch, pc, memory, restart, written, now>>
  BY DEF GotALine
<1> QED
  BY <1>2, <1>4, <1>5, ThreadStep

\* No packet: the timers only.
LEMMA GotNothingStep == ASSUME StartInv, GotNothing PROVE StartInv'
<1> DEFINE r == ReaderTimers(proc.reader, proc.conf, now)
<1>1. Capturing
  BY DEF GotNothing
<1>2. /\ Running /\ TimerOk(r, proc.conf, now) /\ TimerOk(proc.worker, proc.conf, now)
      /\ [proc EXCEPT !.reader = r] = Process("run", proc.conf, r, proc.worker)
  BY <1>1, ProcessAtWork
<1>3. proc' = [proc EXCEPT !.reader = r] /\ UNCHANGED <<launch, pc, memory, restart, written, now>>
  BY DEF GotNothing
<1> HIDE DEF r
<1> QED
  BY <1>2, <1>3, ThreadStep

\* A turn of a worker.
LEMMA WorkerTurnStep == ASSUME StartInv, NEW app, WorkerTurn(app) PROVE StartInv'
<1> DEFINE k == WorkerTimers(proc.worker, proc.conf, now)
           p == Process("run", proc.conf, proc.reader, k)
<1>1. Capturing
  BY DEF WorkerTurn
<1>2. /\ Running /\ TimerOk(k, proc.conf, now) /\ TimerOk(proc.reader, proc.conf, now) /\ [proc EXCEPT !.worker = k] = p
  BY <1>1, ProcessAtWork
<1>3. proc' = Ran([proc EXCEPT !.worker = k], app)
  BY DEF WorkerTurn
<1> HIDE DEF k
<1>4. PICK st \in {"run", "impossible"} : proc' = Process(st, proc.conf, proc.reader, k) /\ (st = "impossible" => Clash(proc.conf))
  <2>1. proc' = Ran(p, app)
    BY <1>2, <1>3
  <2> QED
    BY <2>1, RanProcess
<1>5. UNCHANGED <<launch, pc, memory, restart, written, now>>
  BY DEF WorkerTurn
<1> QED
  BY <1>2, <1>4, <1>5, ThreadStep

\* The end of a stream, and a stop.
LEMMA EndStep == ASSUME StartInv, EndOfStream \/ Stop PROVE StartInv'
<1>1. pc' = "success" /\ UNCHANGED <<launch, memory, written, restart, now>>
  BY DEF EndOfStream, Stop, Ends
<1>2. MainInv'
  BY <1>1, MainKept DEF StartInv, MainInv
<1> QED
  BY <1>1, <1>2, NotRunning DEF StartInv

\* Time goes by.
LEMMA TickStep == ASSUME StartInv, Tick PROVE StartInv'
<1>1. UNCHANGED <<launch, pc, memory, proc, restart, written>> /\ Running
  BY DEF Tick
<1>2. PICK d \in 1 .. MaxStep : now' = now + d
  BY DEF Tick
<1>3. now \in Nat \ {0} /\ now' \in Nat \ {0} /\ now <= now'
  <2>1. now \in Nat \ {0}
    BY DEF StartInv, MainInv
  <2>2. d \in Nat
    BY <1>2, StartupAssumption
  <2> QED
    BY <1>2, <2>1, <2>2
<1>4. MainInv'
  BY <1>1, <1>3, MainKept DEF StartInv, MainInv
<1>5. /\ PeriodsNat(proc.conf) /\ TimerOk(proc.reader, proc.conf, now) /\ TimerOk(proc.worker, proc.conf, now)
      /\ proc = [state |-> proc.state, conf |-> proc.conf, reader |-> proc.reader, worker |-> proc.worker]
      /\ proc.state \in {"run", "impossible"} /\ (restart => Updated) /\ (~restart => proc.conf = memory.conf)
      /\ proc.state = "impossible" => Updated
  BY <1>1 DEF StartInv, ProcInv
<1>6. TimerOk(proc.reader, proc.conf, now') /\ TimerOk(proc.worker, proc.conf, now')
  BY <1>3, <1>5, TimerLater
<1>7. Updated' <=> Updated
  BY <1>1 DEF Updated
<1>8. ProcInv'
  BY <1>1, <1>5, <1>6, <1>7 DEF ProcInv
<1> QED
  BY <1>4, <1>8 DEF StartInv
-----------------------------------------------------------------------------
\* The configuration in memory is what the file, the options and the updates say, the process
\* at work has it or is about to restart with it, and its timers are one period behind.
THEOREM StartInvariant == Spec => []StartInv
<1>1. Init => StartInv
  BY InitStart
<1>2. StartInv /\ [Next]_vars => StartInv'
  <2> SUFFICES ASSUME StartInv, [Next]_vars PROVE StartInv'
    OBVIOUS
  <2>1. CASE UNCHANGED vars
    <3>1. MainInv'
      BY <2>1, MainKept DEF vars, StartInv, MainInv
    <3> QED
      BY <2>1, <3>1, ProcKept DEF vars, StartInv
  <2>2. ASSUME NEW m \in Messages, Update(m) PROVE StartInv'
    BY <2>2, UpdateStep
  <2>3. ASSUME NEW a \in {"http", "ssl", "rtp"}, GotAPacket(a) \/ GotALine(a) \/ WorkerTurn(a) PROVE StartInv'
    BY <2>3, GotAPacketStep, GotALineStep, WorkerTurnStep
  <2> QED
    BY <2>1, <2>2, <2>3, PrintAndExitStep, LoadConfigurationStep, SkipOptionStep, OverrideInputStep, OverrideOptionStep, ValidateStep, StartStep,
       RestartStep, GotNothingStep, EndStep, TickStep DEF Next
<1> QED
  BY <1>1, <1>2, PTL DEF Spec

\* For every file, command line, build and sequence of updates: the process at work has, in every
\* parameter, what the last accepted text for it means in a file, or what the file says, and the
\* handlers of two applications meet only after an update (conf_load_from_file,
\* conf_override_element, conf_validate, _receive_message of dynamic_conf.c).
THEOREM ConfiguredAsWritten == Spec => []RunsAsConfigured
<1>1. StartInv => RunsAsConfigured
  <2> SUFFICES ASSUME StartInv PROVE RunsAsConfigured
    OBVIOUS
  <2>1. (Running /\ proc.state = "run" /\ ~restart) => Agrees(proc.conf, written)
    BY DEF StartInv, ProcInv, MainInv, Running, Sound
  <2>2. (Running /\ proc.state = "impossible") => Updated
    BY DEF StartInv, ProcInv
  <2> QED
    BY <2>1, <2>2 DEF RunsAsConfigured, Agrees, Updated
<1> QED
  BY <1>1, StartInvariant, PTL

\* For every configuration and however large the gaps between packets are: n reports, or samples
\* of files, need more than n periods (worker_on_timer_stat_period,
\* worker_on_timer_sample_file_period).
THEOREM PeriodsAreKept == Spec => []PeriodsKept
<1>1. StartInv => PeriodsKept
  BY DEF StartInv, ProcInv, TimerOk, PeriodsKept
<1> QED
  BY <1>1, StartInvariant, PTL
=============================================================================
