----------------------------- MODULE ServerHandlers -----------------------------
(***************************************************************************)
(* What the handlers and the steps of Server do to a client and to the     *)
(* lists, in the terms of ServerMoves.  First what the lists of            *)
(* connections need: induction over the natural numbers for sets of        *)
(* numbers instead of predicates, and with it what Keep computes.  It      *)
(* rests on LeastNumbers, which the lemmas carry as an assumption and      *)
(* ServerProofs discharges: the library that proves it is then no part of  *)
(* what the provers see here.                                              *)
(***************************************************************************)
EXTENDS ServerMoves, TLAPS

-------------------------------------------------------------------------------
(* Numbers and sequences                                                   *)

\* A set of numbers that is not empty has a least one.
LEMMA LeastNumber ==
  ASSUME LeastNumbers, NEW S \in SUBSET Nat, S # {}
  PROVE  \E i \in S : \A h \in S : i <= h
BY DEF LeastNumbers

\* Induction: a set with 0 and the successor of each of its numbers has them all.
\* The least number outside of it would have a predecessor inside.
LEMMA NatInductionInSet ==
  ASSUME LeastNumbers, NEW M, 0 \in M, \A n \in Nat : n \in M => n + 1 \in M
  PROVE  Nat \subseteq M
<1> DEFINE T == {n \in Nat : n \notin M}
<1> SUFFICES ASSUME T # {}
             PROVE  FALSE
  OBVIOUS
<1>1. T \in SUBSET Nat
  OBVIOUS
<1>2. PICK n \in T : \A m \in T : n <= m
  <2> HIDE DEF T
  <2> QED
    BY <1>1, LeastNumber
<1>3. n \in Nat /\ n # 0
  OBVIOUS
<1>4. n - 1 \in Nat /\ n - 1 \notin T
  BY <1>2, <1>3
<1> QED
  BY <1>3, <1>4

\* The same below a bound: what holds at 0 and is handed on holds up to n.
LEMMA UpToInSet ==
  ASSUME LeastNumbers, NEW n \in Nat, NEW M, 0 \in M,
         \A i \in 0 .. n - 1 : i \in M => i + 1 \in M
  PROVE  0 .. n \subseteq M
<1> DEFINE N == M \cup {i \in Nat : i > n}
<1>1. 0 \in N /\ \A i \in Nat : i \in N => i + 1 \in N
  OBVIOUS
<1> HIDE DEF N
<1>2. Nat \subseteq N
  BY <1>1, NatInductionInSet
<1> QED
  BY <1>2 DEF N

-------------------------------------------------------------------------------
(* Keep                                                                   *)

Elements(s) == {s[i] : i \in 1 .. Len(s)}

\* One step of the scan, from what the steps before have kept.
KeepStep(g, s, S, i) ==
  IF i = 0 THEN << >>
  ELSE IF s[i] \in S THEN Append(g[i - 1], s[i]) ELSE g[i - 1]

KeepSolved(s, S, n) == \E g : g = [i \in 0 .. n |-> KeepStep(g, s, S, i)]

\* The recursion has a solution on every prefix of the scan.
LEMMA KeepExists ==
  ASSUME LeastNumbers, NEW s, NEW S, NEW n \in Nat
  PROVE  KeepSolved(s, S, n)
<1> DEFINE Solved(m) == \E g : g = [i \in 0 .. m |-> KeepStep(g, s, S, i)]
           M == {m \in Nat : Solved(m)}
<1>1. Solved(0)
  <2> DEFINE g == [i \in 0 .. 0 |-> << >>]
  <2>1. g = [i \in 0 .. 0 |-> KeepStep(g, s, S, i)]
    BY DEF KeepStep
  <2> QED
    BY <2>1
<1>2. ASSUME NEW m \in Nat, Solved(m)
      PROVE  Solved(m + 1)
  <2>1. PICK g : g = [i \in 0 .. m |-> KeepStep(g, s, S, i)]
    BY <1>2
  <2> DEFINE h == [i \in 0 .. m + 1 |-> IF i <= m THEN g[i] ELSE KeepStep(g, s, S, i)]
  <2>2. ASSUME NEW i \in 0 .. m + 1
        PROVE  h[i] = KeepStep(h, s, S, i)
    <3>1. i = 0 \/ h[i - 1] = g[i - 1]
      OBVIOUS
    <3>2. h[i] = KeepStep(g, s, S, i)
      BY <2>1
    <3> QED
      BY <3>1, <3>2 DEF KeepStep
  <2>3. h = [i \in 0 .. m + 1 |-> KeepStep(h, s, S, i)]
    BY <2>2
  <2> QED
    BY <2>3, Zenon
<1>3. 0 \in M /\ \A m \in Nat : m \in M => m + 1 \in M
  BY <1>1, <1>2
<1> HIDE DEF M, Solved
<1>4. Nat \subseteq M
  BY <1>3, NatInductionInSet
<1> QED
  BY <1>4 DEF M, Solved, KeepSolved

\* Keep leaves exactly the elements in S, and none twice that was there once.
LEMMA KeepElements ==
  ASSUME LeastNumbers, NEW T, NEW s \in Seq(T), NEW S
  PROVE  /\ Keep(s, S) \in Seq(T)
         /\ Elements(Keep(s, S)) = Elements(s) \cap S
         /\ Distinct(s) => Distinct(Keep(s, S))
<1> DEFINE n == Len(s)
           f == CHOOSE g : g = [i \in 0 .. n |-> KeepStep(g, s, S, i)]
<1>1. n \in Nat /\ DOMAIN s = 1 .. n /\ \A i \in 1 .. n : s[i] \in T
  OBVIOUS
<1>2. Keep(s, S) = f[n]
  BY DEF Keep, KeepStep
<1> HIDE DEF n
<1>3. f = [i \in 0 .. n |-> KeepStep(f, s, S, i)]
  <2>1. KeepSolved(s, S, n)
    BY <1>1, KeepExists
  <2> QED
    BY <2>1, Zenon DEF KeepSolved
<1> HIDE DEF f
<1>4. /\ f[0] = << >>
      /\ \A i \in 0 .. n - 1 :
           f[i + 1] = IF s[i + 1] \in S THEN Append(f[i], s[i + 1]) ELSE f[i]
  <2>1. \A i \in 0 .. n : f[i] = KeepStep(f, s, S, i)
    BY <1>3, Zenon
  <2> QED
    BY <1>1, <2>1 DEF KeepStep
<1> DEFINE Right(i) ==
             /\ f[i] \in Seq(T)
             /\ Elements(f[i]) = {s[j] : j \in 1 .. i} \cap S
             /\ Distinct(s) => Distinct(f[i])
           M == {i \in 0 .. n : Right(i)}
<1>5. Right(0)
  BY <1>4 DEF Elements, Distinct
<1>6. ASSUME NEW i \in 0 .. n - 1, Right(i)
      PROVE  Right(i + 1)
  <2>1. i + 1 \in 1 .. n /\ s[i + 1] \in T
    BY <1>1
  <2>2. CASE s[i + 1] \notin S
    <3>1. f[i + 1] = f[i]
      BY <1>4, <2>2
    <3>2. {s[j] : j \in 1 .. i + 1} \cap S = {s[j] : j \in 1 .. i} \cap S
      BY <2>2
    <3> QED
      BY <1>6, <3>1, <3>2
  <2>3. CASE s[i + 1] \in S
    <3> DEFINE k == f[i]
               m == Len(k)
    <3>1. f[i + 1] = Append(k, s[i + 1])
      BY <1>4, <2>3, Zenon
    <3>2. /\ k \in Seq(T) /\ m \in Nat
          /\ f[i + 1] \in Seq(T) /\ Len(f[i + 1]) = m + 1
          /\ \A j \in 1 .. m : f[i + 1][j] = k[j]
          /\ f[i + 1][m + 1] = s[i + 1]
      BY <1>6, <2>1, <3>1
    <3> HIDE DEF k, m
    <3>3. Elements(f[i + 1]) = Elements(k) \cup {s[i + 1]}
      <4>1. 1 .. m + 1 = (1 .. m) \cup {m + 1}
        BY <3>2
      <4>2. Elements(f[i + 1]) = {f[i + 1][j] : j \in 1 .. m + 1}
        BY <3>2, Zenon DEF Elements
      <4>3. Elements(k) = {f[i + 1][j] : j \in 1 .. m}
        BY <3>2, Zenon DEF Elements, m
      <4> QED
        BY <3>2, <4>1, <4>2, <4>3, Zenon
    <3>4. Elements(f[i + 1]) = {s[j] : j \in 1 .. i + 1} \cap S
      <4>1. {s[j] : j \in 1 .. i + 1} = {s[j] : j \in 1 .. i} \cup {s[i + 1]}
        OBVIOUS
      <4> QED
        BY <1>6, <2>3, <3>3, <4>1 DEF k
    <3>5. ASSUME Distinct(s)
          PROVE  Distinct(f[i + 1])
      <4>1. \A j \in 1 .. i : s[j] # s[i + 1]
        BY <1>1, <2>1, <3>5 DEF Distinct, n
      <4>2. \A j \in 1 .. m : k[j] # s[i + 1]
        <5>1. \A j \in 1 .. m : k[j] \in {s[l] : l \in 1 .. i}
          BY <1>6, Zenon DEF Elements, k, m
        <5> QED
          BY <4>1, <5>1, Zenon
      <4>3. \A a, b \in 1 .. m : k[a] = k[b] => a = b
        BY <1>6, <3>5 DEF Distinct, k, m
      <4>4. \A a \in 1 .. m + 1 : a \in 1 .. m \/ a = m + 1
        BY <3>2
      <4> QED
        BY <3>2, <4>2, <4>3, <4>4, Zenon DEF Distinct
    <3> QED
      BY <3>2, <3>4, <3>5
  <2> QED
    BY <2>2, <2>3
<1> HIDE DEF Right
<1>7. 0 \in M /\ \A i \in 0 .. n - 1 : i \in M => i + 1 \in M
  BY <1>1, <1>5, <1>6
<1> HIDE DEF M
<1>8. 0 .. n \subseteq M
  BY <1>1, <1>7, UpToInSet
<1>9. Right(n)
  BY <1>1, <1>8 DEF M
<1> QED
  BY <1>2, <1>9 DEF Right, Elements, n

-------------------------------------------------------------------------------
(* The set of the elements of a sequence *)

LEMMA RangeElements ==
  ASSUME NEW T, NEW s \in Seq(T)
  PROVE  Range(s) = Elements(s)
BY DEF Range, Elements

\* What happens to the elements of a sequence when one is put on or taken off.
LEMMA AppendElements ==
  ASSUME NEW T, NEW s \in Seq(T), NEW e \in T
  PROVE  /\ Append(s, e) \in Seq(T)
         /\ Range(Append(s, e)) = Range(s) \cup {e}
         /\ Distinct(s) /\ e \notin Range(s) => Distinct(Append(s, e))
<1>1. Append(s, e) \in Seq(T) /\ Len(Append(s, e)) = Len(s) + 1
  OBVIOUS
<1>2. \A i \in 1 .. Len(s) : Append(s, e)[i] = s[i]
  OBVIOUS
<1>3. Append(s, e)[Len(s) + 1] = e
  OBVIOUS
<1>4. Elements(Append(s, e)) = Elements(s) \cup {e}
  <2>1. 1 .. Len(s) + 1 = (1 .. Len(s)) \cup {Len(s) + 1}
    OBVIOUS
  <2> QED
    BY <1>1, <1>2, <1>3, <2>1 DEF Elements
<1>5. ASSUME Distinct(s), e \notin Elements(s) PROVE Distinct(Append(s, e))
  BY <1>1, <1>2, <1>3, <1>5 DEF Distinct, Elements
<1> QED
  BY <1>1, <1>4, <1>5, RangeElements, Zenon

LEMMA TailElements ==
  ASSUME NEW T, NEW s \in Seq(T), s # << >>
  PROVE  /\ Tail(s) \in Seq(T) /\ Head(s) \in T
         /\ Head(s) \in Range(s)
         /\ Range(s) = Range(Tail(s)) \cup {Head(s)}
         /\ Distinct(s) => Distinct(Tail(s)) /\ Head(s) \notin Range(Tail(s))
<1>1. /\ Tail(s) \in Seq(T) /\ Head(s) \in T /\ Head(s) = s[1]
      /\ Len(s) \in Nat /\ Len(s) > 0 /\ Len(Tail(s)) = Len(s) - 1
  OBVIOUS
<1>2. \A i \in 1 .. Len(s) - 1 : Tail(s)[i] = s[i + 1]
  OBVIOUS
<1>3. Elements(s) = Elements(Tail(s)) \cup {s[1]}
  <2>1. \A i \in 2 .. Len(s) : i - 1 \in 1 .. Len(s) - 1 /\ s[i] = Tail(s)[i - 1]
    BY <1>1, <1>2
  <2>2. \A i \in 1 .. Len(s) - 1 : i + 1 \in 1 .. Len(s)
    BY <1>1
  <2>3. 1 .. Len(s) = (2 .. Len(s)) \cup {1}
    BY <1>1
  <2> QED
    BY <1>1, <1>2, <2>1, <2>2, <2>3 DEF Elements
<1>4. ASSUME Distinct(s) PROVE Distinct(Tail(s)) /\ s[1] \notin Elements(Tail(s))
  <2>1. Distinct(Tail(s))
    <3> SUFFICES ASSUME NEW i \in 1 .. Len(s) - 1, NEW k \in 1 .. Len(s) - 1,
                        s[i + 1] = s[k + 1]
                 PROVE  i = k
      BY <1>1, <1>2 DEF Distinct
    <3> QED
      BY <1>1, <1>4 DEF Distinct
  <2>2. s[1] \notin Elements(Tail(s))
    <3> SUFFICES ASSUME NEW i \in 1 .. Len(s) - 1, s[1] = s[i + 1]
                 PROVE  FALSE
      BY <1>1, <1>2 DEF Elements
    <3> QED
      BY <1>1, <1>4 DEF Distinct
  <2> QED
    BY <2>1, <2>2
<1> QED
  BY <1>1, <1>3, <1>4, RangeElements, Zenon

LEMMA KeepRange ==
  ASSUME LeastNumbers, NEW T, NEW s \in Seq(T), NEW S
  PROVE  /\ Keep(s, S) \in Seq(T)
         /\ Range(Keep(s, S)) = Range(s) \cap S
         /\ Distinct(s) => Distinct(Keep(s, S))
BY KeepElements, RangeElements

\* The elements of a prefix and of what is left, put behind others.
LEMMA SplitElements ==
  ASSUME NEW T, NEW s \in Seq(T), NEW t \in Seq(T), NEW n \in 0 .. Len(t)
  PROVE  LET u == s \o SubSeq(t, 1, n)
             v == SubSeq(t, n + 1, Len(t))
         IN  /\ u \in Seq(T) /\ v \in Seq(T)
             /\ Range(u) \cup Range(v) = Range(s) \cup Range(t)
             /\ Range(s) \subseteq Range(u) /\ Range(v) \subseteq Range(t)
             /\ (Distinct(s) /\ Distinct(t) /\ Range(s) \cap Range(t) = {})
                  => Distinct(u) /\ Distinct(v) /\ Range(u) \cap Range(v) = {}
<1> DEFINE u == s \o SubSeq(t, 1, n)
           v == SubSeq(t, n + 1, Len(t))
<1>1. /\ Len(s) \in Nat /\ Len(t) \in Nat /\ n \in Nat
      /\ u \in Seq(T) /\ Len(u) = Len(s) + n
      /\ v \in Seq(T) /\ Len(v) = Len(t) - n
  OBVIOUS
<1>2. /\ \A i \in 1 .. Len(s) : u[i] = s[i]
      /\ \A i \in 1 .. n : u[Len(s) + i] = t[i]
      /\ \A i \in 1 .. Len(t) - n : v[i] = t[n + i]
  OBVIOUS
<1> HIDE DEF u, v
<1>3. \A i \in 1 .. Len(s) + n : i \in 1 .. Len(s) \/ (i - Len(s) \in 1 .. n /\ u[i] = t[i - Len(s)])
  <2>1. \A i \in 1 .. Len(s) + n :
           i \in 1 .. Len(s) \/ (i - Len(s) \in 1 .. n /\ i = Len(s) + (i - Len(s)))
    BY <1>1
  <2> QED
    BY <1>2, <2>1, Zenon
<1>4. \A i \in 1 .. Len(t) : i \in 1 .. n \/ (i - n \in 1 .. Len(t) - n /\ v[i - n] = t[i])
  <2>1. \A i \in 1 .. Len(t) : i \in 1 .. n \/ (i - n \in 1 .. Len(t) - n /\ i = n + (i - n))
    BY <1>1
  <2> QED
    BY <1>2, <2>1, Zenon
<1>5. Elements(u) = Elements(s) \cup {t[i] : i \in 1 .. n}
  <2>1. Elements(u) \subseteq Elements(s) \cup {t[i] : i \in 1 .. n}
    <3> SUFFICES ASSUME NEW i \in 1 .. Len(s) + n
                 PROVE  u[i] \in Elements(s) \cup {t[k] : k \in 1 .. n}
      BY <1>1, Zenon DEF Elements
    <3>1. CASE i \in 1 .. Len(s)
      BY <1>2, <3>1 DEF Elements
    <3>2. CASE i - Len(s) \in 1 .. n /\ u[i] = t[i - Len(s)]
      BY <3>2
    <3> QED
      BY <1>3, <3>1, <3>2
  <2>2. Elements(s) \subseteq Elements(u)
    <3> SUFFICES ASSUME NEW i \in 1 .. Len(s)
                 PROVE  s[i] \in Elements(u)
      BY Zenon DEF Elements
    <3>1. i \in 1 .. Len(u) /\ u[i] = s[i]
      BY <1>1, <1>2
    <3> QED
      BY <3>1, Zenon DEF Elements
  <2>3. ASSUME NEW i \in 1 .. n PROVE t[i] \in Elements(u)
    <3>1. Len(s) + i \in 1 .. Len(u) /\ u[Len(s) + i] = t[i]
      BY <1>1, <1>2
    <3> QED
      BY <3>1 DEF Elements
  <2> QED
    BY <2>1, <2>2, <2>3
<1>6. Elements(v) = {t[i] : i \in n + 1 .. Len(t)}
  <2>1. ASSUME NEW i \in 1 .. Len(t) - n PROVE v[i] \in {t[k] : k \in n + 1 .. Len(t)}
    <3>1. n + i \in n + 1 .. Len(t)
      BY <1>1
    <3> QED
      BY <1>2, <3>1
  <2>2. ASSUME NEW i \in n + 1 .. Len(t) PROVE t[i] \in Elements(v)
    <3>1. i - n \in 1 .. Len(v) /\ v[i - n] = t[i]
      BY <1>1, <1>4
    <3> QED
      BY <3>1 DEF Elements
  <2> QED
    BY <1>1, <2>1, <2>2, Zenon DEF Elements
<1>7. Elements(t) = {t[i] : i \in 1 .. n} \cup {t[i] : i \in n + 1 .. Len(t)}
  BY <1>1 DEF Elements
<1>8. ASSUME Distinct(s), Distinct(t), Elements(s) \cap Elements(t) = {}
      PROVE  Distinct(u) /\ Distinct(v) /\ Elements(u) \cap Elements(v) = {}
  <2>1. \A i \in 1 .. Len(s), k \in 1 .. Len(t) : s[i] # t[k]
    BY <1>8 DEF Elements
  <2>2. Distinct(u)
    <3> SUFFICES ASSUME NEW i \in 1 .. Len(s) + n, NEW k \in 1 .. Len(s) + n, u[i] = u[k]
                 PROVE  i = k
      BY <1>1 DEF Distinct
    <3>1. 1 .. n \subseteq 1 .. Len(t)
      BY <1>1
    <3>2. CASE i \in 1 .. Len(s) /\ k \in 1 .. Len(s)
      BY <1>2, <1>8, <3>2 DEF Distinct
    <3>3. CASE i \notin 1 .. Len(s) /\ k \notin 1 .. Len(s)
      <4>1. /\ i - Len(s) \in 1 .. Len(t) /\ k - Len(s) \in 1 .. Len(t)
            /\ t[i - Len(s)] = t[k - Len(s)]
        BY <1>3, <3>1, <3>3
      <4>2. i - Len(s) = k - Len(s)
        BY <1>8, <4>1, SMTT(20) DEF Distinct
      <4> QED
        BY <1>1, <4>2
    <3>4. CASE i \in 1 .. Len(s) /\ k \notin 1 .. Len(s)
      BY <1>2, <1>3, <2>1, <3>1, <3>4
    <3>5. CASE i \notin 1 .. Len(s) /\ k \in 1 .. Len(s)
      BY <1>2, <1>3, <2>1, <3>1, <3>5
    <3> QED
      BY <3>2, <3>3, <3>4, <3>5
  <2>3. Distinct(v)
    <3> SUFFICES ASSUME NEW i \in 1 .. Len(t) - n, NEW k \in 1 .. Len(t) - n, v[i] = v[k]
                 PROVE  i = k
      BY <1>1 DEF Distinct
    <3>1. n + i \in 1 .. Len(t) /\ n + k \in 1 .. Len(t) /\ t[n + i] = t[n + k]
      BY <1>1, <1>2
    <3>2. n + i = n + k
      BY <1>8, <3>1 DEF Distinct
    <3> QED
      BY <1>1, <3>2
  <2>4. {t[i] : i \in 1 .. n} \cap {t[i] : i \in n + 1 .. Len(t)} = {}
    BY <1>1, <1>8 DEF Distinct
  <2> QED
    BY <1>5, <1>6, <1>7, <1>8, <2>2, <2>3, <2>4
<1>9. /\ Range(u) = Elements(u) /\ Range(v) = Elements(v)
      /\ Range(s) = Elements(s) /\ Range(t) = Elements(t)
  BY <1>1, RangeElements
<1> DEFINE A == {t[i] : i \in 1 .. n}
           B == {t[i] : i \in n + 1 .. Len(t)}
<1>10. Elements(u) = Elements(s) \cup A /\ Elements(v) = B /\ Elements(t) = A \cup B
  BY <1>5, <1>6, <1>7
<1> HIDE DEF A, B
<1>11. /\ Range(u) \cup Range(v) = Range(s) \cup Range(t)
       /\ Range(s) \subseteq Range(u) /\ Range(v) \subseteq Range(t)
  BY <1>9, <1>10
<1>12. (Distinct(s) /\ Distinct(t) /\ Range(s) \cap Range(t) = {})
            => Distinct(u) /\ Distinct(v) /\ Range(u) \cap Range(v) = {}
  BY <1>8, <1>9
<1> QED
  BY <1>1, <1>11, <1>12 DEF u, v


-------------------------------------------------------------------------------
(* The list commands                                                       *)

\* A pop finds nothing, finds a string, or takes the head of one list.
LEMMA PopOutcome ==
  ASSUME LeastNumbers, NEW d \in Contents, NEW ks \in Seq(Keys), NEW j, NEW nothing,
         NEW r, r = PopFirst(d, ks, j, nothing)
  PROVE  \/ r.db = d /\ r.reply \in {Reply(j, nothing), Reply(j, "error")}
         \/ Takes(j, d, r.db, r.reply)
<1> DEFINE hits == {i \in 1 .. Len(ks) : ks[i] \in StringKeys \/ d[ks[i]] # << >>}
           i == CHOOSE i \in hits : \A h \in hits : i <= h
           k == ks[i]
<1>1. CASE hits = {}
  BY <1>1, Zenon DEF PopFirst
<1>2. CASE hits # {}
  <2>1. hits \in SUBSET Nat
    OBVIOUS
  <2> HIDE DEF hits
  <2>2. i \in hits
    BY <1>2, <2>1, LeastNumber, Zenon
  <2> HIDE DEF i
  <2>3. k \in Keys /\ (k \in StringKeys \/ d[k] # << >>)
    BY <2>2 DEF hits
  <2>4. CASE k \in StringKeys
    BY <1>2, <2>4, Zenon DEF PopFirst, hits, i
  <2>5. CASE k \notin StringKeys
    BY <1>2, <2>3, <2>5, Zenon DEF PopFirst, Takes, hits, i
  <2> QED
    BY <2>4, <2>5
<1> QED
  BY <1>1, <1>2

LEMMA ReplyTyped ==
  ASSUME NEW j \in Nat, NEW kind \in Kinds
  PROVE  /\ Reply(j, kind) \in ReplyRecord
         /\ \A n \in Nat : [Reply(j, kind) EXCEPT !.n = n] \in ReplyRecord
         /\ \A S \in SUBSET (Conns \X Nat) :
              [Reply(j, kind) EXCEPT !.elems = S] \in ReplyRecord
<1>1. Reply(j, kind) \in ReplyRecord
  BY DEF Reply, ReplyRecord
<1>2. ASSUME NEW n \in Nat PROVE [Reply(j, kind) EXCEPT !.n = n] \in ReplyRecord
  BY DEF Reply, ReplyRecord
<1>3. ASSUME NEW S \in SUBSET (Conns \X Nat)
      PROVE  [Reply(j, kind) EXCEPT !.elems = S] \in ReplyRecord
  BY DEF Reply, ReplyRecord
<1> QED
  BY <1>1, <1>2, <1>3

\* A command is answered, or it is a BLPOP that may block and changes nothing.
LEMMA RunOutcome ==
  ASSUME LeastNumbers, Scripts, NEW c \in Conns, NEW j \in 1 .. Len(script[c]), NEW d \in Contents,
         script[c][j].op \in {"rpush", "lpop", "blpop"},
         NEW can_block \in BOOLEAN, NEW timed_out \in BOOLEAN
  PROVE  LET r == run(d, c, j, can_block, timed_out)
         IN  \/ /\ r.reply = Reply(j, "block") /\ r.db = d
                /\ can_block /\ script[c][j].op = "blpop"
                /\ script[c][j].timeout # Invalid
             \/ Outcome(c, j, d, r.db, r.reply)
<1> DEFINE q == script[c][j]
           r == run(d, c, j, can_block, timed_out)
<1>1. q \in Request /\ q.keys # << >>
  BY DEF Scripts
<1>2. q.keys \in Seq(Keys) /\ q.keys[1] \in Keys /\ <<q.keys[1]>> \in Seq(Keys)
  BY <1>1 DEF Request
<1> HIDE DEF q, r
<1> SUFFICES \/ /\ r.reply = Reply(j, "block") /\ r.db = d
                /\ can_block /\ q.op = "blpop" /\ q.timeout # Invalid
             \/ Outcome(c, j, d, r.db, r.reply)
  BY DEF q, r
<1>3. CASE q.op = "rpush"
  BY <1>3, Zenon DEF run, cmd_rpush, Pushes, Outcome, q, r
<1>4. CASE q.op = "lpop"
  <2>1. r = PopFirst(d, <<q.keys[1]>>, j, "nil")
    BY <1>4 DEF run, cmd_lpop, q, r
  <2>2. \/ r.db = d /\ r.reply \in {Reply(j, "nil"), Reply(j, "error")}
        \/ Takes(j, d, r.db, r.reply)
    BY <1>2, <2>1, PopOutcome, Zenon
  <2> QED
    BY <2>2 DEF Outcome
<1>5. CASE q.op = "blpop"
  <2> DEFINE nothing == IF can_block /\ ~timed_out THEN "block" ELSE "nil"
  <2>1. CASE q.timeout = Invalid
    BY <1>5, <2>1 DEF run, cmd_blpop, Outcome, q, r
  <2>2. CASE q.timeout # Invalid
    <3>1. r = PopFirst(d, q.keys, j, nothing)
      BY <1>5, <2>2 DEF run, cmd_blpop, q, r
    <3>2. \/ r.db = d /\ r.reply \in {Reply(j, nothing), Reply(j, "error")}
          \/ Takes(j, d, r.db, r.reply)
      BY <1>2, <3>1, PopOutcome
    <3> QED
      BY <1>5, <2>2, <3>2 DEF Outcome
  <2> QED
    BY <2>1, <2>2
<1> QED
  BY <1>3, <1>4, <1>5 DEF q

\* An answer is a reply with the request's number, and the lists stay lists.
LEMMA OutcomeTyped ==
  ASSUME Scripts, NEW c \in Conns, NEW j \in 1 .. Len(script[c]), NEW d \in Contents,
         NEW new, NEW r, Outcome(c, j, d, new, r)
  PROVE  /\ r \in ReplyRecord /\ r.req = j /\ r.n = 0
         /\ r.kind \in {"error", "nil", "int", "elem"}
         /\ new \in Contents
<1>1. script[c][j] \in Request /\ script[c][j].keys # << >>
  BY DEF Scripts
<1>2. j \in Nat /\ script[c][j].keys[1] \in Keys /\ <<c, j>> \in Conns \X Nat
  BY <1>1 DEF Request, Scripts
<1>3. CASE new = d /\ r \in {Reply(j, "error"), Reply(j, "nil")}
  <2>1. r \in ReplyRecord
    BY <1>2, <1>3, ReplyTyped DEF Kinds
  <2> QED
    BY <1>3, <2>1 DEF Reply
<1>4. CASE Pushes(c, j, d, new, r)
  <2> DEFINE k == script[c][j].keys[1]
  <2>1. r \in ReplyRecord
    BY <1>2, <1>4, ReplyTyped, Zenon DEF Pushes, Kinds
  <2>2. Append(d[k], <<c, j>>) \in Seq(Conns \X Nat)
    BY <1>2 DEF Contents
  <2>3. new = [d EXCEPT ![k] = Append(d[k], <<c, j>>)]
    BY <1>4, Zenon DEF Pushes
  <2>4. new \in Contents
    BY <1>2, <2>2, <2>3, Zenon DEF Contents
  <2> QED
    BY <1>4, <2>1, <2>4, Zenon DEF Reply, Pushes
<1>5. ASSUME NEW k \in Keys, d[k] # << >>, new = [d EXCEPT ![k] = Tail(@)],
             r = [Reply(j, "elem") EXCEPT !.elems = {Head(d[k])}]
      PROVE  /\ r \in ReplyRecord /\ r.req = j /\ r.n = 0 /\ r.kind = "elem"
             /\ new \in Contents
  <2>1. Head(d[k]) \in Conns \X Nat /\ Tail(d[k]) \in Seq(Conns \X Nat)
    BY <1>5 DEF Contents
  <2>2. {Head(d[k])} \in SUBSET (Conns \X Nat)
    BY <2>1
  <2>3. r \in ReplyRecord
    BY <1>2, <1>5, <2>2, ReplyTyped, Zenon DEF Kinds
  <2>4. new \in Contents
    BY <1>5, <2>1 DEF Contents
  <2> QED
    BY <1>5, <2>3, <2>4 DEF Reply
<1> QED
  BY <1>3, <1>4, <1>5 DEF Outcome, Takes

-------------------------------------------------------------------------------
(* The handlers of a request                                               *)

LEMMA SayTyped ==
  ASSUME NEW cl \in Client, NEW r \in ReplyRecord
  PROVE  /\ Say(cl, r) \in Client
         /\ Framed(cl, Say(cl, r)) /\ SameTxn(cl, Say(cl, r)) /\ Says(cl, Say(cl, r), r)
         /\ Say(cl, r).pos = cl.pos /\ Say(cl, r).blocked_req = cl.blocked_req
         /\ Say(cl, r).block_deadline = cl.block_deadline
<1> DEFINE new == [cl EXCEPT !.replies = Append(cl.replies, r)]
<1>1. Append(cl.replies, r) \in Seq(ReplyRecord)
  BY DEF Client
<1>2. new \in Client
  BY <1>1, Zenon DEF Client
<1>3. /\ Framed(cl, new) /\ SameTxn(cl, new) /\ Says(cl, new, r)
      /\ new.pos = cl.pos /\ new.blocked_req = cl.blocked_req
      /\ new.block_deadline = cl.block_deadline
  BY DEF Client, Framed, SameTxn, Says
<1>4. Say(cl, r) = new
  BY DEF Say
<1> QED
  BY <1>2, <1>3, <1>4

LEMMA ConsumeTyped ==
  ASSUME NEW c \in Conns, NEW cl \in Client, NEW j \in 1 .. Len(script[c]),
         j = cl.pos + 1, ~cl.close_after_reply, cl.blocked_req = 0
  PROVE  LET new == [cl EXCEPT !.pos = j]
         IN  /\ new \in Client /\ Framed(cl, new) /\ SameTxn(cl, new)
             /\ Consumes(c, j, cl, new)
             /\ new.replies = cl.replies /\ new.blocked_req = 0
<1> DEFINE new == [cl EXCEPT !.pos = j]
<1>1. j \in Nat
  OBVIOUS
<1>2. new \in Client
  BY <1>1, Zenon DEF Client
<1>3. /\ new.pos = j /\ new.replies = cl.replies /\ new.blocked_req = 0
      /\ Framed(cl, new) /\ SameTxn(cl, new)
  BY Zenon DEF Client, Framed, SameTxn
<1> QED
  BY <1>2, <1>3, Zenon DEF Consumes

LEMMA AnswerResponds ==
  ASSUME NEW c \in Conns, NEW cl \in Client, NEW j \in 1 .. Len(script[c]),
         j = cl.pos + 1, ~cl.close_after_reply, cl.blocked_req = 0,
         NEW op, op = script[c][j].op,
         op \in {"invalid", "multi", "discard"} \/ (cl.active /\ op \in Cmds),
         NEW new, new = Answer([cl EXCEPT !.pos = j], j, op)
  PROVE  new \in Client /\ Framed(cl, new) /\ Responds(c, j, cl, new)
<1> DEFINE m == [cl EXCEPT !.pos = j]
<1>1. /\ m \in Client /\ Framed(cl, m) /\ SameTxn(cl, m) /\ m.pos = j
      /\ m.replies = cl.replies /\ m.blocked_req = 0
  BY ConsumeTyped DEF Consumes
<1>2. new = Answer(m, j, op) /\ j \in Nat /\ cl.active \in BOOLEAN /\ cl.error \in BOOLEAN
  BY DEF Client
<1> HIDE DEF m
<1> DEFINE e == Say(m, Reply(j, "error"))
           o == Say(m, Reply(j, "ok"))
           q == Say(m, Reply(j, "queued"))
<1>3. /\ Reply(j, "error") \in ReplyRecord /\ Reply(j, "ok") \in ReplyRecord
      /\ Reply(j, "queued") \in ReplyRecord
  BY <1>2, ReplyTyped DEF Kinds
<1>4. /\ e \in Client /\ Framed(m, e) /\ SameTxn(m, e) /\ Says(m, e, Reply(j, "error"))
      /\ e.pos = m.pos /\ e.blocked_req = m.blocked_req
  BY <1>1, <1>3, SayTyped, Zenon
<1>5. /\ o \in Client /\ Framed(m, o) /\ SameTxn(m, o) /\ Says(m, o, Reply(j, "ok"))
      /\ o.pos = m.pos /\ o.blocked_req = m.blocked_req
  BY <1>1, <1>3, SayTyped, Zenon
<1>6. /\ q \in Client /\ Framed(m, q) /\ SameTxn(m, q) /\ Says(m, q, Reply(j, "queued"))
      /\ q.pos = m.pos /\ q.blocked_req = m.blocked_req
  BY <1>1, <1>3, SayTyped, Zenon
<1>7. Consumes(c, j, cl, new) <=> new.pos = j
  BY DEF Consumes
<1> HIDE DEF e, o, q
<1>8. CASE op = "invalid" \/ (op \in Cmds /\ Len(cl.queue) >= TXN_MAX_CMDS)
  <2>1. new = [e EXCEPT !.error = @ \/ m.active]
    BY <1>1, <1>2, <1>8, Zenon DEF Answer, Refuse, txn_queue, SameTxn, Cmds, e
  <2>2. /\ new \in Client /\ new.pos = j /\ new.replies = e.replies
        /\ new.queue = e.queue /\ new.active = e.active /\ new.blocked_req = e.blocked_req
        /\ new.error = (e.error \/ m.active) /\ Framed(e, new)
    BY <1>1, <1>4, <2>1, Zenon DEF Client, Framed
  <2>3. Framed(cl, new)
    BY <1>1, <1>4, <2>2, Zenon DEF Framed
  <2>4. Refuses(c, j, cl, new)
    BY <1>1, <1>4, <1>8, <2>2, Zenon DEF Refuses, Says, SameTxn, Cmds
  <2> QED
    BY <1>7, <2>2, <2>3, <2>4, Zenon DEF Responds
<1>9. CASE op = "multi"
  <2>1. CASE cl.active
    <3>1. new = e
      BY <1>1, <1>2, <1>9, <2>1 DEF Answer, SameTxn, e
    <3>2. Refuses(c, j, cl, new) /\ Framed(cl, new)
      BY <1>1, <1>2, <1>4, <1>9, <3>1, Zenon DEF Refuses, Says, SameTxn, Framed
    <3> QED
      BY <1>1, <1>4, <1>7, <3>1, <3>2, Zenon DEF Responds
  <2>2. CASE ~cl.active
    <3>1. new = [o EXCEPT !.active = TRUE]
      BY <1>1, <1>2, <1>9, <2>2, Zenon DEF Answer, SameTxn, o
    <3>2. /\ new \in Client /\ new.pos = j /\ new.replies = o.replies
          /\ new.queue = o.queue /\ new.active /\ new.blocked_req = o.blocked_req
          /\ new.error = o.error /\ Framed(o, new)
      BY <1>1, <1>5, <3>1, Zenon DEF Client, Framed
    <3>3. Opened(c, j, cl, new) /\ Framed(cl, new)
      BY <1>1, <1>5, <1>9, <2>2, <3>2, Zenon DEF Opened, Says, SameTxn, Framed
    <3> QED
      BY <1>7, <3>2, <3>3, Zenon DEF Responds
  <2> QED
    BY <2>1, <2>2
<1>10. CASE op = "discard"
  <2>1. CASE cl.active
    <3>1. new = [o EXCEPT !.queue = << >>, !.active = FALSE, !.error = FALSE]
      BY <1>1, <1>2, <1>10, <2>1 DEF Answer, SameTxn, txn_reset, o
    <3>2. /\ new \in Client /\ new.pos = j /\ new.replies = o.replies
          /\ NoTxn(new) /\ new.blocked_req = o.blocked_req /\ Framed(o, new)
      <4>1. << >> \in Seq(Nat)
        OBVIOUS
      <4>2. new \in Client
        BY <1>5, <3>1, <4>1, Zenon DEF Client
      <4> QED
        BY <1>1, <1>5, <3>1, <4>2, Zenon DEF Client, Framed, NoTxn
    <3>3. Resets(c, j, cl, new) /\ Framed(cl, new)
      BY <1>1, <1>5, <1>10, <2>1, <3>2, Zenon DEF Resets, Says, Framed
    <3> QED
      BY <1>7, <3>2, <3>3, Zenon DEF Responds
  <2>2. CASE ~cl.active
    <3>1. new = e
      BY <1>1, <1>2, <1>10, <2>2 DEF Answer, SameTxn, e
    <3>2. Refuses(c, j, cl, new) /\ Framed(cl, new)
      BY <1>1, <1>2, <1>4, <1>10, <2>2, <3>1, Zenon DEF Refuses, Says, SameTxn, Framed
    <3> QED
      BY <1>1, <1>4, <1>7, <3>1, <3>2 DEF Responds
  <2> QED
    BY <2>1, <2>2
<1>11. CASE op \in Cmds /\ ~(Len(cl.queue) >= TXN_MAX_CMDS)
  <2>1. new = [q EXCEPT !.queue = Append(@, j)]
    BY <1>1, <1>2, <1>11, Zenon DEF Answer, txn_queue, SameTxn, Cmds, q
  <2>2. /\ new \in Client /\ new.pos = j /\ new.replies = q.replies
        /\ new.queue = Append(q.queue, j) /\ new.active = q.active
        /\ new.error = q.error /\ new.blocked_req = q.blocked_req /\ Framed(q, new)
    <3>1. Append(q.queue, j) \in Seq(Nat)
      BY <1>2, <1>6 DEF Client
    <3>2. new \in Client
      BY <1>6, <2>1, <3>1, Zenon DEF Client
    <3> QED
      BY <1>1, <1>6, <2>1, <3>2, Zenon DEF Client, Framed
  <2>3. Len(cl.queue) < TXN_MAX_CMDS
    BY <1>11, ServerAssumption DEF Client
  <2>4. Queues(c, j, cl, new)
    BY <1>1, <1>6, <1>11, <2>2, <2>3, Zenon DEF Queues, Says, SameTxn, Cmds
  <2>5. Framed(cl, new)
    BY <1>1, <1>6, <2>2, Zenon DEF Framed
  <2> QED
    BY <1>7, <2>2, <2>4, <2>5, Zenon DEF Responds
<1> QED
  BY <1>8, <1>9, <1>10, <1>11, Zenon DEF Cmds

LEMMA ResetTyped ==
  ASSUME NEW cl \in Client
  PROVE  /\ txn_reset(cl) \in Client /\ Framed(cl, txn_reset(cl)) /\ NoTxn(txn_reset(cl))
         /\ txn_reset(cl).pos = cl.pos /\ txn_reset(cl).replies = cl.replies
         /\ txn_reset(cl).blocked_req = cl.blocked_req
<1>1. << >> \in Seq(Nat)
  OBVIOUS
<1>2. txn_reset(cl) \in Client
  BY <1>1, Zenon DEF Client, txn_reset
<1>3. /\ Framed(cl, txn_reset(cl)) /\ NoTxn(txn_reset(cl))
      /\ txn_reset(cl).pos = cl.pos /\ txn_reset(cl).replies = cl.replies
      /\ txn_reset(cl).blocked_req = cl.blocked_req
  BY DEF Client, txn_reset, Framed, NoTxn
<1> QED
  BY <1>2, <1>3

\* EXEC: refused, ended by an earlier refusal, or begun.
LEMMA ExecResponds ==
  ASSUME NEW c \in Conns, NEW cl \in Client, NEW j \in 1 .. Len(script[c]),
         j = cl.pos + 1, ~cl.close_after_reply, cl.blocked_req = 0,
         script[c][j].op = "exec",
         NEW new, new = IF cl.active THEN exec_transaction([cl EXCEPT !.pos = j], j)
                                     ELSE Say([cl EXCEPT !.pos = j], Reply(j, "error"))
  PROVE  /\ new \in Client /\ Framed(cl, new) /\ Consumes(c, j, cl, new)
         /\ IF cl.active /\ ~cl.error THEN Begins(c, j, cl, new) ELSE Responds(c, j, cl, new)
<1> DEFINE m == [cl EXCEPT !.pos = j]
<1>1. /\ m \in Client /\ Framed(cl, m) /\ SameTxn(cl, m) /\ m.pos = j
      /\ m.replies = cl.replies /\ m.blocked_req = 0
  BY ConsumeTyped DEF Consumes
<1>2. /\ j \in Nat /\ cl.active \in BOOLEAN /\ cl.error \in BOOLEAN
      /\ m.active = cl.active /\ m.error = cl.error /\ Len(cl.queue) \in Nat
      /\ m.queue = cl.queue
  <2>1. /\ cl.pos \in Nat /\ cl.active \in BOOLEAN /\ cl.error \in BOOLEAN
        /\ cl.queue \in Seq(Nat)
    BY DEF Client
  <2> HIDE DEF m
  <2> QED
    BY <1>1, <2>1 DEF SameTxn
<1> HIDE DEF m
<1> DEFINE r == [Reply(j, "array") EXCEPT !.n = Len(cl.queue)]
           e == Say(m, Reply(j, "error"))
           a == Say(m, r)
<1>3. Reply(j, "error") \in ReplyRecord /\ r \in ReplyRecord
  BY <1>2, ReplyTyped DEF Kinds
<1> HIDE DEF r
<1>4. /\ e \in Client /\ Framed(m, e) /\ SameTxn(m, e) /\ Says(m, e, Reply(j, "error"))
      /\ e.pos = m.pos /\ e.blocked_req = m.blocked_req
  BY <1>1, <1>3, SayTyped
<1>5. /\ a \in Client /\ Framed(m, a) /\ SameTxn(m, a) /\ Says(m, a, r)
      /\ a.pos = m.pos /\ a.blocked_req = m.blocked_req
  BY <1>1, <1>3, SayTyped
<1>6. Consumes(c, j, cl, new) <=> new.pos = j
  BY DEF Consumes
<1> HIDE DEF e, a
<1>7. CASE ~cl.active
  <2>1. new = e
    BY <1>2, <1>7 DEF e, m
  <2>2. Refuses(c, j, cl, new) /\ Framed(cl, new)
    BY <1>1, <1>2, <1>4, <1>7, <2>1, Zenon DEF Refuses, Says, SameTxn, Framed
  <2> QED
    BY <1>1, <1>2, <1>4, <1>6, <1>7, <2>1, <2>2 DEF Responds
<1>8. CASE cl.active /\ cl.error
  <2>1. new = txn_reset(e)
    BY <1>2, <1>8 DEF e, m, exec_transaction
  <2>2. /\ new \in Client /\ Framed(e, new) /\ NoTxn(new)
        /\ new.pos = e.pos /\ new.replies = e.replies /\ new.blocked_req = e.blocked_req
    BY <1>4, <2>1, ResetTyped
  <2>3. Resets(c, j, cl, new) /\ Framed(cl, new)
    BY <1>1, <1>4, <1>8, <2>2, Zenon DEF Resets, Says, Framed
  <2> QED
    BY <1>1, <1>2, <1>4, <1>6, <1>8, <2>2, <2>3 DEF Responds
<1>9. CASE cl.active /\ ~cl.error
  <2>1. new = a
    BY <1>2, <1>9 DEF a, r, m, exec_transaction
  <2>2. Begins(c, j, cl, new) /\ Framed(cl, new)
    BY <1>1, <1>5, <1>9, <2>1, Zenon DEF Begins, Says, SameTxn, Framed, r
  <2> QED
    BY <1>1, <1>2, <1>5, <1>6, <1>9, <2>1, <2>2
<1> QED
  BY <1>2, <1>7, <1>8, <1>9

\* A command that is run at once or retried.
LEMMA ServedTyped ==
  ASSUME NEW c \in Conns, NEW cl \in Client, NEW j \in Nat \ {0}, Scripts,
         j \in 1 .. Len(script[c]), NEW r, r.kind = "block" => script[c][j].timeout # Invalid,
         NEW new, new = Served(cl, c, j, r)
  PROVE  /\ r.kind = "block" =>
              /\ new \in Client /\ Framed(cl, new) /\ SameTxn(cl, new)
              /\ new.pos = cl.pos /\ new.replies = cl.replies /\ new.blocked_req = j
         /\ (r.kind # "block" /\ r \in ReplyRecord) =>
              /\ new \in Client /\ Framed(cl, new) /\ SameTxn(cl, new)
              /\ new.pos = cl.pos /\ Says(cl, new, r) /\ new.blocked_req = 0
<1>1. CASE r.kind = "block"
  <2> DEFINE p == Park(cl, c, j)
  <2>1. script[c][j].timeout \in Nat \cup {Forever}
    <3>1. script[c][j] \in Request
      BY DEF Scripts
    <3> QED
      BY <1>1, <3>1, ServerAssumption DEF Request
  <2>2. p \in Client
    BY <2>1, Zenon DEF Park, Client
  <2>3. /\ Framed(cl, p) /\ SameTxn(cl, p) /\ p.pos = cl.pos /\ p.replies = cl.replies
    BY DEF Park, Client, Framed, SameTxn
  <2> HIDE DEF p
  <2>4. new = [p EXCEPT !.blocked_req = j]
    BY <1>1 DEF Served, p
  <2>5. /\ new \in Client /\ Framed(p, new) /\ SameTxn(p, new)
        /\ new.pos = p.pos /\ new.replies = p.replies /\ new.blocked_req = j
    BY <2>2, <2>4, Zenon DEF Client, Framed, SameTxn
  <2> QED
    BY <1>1, <2>3, <2>5 DEF Framed, SameTxn
<1>2. CASE r.kind # "block" /\ r \in ReplyRecord
  <2> DEFINE s == Say(cl, r)
  <2>1. /\ s \in Client /\ Framed(cl, s) /\ SameTxn(cl, s) /\ Says(cl, s, r)
        /\ s.pos = cl.pos
    BY <1>2, SayTyped
  <2> HIDE DEF s
  <2>2. new = [s EXCEPT !.blocked_req = 0]
    BY <1>2 DEF Served, s
  <2>3. /\ new \in Client /\ Framed(s, new) /\ SameTxn(s, new)
        /\ new.pos = s.pos /\ new.replies = s.replies /\ new.blocked_req = 0
    <3>1. [s EXCEPT !.blocked_req = 0] \in Client
      <4>1. s \in Client
        BY <2>1
      <4> QED
        BY <4>1, Zenon DEF Client
    <3> QED
      BY <2>1, <2>2, <3>1 DEF Client, Framed, SameTxn
  <2> QED
    BY <1>2, <2>1, <2>3 DEF Framed, SameTxn, Says
<1> QED
  BY <1>1, <1>2, Zenon

LEMMA QueryLimitTyped ==
  ASSUME NEW cl \in Client, NEW new, new = QueryLimit(cl)
  PROVE  /\ new \in Client /\ Limits(cl, new)
         /\ new.got = cl.got /\ new.flushed = cl.flushed
         /\ cl.close_after_reply => new.close_after_reply
<1> DEFINE s == Say(cl, Reply(0, "limit"))
<1>1. CASE ~(InLen(cl) > MaxQuery)
  BY <1>1 DEF QueryLimit, Limits, Idles, SameTxn
<1>2. CASE InLen(cl) > MaxQuery
  <2>1. Reply(0, "limit") \in ReplyRecord
    BY ReplyTyped DEF Kinds
  <2>2. /\ s \in Client /\ Framed(cl, s) /\ SameTxn(cl, s) /\ Says(cl, s, Reply(0, "limit"))
        /\ s.pos = cl.pos /\ s.blocked_req = cl.blocked_req
    BY <2>1, SayTyped
  <2> HIDE DEF s
  <2>3. new = [s EXCEPT !.close_after_reply = TRUE]
    BY <1>2 DEF QueryLimit, s
  <2>4. new \in Client
    BY <2>2, <2>3, Zenon DEF Client
  <2>5. /\ SameTxn(s, new) /\ new.replies = s.replies /\ new.pos = s.pos
        /\ new.blocked_req = s.blocked_req /\ new.close_after_reply
        /\ new.got = s.got /\ new.flushed = s.flushed
    BY <2>2, <2>3 DEF Client, SameTxn
  <2> QED
    BY <2>2, <2>4, <2>5 DEF Limits, Says, SameTxn, Framed
<1> QED
  BY <1>1, <1>2

LEMMA AtEofTyped ==
  ASSUME NEW cl \in Client, NEW new, new = AtEof(cl)
  PROVE  /\ new \in Client /\ Idles(cl, new)
         /\ new.got = cl.got /\ new.flushed = cl.flushed /\ new.close_after_reply
<1>1. new \in Client
  BY Zenon DEF AtEof, Client
<1> QED
  BY <1>1 DEF AtEof, Client, Idles, SameTxn

LEMMA FreeTyped ==
  ASSUME NEW cl \in Client
  PROVE  /\ client_free(cl) \in Client /\ Frees(cl, client_free(cl))
         /\ Framed(cl, client_free(cl))
<1> DEFINE s == txn_reset(cl)
           f == [s EXCEPT !.blocked_req = 0]
<1>1. /\ s \in Client /\ NoTxn(s) /\ Framed(cl, s) /\ s.pos = cl.pos /\ s.replies = cl.replies
  BY ResetTyped
<1> HIDE DEF s
<1>2. f \in Client
  BY <1>1, Zenon DEF Client
<1>3. /\ NoTxn(f) /\ Framed(s, f) /\ f.pos = s.pos /\ f.replies = s.replies
      /\ f.blocked_req = 0
  BY <1>1 DEF Client, NoTxn, Framed
<1>4. client_free(cl) = f
  BY DEF client_free, s
<1> QED
  BY <1>1, <1>2, <1>3, <1>4 DEF Frees, Framed

-------------------------------------------------------------------------------
(* Every step moves each client                                            *)

LEMMA ClientFacts ==
  ASSUME Structure, NEW c \in Conns
  PROVE  /\ client[c] \in Client
         /\ client[c].got \in Nat /\ client[c].pos \in Nat /\ client[c].flushed \in Nat
         /\ client[c].blocked_req \in Nat /\ client[c].queue \in Seq(Nat)
         /\ client[c].active \in BOOLEAN /\ client[c].error \in BOOLEAN
         /\ client[c].close_after_reply \in BOOLEAN /\ client[c].closed \in BOOLEAN
         /\ client[c].replies \in Seq(ReplyRecord)
         /\ script[c] \in Seq(Request) /\ Len(script[c]) \in Nat
         /\ sent[c] \in Nat
         /\ Size \in Nat \ {0} /\ Size * client[c].pos \in Nat
         /\ Size * client[c].pos <= client[c].got
         /\ client[c].got <= sent[c] /\ sent[c] <= Size * Len(script[c])
<1>1. client[c] \in Client /\ script[c] \in Seq(Request) /\ sent[c] \in Nat
  BY DEF Structure, Typed, TypeOK, Scripts
<1>2. InLen(client[c]) \in Nat /\ client[c].got <= sent[c] /\ sent[c] <= Size * Len(script[c])
  BY DEF Structure, Typed, TypeOK
<1>3. /\ client[c].got \in Nat /\ client[c].pos \in Nat /\ client[c].flushed \in Nat
      /\ client[c].blocked_req \in Nat /\ client[c].queue \in Seq(Nat)
      /\ client[c].active \in BOOLEAN /\ client[c].error \in BOOLEAN
      /\ client[c].close_after_reply \in BOOLEAN /\ client[c].closed \in BOOLEAN
      /\ client[c].replies \in Seq(ReplyRecord)
  BY <1>1, Zenon DEF Client
<1>4. Size \in Nat \ {0} /\ Size * client[c].pos \in Nat
  <2>1. Size \in Nat \ {0}
    BY ServerAssumption
  <2>2. \A p \in Nat : Size * p \in Nat
    BY <2>1
  <2> QED
    BY <1>3, <2>1, <2>2, Zenon
<1>5. Size * client[c].pos <= client[c].got
  <2>1. client[c].got - Size * client[c].pos \in Nat
    BY <1>2 DEF InLen
  <2>2. \A a, b \in Nat : a - b \in Nat => b <= a
    OBVIOUS
  <2> QED
    BY <1>3, <1>4, <2>1, <2>2, Zenon
<1> QED
  BY <1>1, <1>2, <1>3, <1>4, <1>5

LEMMA Outgoing ==
  ASSUME Structure, NEW c \in Conns
  PROVE  /\ client[c].flushed \in Nat /\ Len(client[c].replies) \in Nat
         /\ OutLen(client[c]) = Len(client[c].replies) - client[c].flushed
         /\ OutLen(client[c]) \in Nat /\ client[c].flushed <= Len(client[c].replies)
<1>1. OutLen(client[c]) \in Nat
  BY Zenon DEF Structure, Typed, TypeOK
<1>2. client[c].flushed \in Nat /\ client[c].replies \in Seq(ReplyRecord)
  BY ClientFacts
<1>3. Len(client[c].replies) \in Nat
  BY <1>2
<1> QED
  BY <1>1, <1>2, <1>3 DEF OutLen

\* Requests that are consumed have been sent.
LEMMA PosInScript ==
  ASSUME Structure, NEW c \in Conns
  PROVE  /\ client[c].pos <= Len(script[c])
         /\ InLen(client[c]) > 0 => client[c].pos + 1 \in 1 .. Len(script[c])
<1> DEFINE pos == client[c].pos
           got == client[c].got
           n == Len(script[c])
<1>1. /\ pos \in Nat /\ got \in Nat /\ n \in Nat /\ Size \in Nat \ {0} /\ sent[c] \in Nat
      /\ Size * pos <= got /\ got <= sent[c] /\ sent[c] <= Size * n
  BY ClientFacts
<1>2. InLen(client[c]) = got - Size * pos
  BY DEF InLen
<1> HIDE DEF pos, got, n
<1>3. Size * pos \in Nat /\ Size * n \in Nat
  BY <1>1
<1>4. Size * pos <= Size * n
  BY <1>1, <1>3
<1>5. pos <= n
  BY <1>1, <1>4
<1>6. ASSUME got - Size * pos > 0 PROVE pos < n
  <2>1. Size * pos < Size * n
    BY <1>1, <1>3, <1>6
  <2> QED
    BY <1>1, <2>1
<1>7. got - Size * pos > 0 => pos + 1 \in 1 .. n
  BY <1>1, <1>6
<1> QED
  BY <1>2, <1>5, <1>7 DEF pos, n

LEMMA CurrentFacts ==
  ASSUME Structure, todo # << >>
  PROVE  /\ Current \in Conns /\ Current \in Range(clients) /\ Current \in Range(todo)
         /\ Range(todo) = Range(Tail(todo)) \cup {Current}
         /\ Current \notin Range(Tail(todo))
         /\ Tail(todo) \in Seq(Conns) /\ Distinct(Tail(todo))
<1>1. todo \in Seq(Conns) /\ Distinct(todo) /\ Range(todo) \subseteq Range(clients)
  BY DEF Structure, Typed, TypeOK, Visits
<1> QED
  BY <1>1, TailElements DEF Current

\* A client other than the current one keeps its record.
LEMMA OthersEvolve ==
  ASSUME NEW d \in Conns, client'[d] = client[d], Executing(d)' <=> Executing(d)
  PROVE  Evolves(d)
BY Zenon DEF Evolves, Idles, SameTxn

LEMMA ProcessRequestStep ==
  ASSUME LeastNumbers, Structure, ProcessRequest
  PROVE  /\ client' \in [Conns -> Client] /\ db' \in Contents
         /\ Framed(client[Current], client'[Current])
         /\ client'[Current].pos = client[Current].pos + 1
         /\ InLen(client[Current]) >= Size
         /\ pc' = "exec" => Begins(Current, client[Current].pos + 1, client[Current], client'[Current])
         /\ \A d \in Conns : Evolves(d) /\ (d # Current => client'[d] = client[d])
         /\ db' = db \/ \E d \in Conns : Deals(d)
<1>0. PICK c \in Conns : c = Current
  BY CurrentFacts, Zenon DEF ProcessRequest, Structure, Visits
<1> USE <1>0
<1> DEFINE cl == client[c]
           j == cl.pos + 1
           m == [cl EXCEPT !.pos = j]
           op == script[c][j].op
           new == client'[c]
           r == run(db, c, j, TRUE, FALSE)
<1>1. pc = "process" /\ todo # << >> /\ c \in Conns
  BY CurrentFacts, Zenon DEF ProcessRequest, Structure, Visits
<1>2. /\ cl \in Client /\ cl.pos \in Nat /\ cl.active \in BOOLEAN
      /\ client \in [Conns -> Client] /\ db \in Contents /\ Scripts
  BY <1>1, ClientFacts, Zenon DEF Structure, Typed, TypeOK, Contents
<1>3. /\ ~cl.close_after_reply /\ cl.blocked_req = 0 /\ InLen(cl) > 0
      /\ resp_parse_command(cl, c) = "ok"
  BY Zenon DEF ProcessRequest, Looping
<1>4. j \in 1 .. Len(script[c]) /\ j \in Nat \ {0} /\ script[c] \in Seq(Request)
  BY <1>1, <1>2, <1>3, PosInScript DEF Scripts
<1>5. op \in Ops /\ op # "garbage" /\ ~(InLen(cl) < Size)
  <2>1. script[c][j] \in Request
    BY <1>4
  <2> QED
    BY <1>3, <2>1 DEF resp_parse_command, Request
<1>6. InLen(cl) >= Size
  BY <1>1, <1>2, <1>5, ClientFacts DEF InLen
<1>7. m.pos = j /\ m = [client[Current] EXCEPT !.pos = @ + 1] /\ m.active = cl.active
      /\ m.error = cl.error
  BY <1>2 DEF Client
<1>8. UNCHANGED <<todo, script, clients>>
  BY Zenon DEF ProcessRequest, env
<1> HIDE DEF m
<1>9. \/ /\ op = "blank" /\ client' = [client EXCEPT ![c] = m]
         /\ UNCHANGED <<db, pc>>
      \/ /\ op \in {"invalid", "multi", "discard"} \/ (cl.active /\ op \in Cmds)
         /\ client' = [client EXCEPT ![c] = Answer(m, j, op)]
         /\ UNCHANGED <<db, pc>>
      \/ /\ op = "exec"
         /\ client' = [client EXCEPT ![c] = IF m.active THEN exec_transaction(m, j)
                                            ELSE Say(m, Reply(j, "error"))]
         /\ pc' = IF m.active /\ ~m.error THEN "exec" ELSE pc
         /\ UNCHANGED db
      \/ /\ ~cl.active /\ op \in Cmds
         /\ client' = [client EXCEPT ![c] = Served(m, c, j, r.reply)]
         /\ db' = r.db
         /\ UNCHANGED pc
  BY <1>7, Zenon DEF ProcessRequest, Set, Cmds
<1>10. SUFFICES /\ \E n \in Client : client' = [client EXCEPT ![c] = n]
                /\ db' \in Contents /\ Framed(cl, new) /\ new.pos = j
                /\ db' = db \/ \E a \in ReplyRecord :
                                 /\ new.replies = Append(cl.replies, a)
                                 /\ Outcome(c, j, db, db', a)
                /\ \/ pc' = "process" /\ Responds(c, j, cl, new)
                   \/ pc' = "exec" /\ Consumes(c, j, cl, new) /\ Begins(c, j, cl, new)
  <2>1. PICK n \in Client : client' = [client EXCEPT ![c] = n]
    BY <1>10, Zenon
  <2>2. client' \in [Conns -> Client] /\ \A d \in Conns : d # c => client'[d] = client[d]
    BY <1>1, <1>2, <2>1
  <2>3. \A d \in Conns : ~Executing(d) /\ (d # c => ~Executing(d)')
    BY <1>1, <1>8, Zenon DEF Executing, Current
  <2>4. \A d \in Conns : d # c => Evolves(d)
    BY <1>1, <2>2, <2>3, OthersEvolve
  <2>5. Evolves(c)
    <3>1. Executing(c)' <=> pc' = "exec"
      BY <1>8 DEF Executing, Current
    <3> QED
      BY <1>1, <1>10, <2>3, <3>1, Zenon DEF Evolves
  <2>6. db' = db \/ \E d \in Conns : Deals(d)
    BY <1>4, <1>10, <2>2, Zenon DEF Deals
  <2> QED
    BY <1>6, <1>10, <2>2, <2>4, <2>5, <2>6, Zenon
<1>11. /\ m \in Client /\ Framed(cl, m) /\ SameTxn(cl, m) /\ Consumes(c, j, cl, m)
       /\ m.replies = cl.replies /\ m.blocked_req = 0
  BY <1>1, <1>2, <1>3, <1>4, ConsumeTyped DEF m
<1>12. CASE /\ op = "blank" /\ client' = [client EXCEPT ![c] = m]
            /\ UNCHANGED <<db, pc>>
  <2>1. new = m
    BY <1>1, <1>2, <1>12
  <2>2. Responds(c, j, cl, new)
    BY <1>11, <1>12, <2>1, Zenon DEF Responds, Skips
  <2> QED
    BY <1>1, <1>2, <1>7, <1>11, <1>12, <2>1, <2>2, Zenon
<1>13. CASE /\ op \in {"invalid", "multi", "discard"} \/ (cl.active /\ op \in Cmds)
            /\ client' = [client EXCEPT ![c] = Answer(m, j, op)]
            /\ UNCHANGED <<db, pc>>
  <2>1. new = Answer(m, j, op)
    BY <1>1, <1>2, <1>13, Zenon
  <2>2. new \in Client /\ Framed(cl, new) /\ Responds(c, j, cl, new)
    BY <1>1, <1>2, <1>3, <1>4, <1>13, <2>1, AnswerResponds DEF m
  <2> QED
    BY <1>1, <1>2, <1>13, <2>1, <2>2, Zenon DEF Responds, Consumes
<1>14. CASE /\ op = "exec"
            /\ client' = [client EXCEPT ![c] = IF m.active THEN exec_transaction(m, j)
                                               ELSE Say(m, Reply(j, "error"))]
            /\ pc' = IF m.active /\ ~m.error THEN "exec" ELSE pc
            /\ UNCHANGED db
  <2>1. new = IF m.active THEN exec_transaction(m, j) ELSE Say(m, Reply(j, "error"))
    BY <1>1, <1>2, <1>14
  <2>2. /\ new \in Client /\ Framed(cl, new) /\ Consumes(c, j, cl, new)
        /\ IF m.active /\ ~m.error THEN Begins(c, j, cl, new) ELSE Responds(c, j, cl, new)
    <3>1. /\ new \in Client /\ Framed(cl, new) /\ Consumes(c, j, cl, new)
          /\ IF cl.active /\ ~cl.error THEN Begins(c, j, cl, new)
                                      ELSE Responds(c, j, cl, new)
      BY <1>1, <1>2, <1>3, <1>4, <1>7, <1>14, <2>1, ExecResponds DEF m
    <3> QED
      BY <1>7, <3>1
  <2> QED
    BY <1>1, <1>2, <1>14, <2>1, <2>2, Zenon DEF Consumes
<1>15. CASE /\ ~cl.active /\ op \in Cmds
            /\ client' = [client EXCEPT ![c] = Served(m, c, j, r.reply)]
            /\ db' = r.db
            /\ UNCHANGED pc
  <2>1. new = Served(m, c, j, r.reply)
    BY <1>1, <1>2, <1>15, Zenon
  <2>2. \/ /\ r.reply = Reply(j, "block") /\ r.db = db /\ op = "blpop"
           /\ script[c][j].timeout # Invalid
        \/ Outcome(c, j, db, r.db, r.reply)
    BY <1>1, <1>2, <1>4, <1>15, RunOutcome, Zenon DEF Cmds
  <2> HIDE DEF r, new, j, cl
  <2>3. CASE /\ r.reply = Reply(j, "block") /\ r.db = db /\ op = "blpop"
             /\ script[c][j].timeout # Invalid
    <3>1. r.reply.kind = "block"
      BY <2>3 DEF Reply
    <3>2. /\ new \in Client /\ Framed(m, new) /\ SameTxn(m, new)
          /\ new.pos = m.pos /\ new.replies = m.replies /\ new.blocked_req = j
      BY <1>1, <1>2, <1>4, <1>11, <2>1, <2>3, <3>1, ServedTyped
    <3>3. Responds(c, j, cl, new) /\ Framed(cl, new)
      BY <1>7, <1>11, <1>15, <2>3, <3>2, Zenon DEF Responds, Consumes, Parks, SameTxn, Framed
    <3> QED
      BY <1>1, <1>2, <1>7, <1>15, <2>1, <2>3, <3>2, <3>3, Zenon
  <2>4. CASE Outcome(c, j, db, r.db, r.reply)
    <3>1. r.reply \in ReplyRecord /\ r.reply.kind # "block" /\ r.db \in Contents
      <4>1. /\ r.reply \in ReplyRecord /\ r.db \in Contents
            /\ r.reply.kind \in {"error", "nil", "int", "elem"}
        BY <1>1, <1>2, <1>4, <2>4, OutcomeTyped
      <4> QED
        BY <4>1, Zenon
    <3>2. /\ new \in Client /\ Framed(m, new) /\ SameTxn(m, new)
          /\ new.pos = m.pos /\ Says(m, new, r.reply) /\ new.blocked_req = 0
      BY <1>1, <1>2, <1>4, <1>11, <2>1, <3>1, ServedTyped
    <3>3. Framed(cl, new) /\ SameTxn(cl, new) /\ Says(cl, new, r.reply)
      BY <1>11, <3>2, Zenon DEF SameTxn, Framed, Says
    <3>4. Runs(c, j, cl, new)
      BY <1>15, <2>4, <3>2, <3>3, Zenon DEF Runs
    <3>5. Responds(c, j, cl, new)
      BY <1>7, <1>11, <3>2, <3>4 DEF Responds, Consumes
    <3>6. \E a \in ReplyRecord : /\ new.replies = Append(cl.replies, a)
                                /\ Outcome(c, j, db, db', a)
      BY <1>15, <2>4, <3>1, <3>3, Zenon DEF Says
    <3> QED
      BY <1>1, <1>7, <1>15, <2>1, <3>1, <3>2, <3>3, <3>5, <3>6, Zenon
  <2> QED
    BY <2>2, <2>3, <2>4, Zenon
<1> QED
  BY <1>9, <1>12, <1>13, <1>14, <1>15, Zenon

LEMMA ExecCommandStep ==
  ASSUME LeastNumbers, Structure, ExecCommand
  PROVE  /\ client' \in [Conns -> Client] /\ db' \in Contents
         /\ Framed(client[Current], client'[Current])
         /\ client'[Current].pos = client[Current].pos
         /\ \A d \in Conns : Evolves(d) /\ (d # Current => client'[d] = client[d])
         /\ \E d \in Conns : Deals(d)
<1>0. PICK c \in Conns : c = Current
  BY CurrentFacts, Zenon DEF ExecCommand, Structure, Visits
<1> USE <1>0
<1> DEFINE cl == client[c]
           j == Head(cl.queue)
           new == client'[c]
           r == run(db, c, j, FALSE, FALSE)
           s == Say(cl, r.reply)
<1>1. pc = "exec" /\ todo # << >> /\ c \in Conns
  BY CurrentFacts, Zenon DEF ExecCommand, Structure, Visits
<1>2. /\ cl \in Client /\ cl.pos \in Nat /\ cl.queue \in Seq(Nat) /\ cl.queue # << >>
      /\ client \in [Conns -> Client] /\ db \in Contents /\ Scripts
  BY <1>1, ClientFacts, Zenon DEF Structure, Typed, TypeOK, Contents, ExecCommand
<1>3. UNCHANGED <<todo, pc>> /\ db' = r.db
      /\ client' = [client EXCEPT ![c] = [s EXCEPT !.queue = Tail(@)]]
  BY Zenon DEF ExecCommand, Set, loop
<1>4. j \in 1 .. Len(script[c]) /\ script[c][j].op \in Cmds
  <2>1. 1 \in 1 .. Len(cl.queue) /\ j = cl.queue[1]
    BY <1>2
  <2>2. j \in 1 .. cl.pos /\ script[c][j].op \in Cmds
    BY <1>1, <2>1, Zenon DEF Structure, Requests, RequestsOf
  <2>3. cl.pos <= Len(script[c]) /\ Len(script[c]) \in Nat
    BY <1>1, PosInScript, ClientFacts
  <2> QED
    BY <1>2, <2>2, <2>3
<1>5. Outcome(c, j, db, r.db, r.reply)
  BY <1>1, <1>2, <1>4, RunOutcome, Zenon DEF Cmds
<1> HIDE DEF r
<1>6. r.reply \in ReplyRecord /\ r.db \in Contents
  BY <1>1, <1>2, <1>4, <1>5, OutcomeTyped, Zenon
<1>7. /\ s \in Client /\ Framed(cl, s) /\ SameTxn(cl, s) /\ Says(cl, s, r.reply)
      /\ s.pos = cl.pos /\ s.blocked_req = cl.blocked_req
  BY <1>2, <1>6, SayTyped, Zenon
<1> HIDE DEF s
<1>8. new = [s EXCEPT !.queue = Tail(s.queue)]
  BY <1>1, <1>2, <1>3
<1>9. Tail(s.queue) \in Seq(Nat) /\ s.queue = cl.queue
  BY <1>2, <1>7 DEF SameTxn
<1>10. new \in Client
  BY <1>7, <1>8, <1>9, Zenon DEF Client
<1>11. /\ Framed(s, new) /\ new.replies = s.replies /\ new.queue = Tail(cl.queue)
       /\ new.active = s.active /\ new.error = s.error /\ new.pos = s.pos
       /\ new.blocked_req = s.blocked_req
  BY <1>7, <1>8, <1>9 DEF Client, Framed
<1>12. Framed(cl, new) /\ Says(cl, new, r.reply) /\ new.pos = cl.pos
  BY <1>7, <1>11, Zenon DEF Framed, Says
<1>13. Executes(c, cl, new)
  BY <1>2, <1>3, <1>5, <1>7, <1>11, <1>12 DEF Executes, SameTxn
<1>14. client' \in [Conns -> Client] /\ \A d \in Conns : d # c => client'[d] = client[d]
  BY <1>1, <1>2, <1>3, <1>8, <1>10
<1>15. \A d \in Conns : /\ d # c => ~Executing(d) /\ ~Executing(d)'
                        /\ d = c => Executing(d) /\ Executing(d)'
  BY <1>1, <1>3 DEF Executing, Current
<1>16. \A d \in Conns : d # c => Evolves(d)
  BY <1>14, <1>15, OthersEvolve
<1>17. Evolves(c)
  BY <1>1, <1>13, <1>15, Zenon DEF Evolves
<1>18. Deals(c)
  <2>1. new.replies = Append(cl.replies, r.reply) /\ Outcome(c, j, db, db', r.reply)
    BY <1>3, <1>5, <1>12, Zenon DEF Says
  <2> QED
    BY <1>2, <1>4, <1>6, <1>14, <2>1, Zenon DEF Deals
<1> QED
  BY <1>3, <1>6, <1>12, <1>14, <1>16, <1>17, <1>18

LEMMA ExecDoneStep ==
  ASSUME Structure, ExecDone
  PROVE  /\ client' \in [Conns -> Client]
         /\ Framed(client[Current], client'[Current])
         /\ client'[Current].pos = client[Current].pos
         /\ \A d \in Conns : Evolves(d) /\ (d # Current => client'[d] = client[d])
<1>0. PICK c \in Conns : c = Current
  BY CurrentFacts, Zenon DEF ExecDone, Structure, Visits
<1> USE <1>0
<1> DEFINE cl == client[c]
           new == client'[c]
<1>1. pc = "exec" /\ todo # << >> /\ c \in Conns
  BY CurrentFacts, Zenon DEF ExecDone, Structure, Visits
<1>2. /\ cl \in Client /\ cl.queue = << >> /\ client \in [Conns -> Client]
  BY <1>1, ClientFacts, Zenon DEF Structure, Typed, TypeOK, ExecDone
<1>3. todo' = todo /\ pc' = "process" /\ client' = [client EXCEPT ![c] = txn_reset(cl)]
  BY DEF ExecDone, Set
<1>4. new = txn_reset(cl)
  BY <1>1, <1>2, <1>3
<1>5. /\ new \in Client /\ Framed(cl, new) /\ NoTxn(new) /\ new.pos = cl.pos
      /\ new.replies = cl.replies /\ new.blocked_req = cl.blocked_req
  BY <1>2, <1>4, ResetTyped, ZenonT(40)
<1>6. Finishes(cl, new)
  BY <1>2, <1>5 DEF Finishes
<1>7. client' \in [Conns -> Client] /\ \A d \in Conns : d # c => client'[d] = client[d]
  BY <1>1, <1>2, <1>3, <1>4, <1>5
<1>8. \A d \in Conns : ~Executing(d)' /\ (d # c => ~Executing(d)) /\ (d = c => Executing(d))
  BY <1>1, <1>3 DEF Executing, Current
<1>9. \A d \in Conns : d # c => Evolves(d)
  BY <1>7, <1>8, OthersEvolve
<1>10. Evolves(c)
  BY <1>1, <1>6, <1>8, Zenon DEF Evolves
<1> QED
  BY <1>5, <1>7, <1>9, <1>10

LEMMA ServiceStep ==
  ASSUME LeastNumbers, Structure, Service
  PROVE  /\ client' \in [Conns -> Client] /\ db' \in Contents
         /\ Framed(client[Current], client'[Current])
         /\ client'[Current].pos = client[Current].pos
         /\ pc' = "process" => client'[Current].blocked_req = 0
         /\ \A d \in Conns : Evolves(d) /\ (d # Current => client'[d] = client[d])
         /\ db' = db \/ \E d \in Conns : Deals(d)
<1>0. PICK c \in Conns : c = Current
  BY CurrentFacts, Zenon DEF Service
<1> USE <1>0
<1> DEFINE cl == client[c]
           j == cl.blocked_req
           new == client'[c]
           timed_out == c \in lapsed
           r == run(db, c, j, TRUE, timed_out)
<1>1. pc = "service" /\ todo # << >> /\ c \in Conns /\ c \in Range(todo)
  BY CurrentFacts, Zenon DEF Service
<1>2. /\ cl \in Client /\ cl.pos \in Nat
      /\ client \in [Conns -> Client] /\ db \in Contents /\ Scripts
  BY <1>1, ClientFacts, Zenon DEF Structure, Typed, TypeOK, Contents
<1>3. /\ client' = [client EXCEPT ![c] = Served(cl, c, j, r.reply)] /\ db' = r.db
      /\ IF r.reply.kind = "block" THEN pc' = pc ELSE pc' = "process"
  BY Zenon DEF Service, Set
<1>4. j # 0 /\ j = cl.pos /\ script[c][j].op = "blpop"
  BY <1>1, ZenonT(40) DEF Structure, Visits, Requests, RequestsOf
<1>5. j \in 1 .. Len(script[c]) /\ j \in Nat \ {0}
  BY <1>1, <1>2, <1>4, PosInScript, ClientFacts
<1>6. timed_out \in BOOLEAN
  OBVIOUS
<1> HIDE DEF timed_out
<1>7. \/ /\ r.reply = Reply(j, "block") /\ r.db = db /\ script[c][j].timeout # Invalid
      \/ Outcome(c, j, db, r.db, r.reply)
  BY <1>1, <1>2, <1>4, <1>5, <1>6, RunOutcome, Zenon
<1> HIDE DEF r
<1>8. new = Served(cl, c, j, r.reply)
  BY <1>1, <1>2, <1>3, Zenon
<1>9. \A d \in Conns : ~Executing(d) /\ ~Executing(d)'
  BY <1>1, <1>3 DEF Executing
<1>10. SUFFICES /\ new \in Client /\ db' \in Contents /\ Framed(cl, new) /\ new.pos = cl.pos
                /\ pc' = "process" => new.blocked_req = 0
                /\ Idles(cl, new) \/ Wakes(c, cl, new)
                /\ db' = db \/ \E a \in ReplyRecord :
                                 /\ new.replies = Append(cl.replies, a)
                                 /\ Outcome(c, j, db, db', a)
  <2>1. client' \in [Conns -> Client] /\ \A d \in Conns : d # c => client'[d] = client[d]
    BY <1>1, <1>2, <1>3, <1>8, <1>10, Zenon
  <2>2. \A d \in Conns : d # c => Evolves(d)
    BY <1>9, <2>1, OthersEvolve, Zenon
  <2>3. Evolves(c)
    BY <1>1, <1>9, <1>10, Zenon DEF Evolves
  <2>4. db' = db \/ \E d \in Conns : Deals(d)
    BY <1>4, <1>5, <1>10, <2>1, Zenon DEF Deals
  <2> QED
    BY <1>10, <2>1, <2>2, <2>3, <2>4, Zenon
<1> HIDE DEF new, j, cl
<1>11. CASE r.reply = Reply(j, "block") /\ r.db = db /\ script[c][j].timeout # Invalid
  <2>1. r.reply.kind = "block"
    BY <1>11 DEF Reply
  <2>2. /\ new \in Client /\ Framed(cl, new) /\ SameTxn(cl, new)
        /\ new.pos = cl.pos /\ new.replies = cl.replies /\ new.blocked_req = j
    BY <1>1, <1>2, <1>5, <1>8, <1>11, <2>1, ServedTyped
  <2> QED
    BY <1>1, <1>2, <1>3, <1>11, <2>1, <2>2, Zenon DEF Idles, j
<1>12. CASE Outcome(c, j, db, r.db, r.reply)
  <2>1. /\ r.reply \in ReplyRecord /\ r.db \in Contents
        /\ r.reply.kind \in {"error", "nil", "int", "elem"}
    BY <1>1, <1>2, <1>5, <1>12, OutcomeTyped, Zenon
  <2>2. r.reply.kind # "block"
    BY <2>1
  <2>3. /\ new \in Client /\ Framed(cl, new) /\ SameTxn(cl, new)
        /\ new.pos = cl.pos /\ Says(cl, new, r.reply) /\ new.blocked_req = 0
    BY <1>1, <1>2, <1>5, <1>8, <2>1, <2>2, ServedTyped
  <2>4. Wakes(c, cl, new)
    BY <1>3, <1>4, <1>12, <2>3, Zenon DEF Wakes, j
  <2>5. new.replies = Append(cl.replies, r.reply) /\ Outcome(c, j, db, db', r.reply)
    BY <1>3, <1>12, <2>3, Zenon DEF Says
  <2> QED
    BY <1>3, <2>1, <2>3, <2>4, <2>5, Zenon
<1> QED
  BY <1>7, <1>11, <1>12, Zenon

LEMMA ProtocolErrorTyped ==
  ASSUME Structure, NEW c \in Conns, NEW new, new = ProtocolError(client[c], c)
  PROVE  /\ new \in Client /\ Protests(c, client[c], new)
         /\ new.got = client[c].got /\ new.flushed = client[c].flushed
<1> DEFINE cl == client[c]
           s == Say(cl, Reply(cl.pos + 1, "protocol"))
<1>1. cl \in Client /\ cl.pos + 1 \in Nat
  BY ClientFacts
<1>2. CASE ~(Looping(cl) /\ resp_parse_command(cl, c) = "error")
  <2>1. new = cl
    BY <1>2 DEF ProtocolError
  <2> QED
    BY <1>1, <2>1, Zenon DEF Protests, Idles, SameTxn
<1>3. CASE Looping(cl) /\ resp_parse_command(cl, c) = "error"
  <2>1. /\ ~cl.close_after_reply /\ cl.blocked_req = 0
        /\ cl.pos + 1 \in 1 .. Len(script[c])
    BY <1>3, PosInScript DEF Looping
  <2>2. script[c][cl.pos + 1].op = "garbage"
    BY <1>3 DEF resp_parse_command
  <2>3. Reply(cl.pos + 1, "protocol") \in ReplyRecord
    BY <1>1, ReplyTyped DEF Kinds
  <2>4. /\ s \in Client /\ Framed(cl, s) /\ SameTxn(cl, s)
        /\ Says(cl, s, Reply(cl.pos + 1, "protocol"))
        /\ s.pos = cl.pos /\ s.blocked_req = cl.blocked_req
    BY <1>1, <2>3, SayTyped, Zenon
  <2> HIDE DEF s
  <2>5. new = [s EXCEPT !.close_after_reply = TRUE]
    BY <1>3 DEF ProtocolError, s
  <2>6. new \in Client
    BY <2>4, <2>5, Zenon DEF Client
  <2>7. /\ SameTxn(s, new) /\ new.replies = s.replies /\ new.pos = s.pos
        /\ new.blocked_req = s.blocked_req /\ new.close_after_reply
        /\ new.got = s.got /\ new.flushed = s.flushed
    BY <2>4, <2>5 DEF Client, SameTxn
  <2> QED
    BY <2>1, <2>2, <2>4, <2>6, <2>7, Zenon DEF Protests, Says, SameTxn, Framed
<1> QED
  BY <1>2, <1>3, Zenon

LEMMA ProcessReturnStep ==
  ASSUME Structure, ProcessReturn
  PROVE  /\ client' \in [Conns -> Client]
         /\ client'[Current].got = client[Current].got
         /\ client'[Current].flushed = client[Current].flushed
         /\ client'[Current].pos = client[Current].pos
         /\ client[Current].close_after_reply => client'[Current].close_after_reply
         /\ \A d \in Conns : Evolves(d) /\ (d # Current => client'[d] = client[d])
<1>0. PICK c \in Conns : c = Current
  BY CurrentFacts, Zenon DEF ProcessReturn, Structure, Visits
<1> USE <1>0
<1> DEFINE cl == client[c]
           mid == ProtocolError(cl, c)
           lim == QueryLimit(mid)
           fin == IF eof THEN AtEof(lim) ELSE lim
           new == client'[c]
<1>1. /\ pc = "process" /\ pc' = caller /\ caller \in {"read", "service"}
      /\ client \in [Conns -> Client] /\ client' = [client EXCEPT ![c] = fin]
  BY DEF ProcessReturn, Set, Structure, Typed, TypeOK
<1>2. mid \in Client /\ Protests(c, cl, mid) /\ mid.got = cl.got /\ mid.flushed = cl.flushed
  BY ProtocolErrorTyped
<1> HIDE DEF mid
<1>3. lim \in Client /\ Limits(mid, lim) /\ lim.got = mid.got /\ lim.flushed = mid.flushed
  BY <1>2, QueryLimitTyped
<1> HIDE DEF lim
<1>4. /\ fin \in Client /\ Idles(lim, fin) /\ fin.got = lim.got /\ fin.flushed = lim.flushed
      /\ lim.close_after_reply => fin.close_after_reply
  <2>1. CASE eof
    BY <1>3, <2>1, AtEofTyped
  <2>2. CASE ~eof
    BY <1>3, <2>2 DEF Idles, SameTxn
  <2> QED
    BY <2>1, <2>2
<1> HIDE DEF fin
<1>5. Turns(c, cl, fin)
  <2>1. Limits(mid, fin)
    BY <1>3, <1>4 DEF Limits, Idles, SameTxn, Says
  <2> QED
    BY <1>2, <2>1 DEF Turns
<1>6. /\ client' \in [Conns -> Client] /\ new = fin
      /\ \A d \in Conns : d # c => client'[d] = client[d]
  BY <1>1, <1>4
<1>7. \A d \in Conns : ~Executing(d) /\ ~Executing(d)'
  BY <1>1 DEF Executing
<1>8. \A d \in Conns : d # c => Evolves(d)
  BY <1>6, <1>7, OthersEvolve
<1>9. Evolves(c)
  BY <1>5, <1>6, <1>7, Zenon DEF Evolves
<1>10. fin.pos = cl.pos /\ (cl.close_after_reply => fin.close_after_reply)
  BY <1>2, <1>3, <1>4, Zenon DEF Protests, Limits, Idles
<1> QED
  BY <1>2, <1>3, <1>4, <1>6, <1>8, <1>9, <1>10

LEMMA WriteTyped ==
  ASSUME Structure, NEW c \in Conns, NEW failed \in BOOLEAN,
         NEW new, new = write_to_client(c, failed)
  PROVE  /\ new \in Client /\ Idles(client[c], new) /\ new.got = client[c].got
         /\ new.close_after_reply = client[c].close_after_reply
         /\ new.flushed <= Len(new.replies)
         /\ peer[c] # "gone" => wire[c] + new.flushed - client[c].flushed \in 0 .. SocketRoom
<1> DEFINE cl == client[c]
           w == Written(c)
           s == [cl EXCEPT !.flushed = cl.flushed + w]
           f == [s EXCEPT !.closed = cl.close_after_reply /\ OutLen(s) = 0]
<1>1. /\ cl \in Client /\ cl.flushed \in Nat /\ Len(cl.replies) \in Nat
      /\ OutLen(cl) = Len(cl.replies) - cl.flushed /\ OutLen(cl) \in Nat
      /\ cl.close_after_reply \in BOOLEAN
  BY ClientFacts, Outgoing, Zenon
<1>2. wire[c] \in 0 .. SocketRoom /\ SocketRoom \in Nat
  BY ServerAssumption DEF Structure, Typed
<1>3. w \in Nat /\ w <= OutLen(cl) /\ (peer[c] # "gone" => w <= SocketRoom - wire[c])
  BY <1>1, <1>2 DEF Written
<1>4. \/ new = cl
      \/ new = [cl EXCEPT !.closed = TRUE]
      \/ new = f
  BY DEF write_to_client
<1>5. CASE new = cl
  BY <1>1, <1>2, <1>5 DEF Idles, SameTxn
<1>6. CASE new = [cl EXCEPT !.closed = TRUE]
  <2>1. new \in Client
    BY <1>1, <1>6, Zenon DEF Client
  <2>2. /\ Idles(cl, new) /\ new.got = cl.got /\ new.flushed = cl.flushed
        /\ new.close_after_reply = cl.close_after_reply /\ new.replies = cl.replies
    BY <1>1, <1>6 DEF Client, Idles, SameTxn
  <2>3. cl.flushed <= Len(cl.replies)
    BY <1>1
  <2>4. wire[c] + cl.flushed - cl.flushed \in 0 .. SocketRoom
    BY <1>1, <1>2
  <2> QED
    BY <2>1, <2>2, <2>3, <2>4, Zenon
<1>7. CASE new = f
  <2> HIDE DEF w
  <2>1. cl.flushed + w \in Nat
    BY <1>1, <1>3
  <2>2. s \in Client
    BY <1>1, <2>1, Zenon DEF Client
  <2>3. /\ Idles(cl, s) /\ s.got = cl.got /\ s.flushed = cl.flushed + w
        /\ s.close_after_reply = cl.close_after_reply /\ s.replies = cl.replies
    BY <1>1 DEF Client, Idles, SameTxn
  <2>4. (cl.close_after_reply /\ OutLen(s) = 0) \in BOOLEAN
    BY <1>1
  <2> HIDE DEF s
  <2>5. f \in Client
    BY <2>2, <2>4, Zenon DEF Client
  <2>6. /\ Idles(s, f) /\ f.got = s.got /\ f.flushed = s.flushed
        /\ f.close_after_reply = s.close_after_reply /\ f.replies = s.replies
    BY <2>2 DEF Client, Idles, SameTxn
  <2> HIDE DEF f
  <2>7. Idles(cl, f)
    BY <2>3, <2>6, Zenon DEF Idles, SameTxn
  <2>8. f.flushed <= Len(f.replies)
    BY <1>1, <1>3, <2>3, <2>6
  <2>9. peer[c] # "gone" => wire[c] + f.flushed - cl.flushed \in 0 .. SocketRoom
    <3>1. f.flushed = cl.flushed + w /\ cl.flushed \in Nat /\ w \in Nat /\ wire[c] \in Nat
      BY <1>1, <1>2, <1>3, <2>3, <2>6
    <3>2. wire[c] + f.flushed - cl.flushed = wire[c] + w
      BY <3>1
    <3> QED
      BY <1>2, <1>3, <3>1, <3>2
  <2> QED
    BY <1>7, <2>3, <2>5, <2>6, <2>7, <2>8, <2>9
<1> QED
  BY <1>4, <1>5, <1>6, <1>7

\* The flush and the removal of the closed.
LEMMA FlushStep ==
  ASSUME LeastNumbers, Structure, Flush
  PROVE  /\ client' \in [Conns -> Client] /\ wire' \in [Conns -> 0 .. SocketRoom]
         /\ clients' \in Seq(Conns) /\ Distinct(clients')
         /\ Range(clients') \subseteq Range(clients)
         /\ \A d \in Conns :
              /\ Evolves(d)
              /\ client'[d].got = client[d].got /\ client'[d].pos = client[d].pos
              /\ client'[d].close_after_reply = client[d].close_after_reply
              /\ client'[d].flushed <= Len(client'[d].replies)
              /\ d \notin Range(clients) => client'[d] = client[d]
<1>1. PICK failed \in SUBSET {c \in Range(clients) : peer[c] = "gone"} :
        LET new == [c \in Conns |-> IF c \in Range(clients)
                                     THEN write_to_client(c, c \in failed)
                                     ELSE client[c]]
        IN  /\ pc = "service" /\ pc' = "top"
            /\ wire' = [c \in Conns |-> IF peer[c] = "gone" THEN 0 ELSE
                                         wire[c] + new[c].flushed - client[c].flushed]
            /\ remove_closed_clients(new)
  BY Zenon DEF Flush
<1> DEFINE new == [c \in Conns |-> IF c \in Range(clients)
                                   THEN write_to_client(c, c \in failed)
                                   ELSE client[c]]
           open == {c \in Conns : ~new[c].closed}
<1>2. /\ client \in [Conns -> Client] /\ clients \in Seq(Conns) /\ Distinct(clients)
      /\ wire \in [Conns -> 0 .. SocketRoom] /\ SocketRoom \in Nat
  BY ServerAssumption, Zenon DEF Structure, Typed, TypeOK, Visits
<1>3. ASSUME NEW c \in Conns
      PROVE  /\ new[c] \in Client /\ Idles(client[c], new[c]) /\ new[c].got = client[c].got
             /\ new[c].close_after_reply = client[c].close_after_reply
             /\ new[c].flushed <= Len(new[c].replies)
             /\ c \notin Range(clients) => new[c] = client[c]
             /\ peer[c] # "gone" => wire[c] + new[c].flushed - client[c].flushed \in 0 .. SocketRoom
  <2>1. CASE c \in Range(clients)
    <3>1. new[c] = write_to_client(c, c \in failed) /\ (c \in failed) \in BOOLEAN
      BY <2>1
    <3> HIDE DEF new
    <3> QED
      BY <2>1, <3>1, WriteTyped, Zenon
  <2>2. CASE c \notin Range(clients)
    <3>1. new[c] = client[c]
      BY <2>2
    <3>2. /\ client[c] \in Client /\ client[c].flushed \in Nat /\ OutLen(client[c]) \in Nat
          /\ Len(client[c].replies) \in Nat
      BY ClientFacts, Outgoing, Zenon
    <3>3. client[c].flushed <= Len(client[c].replies)
      BY Outgoing
    <3>4. wire[c] + client[c].flushed - client[c].flushed \in 0 .. SocketRoom
      BY <1>2, <3>2
    <3> HIDE DEF new
    <3> QED
      BY <3>1, <3>2, <3>3, <3>4 DEF Idles, SameTxn
  <2> QED
    BY <2>1, <2>2, Zenon
<1>4. /\ pc = "service" /\ pc' = "top"
      /\ wire' = [c \in Conns |-> IF peer[c] = "gone" THEN 0 ELSE
                                   wire[c] + new[c].flushed - client[c].flushed]
      /\ clients' = Keep(clients, open)
      /\ client' = [c \in Conns |-> IF c \in Range(clients) /\ new[c].closed
                                     THEN client_free(new[c]) ELSE new[c]]
  BY <1>1, Zenon DEF remove_closed_clients
<1>5. \A c \in Conns : c \in open <=> ~new[c].closed
  OBVIOUS
<1> HIDE DEF new, open
<1>6. wire' \in [Conns -> 0 .. SocketRoom]
  BY <1>2, <1>3, <1>4
<1>7. /\ clients' \in Seq(Conns) /\ Distinct(clients')
      /\ Range(clients') = Range(clients) \cap open
  BY <1>2, <1>4, KeepRange, Zenon
<1>8. ASSUME NEW c \in Conns
      PROVE  /\ client'[c] \in Client /\ Evolves(c)
             /\ client'[c].got = client[c].got /\ client'[c].pos = client[c].pos
             /\ client'[c].close_after_reply = client[c].close_after_reply
             /\ client'[c].flushed <= Len(client'[c].replies)
             /\ c \notin Range(clients) => client'[c] = client[c]
  <2>1. ~Executing(c) /\ ~Executing(c)'
    BY <1>4, Zenon DEF Executing
  <2>2. CASE c \in Range(clients) /\ new[c].closed
    <3>1. client'[c] = client_free(new[c])
      BY <1>4, <2>2
    <3>2. /\ client'[c] \in Client /\ Frees(new[c], client'[c]) /\ Framed(new[c], client'[c])
      BY <1>3, <3>1, FreeTyped, Zenon
    <3>3. Frees(client[c], client'[c]) /\ c \notin Range(clients')
      BY <1>3, <1>5, <1>7, <2>2, <3>2, Zenon DEF Frees, Idles
    <3>4. Evolves(c)
      BY <2>1, <3>3, Zenon DEF Evolves
    <3> QED
      BY <1>3, <2>2, <3>2, <3>3, <3>4, Zenon DEF Framed, Frees
  <2>3. CASE ~(c \in Range(clients) /\ new[c].closed)
    <3>1. client'[c] = new[c]
      BY <1>4, <2>3
    <3> QED
      BY <1>3, <2>1, <3>1, Zenon DEF Evolves, Idles
  <2> QED
    BY <2>2, <2>3, Zenon
<1>9. client' \in [Conns -> Client]
  BY <1>4, <1>8, Zenon
<1> QED
  BY <1>6, <1>7, <1>8, <1>9

LEMMA ShutdownStep ==
  ASSUME Structure, server_shutdown
  PROVE  /\ client' \in [Conns -> Client]
         /\ \A d \in Conns :
              /\ Evolves(d)
              /\ client'[d].got = client[d].got /\ client'[d].pos = client[d].pos
              /\ client'[d].close_after_reply = client[d].close_after_reply
              /\ client'[d].flushed = client[d].flushed
              /\ d \notin Range(clients) => client'[d] = client[d]
<1>1. /\ client \in [Conns -> Client] /\ pc = "exit" /\ pc' = "stopped" /\ clients' = << >>
      /\ client' = [c \in Conns |-> IF c \in Range(clients) THEN client_free(client[c])
                                                           ELSE client[c]]
  BY DEF Structure, Typed, TypeOK, server_shutdown
<1>2. ASSUME NEW c \in Conns
      PROVE  /\ client'[c] \in Client /\ Evolves(c)
             /\ client'[c].got = client[c].got /\ client'[c].pos = client[c].pos
             /\ client'[c].close_after_reply = client[c].close_after_reply
             /\ client'[c].flushed = client[c].flushed
             /\ c \notin Range(clients) => client'[c] = client[c]
  <2>1. ~Executing(c) /\ ~Executing(c)' /\ c \notin Range(clients')
    BY <1>1 DEF Executing, Range
  <2>2. CASE c \in Range(clients)
    <3>1. client'[c] = client_free(client[c]) /\ client[c] \in Client
      BY <1>1, <2>2
    <3>2. /\ client'[c] \in Client /\ Frees(client[c], client'[c])
          /\ Framed(client[c], client'[c])
      BY <3>1, FreeTyped
    <3>3. Evolves(c)
      BY <2>1, <3>2, Zenon DEF Evolves
    <3> QED
      BY <2>2, <3>2, <3>3, Zenon DEF Framed, Frees
  <2>3. CASE c \notin Range(clients)
    <3>1. client'[c] = client[c] /\ client[c] \in Client
      BY <1>1, <2>3
    <3> QED
      BY <2>1, <3>1, OthersEvolve, Zenon
  <2> QED
    BY <2>2, <2>3, Zenon
<1>3. client' \in [Conns -> Client]
  BY <1>1, <1>2
<1> QED
  BY <1>2, <1>3

\* Steps that leave every client's conversation as it is.
LEMMA ReadStep ==
  ASSUME Structure, Read
  PROVE  /\ client' \in [Conns -> Client]
         /\ \A d \in Conns : /\ Evolves(d) /\ Idles(client[d], client'[d])
                             /\ client'[d].flushed = client[d].flushed
                             /\ client'[d].got \in {client[d].got, sent[d]}
                             /\ client'[d].closed = client[d].closed
                             /\ client'[d].close_after_reply = client[d].close_after_reply
                             /\ d # Current => client'[d] = client[d]
<1>0. PICK c \in Conns : c = Current
  BY CurrentFacts DEF Read
<1>1. /\ client \in [Conns -> Client] /\ client[c] \in Client /\ sent[c] \in Nat
      /\ client' = [client EXCEPT ![c] = [client[c] EXCEPT !.got = sent[c]]]
      /\ pc = "read" /\ pc' = "process"
  BY <1>0, ClientFacts DEF Read, Set, Structure, Typed, TypeOK
<1>2. /\ client'[c] = [client[c] EXCEPT !.got = sent[c]]
      /\ \A d \in Conns : d # c => client'[d] = client[d]
  BY <1>1
<1>3. client'[c] \in Client
  BY <1>1, <1>2, Zenon DEF Client
<1>4. /\ Idles(client[c], client'[c]) /\ client'[c].flushed = client[c].flushed
      /\ client'[c].got = sent[c] /\ client'[c].closed = client[c].closed
      /\ client'[c].close_after_reply = client[c].close_after_reply
  BY <1>1, <1>2 DEF Client, Idles, SameTxn
<1>5. client' \in [Conns -> Client]
  BY <1>1, <1>3
<1>6. \A d \in Conns : Idles(client[d], client'[d])
  BY <1>2, <1>4, Zenon DEF Idles, SameTxn
<1>7. \A d \in Conns : ~Executing(d) /\ ~Executing(d)'
  BY <1>1 DEF Executing
<1>8. \A d \in Conns : Evolves(d)
  BY <1>6, <1>7, Zenon DEF Evolves
<1> QED
  BY <1>0, <1>2, <1>4, <1>5, <1>6, <1>8, Zenon

LEMMA ReadFailsStep ==
  ASSUME Structure, ReadFails
  PROVE  /\ client' \in [Conns -> Client]
         /\ \A d \in Conns : /\ Evolves(d) /\ Idles(client[d], client'[d])
                             /\ client'[d].close_after_reply = client[d].close_after_reply
                             /\ client'[d].flushed = client[d].flushed
                             /\ client'[d].got = client[d].got
                             /\ d # Current => client'[d] = client[d]
<1>0. PICK c \in Conns : c = Current
  BY CurrentFacts DEF ReadFails
<1>1. /\ client \in [Conns -> Client] /\ client[c] \in Client
      /\ client' = [client EXCEPT ![c] = [client[c] EXCEPT !.closed = TRUE]]
      /\ pc = "read" /\ pc' = "read"
  BY <1>0, ClientFacts DEF ReadFails, Set, Structure, Typed, TypeOK
<1>2. /\ client'[c] = [client[c] EXCEPT !.closed = TRUE]
      /\ \A d \in Conns : d # c => client'[d] = client[d]
  BY <1>1
<1>3. client'[c] \in Client
  BY <1>1, <1>2, Zenon DEF Client
<1>4. /\ Idles(client[c], client'[c]) /\ client'[c].flushed = client[c].flushed
      /\ client'[c].got = client[c].got
      /\ client'[c].close_after_reply = client[c].close_after_reply
  BY <1>1, <1>2 DEF Client, Idles, SameTxn
<1>5. client' \in [Conns -> Client]
  BY <1>1, <1>3
<1>6. \A d \in Conns : Idles(client[d], client'[d])
  BY <1>2, <1>4, Zenon DEF Idles, SameTxn
<1>7. \A d \in Conns : ~Executing(d) /\ ~Executing(d)'
  BY <1>1 DEF Executing
<1>8. \A d \in Conns : Evolves(d)
  BY <1>6, <1>7, Zenon DEF Evolves
<1> QED
  BY <1>0, <1>2, <1>4, <1>5, <1>6, <1>8, Zenon

LEMMA TickStep ==
  ASSUME Structure, Tick, pc \notin {"process", "exec"}
  PROVE  /\ client' \in [Conns -> Client]
         /\ \A d \in Conns : /\ Evolves(d) /\ Idles(client[d], client'[d])
                             /\ Framed(client[d], client'[d])
                             /\ client[d].blocked_req = 0 => client'[d] = client[d]
<1> DEFINE running == {c \in Range(clients) : /\ client[c].blocked_req # 0
                                            /\ client[c].block_deadline \notin {0, Forever}}
<1>1. /\ client \in [Conns -> Client] /\ pc' = pc
      /\ client' = [c \in Conns |-> IF c \in running
                                     THEN [client[c] EXCEPT !.block_deadline = @ - 1]
                                     ELSE client[c]]
  BY DEF Tick, Structure, Typed, TypeOK, loop
<1> HIDE DEF running
<1>2. ASSUME NEW d \in Conns
      PROVE  /\ client'[d] \in Client /\ Idles(client[d], client'[d])
             /\ Framed(client[d], client'[d])
             /\ client[d].blocked_req = 0 => client'[d] = client[d]
  <2>1. CASE d \in running
    <3>1. client[d] \in Client /\ client'[d] = [client[d] EXCEPT !.block_deadline = @ - 1]
      BY <1>1, <2>1
    <3>2. client[d].block_deadline - 1 \in Nat /\ client[d].blocked_req # 0
      BY <2>1, <3>1 DEF Client, running
    <3>3. client'[d] \in Client
      <4>1. client[d].block_deadline - 1 \in Nat \cup {Forever}
        BY <3>2
      <4> QED
        BY <3>1, <4>1, Zenon DEF Client
    <3> QED
      BY <3>1, <3>2, <3>3 DEF Client, Idles, SameTxn, Framed
  <2>2. CASE d \notin running
    BY <1>1, <2>2 DEF Idles, SameTxn, Framed
  <2> QED
    BY <2>1, <2>2, Zenon
<1>3. client' \in [Conns -> Client]
  BY <1>1, <1>2
<1>4. \A d \in Conns : ~Executing(d) /\ ~Executing(d)'
  BY <1>1 DEF Executing
<1>5. \A d \in Conns : Evolves(d)
  BY <1>2, <1>4, Zenon DEF Evolves
<1> QED
  BY <1>2, <1>3, <1>5

===============================================================================
