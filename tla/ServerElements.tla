---------------------------- MODULE ServerElements ----------------------------
(***************************************************************************)
(* Every step of Server keeps the elements where they belong: a push adds  *)
(* one to its list, a pop hands out the first of a list, and nothing else  *)
(* touches a list or hands out anything.                                   *)
(***************************************************************************)
EXTENDS ServerStructure

-------------------------------------------------------------------------------
(* A push, a pop, and neither                                              *)

\* Client a is handed the elements E with its q-th reply,
Hands(rs, s, a, q, E) ==
  \A c \in Conns, p \in Nat, e \in Element :
    At(s, c, p, e) <=> At(rs, c, p, e) \/ (c = a /\ p = q /\ e \in E)

\* ... and the pushes of the elements E are answered.
Admits(rs, s, E) ==
  \A e \in Element : Known(s, e) <=> Known(rs, e) \/ e \in E

\* Element new follows the l there are in list j.
Follows(d, n, j, l, new) ==
  /\ \A i \in Nat, e \in Element : In(d, j, i, e) => i <= l
  /\ \A k \in Keys, i \in Nat, e \in Element :
       In(n, k, i, e) <=> In(d, k, i, e) \/ (k = j /\ i = l + 1 /\ e = new)

\* Element first leaves list j.
Leaves(d, n, j, first) ==
  /\ In(d, j, 1, first) /\ \A e \in Element : In(d, j, 1, e) => e = first
  /\ \A k \in Keys, i \in Nat, e \in Element : In(d, k, i, e) => i # 0
  /\ \A i \in Nat, e \in Element : In(n, j, i, e) <=> i # 0 /\ In(d, j, i + 1, e)
  /\ \A k \in Keys, i \in Nat, e \in Element : k # j => (In(n, k, i, e) <=> In(d, k, i, e))

\* The elements are where they were.
LEMMA StillHomes ==
  ASSUME NEW d, NEW rs, NEW s, Homes(d, rs),
         \A c \in Conns, p \in Nat, e \in Element : At(s, c, p, e) <=> At(rs, c, p, e),
         \A e \in Element : Known(s, e) <=> Known(rs, e)
  PROVE  Homes(d, s)
<1>1. StoredKnown(d, s)
  BY Zenon DEF Homes, StoredKnown
<1>2. TakenKnown(s)
  BY Zenon DEF Homes, TakenKnown
<1>3. Behind(d, s)
  <2>1. Behind(d, rs)
    BY DEF Homes
  <2> QED
    BY <2>1, Zenon DEF Behind
<1>4. Once(s)
  <2>1. Once(rs)
    BY DEF Homes
  <2> QED
    BY <2>1 DEF Once
<1>5. NoneLost(d, s)
  <2>1. NoneLost(d, rs)
    BY DEF Homes
  <2> QED
    BY <2>1, Zenon DEF NoneLost
<1> QED
  BY <1>1, <1>2, <1>3, <1>4, <1>5 DEF Homes

\* Its client pushed element new last.
Newest(rs, new) == \A f \in Element : Known(rs, f) /\ f[1] = new[1] => f[2] < new[2]

\* Element new goes to the end of list j, after the l that are there.
LEMMA PushHomes ==
  ASSUME NEW d, NEW n, NEW rs, NEW s, Homes(d, rs), NEW new \in Element, NEW l \in Nat,
         NEW j \in Keys, KeyOf(new) = j, NEW a, NEW q,
         Newest(rs, new), Follows(d, n, j, l, new), Hands(rs, s, a, q, {}), Admits(rs, s, {new})
  PROVE  Homes(n, s)
<1> SUFFICES ASSUME
         \A f \in Element : Known(rs, f) /\ f[1] = new[1] => f[2] < new[2],
         \A i \in Nat, e \in Element : In(d, j, i, e) => i <= l,
         \A k \in Keys, i \in Nat, e \in Element :
           In(n, k, i, e) <=> In(d, k, i, e) \/ (k = j /\ i = l + 1 /\ e = new),
         \A c \in Conns, p \in Nat, e \in Element : At(s, c, p, e) <=> At(rs, c, p, e),
         \A e \in Element : Known(s, e) <=> Known(rs, e) \/ e = new
                   PROVE  Homes(n, s)
  BY Zenon DEF Newest, Follows, Hands, Admits
<1>0. /\ StoredKnown(d, rs) /\ TakenKnown(rs) /\ Ordered(d)
      /\ Behind(d, rs) /\ Once(rs) /\ NoneLost(d, rs)
  BY DEF Homes
<1>1. StoredKnown(n, s)
  BY <1>0, Zenon DEF StoredKnown
<1>2. TakenKnown(s)
  BY <1>0, Zenon DEF TakenKnown
<1>3. ASSUME NEW k \in Keys, NEW i \in Nat, NEW h \in Nat, NEW e \in Element, NEW f \in Element,
             In(n, k, i, e), In(n, k, h, f), i < h, e[1] = f[1]
      PROVE  e[2] < f[2]
  <2>1. CASE In(d, k, h, f)
    <3>1. k = j => h <= l
      BY <2>1, Zenon
    <3>2. ~(k = j /\ i = l + 1)
      BY <1>3, <3>1
    <3>3. In(d, k, i, e)
      BY <1>3, <3>2, Zenon
    <3> QED
      BY <1>0, <1>3, <2>1, <3>3, Zenon DEF Ordered
  <2>2. CASE k = j /\ h = l + 1 /\ f = new
    <3>1. i # l + 1
      BY <1>3, <2>2
    <3>2. In(d, k, i, e)
      BY <1>3, <3>1, Zenon
    <3>3. Known(rs, e)
      BY <1>0, <3>2, Zenon DEF StoredKnown
    <3> QED
      BY <1>3, <2>2, <3>3, Zenon
  <2> QED
    BY <1>3, <2>1, <2>2, Zenon
<1>4. Ordered(n)
  BY <1>3, Zenon DEF Ordered
<1>5. Once(s)
  BY <1>0 DEF Once
<1>6. ASSUME NEW c \in Conns, NEW k \in Keys, NEW p \in Nat, NEW i \in Nat,
             NEW e \in Element, NEW f \in Element,
             At(s, c, p, e), In(n, k, i, f), KeyOf(e) = k, e[1] = f[1]
      PROVE  e[2] < f[2]
  <2>1. At(rs, c, p, e)
    BY <1>6, Zenon
  <2>2. Known(rs, e)
    BY <1>0, <2>1, Zenon DEF TakenKnown
  <2>3. CASE In(d, k, i, f)
    BY <1>0, <1>6, <2>1, <2>3, Zenon DEF Behind
  <2>4. CASE f = new
    BY <1>6, <2>2, <2>4, Zenon
  <2> QED
    BY <1>6, <2>3, <2>4, Zenon
<1>7. Behind(n, s)
  BY <1>6, Zenon DEF Behind
<1>8. ASSUME NEW e \in Element, Known(s, e)
      PROVE  \/ \E k \in Keys, i \in Nat : In(n, k, i, e)
             \/ \E c \in Conns, p \in Nat : At(s, c, p, e)
  <2>1. CASE e = new
    <3>1. l + 1 \in Nat
      OBVIOUS
    <3> QED
      BY <2>1, <3>1, Zenon
  <2>2. CASE Known(rs, e)
    <3>1. \/ \E k \in Keys, i \in Nat : In(d, k, i, e)
          \/ \E c \in Conns, p \in Nat : At(rs, c, p, e)
      BY <1>0, <2>2, Zenon DEF NoneLost
    <3> QED
      BY <3>1, Zenon
  <2> QED
    BY <1>8, <2>1, <2>2, Zenon
<1>9. NoneLost(n, s)
  BY <1>8, Zenon DEF NoneLost
<1> QED
  BY <1>1, <1>2, <1>4, <1>5, <1>7, <1>9 DEF Homes

\* The first element of list j is handed out as the q-th reply to client a.
LEMMA TakeHomes ==
  ASSUME NEW d, NEW n, NEW rs, NEW s, Homes(d, rs), NEW first \in Element,
         NEW j \in Keys, NEW a \in Conns, NEW q \in Nat,
         Leaves(d, n, j, first), Hands(rs, s, a, q, {first}), Admits(rs, s, {})
  PROVE  Homes(n, s)
<1> SUFFICES ASSUME
         In(d, j, 1, first),
         \A e \in Element : In(d, j, 1, e) => e = first,
         \A k \in Keys, i \in Nat, e \in Element : In(d, k, i, e) => i # 0,
         \A i \in Nat, e \in Element : In(n, j, i, e) <=> i # 0 /\ In(d, j, i + 1, e),
         \A k \in Keys, i \in Nat, e \in Element : k # j => (In(n, k, i, e) <=> In(d, k, i, e)),
         \A c \in Conns, p \in Nat, e \in Element :
           At(s, c, p, e) <=> At(rs, c, p, e) \/ (c = a /\ p = q /\ e = first),
         \A e \in Element : Known(s, e) <=> Known(rs, e)
                   PROVE  Homes(n, s)
  BY Zenon DEF Leaves, Hands, Admits
<1>0. /\ StoredKnown(d, rs) /\ TakenKnown(rs) /\ Ordered(d)
      /\ Behind(d, rs) /\ Once(rs) /\ NoneLost(d, rs)
  BY DEF Homes
<1>1. 1 \in Nat /\ \A i \in Nat : i + 1 \in Nat /\ (i # 0 => 1 < i + 1)
  OBVIOUS
<1>2. ASSUME NEW k \in Keys, NEW i \in Nat, NEW e \in Element, In(n, k, i, e)
      PROVE  \E h \in Nat : In(d, k, h, e) /\ (k = j => 1 < h)
  <2>1. CASE k = j
    BY <1>1, <1>2, <2>1, Zenon
  <2>2. CASE k # j
    BY <1>2, <2>2, Zenon
  <2> QED
    BY <2>1, <2>2
<1>3. Known(rs, first) /\ KeyOf(first) = j
  BY <1>0, <1>1, Zenon DEF StoredKnown
<1>4. StoredKnown(n, s)
  BY <1>0, <1>2, Zenon DEF StoredKnown
<1>5. TakenKnown(s)
  BY <1>0, <1>3, ZenonT(30) DEF TakenKnown
<1>6. ASSUME NEW k \in Keys, NEW i \in Nat, NEW h \in Nat, NEW e \in Element, NEW f \in Element,
             In(n, k, i, e), In(n, k, h, f), i < h, e[1] = f[1]
      PROVE  e[2] < f[2]
  <2>1. CASE k = j
    <3>1. In(d, k, i + 1, e) /\ In(d, k, h + 1, f)
      BY <1>6, <2>1, Zenon
    <3>2. i + 1 \in Nat /\ h + 1 \in Nat /\ i + 1 < h + 1
      BY <1>6
    <3> QED
      BY <1>0, <1>6, <3>1, <3>2, Zenon DEF Ordered
  <2>2. CASE k # j
    <3>1. In(d, k, i, e) /\ In(d, k, h, f)
      BY <1>6, <2>2, Zenon
    <3> QED
      BY <1>0, <1>6, <3>1, Zenon DEF Ordered
  <2> QED
    BY <2>1, <2>2
<1>7. Ordered(n)
  BY <1>6, Zenon DEF Ordered
<1>8. \A c \in Conns, p \in Nat : ~At(rs, c, p, first)
  <2>1. ~(first[2] < first[2])
    BY DEF Element
  <2> QED
    BY <1>0, <1>1, <1>3, <2>1, Zenon DEF Behind
<1>9. ASSUME NEW b \in Conns, NEW c \in Conns, NEW p \in Nat, NEW h \in Nat, NEW e \in Element,
             At(s, b, p, e), At(s, c, h, e)
      PROVE  b = c /\ p = h
  <2>1. CASE e = first
    BY <1>8, <1>9, <2>1, ZenonT(40)
  <2>2. CASE e # first
    <3>1. At(rs, b, p, e) /\ At(rs, c, h, e)
      BY <1>9, <2>2, Zenon
    <3> QED
      BY <1>0, <3>1 DEF Once
  <2> QED
    BY <2>1, <2>2
<1>10. Once(s)
  BY <1>9, ZenonT(40) DEF Once
<1>11. ASSUME NEW c \in Conns, NEW k \in Keys, NEW p \in Nat, NEW i \in Nat,
              NEW e \in Element, NEW f \in Element,
              At(s, c, p, e), In(n, k, i, f), KeyOf(e) = k, e[1] = f[1]
       PROVE  e[2] < f[2]
  <2>1. PICK h \in Nat : In(d, k, h, f) /\ (k = j => 1 < h)
    BY <1>2, <1>11, Zenon
  <2>2. CASE At(rs, c, p, e)
    BY <1>0, <1>11, <2>1, <2>2, Zenon DEF Behind
  <2>3. CASE e = first
    BY <1>0, <1>1, <1>3, <1>11, <2>1, <2>3, Zenon DEF Ordered
  <2> QED
    BY <1>11, <2>2, <2>3, Zenon
<1>12. Behind(n, s)
  BY <1>11, ZenonT(40) DEF Behind
<1>13. ASSUME NEW e \in Element, Known(s, e)
       PROVE  \/ \E k \in Keys, i \in Nat : In(n, k, i, e)
              \/ \E c \in Conns, p \in Nat : At(s, c, p, e)
  <2>1. \/ \E k \in Keys, i \in Nat : In(d, k, i, e)
        \/ \E c \in Conns, p \in Nat : At(rs, c, p, e)
    BY <1>0, <1>13, Zenon DEF NoneLost
  <2>2. CASE \E c \in Conns, p \in Nat : At(rs, c, p, e)
    BY <2>2, Zenon
  <2>3. ASSUME NEW k \in Keys, NEW i \in Nat, In(d, k, i, e), k # j
        PROVE  In(n, k, i, e)
    BY <2>3, Zenon
  <2>4. ASSUME NEW i \in Nat, In(d, j, i, e), i # 1
        PROVE  In(n, j, i - 1, e) /\ i - 1 \in Nat
    <3>1. i # 0
      BY <2>4, Zenon
    <3>2. i - 1 \in Nat /\ i - 1 # 0 /\ (i - 1) + 1 = i
      BY <2>4, <3>1
    <3> QED
      BY <2>4, <3>2, Zenon
  <2>5. CASE In(d, j, 1, e)
    BY <2>5, Zenon
  <2> QED
    BY <2>1, <2>2, <2>3, <2>4, <2>5, ZenonT(40)
<1>14. NoneLost(n, s)
  BY <1>13, Zenon DEF NoneLost
<1> QED
  BY <1>4, <1>5, <1>7, <1>10, <1>12, <1>14 DEF Homes

-------------------------------------------------------------------------------
(* The replies of one client                                               *)

LEMMA AppendPlaces ==
  ASSUME NEW T, NEW s \in Seq(T), NEW e \in T
  PROVE  /\ s # Append(s, e) /\ Len(s) \in Nat /\ Len(s) + 1 \in Nat
         /\ Len(Append(s, e)) = Len(s) + 1 /\ Append(s, e)[Len(s) + 1] = e
         /\ \A i \in 1 .. Len(s) : Append(s, e)[i] = s[i] /\ i # Len(s) + 1
         /\ \A i : i \in 1 .. Len(s) + 1 <=> i \in 1 .. Len(s) \/ i = Len(s) + 1
<1>1. /\ Len(s) \in Nat /\ Len(Append(s, e)) = Len(s) + 1 /\ Append(s, e)[Len(s) + 1] = e
      /\ \A i \in 1 .. Len(s) : Append(s, e)[i] = s[i]
  OBVIOUS
<1>2. /\ \A i : i \in 1 .. Len(s) + 1 <=> i \in 1 .. Len(s) \/ i = Len(s) + 1
      /\ \A i \in 1 .. Len(s) : i # Len(s) + 1
      /\ Len(s) + 1 \in Nat
  BY <1>1
<1>3. s # Append(s, e)
  BY <1>1
<1> QED
  BY <1>1, <1>2, <1>3, Zenon

LEMMA TailPlaces ==
  ASSUME NEW T, NEW s \in Seq(T), s # << >>
  PROVE  /\ s # Tail(s) /\ 1 \in 1 .. Len(s) /\ s[1] = Head(s) /\ Head(s) \in T
         /\ \A i \in Nat : i \in 1 .. Len(Tail(s)) <=> i # 0 /\ i + 1 \in 1 .. Len(s)
         /\ \A i \in 1 .. Len(Tail(s)) : Tail(s)[i] = s[i + 1]
<1>1. /\ Tail(s) \in Seq(T) /\ Head(s) \in T /\ Head(s) = s[1]
      /\ Len(s) \in Nat /\ Len(s) > 0 /\ Len(Tail(s)) = Len(s) - 1
  OBVIOUS
<1>2. \A i \in 1 .. Len(s) - 1 : Tail(s)[i] = s[i + 1]
  OBVIOUS
<1>3. \A i \in Nat : i \in 1 .. Len(s) - 1 <=> i # 0 /\ i + 1 \in 1 .. Len(s)
  BY <1>1
<1>4. Len(Tail(s)) # Len(s) /\ 1 \in 1 .. Len(s)
  <2>1. \A n \in Nat : n > 0 => n - 1 # n /\ 1 \in 1 .. n
    OBVIOUS
  <2> QED
    BY <1>1, <2>1, Zenon
<1> QED
  BY <1>1, <1>2, <1>3, <1>4, Zenon

\* Nothing was pushed or handed out since.
Quiet(rs, s) ==
  /\ Len(rs) \in Nat /\ Len(s) \in Nat /\ Len(rs) <= Len(s)
  /\ \A p \in 1 .. Len(rs) : s[p] = rs[p]
  /\ \A p \in Len(rs) + 1 .. Len(s) : s[p].elems = {} /\ s[p].kind # "int"

LEMMA QuietSame ==
  ASSUME NEW cl \in Client, NEW new, new.replies = cl.replies
  PROVE  Quiet(cl.replies, new.replies)
<1> DEFINE rs == cl.replies
<1>1. Len(rs) \in Nat
  BY DEF Client
<1> HIDE DEF rs
<1>2. Quiet(rs, rs)
  BY <1>1 DEF Quiet
<1> QED
  BY <1>2 DEF rs

LEMMA QuietSays ==
  ASSUME NEW cl \in Client, NEW new, NEW r, Says(cl, new, r), r.elems = {}, r.kind # "int"
  PROVE  Quiet(cl.replies, new.replies)
<1> DEFINE rs == cl.replies
           s == new.replies
<1>1. rs \in Seq(ReplyRecord) /\ s = Append(rs, r) /\ r \in ReplyRecord
  BY DEF Client, Says
<1> HIDE DEF rs, s
<1>2. /\ Len(rs) \in Nat /\ Len(s) = Len(rs) + 1 /\ s[Len(rs) + 1] = r
      /\ \A p \in 1 .. Len(rs) : s[p] = rs[p]
  BY <1>1
<1>3. \A p \in Len(rs) + 1 .. Len(s) : p = Len(rs) + 1
  BY <1>2
<1>4. Len(s) \in Nat /\ Len(rs) <= Len(s)
  BY <1>2
<1>5. Quiet(rs, s)
  BY <1>2, <1>3, <1>4, Zenon DEF Quiet
<1> QED
  BY <1>5 DEF rs, s

LEMMA QuietTwice ==
  ASSUME NEW rs, NEW s, NEW t, Quiet(rs, s), Quiet(s, t)
  PROVE  Quiet(rs, t)
<1>1. /\ Len(rs) \in Nat /\ Len(s) \in Nat /\ Len(t) \in Nat
      /\ Len(rs) <= Len(s) /\ Len(s) <= Len(t)
  BY DEF Quiet
<1>2. Len(rs) <= Len(t) /\ 1 .. Len(rs) \subseteq 1 .. Len(s)
  BY <1>1
<1>3. \A p \in Len(rs) + 1 .. Len(t) :
        p \in Len(s) + 1 .. Len(t) \/ (p \in 1 .. Len(s) /\ p \in Len(rs) + 1 .. Len(s))
  BY <1>1
<1>4. \A p \in 1 .. Len(rs) : t[p] = rs[p]
  BY <1>2, Zenon DEF Quiet
<1>5. \A p \in Len(rs) + 1 .. Len(t) : t[p].elems = {} /\ t[p].kind # "int"
  BY <1>3, Zenon DEF Quiet
<1> QED
  BY <1>1, <1>2, <1>4, <1>5, Zenon DEF Quiet

\* A command that leaves the lists alone pushes nothing and hands out nothing.
LEMMA OutcomeQuiet ==
  ASSUME Scripts, NEW c \in Conns, NEW j \in 1 .. Len(script[c]), NEW d \in Contents,
         NEW r, Outcome(c, j, d, d, r)
  PROVE  r.elems = {} /\ r.kind # "int"
<1>1. script[c][j].keys[1] \in Keys
  <2>1. script[c][j] \in Request /\ script[c][j].keys # << >>
    BY DEF Scripts
  <2> QED
    BY <2>1 DEF Request
<1>2. CASE r \in {Reply(j, "error"), Reply(j, "nil")}
  BY <1>2 DEF Reply
<1>3. CASE Pushes(c, j, d, d, r)
  <2> DEFINE k == script[c][j].keys[1]
  <2>1. d = [d EXCEPT ![k] = Append(d[k], <<c, j>>)]
    BY <1>3, Zenon DEF Pushes
  <2>2. d[k] = Append(d[k], <<c, j>>) /\ d[k] \in Seq(Conns \X Nat)
    BY <1>1, <2>1, Zenon DEF Contents
  <2>3. <<c, j>> \in Conns \X Nat
    BY DEF Scripts
  <2> QED
    <3>1. \A q \in Seq(Conns \X Nat) : q # Append(q, <<c, j>>)
      BY <2>3, AppendPlaces
    <3> QED
      BY <2>2, <3>1, Zenon
<1>4. ASSUME NEW k \in Keys, d[k] # << >>, d = [d EXCEPT ![k] = Tail(@)]
      PROVE  FALSE
  <2>1. d[k] = Tail(d[k]) /\ d[k] \in Seq(Conns \X Nat)
    BY <1>4, Zenon DEF Contents
  <2> QED
    BY <1>4, <2>1, TailPlaces, Zenon
<1> QED
  BY <1>2, <1>3, <1>4, Zenon DEF Outcome, Takes

\* The client consumes requests and queues what it consumes.
Advances(cl, new) ==
  /\ cl.pos <= new.pos
  /\ \A i \in 1 .. Len(new.queue) : \/ cl.pos < new.queue[i]
                                   \/ \E h \in 1 .. Len(cl.queue) : new.queue[i] = cl.queue[h]

\* The client is told what a command did that it had sent before those queued.
Hears(c, cl, new) ==
  \E j \in 1 .. Len(script[c]), r \in ReplyRecord :
    /\ new.replies = Append(cl.replies, r) /\ r.req = j /\ Outcome(c, j, db, db', r)
    /\ j <= new.pos
    /\ \A i \in 1 .. Len(new.queue) : j < new.queue[i]

LEMMA AdvancesSame ==
  ASSUME NEW c, NEW cl \in Client, NEW new,
         new.queue = cl.queue \/ new.queue = << >>,
         new.pos = cl.pos \/ Consumes(c, cl.pos + 1, cl, new)
  PROVE  Advances(cl, new)
<1>1. cl.pos \in Nat
  BY DEF Client
<1>2. cl.pos <= new.pos
  BY <1>1 DEF Consumes
<1>3. \A i \in 1 .. Len(new.queue) : \E h \in 1 .. Len(cl.queue) : new.queue[i] = cl.queue[h]
  OBVIOUS
<1> QED
  BY <1>2, <1>3, Zenon DEF Advances

\* Whatever happens to a client, it hears of a push or gets an element only as the
\* answer to a command that it sent before those still queued.
LEMMA MovesLogged ==
  ASSUME Structure, NEW c \in Conns, NEW new \in Client, Moves(c, client[c], new)
  PROVE  /\ Advances(client[c], new)
         /\ Quiet(client[c].replies, new.replies) \/ Hears(c, client[c], new)
<1> DEFINE cl == client[c]
           j == cl.pos + 1
<1>1. /\ cl \in Client /\ cl.pos \in Nat /\ cl.queue \in Seq(Nat)
      /\ RequestsOf(c, cl)
      /\ cl.blocked_req # 0 => ~cl.active
      /\ cl.queue # << >> => cl.active
  BY ClientFacts, Zenon DEF Structure, Requests, TxnDiscipline
<1>2. cl.pos <= Len(script[c]) /\ Len(script[c]) \in Nat /\ Scripts /\ db \in Contents
  BY PosInScript, ClientFacts, Zenon DEF Structure, Typed, TypeOK, Contents
<1> HIDE DEF cl
<1>3. \A i, kind : kind # "int" => Reply(i, kind).elems = {} /\ Reply(i, kind).kind # "int"
  BY DEF Reply
<1>4. ASSUME NEW i \in 1 .. Len(script[c]), NEW r, Says(cl, new, r), Outcome(c, i, db, db', r),
             i <= new.pos, \A h \in 1 .. Len(new.queue) : i < new.queue[h]
      PROVE  Hears(c, cl, new)
  <2>1. r \in ReplyRecord /\ r.req = i
    BY <1>2, <1>4, OutcomeTyped
  <2> QED
    BY <1>4, <2>1, Zenon DEF Hears, Says
<1>5. CASE Idles(cl, new)
  BY <1>1, <1>5, AdvancesSame, QuietSame, Zenon DEF Idles, SameTxn, cl
<1>6. CASE Frees(cl, new)
  BY <1>1, <1>6, AdvancesSame, QuietSame, Zenon DEF Frees, NoTxn, cl
<1>7. CASE Finishes(cl, new)
  BY <1>1, <1>7, AdvancesSame, QuietSame, Zenon DEF Finishes, NoTxn, cl
<1>8. CASE Responds(c, j, cl, new)
  <2>1. Consumes(c, j, cl, new) /\ new.pos = j /\ j \in 1 .. Len(script[c])
    BY <1>8, Zenon DEF Responds, Consumes
  <2>2. CASE Skips(c, j, cl, new)
    BY <1>1, <2>1, <2>2, AdvancesSame, QuietSame, Zenon DEF Skips, SameTxn, cl
  <2>3. CASE Refuses(c, j, cl, new)
    BY <1>1, <1>3, <2>1, <2>3, AdvancesSame, QuietSays, Zenon DEF Refuses, cl
  <2>4. CASE Opened(c, j, cl, new)
    BY <1>1, <1>3, <2>1, <2>4, AdvancesSame, QuietSays, ZenonT(30) DEF Opened, cl
  <2>5. CASE Resets(c, j, cl, new)
    BY <1>1, <1>3, <2>1, <2>5, AdvancesSame, QuietSays, ZenonT(30) DEF Resets, NoTxn, cl
  <2>6. CASE Queues(c, j, cl, new)
    <3>1. Quiet(cl.replies, new.replies)
      BY <1>1, <1>3, <2>6, QuietSays, Zenon DEF Queues
    <3>2. j \in Nat /\ cl.pos < j /\ cl.pos <= j
      BY <1>1
    <3>3. \A i \in 1 .. Len(new.queue) : new.queue[i] = j
                                       \/ (i \in 1 .. Len(cl.queue) /\ new.queue[i] = cl.queue[i])
      <4>1. new.queue = Append(cl.queue, j)
        BY <2>6 DEF Queues
      <4> QED
        BY <1>1, <3>2, <4>1, AppendPlaces
    <3>4. Advances(cl, new)
      BY <2>1, <3>2, <3>3, Zenon DEF Advances
    <3> QED
      BY <3>1, <3>4 DEF cl
  <2>7. CASE Runs(c, j, cl, new)
    <3>1. new.queue = cl.queue /\ cl.queue = << >>
      BY <1>1, <2>7 DEF Runs, SameTxn
    <3>2. Advances(cl, new)
      BY <1>1, <2>1, <3>1, AdvancesSame, Zenon
    <3>3. PICK r : Says(cl, new, r) /\ Outcome(c, j, db, db', r)
      BY <2>7, Zenon DEF Runs
    <3>4. j <= new.pos /\ \A h \in 1 .. Len(new.queue) : j < new.queue[h]
      BY <1>1, <2>1, <3>1
    <3>5. Hears(c, cl, new)
      BY <1>4, <2>1, <3>3, <3>4, Zenon
    <3> QED
      BY <3>2, <3>5 DEF cl
  <2>8. CASE Parks(c, j, cl, new)
    BY <1>1, <2>1, <2>8, AdvancesSame, QuietSame, Zenon DEF Parks, SameTxn, cl
  <2> QED
    BY <1>8, <2>2, <2>3, <2>4, <2>5, <2>6, <2>7, <2>8, Zenon DEF Responds
<1>9. CASE Wakes(c, cl, new)
  <2>1. /\ cl.blocked_req # 0 /\ new.queue = cl.queue /\ new.pos = cl.pos
        /\ cl.blocked_req = cl.pos /\ cl.queue = << >>
    <3>1. cl.blocked_req # 0 /\ new.queue = cl.queue /\ new.pos = cl.pos
      BY <1>9 DEF Wakes, SameTxn
    <3>2. cl.blocked_req = cl.pos
      BY <1>1, <3>1, Zenon DEF RequestsOf
    <3> QED
      BY <1>1, <3>1, <3>2
  <2>2. Advances(cl, new)
    BY <1>1, <2>1, AdvancesSame, Zenon
  <2>3. cl.pos \in 1 .. Len(script[c]) /\ cl.pos <= new.pos
    BY <1>1, <1>2, <2>1
  <2>4. PICK r : Says(cl, new, r) /\ Outcome(c, cl.pos, db, db', r)
    BY <1>9, <2>1, Zenon DEF Wakes
  <2>5. \A h \in 1 .. Len(new.queue) : cl.pos < new.queue[h]
    BY <2>1
  <2>6. Hears(c, cl, new)
    BY <1>4, <2>3, <2>4, <2>5, Zenon
  <2> QED
    BY <2>2, <2>6 DEF cl
<1>10. CASE Turns(c, cl, new)
  <2>1. PICK mid \in Client : Protests(c, cl, mid) /\ Limits(mid, new)
    BY <1>10, Zenon DEF Turns
  <2>2. Quiet(cl.replies, mid.replies) /\ mid.queue = cl.queue /\ mid.pos = cl.pos
    BY <1>1, <1>3, <2>1, QuietSame, QuietSays, ZenonT(30) DEF Protests, Idles, SameTxn
  <2>3. Quiet(mid.replies, new.replies) /\ new.queue = mid.queue /\ new.pos = mid.pos
    BY <1>3, <2>1, QuietSame, QuietSays, Zenon DEF Limits, Idles, SameTxn
  <2>4. Quiet(cl.replies, new.replies)
    BY <2>2, <2>3, QuietTwice, Zenon
  <2>5. Advances(cl, new)
    BY <1>1, <2>2, <2>3, AdvancesSame, Zenon
  <2> QED
    BY <2>4, <2>5 DEF cl
<1>11. CASE Consumes(c, j, cl, new) /\ Begins(c, j, cl, new)
  <2>1. \A n : LET r == [Reply(j, "array") EXCEPT !.n = n] IN r.elems = {} /\ r.kind # "int"
    BY DEF Reply
  <2>2. Quiet(cl.replies, new.replies)
    BY <1>1, <1>11, <2>1, QuietSays, Zenon DEF Begins
  <2>3. Advances(cl, new)
    BY <1>1, <1>11, AdvancesSame, Zenon DEF Begins, SameTxn
  <2> QED
    BY <2>2, <2>3 DEF cl
<1>12. CASE Executes(c, cl, new)
  <2> DEFINE i == Head(cl.queue)
  <2>1. /\ cl.queue # << >> /\ new.queue = Tail(cl.queue) /\ new.pos = cl.pos
    BY <1>12 DEF Executes
  <2>2. /\ 1 \in 1 .. Len(cl.queue) /\ cl.queue[1] = i /\ i \in Nat
        /\ \A h \in Nat : h \in 1 .. Len(new.queue) <=> h # 0 /\ h + 1 \in 1 .. Len(cl.queue)
        /\ \A h \in 1 .. Len(new.queue) : new.queue[h] = cl.queue[h + 1]
    BY <1>1, <2>1, TailPlaces, SMTT(20)
  <2> HIDE DEF i
  <2>3. \A h \in 1 .. Len(new.queue) : h \in Nat /\ 1 < h + 1
    OBVIOUS
  <2>4. ASSUME NEW h \in 1 .. Len(new.queue) PROVE i < new.queue[h]
    <3>1. h + 1 \in 1 .. Len(cl.queue) /\ new.queue[h] = cl.queue[h + 1]
      BY <2>2, <2>3, Zenon
    <3>2. cl.queue[1] < cl.queue[h + 1]
      BY <1>1, <2>2, <2>3, <3>1, Zenon DEF RequestsOf
    <3> QED
      BY <2>2, <3>1, <3>2, Zenon
  <2>5. i \in 1 .. cl.pos
    <3>1. cl.queue[1] \in 1 .. cl.pos
      BY <1>1, <2>2, Zenon DEF RequestsOf
    <3> QED
      BY <2>2, <3>1
  <2>6. i \in 1 .. Len(script[c]) /\ i <= new.pos
    BY <1>1, <1>2, <2>1, <2>5
  <2>7. PICK r : Says(cl, new, r) /\ Outcome(c, i, db, db', r)
    BY <1>12, Zenon DEF Executes, i
  <2>8. Hears(c, cl, new)
    BY <1>4, <2>4, <2>6, <2>7, Zenon
  <2>9. cl.pos <= new.pos
    BY <1>1, <2>1
  <2>10. Advances(cl, new)
    BY <2>2, <2>3, <2>9, Zenon DEF Advances
  <2> QED
    BY <2>8, <2>10 DEF cl
<1> QED
  BY <1>5, <1>6, <1>7, <1>8, <1>9, <1>10, <1>11, <1>12, Zenon DEF Moves, cl

\* The pushes that are answered stay those of requests consumed, before the queue.
LEMMA PastKept ==
  ASSUME NEW c, NEW cl \in Client, NEW new \in Client, Past(c, cl), Advances(cl, new),
         Quiet(cl.replies, new.replies) \/ Hears(c, cl, new)
  PROVE  Past(c, new)
<1> DEFINE rs == cl.replies
           s == new.replies
<1>1. /\ rs \in Seq(ReplyRecord) /\ cl.pos \in Nat /\ new.pos \in Nat
      /\ cl.queue \in Seq(Nat) /\ new.queue \in Seq(Nat)
  BY DEF Client
<1>2. ASSUME NEW p \in 1 .. Len(rs) PROVE rs[p].req \in Nat
  <2>1. rs[p] \in ReplyRecord
    BY <1>1
  <2> QED
    BY <2>1 DEF ReplyRecord
<1>3. /\ \A p \in 1 .. Len(rs) : rs[p].kind = "int" =>
           rs[p].req <= cl.pos /\ \A i \in 1 .. Len(cl.queue) : rs[p].req < cl.queue[i]
  BY Zenon DEF Past
<1>4. ASSUME NEW p \in 1 .. Len(rs), rs[p].kind = "int"
      PROVE  rs[p].req <= new.pos /\ \A i \in 1 .. Len(new.queue) : rs[p].req < new.queue[i]
  <2>1. rs[p].req \in Nat /\ rs[p].req <= cl.pos /\ cl.pos <= new.pos
    BY <1>2, <1>3, <1>4, Zenon DEF Advances
  <2>2. rs[p].req <= new.pos
    BY <1>1, <2>1
  <2>3. ASSUME NEW i \in 1 .. Len(new.queue) PROVE rs[p].req < new.queue[i]
    <3>1. CASE cl.pos < new.queue[i]
      <4>1. new.queue[i] \in Nat
        BY <1>1, SMTT(20)
      <4>2. \A a, b, d \in Nat : a <= b /\ b < d => a < d
        OBVIOUS
      <4> QED
        BY <1>1, <2>1, <3>1, <4>1, <4>2, Zenon
    <3>2. CASE \E h \in 1 .. Len(cl.queue) : new.queue[i] = cl.queue[h]
      BY <1>3, <1>4, <3>2, Zenon
    <3> QED
      BY <3>1, <3>2, Zenon DEF Advances
  <2> QED
    BY <2>2, <2>3
<1> HIDE DEF rs, s
<1>5. SUFFICES \A p \in 1 .. Len(s) : s[p].kind = "int" =>
                 /\ s[p].req <= new.pos
                 /\ \A i \in 1 .. Len(new.queue) : s[p].req < new.queue[i]
  BY Zenon DEF Past, s
<1>6. CASE Quiet(rs, s)
  <2>1. Len(rs) \in Nat /\ Len(s) \in Nat
    BY <1>6 DEF Quiet
  <2>2. \A p \in 1 .. Len(s) : p \in 1 .. Len(rs) \/ p \in Len(rs) + 1 .. Len(s)
    BY <2>1
  <2> QED
    BY <1>4, <1>6, <2>2, Zenon DEF Quiet
<1>7. CASE Hears(c, cl, new)
  <2>1. PICK r \in ReplyRecord :
          /\ s = Append(rs, r) /\ r.req <= new.pos
          /\ \A i \in 1 .. Len(new.queue) : r.req < new.queue[i]
    BY <1>7, Zenon DEF Hears, rs, s
  <2>2. /\ \A p \in 1 .. Len(s) : p \in 1 .. Len(rs) \/ p = Len(rs) + 1
        /\ \A p \in 1 .. Len(rs) : s[p] = rs[p]
        /\ s[Len(rs) + 1] = r
    BY <1>1, <2>1, AppendPlaces
  <2> QED
    BY <1>4, <2>1, <2>2, Zenon
<1> QED
  BY <1>6, <1>7 DEF rs, s

-------------------------------------------------------------------------------
(* The elements are kept                                                   *)

LEMMA QuietHomes ==
  ASSUME NEW d, NEW rs, NEW s, Homes(d, rs), \A c \in Conns : Quiet(rs[c], s[c])
  PROVE  Homes(d, s)
<1>1. ASSUME NEW c \in Conns, NEW p \in Nat
      PROVE  \/ /\ p \in 1 .. Len(rs[c]) /\ p \in 1 .. Len(s[c]) /\ s[c][p] = rs[c][p]
             \/ p \notin 1 .. Len(rs[c]) /\ p \notin 1 .. Len(s[c])
             \/ /\ p \notin 1 .. Len(rs[c]) /\ p \in 1 .. Len(s[c])
                /\ s[c][p].elems = {} /\ s[c][p].kind # "int"
  <2>1. Len(rs[c]) \in Nat /\ Len(s[c]) \in Nat /\ Len(rs[c]) <= Len(s[c])
    BY Zenon DEF Quiet
  <2>2. CASE p \in 1 .. Len(rs[c])
    <3>1. p \in 1 .. Len(s[c])
      BY <2>1, <2>2
    <3> QED
      BY <2>2, <3>1, Zenon DEF Quiet
  <2>3. CASE p \notin 1 .. Len(rs[c])
    <3>1. p \in 1 .. Len(s[c]) => p \in Len(rs[c]) + 1 .. Len(s[c])
      BY <2>1, <2>3
    <3> QED
      BY <2>3, <3>1, Zenon DEF Quiet
  <2> QED
    BY <2>2, <2>3
<1>2. \A c \in Conns, p \in Nat, e \in Element : At(s, c, p, e) <=> At(rs, c, p, e)
  BY <1>1, Zenon DEF At
<1>3. ASSUME NEW e \in Element PROVE Known(s, e) <=> Known(rs, e)
  <2>1. e[1] \in Conns
    BY DEF Element
  <2>2. \A n : \A p \in 1 .. n : p \in Nat
    OBVIOUS
  <2>3. Known(s, e) => Known(rs, e)
    BY <1>1, <2>1, <2>2, ZenonT(30) DEF Known
  <2>4. Known(rs, e) => Known(s, e)
    BY <1>1, <2>1, <2>2, Zenon DEF Known
  <2> QED
    BY <2>3, <2>4, Zenon
<1> QED
  BY <1>2, <1>3, StillHomes, Zenon

\* Client a is sent one more reply.
LEMMA AppendHomes ==
  ASSUME NEW rs, NEW s, NEW a \in Conns, NEW r \in ReplyRecord, rs[a] \in Seq(ReplyRecord),
         s[a] = Append(rs[a], r), \A c \in Conns : c # a => s[c] = rs[c]
  PROVE  /\ Len(rs[a]) + 1 \in Nat
         /\ Hands(rs, s, a, Len(rs[a]) + 1, r.elems)
         /\ Admits(rs, s, {e \in Element : e[1] = a /\ r.kind = "int" /\ e[2] = r.req})
<1> DEFINE n == Len(rs[a])
<1>1. /\ n \in Nat /\ n + 1 \in Nat /\ Len(s[a]) = n + 1 /\ s[a][n + 1] = r
      /\ \A i \in 1 .. n : s[a][i] = rs[a][i] /\ i # n + 1
      /\ \A i : i \in 1 .. n + 1 <=> i \in 1 .. n \/ i = n + 1
  <2>1. \A q \in Seq(ReplyRecord) :
          /\ Len(q) \in Nat /\ Len(q) + 1 \in Nat
          /\ Len(Append(q, r)) = Len(q) + 1 /\ Append(q, r)[Len(q) + 1] = r
          /\ \A i \in 1 .. Len(q) : Append(q, r)[i] = q[i] /\ i # Len(q) + 1
          /\ \A i : i \in 1 .. Len(q) + 1 <=> i \in 1 .. Len(q) \/ i = Len(q) + 1
    BY AppendPlaces
  <2> QED
    BY <2>1, ZenonT(30)
<1>2. ASSUME NEW p \in Nat, NEW e \in Element
      PROVE  At(s, a, p, e) <=> At(rs, a, p, e) \/ (p = n + 1 /\ e \in r.elems)
  BY <1>1, Zenon DEF At
<1>3. ASSUME NEW c \in Conns, NEW p \in Nat, NEW e \in Element
      PROVE  At(s, c, p, e) <=> \/ At(rs, c, p, e)
                                \/ c = a /\ p = n + 1 /\ e \in r.elems
  <2>1. CASE c = a
    BY <1>2, <2>1, Zenon
  <2>2. CASE c # a
    BY <2>2, Zenon DEF At
  <2> QED
    BY <2>1, <2>2
<1>4. ASSUME NEW e \in Element
      PROVE  Known(s, e) <=> \/ Known(rs, e)
                             \/ e[1] = a /\ r.kind = "int" /\ e[2] = r.req
  <2>1. e[1] \in Conns
    BY DEF Element
  <2>2. CASE e[1] = a
    BY <1>1, <2>2, ZenonT(30) DEF Known
  <2>3. CASE e[1] # a
    BY <2>1, <2>3, Zenon DEF Known
  <2> QED
    BY <2>2, <2>3
<1>5. Hands(rs, s, a, n + 1, r.elems)
  BY <1>3, Zenon DEF Hands
<1>6. Admits(rs, s, {e \in Element : e[1] = a /\ r.kind = "int" /\ e[2] = r.req})
  BY <1>4, Zenon DEF Admits
<1> QED
  BY <1>1, <1>5, <1>6, Zenon

\* A command answered with r puts its element at the end of its list, hands out
\* the first of a list, or does neither.
LEMMA OutcomeHomes ==
  ASSUME Scripts, NEW d \in Contents, NEW n, NEW rs, NEW s, Homes(d, rs),
         NEW c \in Conns, NEW j \in 1 .. Len(script[c]), NEW r \in ReplyRecord,
         rs[c] \in Seq(ReplyRecord), s[c] = Append(rs[c], r),
         \A b \in Conns : b # c => s[b] = rs[b],
         Outcome(c, j, d, n, r),
         script[c][j].op = "rpush" => \A e \in Element : Known(rs, e) /\ e[1] = c => e[2] < j
  PROVE  Homes(n, s)
<1> DEFINE q == Len(rs[c]) + 1
           E == {e \in Element : e[1] = c /\ r.kind = "int" /\ e[2] = r.req}
<1>1. q \in Nat /\ Hands(rs, s, c, q, r.elems) /\ Admits(rs, s, E)
  BY AppendHomes, ZenonT(30)
<1> HIDE DEF q
<1>2. \A k \in Keys : d[k] \in Seq(Element)
  BY Zenon DEF Contents, Element
<1>3. CASE n = d /\ r \in {Reply(j, "error"), Reply(j, "nil")}
  <2>1. r.elems = {} /\ r.kind # "int"
    BY <1>3 DEF Reply
  <2>2. \A b \in Conns, p \in Nat, e \in Element : At(s, b, p, e) <=> At(rs, b, p, e)
    BY <1>1, <2>1, Zenon DEF Hands
  <2>3. \A e \in Element : Known(s, e) <=> Known(rs, e)
    BY <1>1, <2>1, Zenon DEF Admits
  <2>4. Homes(d, s)
    BY <2>2, <2>3, StillHomes, Zenon
  <2> QED
    BY <1>3, <2>4, Zenon
<1>4. CASE Pushes(c, j, d, n, r)
  <2> DEFINE k == script[c][j].keys[1]
             new == <<c, j>>
             l == Len(d[k])
  <2>1. script[c][j].op = "rpush" /\ r.elems = {} /\ r.kind = "int" /\ r.req = j
    BY <1>4, Zenon DEF Pushes, Reply
  <2>2. k \in Keys /\ new \in Element /\ new[1] = c /\ new[2] = j /\ j \in Nat
    <3>1. script[c][j] \in Request /\ script[c][j].keys # << >>
      BY DEF Scripts
    <3> QED
      BY <3>1 DEF Request, Element, Scripts
  <2>3. KeyOf(new) = k
    BY Zenon DEF KeyOf
  <2>4. n = [d EXCEPT ![k] = Append(d[k], new)]
    BY <1>4, Zenon DEF Pushes
  <2>5. \A e \in Element : e = new <=> e[1] = c /\ e[2] = j
    BY DEF Element
  <2> HIDE DEF k, new
  <2>6. n[k] = Append(d[k], new) /\ \A i \in Keys : i # k => n[i] = d[i]
    BY <2>2, <2>4, Zenon DEF Contents
  <2>7. /\ l \in Nat /\ Len(Append(d[k], new)) = l + 1 /\ Append(d[k], new)[l + 1] = new
        /\ \A i \in 1 .. l : Append(d[k], new)[i] = d[k][i] /\ i # l + 1
        /\ \A i : i \in 1 .. l + 1 <=> i \in 1 .. l \/ i = l + 1
    BY <1>2, <2>2, AppendPlaces
  <2>8. \A i \in Nat, e \in Element : In(d, k, i, e) => i <= l
    BY <2>7 DEF In
  <2>9. ASSUME NEW h \in Keys, NEW i \in Nat, NEW e \in Element
        PROVE  In(n, h, i, e) <=> In(d, h, i, e) \/ (h = k /\ i = l + 1 /\ e = new)
    <3>1. CASE h = k
      BY <2>6, <2>7, <3>1, Zenon DEF In
    <3>2. CASE h # k
      BY <2>6, <3>2, Zenon DEF In
    <3> QED
      BY <3>1, <3>2, Zenon
  <2>10. Follows(d, n, k, l, new)
    BY <2>8, <2>9, Zenon DEF Follows
  <2>11. Hands(rs, s, c, q, {})
    BY <1>1, <2>1, Zenon
  <2>12. Admits(rs, s, {new})
    BY <1>1, <2>1, <2>5, Zenon DEF Admits
  <2>13. Newest(rs, new)
    BY <2>1, <2>2, Zenon DEF Newest
  <2> HIDE DEF l
  <2> QED
    BY <2>2, <2>3, <2>7, <2>10, <2>11, <2>12, <2>13, PushHomes, Zenon
<1>5. CASE Takes(j, d, n, r)
  <2>1. PICK k \in Keys : /\ d[k] # << >>
                          /\ n = [d EXCEPT ![k] = Tail(d[k])]
                          /\ r = [Reply(j, "elem") EXCEPT !.elems = {Head(d[k])}]
    BY <1>5, Zenon DEF Takes
  <2> DEFINE first == Head(d[k])
  <2>2. r.elems = {first} /\ r.kind # "int"
    BY <2>1 DEF Reply
  <2>3. /\ 1 \in 1 .. Len(d[k]) /\ d[k][1] = first /\ first \in Element
        /\ \A i \in Nat : i \in 1 .. Len(Tail(d[k])) <=> i # 0 /\ i + 1 \in 1 .. Len(d[k])
        /\ \A i \in 1 .. Len(Tail(d[k])) : Tail(d[k])[i] = d[k][i + 1]
    BY <1>2, <2>1, TailPlaces, Zenon
  <2> HIDE DEF first
  <2>4. n[k] = Tail(d[k]) /\ \A i \in Keys : i # k => n[i] = d[i]
    BY <2>1, Zenon DEF Contents
  <2>5. In(d, k, 1, first) /\ \A e \in Element : In(d, k, 1, e) => e = first
    BY <2>3, Zenon DEF In
  <2>6. \A h \in Keys, i \in Nat, e \in Element : In(d, h, i, e) => i # 0
    BY DEF In
  <2>7. \A i \in Nat, e \in Element : In(n, k, i, e) <=> i # 0 /\ In(d, k, i + 1, e)
    BY <2>3, <2>4, Zenon DEF In
  <2>8. \A h \in Keys, i \in Nat, e \in Element : h # k => (In(n, h, i, e) <=> In(d, h, i, e))
    BY <2>4, Zenon DEF In
  <2>9. Leaves(d, n, k, first)
    BY <2>5, <2>6, <2>7, <2>8, Zenon DEF Leaves
  <2>10. Hands(rs, s, c, q, {first})
    BY <1>1, <2>2, Zenon
  <2>11. Admits(rs, s, {})
    BY <1>1, <2>2, Zenon DEF Admits
  <2> QED
    BY <1>1, <2>3, <2>9, <2>10, <2>11, TakeHomes, Zenon
<1> QED
  BY <1>3, <1>4, <1>5, Zenon DEF Outcome

\* The lists change only in answer to a command.
LEMMA Dealings ==
  ASSUME LeastNumbers, Structure, [Next]_vars
  PROVE  db' = db \/ \E c \in Conns : Deals(c)
<1>1. CASE Service
  BY <1>1, ServiceStep, Zenon
<1>2. CASE ProcessRequest
  BY <1>2, ProcessRequestStep, Zenon
<1>3. CASE ExecCommand
  BY <1>3, ExecCommandStep, Zenon
<1>4. CASE Top \/ Poll \/ PollFails \/ Read \/ ReadFails \/ Accept
  BY <1>4, Zenon DEF Top, Poll, PollFails, Read, ReadFails, Accept
<1>5. CASE ExecDone \/ ProcessReturn \/ Flush \/ server_shutdown
  BY <1>5, Zenon DEF ExecDone, ProcessReturn, Flush, server_shutdown
<1>6. CASE Environment
  BY <1>6, Zenon DEF Environment, Connect, Send, Receive, Leave, Signal, Tick
<1>7. CASE UNCHANGED vars
  BY <1>7 DEF vars
<1> QED
  BY <1>1, <1>2, <1>3, <1>4, <1>5, <1>6, <1>7, Zenon DEF Next, ServerStep, Terminated

\* A push that is answered is the last one its client has made.
LEMMA PushIsNewest ==
  ASSUME Structure, NEW c \in Conns, Past(c, client[c]), NEW j \in 1 .. Len(script[c]),
         script[c][j].op = "rpush",
         \/ j = client[c].pos + 1
         \/ client[c].queue # << >> /\ j = Head(client[c].queue)
         \/ script[c][j].op = "blpop"
  PROVE  \A e \in Element : Known(Replies, e) /\ e[1] = c => e[2] < j
<1> DEFINE cl == client[c]
           rs == cl.replies
<1>1. /\ cl.pos \in Nat /\ cl.queue \in Seq(Nat) /\ rs \in Seq(ReplyRecord) /\ Replies[c] = rs
      /\ j \in Nat
  BY ClientFacts DEF Replies
<1> HIDE DEF cl
<1>2. ASSUME NEW e \in Element, Known(Replies, e), e[1] = c
      PROVE  e[2] < j
  <2>1. PICK p \in 1 .. Len(rs) : rs[p].kind = "int" /\ rs[p].req = e[2]
    BY <1>1, <1>2, Zenon DEF Known
  <2>2. e[2] <= cl.pos /\ \A i \in 1 .. Len(cl.queue) : e[2] < cl.queue[i]
    BY <2>1, Zenon DEF Past, cl
  <2>3. e[2] \in Nat
    BY DEF Element
  <2>4. CASE j = cl.pos + 1
    BY <1>1, <2>2, <2>3, <2>4
  <2>5. CASE cl.queue # << >> /\ j = Head(cl.queue)
    <3>1. 1 \in 1 .. Len(cl.queue) /\ cl.queue[1] = Head(cl.queue)
      BY <1>1, <2>5, TailPlaces
    <3> QED
      BY <2>2, <2>5, <3>1, Zenon
  <2> QED
    BY <2>4, <2>5 DEF cl
<1> QED
  BY <1>2, Zenon

LEMMA HomesPrimed ==
  ASSUME NEW d, NEW rs, script' = script, Homes(d, rs)
  PROVE  Homes(d, rs)'
<1>1. \A e \in Element : KeyOf(e)' = KeyOf(e)
  BY DEF KeyOf
<1>2. StoredKnown(d, rs)'
  BY <1>1, Zenon DEF Homes, StoredKnown
<1>3. Behind(d, rs)'
  BY <1>1, Zenon DEF Homes, Behind
<1> QED
  BY <1>2, <1>3 DEF Homes

LEMMA ElementsStep ==
  ASSUME LeastNumbers, Structure, ElementsKept, [Next]_vars
  PROVE  ElementsKept'
<1>1. /\ client' \in [Conns -> Client] /\ script' = script
      /\ \A c \in Conns : Moves(c, client[c], client'[c])
  BY Evolution, EvolvesMoves, Zenon
<1>2. /\ client \in [Conns -> Client] /\ db \in Contents /\ Scripts
      /\ Homes(db, Replies) /\ \A c \in Conns : Past(c, client[c])
  BY Zenon DEF Structure, Typed, TypeOK, Contents, ElementsKept
<1>3. \A c \in Conns : /\ client'[c] \in Client /\ client[c] \in Client
                       /\ Advances(client[c], client'[c])
                       /\ \/ Quiet(client[c].replies, client'[c].replies)
                          \/ Hears(c, client[c], client'[c])
  BY <1>1, <1>2, MovesLogged, Zenon
<1>4. \A c \in Conns : Past(c, client'[c])
  BY <1>2, <1>3, PastKept, Zenon
<1>5. PICK s : s = [c \in Conns |-> client'[c].replies]
  BY Zenon
<1>6. PICK d : d = db'
  OBVIOUS
<1>7. \A c \in Conns : Replies[c] = client[c].replies /\ s[c] = client'[c].replies
  BY <1>5, Zenon DEF Replies
<1>8. ASSUME db' = db PROVE Homes(d, s)
  <2>1. ASSUME NEW c \in Conns, Hears(c, client[c], client'[c])
        PROVE  Quiet(client[c].replies, client'[c].replies)
    <3>1. PICK j \in 1 .. Len(script[c]), r \in ReplyRecord :
            client'[c].replies = Append(client[c].replies, r) /\ Outcome(c, j, db, db, r)
      BY <1>8, <2>1, Zenon DEF Hears
    <3>2. r.elems = {} /\ r.kind # "int"
      BY <1>2, <3>1, OutcomeQuiet, Zenon
    <3> QED
      BY <1>3, <3>1, <3>2, QuietSays, Zenon DEF Says
  <2>2. \A c \in Conns : Quiet(Replies[c], s[c])
    BY <1>3, <1>7, <2>1, Zenon
  <2>3. Homes(db, s)
    BY <1>2, <2>2, QuietHomes, Zenon
  <2> QED
    BY <1>6, <1>8, <2>3, Zenon
<1>9. ASSUME NEW c \in Conns, Deals(c) PROVE Homes(d, s)
  <2>1. \A b \in Conns : b # c => s[b] = Replies[b]
    BY <1>7, <1>9, Zenon DEF Deals
  <2>2. PICK j \in 1 .. Len(script[c]), r \in ReplyRecord :
          /\ client'[c].replies = Append(client[c].replies, r)
          /\ Outcome(c, j, db, db', r)
          /\ \/ j = client[c].pos + 1
             \/ client[c].queue # << >> /\ j = Head(client[c].queue)
             \/ script[c][j].op = "blpop"
    BY <1>9, Zenon DEF Deals
  <2>3. Replies[c] \in Seq(ReplyRecord) /\ s[c] = Append(Replies[c], r)
    <3>1. client[c].replies \in Seq(ReplyRecord)
      BY <1>3 DEF Client
    <3> QED
      BY <1>7, <2>2, <3>1, Zenon
  <2>4. script[c][j].op = "rpush" => \A e \in Element : Known(Replies, e) /\ e[1] = c => e[2] < j
    BY <1>2, <2>2, PushIsNewest, Zenon
  <2>5. Outcome(c, j, db, d, r)
    BY <1>6, <2>2, Zenon
  <2> QED
    BY <1>2, <2>1, <2>3, <2>4, <2>5, OutcomeHomes, Zenon
<1>10. Homes(d, s)
  BY <1>8, <1>9, Dealings, Zenon
<1>11. Homes(db, Replies)'
  <2>1. Homes(d, s)'
    BY <1>1, <1>10, HomesPrimed
  <2> QED
    BY <1>5, <1>6, <2>1 DEF Replies
<1> QED
  BY <1>4, <1>11, Zenon DEF ElementsKept, Past

LEMMA ElementsInit ==
  ASSUME Init
  PROVE  ElementsKept
<1>1. \A c \in Conns : client[c].replies = << >>
  BY DEF Init, client_init
<1>2. \A k \in Keys : db[k] = << >>
  BY DEF Init
<1>3. \A i : i \notin 1 .. Len(<< >>)
  OBVIOUS
<1>4. \A k \in Keys : \A i, e : ~In(db, k, i, e)
  BY <1>2, <1>3, Zenon DEF In
<1>5. \A c \in Conns : Replies[c] = << >>
  BY <1>1 DEF Replies
<1>6. \A c \in Conns : \A p, e : ~At(Replies, c, p, e)
  BY <1>3, <1>5, Zenon DEF At
<1>7. \A e \in Element : ~Known(Replies, e)
  <2>1. \A e \in Element : e[1] \in Conns
    BY DEF Element
  <2> QED
    BY <1>3, <1>5, <2>1, Zenon DEF Known
<1>8. Homes(db, Replies)
  BY <1>4, <1>6, <1>7, Zenon
     DEF Homes, StoredKnown, TakenKnown, Ordered, Behind, Once, NoneLost
<1>9. \A c \in Conns : Past(c, client[c])
  BY <1>1, <1>3, Zenon DEF Past
<1> QED
  BY <1>8, <1>9 DEF ElementsKept

-------------------------------------------------------------------------------
(* What that says of an element                                            *)

LEMMA Places ==
  ASSUME NEW e
  PROVE  /\ \A x : x \in Stored(e) <=> \E k \in Keys, i \in Nat : x = <<k, i>> /\ In(db, k, i, e)
         /\ \A x : x \in Taken(e) <=> \E c \in Conns, p \in Nat : x = <<c, p>> /\ At(Replies, c, p, e)
<1>1. \A n, i : i \in 1 .. n => i \in Nat
  OBVIOUS
<1>2. \A c \in Conns : Replies[c] = client[c].replies
  BY Zenon DEF Replies
<1>3. ASSUME NEW x
      PROVE  x \in Stored(e) <=> \E k \in Keys, i \in Nat : x = <<k, i>> /\ In(db, k, i, e)
  <2>1. x \in Stored(e) <=> \E k \in Keys : \E i \in 1 .. Len(db[k]) : db[k][i] = e /\ x = <<k, i>>
    BY DEF Stored
  <2> QED
    BY <1>1, <2>1, Zenon DEF In
<1>4. ASSUME NEW x
      PROVE  x \in Taken(e) <=> \E c \in Conns, p \in Nat : x = <<c, p>> /\ At(Replies, c, p, e)
  <2>1. x \in Taken(e) <=> \E c \in Conns : \E p \in 1 .. Len(client[c].replies) :
                             e \in client[c].replies[p].elems /\ x = <<c, p>>
    BY DEF Taken
  <2> QED
    BY <1>1, <1>2, <2>1, Zenon DEF At
<1> QED
  BY <1>3, <1>4

\* An element whose push was answered is in one list or in one reply, at one place;
\* any other is nowhere.
LEMMA OnePlace ==
  ASSUME Homes(db, Replies), NEW e \in Element
  PROVE  IF Known(Replies, e)
         THEN \E x : \/ Stored(e) = {x} /\ Taken(e) = {}
                     \/ Stored(e) = {} /\ Taken(e) = {x}
         ELSE Stored(e) = {} /\ Taken(e) = {}
<1>1. /\ StoredKnown(db, Replies) /\ TakenKnown(Replies) /\ Ordered(db)
      /\ Behind(db, Replies) /\ Once(Replies) /\ NoneLost(db, Replies)
  BY DEF Homes
<1>2. ~(e[2] < e[2])
  BY DEF Element
<1>3. ASSUME NEW k \in Keys, NEW h \in Keys, NEW i \in Nat, NEW m \in Nat,
             In(db, k, i, e), In(db, h, m, e)
      PROVE  k = h /\ i = m
  <2>1. KeyOf(e) = k /\ KeyOf(e) = h
    BY <1>1, <1>3, Zenon DEF StoredKnown
  <2>2. ~(i < m) /\ ~(m < i)
    <3>1. In(db, k, m, e)
      BY <1>3, <2>1
    <3> QED
      BY <1>1, <1>2, <1>3, <3>1, Zenon DEF Ordered
  <2> QED
    BY <2>1, <2>2
<1>4. ASSUME NEW k \in Keys, NEW i \in Nat, NEW c \in Conns, NEW p \in Nat,
             In(db, k, i, e), At(Replies, c, p, e)
      PROVE  FALSE
  <2>1. KeyOf(e) = k
    BY <1>1, <1>4, Zenon DEF StoredKnown
  <2> QED
    BY <1>1, <1>2, <1>4, <2>1, Zenon DEF Behind
<1>5. CASE \E k \in Keys, i \in Nat : In(db, k, i, e)
  <2>1. PICK k \in Keys, i \in Nat : In(db, k, i, e)
    BY <1>5
  <2>2. \A x : x \in Stored(e) <=> x = <<k, i>>
    <3>1. \A h \in Keys, m \in Nat : In(db, h, m, e) => h = k /\ m = i
      BY <1>3, <2>1, Zenon
    <3> QED
      BY <2>1, <3>1, Places
  <2>3. \A x : x \notin Taken(e)
    BY <1>4, <2>1, Places, Zenon
  <2>4. Stored(e) = {<<k, i>>} /\ Taken(e) = {}
    BY <2>2, <2>3
  <2>5. Known(Replies, e)
    BY <1>1, <2>1, Zenon DEF StoredKnown
  <2> QED
    BY <2>4, <2>5, Zenon
<1>6. CASE \E c \in Conns, p \in Nat : At(Replies, c, p, e)
  <2>1. PICK c \in Conns, p \in Nat : At(Replies, c, p, e)
    BY <1>6
  <2>2. \A x : x \in Taken(e) <=> x = <<c, p>>
    BY <1>1, <2>1, Places DEF Once
  <2>3. \A x : x \notin Stored(e)
    BY <1>4, <2>1, Places, Zenon
  <2>4. Stored(e) = {} /\ Taken(e) = {<<c, p>>}
    BY <2>2, <2>3
  <2>5. Known(Replies, e)
    BY <1>1, <2>1, Zenon DEF TakenKnown
  <2> QED
    BY <2>4, <2>5, Zenon
<1>7. CASE /\ ~\E k \in Keys, i \in Nat : In(db, k, i, e)
           /\ ~\E c \in Conns, p \in Nat : At(Replies, c, p, e)
  <2>1. ~Known(Replies, e)
    BY <1>1, <1>7, Zenon DEF NoneLost
  <2>2. \A x : x \notin Stored(e) /\ x \notin Taken(e)
    BY <1>7, Places, Zenon
  <2>3. Stored(e) = {} /\ Taken(e) = {}
    BY <2>2
  <2> QED
    BY <2>1, <2>3
<1> QED
  BY <1>5, <1>6, <1>7, Zenon

LEMMA ElementOfRequest ==
  ASSUME Structure, NEW c \in Conns, NEW j \in 1 .. Len(script[c])
  PROVE  /\ <<c, j>> \in Element /\ KeyOf(<<c, j>>) = script[c][j].keys[1]
         /\ Pushed(c, j) <=> Known(Replies, <<c, j>>)
<1>1. j \in Nat
  OBVIOUS
<1>2. Replies[c] = client[c].replies
  BY Zenon DEF Replies
<1>3. <<c, j>> \in Element /\ <<c, j>>[1] = c /\ <<c, j>>[2] = j
  BY <1>1 DEF Element
<1>4. Pushed(c, j) <=> Known(Replies, <<c, j>>)
  BY <1>2, <1>3, Zenon DEF Pushed, Known
<1>5. KeyOf(<<c, j>>) = script[c][j].keys[1]
  BY <1>3 DEF KeyOf
<1> QED
  BY <1>3, <1>4, <1>5, Zenon

LEMMA InOrderOfPushes ==
  ASSUME Structure, Homes(db, Replies)
  PROVE  FirstInFirstOut
<1> SUFFICES ASSUME NEW c \in Conns, NEW i \in 1 .. Len(script[c]), NEW j \in 1 .. Len(script[c]),
                    i < j, script[c][i].keys[1] = script[c][j].keys[1],
                    Stored(<<c, i>>) # {}, Taken(<<c, j>>) # {}
             PROVE  FALSE
  BY Zenon DEF FirstInFirstOut
<1> DEFINE e == <<c, j>>
           f == <<c, i>>
<1>1. e \in Element /\ f \in Element /\ KeyOf(e) = KeyOf(f)
  BY ElementOfRequest, Zenon
<1>2. e[1] = f[1] /\ ~(e[2] < f[2])
  OBVIOUS
<1> HIDE DEF e, f
<1>3. PICK k \in Keys, h \in Nat : In(db, k, h, f)
  <2>1. \E x : x \in Stored(f)
    BY DEF f
  <2> QED
    BY <2>1, Places, Zenon
<1>4. PICK b \in Conns, p \in Nat : At(Replies, b, p, e)
  <2>1. \E x : x \in Taken(e)
    BY DEF e
  <2> QED
    BY <2>1, Places, Zenon
<1>5. KeyOf(e) = k
  BY <1>1, <1>3, Zenon DEF Homes, StoredKnown
<1> QED
  BY <1>1, <1>2, <1>3, <1>4, <1>5, Zenon DEF Homes, Behind

===============================================================================
