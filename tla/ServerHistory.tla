----------------------------- MODULE ServerHistory -----------------------------
(***************************************************************************)
(* What the replies of one client say about its requests, and that each of *)
(* the things that may happen to a client keeps it so.                     *)
(***************************************************************************)
EXTENDS ServerHandlers

\* What may happen to a client that is not removed: e and f say whether it is
\* in the middle of its EXEC before and after.
Steps(c, cl, new, e, f) ==
  LET j == cl.pos + 1
  IN  \/ Idles(cl, new) /\ (f <=> e)
      \/ ~e /\ ~f /\ (Responds(c, j, cl, new) \/ Wakes(c, cl, new) \/ Turns(c, cl, new))
      \/ ~e /\ f /\ Consumes(c, j, cl, new) /\ Begins(c, j, cl, new)
      \/ e /\ f /\ Executes(c, cl, new)
      \/ e /\ ~f /\ Finishes(cl, new)

-------------------------------------------------------------------------------
(* One more reply                                                          *)

Adds(rs, s, r) ==
  /\ rs \in Seq(ReplyRecord) /\ s \in Seq(ReplyRecord) /\ r \in ReplyRecord
  /\ Len(rs) \in Nat /\ Len(s) = Len(rs) + 1
  /\ \A p \in 1 .. Len(rs) : s[p] = rs[p]
  /\ s[Len(rs) + 1] = r
  /\ \A p \in 1 .. Len(s) : s[p].req \in Nat /\ s[p].n \in Nat /\ s[p].kind \in Kinds

LEMMA SaysAdds ==
  ASSUME NEW cl \in Client, NEW new \in Client, NEW r, Says(cl, new, r)
  PROVE  Adds(cl.replies, new.replies, r)
<1>1. /\ cl.replies \in Seq(ReplyRecord) /\ new.replies \in Seq(ReplyRecord)
      /\ r \in ReplyRecord /\ new.replies = Append(cl.replies, r)
  BY DEF Client, Says
<1> DEFINE rs == cl.replies
           s == new.replies
<1> HIDE DEF rs, s
<1>2. /\ Len(rs) \in Nat /\ Len(s) = Len(rs) + 1
      /\ \A p \in 1 .. Len(rs) : s[p] = rs[p]
      /\ s[Len(rs) + 1] = r
  BY <1>1 DEF rs, s
<1>3. \A p \in 1 .. Len(s) : s[p] \in ReplyRecord
  BY <1>1 DEF s
<1>4. \A p \in 1 .. Len(s) : s[p].req \in Nat /\ s[p].n \in Nat /\ s[p].kind \in Kinds
  BY <1>3 DEF ReplyRecord
<1> QED
  BY <1>1, <1>2, <1>4, Zenon DEF Adds, rs, s

\* Only an EXEC announces elements, and none that are still to come but the left
\* ones of the EXEC that is running.
Heads(rs, left) ==
  \A h \in 1 .. Len(rs) : /\ rs[h].n > 0 => rs[h].kind = "array"
                          /\ h + rs[h].n <= Len(rs) + left

Busy(rs, left) == \E h \in 1 .. Len(rs) : h + rs[h].n = Len(rs) + left

LEMMA HeadsOuter ==
  ASSUME NEW rs, NEW s, NEW r, Adds(rs, s, r), Heads(rs, 0), r.n > 0 => r.kind = "array"
  PROVE  Heads(s, r.n) /\ Busy(s, r.n)
<1>1. /\ Len(rs) \in Nat /\ Len(s) = Len(rs) + 1 /\ s[Len(rs) + 1] = r
      /\ \A h \in 1 .. Len(s) : s[h].n \in Nat
      /\ \A h \in 1 .. Len(rs) : s[h] = rs[h]
  BY DEF Adds
<1>2. ASSUME NEW h \in 1 .. Len(rs)
      PROVE  (s[h].n > 0 => s[h].kind = "array") /\ h + s[h].n <= Len(s) + r.n
  <2>1. h + rs[h].n <= Len(rs) /\ (rs[h].n > 0 => rs[h].kind = "array")
    BY <1>1 DEF Heads
  <2>2. s[h].n \in Nat /\ r.n \in Nat /\ s[h] = rs[h]
    BY <1>1
  <2> QED
    BY <1>1, <2>1, <2>2
<1>3. 1 .. Len(s) = 1 .. Len(rs) \cup {Len(rs) + 1}
  BY <1>1
<1> QED
  BY <1>1, <1>2, <1>3 DEF Heads, Busy

LEMMA HeadsInner ==
  ASSUME NEW rs, NEW s, NEW r, NEW k \in Nat, Adds(rs, s, r), r.n = 0,
         Heads(rs, k + 1), Busy(rs, k + 1)
  PROVE  Heads(s, k) /\ Busy(s, k)
<1>1. /\ Len(rs) \in Nat /\ Len(s) = Len(rs) + 1 /\ s[Len(rs) + 1] = r
      /\ \A h \in 1 .. Len(s) : s[h].n \in Nat
      /\ \A h \in 1 .. Len(rs) : s[h] = rs[h]
  BY DEF Adds
<1>2. ASSUME NEW h \in 1 .. Len(rs)
      PROVE  (s[h].n > 0 => s[h].kind = "array") /\ h + s[h].n <= Len(s) + k
  <2>1. h + rs[h].n <= Len(rs) + (k + 1) /\ (rs[h].n > 0 => rs[h].kind = "array")
    BY DEF Heads
  <2> QED
    BY <1>1, <2>1
<1>3. 1 .. Len(s) = 1 .. Len(rs) \cup {Len(rs) + 1}
  BY <1>1
<1>4. PICK h \in 1 .. Len(rs) : h + rs[h].n = Len(rs) + (k + 1)
  BY DEF Busy
<1>5. h \in 1 .. Len(s) /\ h + s[h].n = Len(s) + k
  BY <1>1, <1>4
<1>6. Busy(s, k)
  BY <1>5 DEF Busy
<1>7. s[Len(rs) + 1].n = 0 /\ (Len(rs) + 1) + 0 <= Len(s) + k
  BY <1>1
<1> QED
  BY <1>2, <1>3, <1>6, <1>7, SMTT(20) DEF Heads

LEMMA BusyReach ==
  ASSUME NEW rs \in Seq(ReplyRecord), NEW k \in Nat, k > 0, Busy(rs, k)
  PROVE  \E h \in 1 .. Len(rs) : h + rs[h].n > Len(rs)
<1>1. PICK h \in 1 .. Len(rs) : h + rs[h].n = Len(rs) + k
  BY DEF Busy
<1>2. rs[h] \in ReplyRecord
  OBVIOUS
<1>3. rs[h].n \in Nat
  BY <1>2 DEF ReplyRecord
<1> QED
  BY <1>1, <1>3

\* An earlier reply stays what it was.
LEMMA OwnBelow ==
  ASSUME NEW rs, NEW s, NEW r, Adds(rs, s, r), NEW p \in 1 .. Len(rs)
  PROVE  p \in Own(s) <=> p \in Own(rs)
<1>1. /\ Len(rs) \in Nat /\ Len(s) = Len(rs) + 1 /\ p \in 1 .. Len(s)
      /\ \A h \in 1 .. Len(rs) : s[h] = rs[h]
  BY DEF Adds
<1>2. s[p] = rs[p] /\ \A h \in 1 .. p - 1 : s[h] = rs[h]
  BY <1>1
<1>3. (\E h \in 1 .. p - 1 : h + s[h].n >= p) <=> (\E h \in 1 .. p - 1 : h + rs[h].n >= p)
  BY <1>2
<1>4. p \in Inner(s) <=> p \in Inner(rs)
  <2> DEFINE A == \E h \in 1 .. p - 1 : h + s[h].n >= p
             B == \E h \in 1 .. p - 1 : h + rs[h].n >= p
  <2>1. (p \in Inner(s) <=> A) /\ (p \in Inner(rs) <=> B)
    BY <1>1, Zenon DEF Inner
  <2> QED
    BY <1>3, <2>1
<1> QED
  BY <1>1, <1>2, <1>4 DEF Own

\* A reply outside of EXEC answers a request by itself.
LEMMA OuterOwn ==
  ASSUME NEW rs, NEW s, NEW r, Adds(rs, s, r), Heads(rs, 0)
  PROVE  Own(s) = Own(rs) \cup (IF r.kind = "limit" THEN {} ELSE {Len(rs) + 1})
<1>1. /\ Len(rs) \in Nat /\ Len(s) = Len(rs) + 1 /\ s[Len(rs) + 1] = r
      /\ \A h \in 1 .. Len(rs) : s[h] = rs[h] /\ s[h].n \in Nat
  BY DEF Adds
<1>2. Len(rs) + 1 \notin Inner(s)
  <2>1. \A h \in 1 .. Len(rs) : h + s[h].n <= Len(rs) /\ h + s[h].n \in Nat
    BY <1>1, SMTT(20) DEF Heads
  <2> QED
    BY <1>1, <2>1 DEF Inner
<1>3. Len(rs) + 1 \in Own(s) <=> r.kind # "limit"
  BY <1>1, <1>2 DEF Own
<1>4. Own(s) \subseteq 1 .. Len(rs) + 1 /\ Own(rs) \subseteq 1 .. Len(rs)
  BY <1>1 DEF Own
<1> QED
  BY <1>1, <1>3, <1>4, OwnBelow

\* A reply that a header has announced does not.
LEMMA InnerOwn ==
  ASSUME NEW rs, NEW s, NEW r, Adds(rs, s, r),
         NEW h \in 1 .. Len(rs), h + rs[h].n > Len(rs)
  PROVE  Own(s) = Own(rs)
<1>1. /\ Len(rs) \in Nat /\ Len(s) = Len(rs) + 1 /\ s[h] = rs[h] /\ s[h].n \in Nat
  BY DEF Adds
<1>2. Len(rs) + 1 \in Inner(s)
  BY <1>1 DEF Inner
<1>3. Own(s) \subseteq 1 .. Len(rs) + 1 /\ Own(rs) \subseteq 1 .. Len(rs) /\ Len(rs) + 1 \notin Own(s)
  BY <1>1, <1>2 DEF Own
<1>4. \A p \in 1 .. Len(rs) : p \in Own(s) <=> p \in Own(rs)
  BY OwnBelow
<1>5. Own(s) \subseteq 1 .. Len(rs)
  BY <1>1, <1>3
<1> QED
  BY <1>3, <1>4, <1>5

-------------------------------------------------------------------------------
(* Every request is answered once, in order                                *)

Answered(rs) == {rs[p].req : p \in Own(rs)}

InOrder(rs) == \A p, q \in Own(rs) : p < q => rs[p].req < rs[q].req

Told(rs) == \E p \in 1 .. Len(rs) : rs[p].kind = "protocol"

Due(c, cl) ==
  {j \in 1 .. (IF Told(cl.replies) THEN cl.pos + 1 ELSE cl.pos) :
     script[c][j].op # "blank" /\ j # cl.blocked_req}

Answers(c, cl) == Answered(cl.replies) = Due(c, cl) /\ InOrder(cl.replies)

\* A client that was told its input is not RESP is asked nothing any more.
Ended(c, cl) ==
  Told(cl.replies) => /\ cl.close_after_reply /\ cl.blocked_req = 0
                      /\ script[c][cl.pos + 1].op = "garbage"

LEMMA OuterAnswers ==
  ASSUME NEW rs, NEW s, NEW r, Adds(rs, s, r), Heads(rs, 0), InOrder(rs),
         r.kind # "limit", \A j \in Answered(rs) : j < r.req
  PROVE  Answered(s) = Answered(rs) \cup {r.req} /\ InOrder(s)
<1>1. /\ Len(rs) \in Nat /\ Own(rs) \subseteq 1 .. Len(rs)
      /\ \A p \in 1 .. Len(rs) : s[p] = rs[p]
      /\ s[Len(rs) + 1] = r
  BY DEF Adds, Own
<1>2. Own(s) = Own(rs) \cup {Len(rs) + 1}
  BY OuterOwn
<1>3. \A p \in Own(rs) : s[p] = rs[p] /\ s[p].req < r.req
  BY <1>1 DEF Answered
<1>4. Answered(s) = Answered(rs) \cup {r.req}
  BY <1>1, <1>2, <1>3 DEF Answered
<1>5. InOrder(s)
  BY <1>1, <1>2, <1>3 DEF InOrder
<1> QED
  BY <1>4, <1>5

LEMMA SameAnswers ==
  ASSUME NEW rs, NEW s, NEW r, Adds(rs, s, r), InOrder(rs), Own(s) = Own(rs)
  PROVE  Answered(s) = Answered(rs) /\ InOrder(s)
<1>1. \A p \in Own(rs) : s[p] = rs[p]
  BY DEF Adds, Own
<1> QED
  BY <1>1 DEF Answered, InOrder

LEMMA ToldAdds ==
  ASSUME NEW rs, NEW s, NEW r, Adds(rs, s, r)
  PROVE  Told(s) <=> (Told(rs) \/ r.kind = "protocol")
<1>1. /\ Len(rs) \in Nat /\ Len(s) = Len(rs) + 1 /\ s[Len(rs) + 1] = r
      /\ \A p \in 1 .. Len(rs) : s[p] = rs[p]
  BY DEF Adds
<1> QED
  BY <1>1 DEF Told

\* A request that is answered outside of EXEC.
LEMMA AnswerKept ==
  ASSUME NEW c \in Conns, NEW cl \in Client, NEW new \in Client, NEW r, Says(cl, new, r),
         Heads(cl.replies, 0), Answers(c, cl), ~Told(cl.replies),
         r.kind \notin {"limit", "protocol"}, script[c][r.req].op # "blank",
         new.blocked_req = 0,
         \/ r.req = cl.pos + 1 /\ new.pos = cl.pos + 1 /\ cl.blocked_req = 0
         \/ r.req = cl.pos /\ new.pos = cl.pos /\ cl.blocked_req = cl.pos /\ cl.pos # 0
  PROVE  Answers(c, new) /\ ~Told(new.replies)
<1>1. Adds(cl.replies, new.replies, r) /\ cl.pos \in Nat
  BY SaysAdds, Zenon DEF Client
<1>2. ~Told(new.replies)
  BY <1>1, ToldAdds
<1>3. Answered(cl.replies) = {j \in 1 .. cl.pos : script[c][j].op # "blank" /\ j # cl.blocked_req}
  BY DEF Answers, Due
<1>4. \A j \in Answered(cl.replies) : j < r.req
  BY <1>1, <1>3
<1>5. Answered(new.replies) = Answered(cl.replies) \cup {r.req} /\ InOrder(new.replies)
  BY <1>1, <1>4, OuterAnswers DEF Answers
<1>6. Due(c, new) = {j \in 1 .. new.pos : script[c][j].op # "blank" /\ j # 0}
  BY <1>2 DEF Due
<1>7. Due(c, new) = Answered(cl.replies) \cup {r.req}
  BY <1>1, <1>3, <1>6
<1> QED
  BY <1>2, <1>5, <1>7 DEF Answers

\* One that is answered by EXEC.
LEMMA InnerKept ==
  ASSUME NEW c \in Conns, NEW cl \in Client, NEW new \in Client, NEW r, Says(cl, new, r),
         Answers(c, cl), r.kind # "protocol",
         new.pos = cl.pos, new.blocked_req = cl.blocked_req,
         \/ Heads(cl.replies, 0) /\ r.kind = "limit"
         \/ \E h \in 1 .. Len(cl.replies) : h + cl.replies[h].n > Len(cl.replies)
  PROVE  Answers(c, new) /\ (Told(new.replies) <=> Told(cl.replies))
<1>1. Adds(cl.replies, new.replies, r)
  BY SaysAdds
<1>2. Told(new.replies) <=> Told(cl.replies)
  BY <1>1, ToldAdds
<1>3. Own(new.replies) = Own(cl.replies)
  <2>1. CASE Heads(cl.replies, 0) /\ r.kind = "limit"
    <3>1. Own(new.replies) = Own(cl.replies) \cup (IF r.kind = "limit" THEN {} ELSE {Len(cl.replies) + 1})
      BY <1>1, <2>1, OuterOwn, Zenon
    <3> QED
      BY <2>1, <3>1
  <2>2. CASE \E h \in 1 .. Len(cl.replies) : h + cl.replies[h].n > Len(cl.replies)
    <3>1. PICK h \in 1 .. Len(cl.replies) : h + cl.replies[h].n > Len(cl.replies)
      BY <2>2
    <3> QED
      BY <1>1, <3>1, InnerOwn
  <2> QED
    BY <2>1, <2>2
<1>4. Answered(new.replies) = Answered(cl.replies) /\ InOrder(new.replies)
  BY <1>1, <1>3, SameAnswers DEF Answers
<1>5. Due(c, new) = Due(c, cl)
  BY <1>2 DEF Due
<1> QED
  BY <1>2, <1>4, <1>5 DEF Answers

\* Whatever happens, the answers are those that are due.
LEMMA AnswersKept ==
  ASSUME Scripts, db \in Contents, NEW c \in Conns, NEW cl \in Client, NEW new \in Client,
         NEW e \in BOOLEAN, NEW f \in BOOLEAN, Steps(c, cl, new, e, f),
         cl.close_after_reply => new.close_after_reply,
         RequestsOf(c, cl), cl.pos <= Len(script[c]),
         Heads(cl.replies, IF e THEN Len(cl.queue) ELSE 0),
         e => Busy(cl.replies, Len(cl.queue)),
         Answers(c, cl), Ended(c, cl)
  PROVE  Answers(c, new) /\ Ended(c, new)
<1> DEFINE j == cl.pos + 1
<1>1. /\ cl.pos \in Nat /\ j \in Nat /\ cl.blocked_req \in Nat /\ Len(script[c]) \in Nat
      /\ cl.queue \in Seq(Nat) /\ Len(cl.queue) \in Nat /\ cl.replies \in Seq(ReplyRecord)
  BY SMTT(20) DEF Client, Scripts
<1>2. ASSUME new.replies = cl.replies, new.pos = cl.pos, new.blocked_req = cl.blocked_req
      PROVE  Answers(c, new) /\ Ended(c, new)
  BY <1>2 DEF Answers, Due, Ended
<1>3. ASSUME ~e, Consumes(c, j, cl, new)
      PROVE  ~Told(cl.replies) /\ cl.blocked_req = 0 /\ new.pos = j /\ Heads(cl.replies, 0)
  BY <1>3 DEF Consumes, Ended
<1>4. ASSUME NEW r, ~e, Consumes(c, j, cl, new), Says(cl, new, r), r.req = j,
             r.kind \notin {"limit", "protocol"}, script[c][j].op # "blank",
             new.blocked_req = 0
      PROVE  Answers(c, new) /\ Ended(c, new)
  <2>1. Answers(c, new) /\ ~Told(new.replies)
    BY <1>3, <1>4, AnswerKept, Zenon
  <2> QED
    BY <2>1 DEF Ended
<1>5. ASSUME NEW i \in 1 .. Len(script[c]), NEW r, Outcome(c, i, db, db', r)
      PROVE  r.req = i /\ r.kind \notin {"limit", "protocol"}
  BY <1>5, OutcomeTyped
<1>6. \A k : Reply(j, k).req = j /\ Reply(j, k).kind = k
  BY DEF Reply
<1>7. CASE Responds(c, j, cl, new) /\ ~e
  <2>1. Consumes(c, j, cl, new) /\ j \in 1 .. Len(script[c])
    BY <1>7 DEF Responds, Consumes
  <2>2. CASE Skips(c, j, cl, new)
    <3>1. new.replies = cl.replies /\ new.blocked_req = 0 /\ script[c][j].op = "blank"
      BY <2>2 DEF Skips
    <3>2. Due(c, new) = Due(c, cl)
      BY <1>1, <1>3, <1>7, <2>1, <3>1 DEF Due
    <3> QED
      BY <1>3, <1>7, <2>1, <3>1, <3>2, Zenon DEF Answers, Ended
  <2>3. CASE Refuses(c, j, cl, new)
    BY <1>4, <1>6, <1>7, <2>1, <2>3 DEF Refuses
  <2>4. CASE Opened(c, j, cl, new)
    BY <1>4, <1>6, <1>7, <2>1, <2>4, Zenon DEF Opened
  <2>5. CASE Resets(c, j, cl, new)
    BY <1>4, <1>6, <1>7, <2>1, <2>5, Zenon DEF Resets
  <2>6. CASE Queues(c, j, cl, new)
    BY <1>4, <1>6, <1>7, <2>1, <2>6, Zenon DEF Queues, Cmds
  <2>7. CASE Runs(c, j, cl, new)
    <3>1. PICK r : Says(cl, new, r) /\ Outcome(c, j, db, db', r)
      BY <2>7, Zenon DEF Runs
    <3> QED
      BY <1>4, <1>5, <1>7, <2>1, <2>7, <3>1, Zenon DEF Runs, Cmds
  <2>8. CASE Parks(c, j, cl, new)
    <3>1. new.replies = cl.replies /\ new.blocked_req = j
      BY <2>8, Zenon DEF Parks
    <3>2. Due(c, new) = Due(c, cl)
      BY <1>1, <1>3, <1>7, <2>1, <3>1 DEF Due
    <3> QED
      BY <1>3, <1>7, <2>1, <3>1, <3>2, Zenon DEF Answers, Ended
  <2> QED
    BY <1>7, <2>2, <2>3, <2>4, <2>5, <2>6, <2>7, <2>8 DEF Responds
<1>8. CASE Wakes(c, cl, new) /\ ~e
  <2>1. PICK r : Says(cl, new, r) /\ Outcome(c, cl.blocked_req, db, db', r)
    BY <1>8 DEF Wakes
  <2>2. /\ cl.blocked_req # 0 /\ cl.blocked_req = cl.pos /\ script[c][cl.pos].op = "blpop"
        /\ new.pos = cl.pos /\ new.blocked_req = 0 /\ ~Told(cl.replies)
        /\ Heads(cl.replies, 0)
    BY <1>8, Zenon DEF Wakes, RequestsOf, Ended
  <2>3. r.req = cl.pos /\ r.kind \notin {"limit", "protocol"}
    BY <1>1, <1>5, <2>1, <2>2
  <2>4. Answers(c, new) /\ ~Told(new.replies)
    BY <2>1, <2>2, <2>3, AnswerKept, Zenon
  <2> QED
    BY <2>4 DEF Ended
<1>9. CASE Turns(c, cl, new) /\ ~e
  <2>1. PICK mid \in Client : Protests(c, cl, mid) /\ Limits(mid, new)
    BY <1>9 DEF Turns
  <2>2. Answers(c, mid) /\ Ended(c, mid) /\ Heads(mid.replies, 0)
    <3>1. CASE Idles(cl, mid) /\ mid.close_after_reply = cl.close_after_reply
      BY <1>9, <3>1, Zenon DEF Idles, Answers, Due, Ended
    <3>2. CASE /\ ~cl.close_after_reply /\ cl.blocked_req = 0
               /\ script[c][j].op = "garbage"
               /\ Says(cl, mid, Reply(j, "protocol"))
               /\ mid.pos = cl.pos /\ mid.blocked_req = cl.blocked_req
               /\ mid.close_after_reply
      <4>1. /\ Adds(cl.replies, mid.replies, Reply(j, "protocol")) /\ Heads(cl.replies, 0)
            /\ ~Told(cl.replies)
        BY <1>9, <3>2, SaysAdds, Zenon DEF Ended
      <4>2. Told(mid.replies)
        BY <1>6, <4>1, ToldAdds
      <4>3. Answered(cl.replies) = {i \in 1 .. cl.pos : script[c][i].op # "blank" /\ i # 0}
        BY <3>2, <4>1, Zenon DEF Answers, Due
      <4>4. \A i \in Answered(cl.replies) : i < j
        BY <1>1, <4>3
      <4>5. Answered(mid.replies) = Answered(cl.replies) \cup {j} /\ InOrder(mid.replies)
        BY <1>6, <4>1, <4>4, OuterAnswers DEF Answers
      <4>6. Due(c, mid) = {i \in 1 .. j : script[c][i].op # "blank" /\ i # 0}
        BY <3>2, <4>2, Zenon DEF Due
      <4>7. Due(c, mid) = Answered(mid.replies)
        BY <1>1, <3>2, <4>3, <4>5, <4>6
      <4>8. Heads(mid.replies, 0)
        <5>1. Reply(j, "protocol").n = 0
          BY DEF Reply
        <5> QED
          BY <4>1, <5>1, HeadsOuter
      <4> QED
        BY <3>2, <4>5, <4>7, <4>8, Zenon DEF Answers, Ended
    <3> QED
      BY <2>1, <3>1, <3>2, Zenon DEF Protests
  <2>3. CASE Idles(mid, new)
    BY <2>1, <2>2, <2>3, ZenonT(40) DEF Idles, Limits, Answers, Due, Ended
  <2>4. CASE /\ Says(mid, new, Reply(0, "limit"))
             /\ new.pos = mid.pos /\ new.blocked_req = mid.blocked_req
    <3>1. Reply(0, "limit").kind = "limit"
      BY DEF Reply
    <3>2. Answers(c, new) /\ (Told(new.replies) <=> Told(mid.replies))
      BY <2>2, <2>4, <3>1, InnerKept, Zenon
    <3> QED
      BY <2>1, <2>2, <2>4, <3>2, Zenon DEF Ended, Limits
  <2> QED
    BY <2>1, <2>3, <2>4 DEF Limits
<1>10. CASE Consumes(c, j, cl, new) /\ Begins(c, j, cl, new) /\ ~e
  <2> DEFINE r == [Reply(j, "array") EXCEPT !.n = Len(cl.queue)]
  <2>1. r.req = j /\ r.kind = "array" /\ Says(cl, new, r)
    BY <1>10 DEF Begins, Reply
  <2>2. script[c][j].op # "blank" /\ new.blocked_req = 0
    BY <1>10 DEF Begins
  <2> HIDE DEF r
  <2> QED
    BY <1>4, <1>10, <2>1, <2>2, Zenon
<1>11. CASE Executes(c, cl, new) /\ e
  <2>1. PICK r : Says(cl, new, r) /\ Outcome(c, Head(cl.queue), db, db', r)
    BY <1>11, Zenon DEF Executes
  <2>2. /\ Len(cl.queue) > 0 /\ Head(cl.queue) = cl.queue[1]
        /\ new.pos = cl.pos /\ new.blocked_req = cl.blocked_req
    BY <1>1, <1>11 DEF Executes
  <2>3. Head(cl.queue) \in 1 .. Len(script[c])
    <3>1. 1 \in 1 .. Len(cl.queue) /\ cl.pos <= Len(script[c])
      BY <1>1, <2>2
    <3>2. cl.queue[1] \in 1 .. cl.pos
      BY <3>1, Zenon DEF RequestsOf
    <3> QED
      BY <1>1, <2>2, <3>1, <3>2, SMTT(20)
  <2>4. \E h \in 1 .. Len(cl.replies) : h + cl.replies[h].n > Len(cl.replies)
    BY <1>1, <1>11, <2>2, BusyReach, Zenon
  <2>5. Answers(c, new) /\ (Told(new.replies) <=> Told(cl.replies))
    BY <1>5, <2>1, <2>2, <2>3, <2>4, InnerKept, Zenon
  <2> QED
    BY <2>2, <2>5, Zenon DEF Ended
<1>12. CASE Finishes(cl, new)
  BY <1>2, <1>12 DEF Finishes
<1>13. CASE Idles(cl, new)
  BY <1>2, <1>13 DEF Idles
<1> QED
  BY <1>7, <1>8, <1>9, <1>10, <1>11, <1>12, <1>13 DEF Steps

-------------------------------------------------------------------------------
(* EXEC answers the queue                                                  *)

Multi(c, r) == r.kind = "ok" /\ script[c][r.req].op = "multi"

\* Reply m opened the transaction that is open at reply h.
OpensAt(c, rs, m, h) == Multi(c, rs[m]) /\ \A p \in m + 1 .. h : ~Multi(c, rs[p])

QueuedIn(rs, m, h) == {rs[p].req : p \in {p \in m .. h : rs[p].kind = "queued"}}

Clean(c, rs, m, h) ==
  \A p \in m .. h : rs[p].kind = "error" => script[c][rs[p].req].op = "multi"

Inside(rs, h) == (h + 1 .. h + rs[h].n) \cap (1 .. Len(rs))

ReqsAt(rs, P) == {rs[p].req : p \in P}

\* The EXEC answered from h on: the queue is what its elements are still missing.
ArrayIn(c, rs, queue, e, h) ==
  LET end  == h + rs[h].n
      left == IF end > Len(rs) THEN Range(queue) ELSE {}
  IN  /\ end > Len(rs) =>
           /\ e /\ end = Len(rs) + Len(queue)
           /\ \A p \in Inside(rs, h), i \in 1 .. Len(queue) : rs[p].req < queue[i]
      /\ \A p, q \in Inside(rs, h) : p < q => rs[p].req < rs[q].req
      /\ \E m \in 1 .. h : /\ OpensAt(c, rs, m, h)
                           /\ QueuedIn(rs, m, h) = ReqsAt(rs, Inside(rs, h)) \cup left
                           /\ Clean(c, rs, m, h)

\* The transaction that is open: the queue is what was queued since its MULTI,
\* and unless it is poisoned nothing was refused.
TxnLog(c, rs, queue, error) ==
  \E m \in 1 .. Len(rs) : /\ OpensAt(c, rs, m, Len(rs))
                          /\ QueuedIn(rs, m, Len(rs)) = Range(queue)
                          /\ ~error => Clean(c, rs, m, Len(rs))

Arrays(c, rs, queue, e) ==
  \A h \in 1 .. Len(rs) : rs[h].kind = "array" => ArrayIn(c, rs, queue, e, h)

LogOf(c, cl, e) ==
  /\ Heads(cl.replies, IF e THEN Len(cl.queue) ELSE 0)
  /\ e => Busy(cl.replies, Len(cl.queue))
  /\ ~e /\ cl.active => TxnLog(c, cl.replies, cl.queue, cl.error)
  /\ Arrays(c, cl.replies, cl.queue, e)

\* What lies before reply h does not change.
LEMMA PrefixKept ==
  ASSUME NEW rs, NEW s, NEW r, Adds(rs, s, r), NEW c,
         NEW h \in 1 .. Len(rs), NEW m \in 1 .. h
  PROVE  /\ OpensAt(c, rs, m, h) => OpensAt(c, s, m, h)
         /\ QueuedIn(s, m, h) = QueuedIn(rs, m, h)
         /\ Clean(c, rs, m, h) => Clean(c, s, m, h)
<1>1. \A p \in m .. h : s[p] = rs[p]
  BY DEF Adds
<1>2. m \in m .. h /\ m + 1 .. h \subseteq m .. h
  OBVIOUS
<1>3. OpensAt(c, rs, m, h) => OpensAt(c, s, m, h)
  BY <1>1, <1>2 DEF OpensAt
<1>4. QueuedIn(s, m, h) = QueuedIn(rs, m, h)
  BY <1>1 DEF QueuedIn
<1>5. Clean(c, rs, m, h) => Clean(c, s, m, h)
  BY <1>1 DEF Clean
<1> QED
  BY <1>3, <1>4, <1>5

\* What one more reply adds.
Gains(r) == IF r.kind = "queued" THEN {r.req} ELSE {}

QueuesMore(rs, s, m, r) == QueuedIn(s, m, Len(s)) = QueuedIn(rs, m, Len(rs)) \cup Gains(r)

LEMMA PrefixGrows ==
  ASSUME NEW rs, NEW s, NEW r, Adds(rs, s, r), NEW c, NEW m \in 1 .. Len(rs), ~Multi(c, r)
  PROVE  /\ OpensAt(c, rs, m, Len(rs)) => OpensAt(c, s, m, Len(s))
         /\ QueuesMore(rs, s, m, r)
         /\ (/\ Clean(c, rs, m, Len(rs))
             /\ r.kind = "error" => script[c][r.req].op = "multi") => Clean(c, s, m, Len(s))
<1>1. /\ Len(rs) \in Nat /\ Len(s) = Len(rs) + 1 /\ s[Len(s)] = r
      /\ \A p \in m .. Len(rs) : s[p] = rs[p]
  BY DEF Adds
<1>2. /\ m \in m .. Len(rs) /\ m .. Len(s) = m .. Len(rs) \cup {Len(s)}
      /\ m + 1 .. Len(s) = m + 1 .. Len(rs) \cup {Len(s)} /\ m + 1 .. Len(rs) \subseteq m .. Len(rs)
  BY <1>1
<1>3. OpensAt(c, rs, m, Len(rs)) => OpensAt(c, s, m, Len(s))
  BY <1>1, <1>2 DEF OpensAt
<1>4. QueuedIn(s, m, Len(s)) = QueuedIn(rs, m, Len(rs)) \cup Gains(r)
  BY <1>1, <1>2, SMTT(20) DEF QueuedIn, Gains
<1>5. (/\ Clean(c, rs, m, Len(rs))
       /\ r.kind = "error" => script[c][r.req].op = "multi") => Clean(c, s, m, Len(s))
  BY <1>1, <1>2 DEF Clean
<1> QED
  BY <1>3, <1>4, <1>5, Zenon DEF QueuesMore

\* An EXEC that is answered completely stays so.
LEMMA ArrayDone ==
  ASSUME NEW c, NEW rs \in Seq(ReplyRecord), NEW s, s = rs \/ \E r : Adds(rs, s, r),
         NEW q1, NEW q2, NEW e, NEW f, NEW h \in 1 .. Len(rs), h + rs[h].n <= Len(rs),
         ArrayIn(c, rs, q1, e, h)
  PROVE  ArrayIn(c, s, q2, f, h)
<1>1. Len(rs) \in Nat /\ rs[h] \in ReplyRecord
  OBVIOUS
<1>2. rs[h].n \in Nat /\ h + rs[h].n \in Nat
  BY <1>1 DEF ReplyRecord
<1>3. ~(h + rs[h].n > Len(rs)) /\ Inside(rs, h) = h + 1 .. h + rs[h].n
  BY <1>1, <1>2 DEF Inside
<1>4. /\ \A p, q \in Inside(rs, h) : p < q => rs[p].req < rs[q].req
      /\ \E m \in 1 .. h : /\ OpensAt(c, rs, m, h)
                           /\ QueuedIn(rs, m, h) = ReqsAt(rs, Inside(rs, h)) \cup {}
                           /\ Clean(c, rs, m, h)
  BY <1>3, Zenon DEF ArrayIn
<1>5. CASE s = rs
  BY <1>3, <1>4, <1>5, Zenon DEF ArrayIn
<1>6. CASE \E r : Adds(rs, s, r)
  <2>1. PICK r : Adds(rs, s, r)
    BY <1>6, Zenon
  <2>2. Len(s) = Len(rs) + 1 /\ \A p \in 1 .. Len(rs) : s[p] = rs[p]
    BY <2>1, Zenon DEF Adds
  <2>3. ~(h + s[h].n > Len(s)) /\ Inside(s, h) = Inside(rs, h) /\ Inside(rs, h) \subseteq 1 .. Len(rs)
    BY <1>1, <1>2, <1>3, <2>2 DEF Inside
  <2>4. \A p, q \in Inside(s, h) : p < q => s[p].req < s[q].req
    BY <1>4, <2>2, <2>3
  <2>5. ReqsAt(s, Inside(s, h)) = ReqsAt(rs, Inside(rs, h))
    BY <2>2, <2>3, Zenon DEF ReqsAt
  <2>6. PICK m \in 1 .. h : /\ OpensAt(c, rs, m, h)
                            /\ QueuedIn(rs, m, h) = ReqsAt(rs, Inside(rs, h)) \cup {}
                            /\ Clean(c, rs, m, h)
    BY <1>4, Zenon
  <2>7. /\ OpensAt(c, s, m, h) /\ Clean(c, s, m, h)
        /\ QueuedIn(s, m, h) = ReqsAt(s, Inside(s, h)) \cup {}
    BY <2>1, <2>5, <2>6, PrefixKept
  <2> QED
    BY <2>3, <2>4, <2>7, Zenon DEF ArrayIn
<1> QED
  BY <1>5, <1>6

\* All of them are complete when no EXEC is running.
LEMMA ArraysDone ==
  ASSUME NEW c, NEW rs \in Seq(ReplyRecord), NEW s, NEW q1, NEW q2, NEW e, NEW f,
         Heads(rs, 0), Arrays(c, rs, q1, e),
         s = rs \/ \E r : Adds(rs, s, r) /\ (r.kind = "array" => ArrayIn(c, s, q2, f, Len(s)))
  PROVE  Arrays(c, s, q2, f)
<1>1. ASSUME NEW h \in 1 .. Len(rs), rs[h].kind = "array"
      PROVE  ArrayIn(c, s, q2, f, h)
  <2>1. h + rs[h].n <= Len(rs) + 0 /\ ArrayIn(c, rs, q1, e, h)
    BY <1>1 DEF Heads, Arrays
  <2>2. h + rs[h].n <= Len(rs)
    BY <2>1
  <2> QED
    BY <2>1, <2>2, ArrayDone, Zenon
<1>2. CASE s = rs
  BY <1>1, <1>2 DEF Arrays
<1>3. ASSUME NEW r, Adds(rs, s, r), r.kind = "array" => ArrayIn(c, s, q2, f, Len(s))
      PROVE  Arrays(c, s, q2, f)
  <2>1. /\ Len(rs) \in Nat /\ Len(s) = Len(rs) + 1 /\ s[Len(s)] = r
        /\ \A h \in 1 .. Len(rs) : s[h] = rs[h]
    BY <1>3, Zenon DEF Adds
  <2>2. 1 .. Len(s) = 1 .. Len(rs) \cup {Len(s)}
    BY <2>1
  <2> QED
    BY <1>1, <1>3, <2>1, <2>2, Zenon DEF Arrays
<1> QED
  BY <1>2, <1>3

\* A reply outside of EXEC.
LEMMA OuterLog ==
  ASSUME NEW c, NEW cl \in Client, NEW new \in Client, NEW r, Says(cl, new, r),
         LogOf(c, cl, FALSE), r.n = 0, r.kind # "array", ~Multi(c, r),
         \/ ~new.active
         \/ /\ cl.active /\ new.queue = cl.queue /\ r.kind # "queued"
            /\ ~new.error => /\ ~cl.error
                             /\ r.kind = "error" => script[c][r.req].op = "multi"
         \/ /\ cl.active /\ new.queue = Append(cl.queue, r.req) /\ r.kind = "queued"
            /\ new.error = cl.error
  PROVE  LogOf(c, new, FALSE)
<1> DEFINE rs == cl.replies
           s == new.replies
<1>1. /\ Adds(rs, s, r) /\ rs \in Seq(ReplyRecord) /\ cl.queue \in Seq(Nat) /\ r.req \in Nat
  BY SaysAdds, Zenon DEF Client, Says, ReplyRecord
<1>2. /\ Heads(rs, 0) /\ Arrays(c, rs, cl.queue, FALSE)
      /\ cl.active => TxnLog(c, rs, cl.queue, cl.error)
  BY Zenon DEF LogOf
<1> HIDE DEF rs, s
<1>3. Heads(s, 0)
  BY <1>1, <1>2, HeadsOuter
<1>4. Arrays(c, s, new.queue, FALSE)
  BY <1>1, <1>2, ArraysDone, Zenon
<1>5. ASSUME new.active PROVE TxnLog(c, s, new.queue, new.error)
  <2>1. /\ cl.active
        /\ Range(new.queue) = Range(cl.queue) \cup Gains(r)
        /\ ~new.error => /\ ~cl.error
                         /\ r.kind = "error" => script[c][r.req].op = "multi"
    <3>1. CASE /\ cl.active /\ new.queue = cl.queue /\ r.kind # "queued"
               /\ ~new.error => /\ ~cl.error
                                /\ r.kind = "error" => script[c][r.req].op = "multi"
      BY <3>1, Zenon DEF Gains
    <3>2. CASE /\ cl.active /\ new.queue = Append(cl.queue, r.req) /\ r.kind = "queued"
               /\ new.error = cl.error
      <4>1. Range(Append(cl.queue, r.req)) = Range(cl.queue) \cup {r.req}
        <5>1. \A q \in Seq(Nat), j \in Nat : Range(Append(q, j)) = Range(q) \cup {j}
          BY AppendElements, SMTT(20)
        <5> QED
          BY <1>1, <5>1, Zenon
      <4> QED
        BY <3>2, <4>1, Zenon DEF Gains
    <3> QED
      BY <1>5, <3>1, <3>2, Zenon
  <2>2. PICK m \in 1 .. Len(rs) : /\ OpensAt(c, rs, m, Len(rs))
                                  /\ QueuedIn(rs, m, Len(rs)) = Range(cl.queue)
                                  /\ ~cl.error => Clean(c, rs, m, Len(rs))
    BY <1>2, <2>1, Zenon DEF TxnLog
  <2>3. /\ OpensAt(c, s, m, Len(s)) /\ QueuedIn(s, m, Len(s)) = Range(new.queue)
        /\ ~new.error => Clean(c, s, m, Len(s))
    <3>1. OpensAt(c, rs, m, Len(rs)) => OpensAt(c, s, m, Len(s))
      BY <1>1, PrefixGrows, Zenon
    <3>2. QueuesMore(rs, s, m, r)
      BY <1>1, PrefixGrows, Zenon
    <3>3. (/\ Clean(c, rs, m, Len(rs))
           /\ r.kind = "error" => script[c][r.req].op = "multi") => Clean(c, s, m, Len(s))
      BY <1>1, PrefixGrows, Zenon
    <3>4. QueuedIn(s, m, Len(s)) = Range(new.queue)
      BY <2>1, <2>2, <3>2, Zenon DEF QueuesMore
    <3>5. ~new.error => Clean(c, s, m, Len(s))
      BY <2>1, <2>2, <3>3, Zenon
    <3> QED
      BY <2>2, <3>1, <3>4, <3>5, Zenon
  <2>4. m \in 1 .. Len(s)
    BY <1>1 DEF Adds
  <2> QED
    BY <2>3, <2>4, Zenon DEF TxnLog
<1> QED
  BY <1>3, <1>4, <1>5, Zenon DEF LogOf, s

\* MULTI.
LEMMA OpenedLog ==
  ASSUME NEW c, NEW cl \in Client, NEW new \in Client, NEW r, Says(cl, new, r),
         LogOf(c, cl, FALSE), r.n = 0, Multi(c, r), new.queue = << >>
  PROVE  LogOf(c, new, FALSE)
<1> DEFINE rs == cl.replies
           s == new.replies
<1>1. /\ Adds(rs, s, r) /\ rs \in Seq(ReplyRecord) /\ r.kind = "ok"
  BY SaysAdds, Zenon DEF Client, Multi
<1>2. /\ Heads(rs, 0) /\ Arrays(c, rs, cl.queue, FALSE)
  BY Zenon DEF LogOf
<1> HIDE DEF rs, s
<1>3. Heads(s, 0) /\ Arrays(c, s, new.queue, FALSE)
  <2>1. Heads(s, 0)
    BY <1>1, <1>2, HeadsOuter
  <2>2. Arrays(c, s, new.queue, FALSE)
    BY <1>1, <1>2, ArraysDone, Zenon
  <2> QED
    BY <2>1, <2>2, Zenon
<1>4. Len(s) \in 1 .. Len(s) /\ s[Len(s)] = r /\ Len(s) \in Nat
  BY <1>1 DEF Adds
<1>5. OpensAt(c, s, Len(s), Len(s))
  BY <1>4 DEF OpensAt
<1>6. QueuedIn(s, Len(s), Len(s)) = {}
  BY <1>1, <1>4 DEF QueuedIn
<1>7. Clean(c, s, Len(s), Len(s))
  BY <1>1, <1>4 DEF Clean
<1>8. Range(new.queue) = {}
  BY DEF Range
<1>9. TxnLog(c, s, new.queue, new.error)
  BY <1>4, <1>5, <1>6, <1>7, <1>8, Zenon DEF TxnLog
<1> QED
  BY <1>3, <1>9, Zenon DEF LogOf, s

\* EXEC begins.
LEMMA BeginsLog ==
  ASSUME NEW c, NEW cl \in Client, NEW new \in Client, NEW r, Says(cl, new, r),
         LogOf(c, cl, FALSE), cl.active, ~cl.error, new.queue = cl.queue,
         r.kind = "array", r.n = Len(cl.queue)
  PROVE  LogOf(c, new, TRUE)
<1> DEFINE rs == cl.replies
           s == new.replies
           q == cl.queue
<1>1. /\ Adds(rs, s, r) /\ rs \in Seq(ReplyRecord) /\ q \in Seq(Nat) /\ Len(q) \in Nat
  <2>1. rs \in Seq(ReplyRecord) /\ q \in Seq(Nat)
    BY Zenon DEF Client
  <2>2. Len(q) \in Nat
    BY <2>1
  <2> QED
    BY <2>1, <2>2, SaysAdds, Zenon
<1>2. /\ Heads(rs, 0) /\ Arrays(c, rs, q, FALSE) /\ TxnLog(c, rs, q, cl.error)
      /\ new.queue = q /\ r.n = Len(q)
  BY Zenon DEF LogOf
<1> HIDE DEF rs, s, q
<1>3. Heads(s, Len(q)) /\ Busy(s, Len(q))
  BY <1>1, <1>2, HeadsOuter
<1>4. /\ Len(s) = Len(rs) + 1 /\ Len(s) \in Nat /\ Len(s) \in 1 .. Len(s) /\ s[Len(s)] = r
  BY <1>1 DEF Adds
<1>5. ArrayIn(c, s, q, TRUE, Len(s))
  <2>1. Inside(s, Len(s)) = {}
    <3>1. s[Len(s)].n = Len(q)
      BY <1>2, <1>4, Zenon
    <3>2. \A l, n \in Nat : (l + 1 .. l + n) \cap (1 .. l) = {}
      OBVIOUS
    <3> QED
      BY <1>1, <1>4, <3>1, <3>2, Zenon DEF Inside
  <2>2. (IF Len(s) + s[Len(s)].n > Len(s) THEN Range(q) ELSE {}) = Range(q)
    <3>1. Len(q) = 0 => Range(q) = {}
      BY <1>1 DEF Range
    <3>2. s[Len(s)].n = Len(q)
      BY <1>2, <1>4
    <3>3. \A l, n \in Nat : ~(l + n > l) => n = 0
      OBVIOUS
    <3> QED
      BY <1>1, <1>4, <3>1, <3>2, <3>3, Zenon
  <2>3. PICK m \in 1 .. Len(rs) : /\ OpensAt(c, rs, m, Len(rs))
                                  /\ QueuedIn(rs, m, Len(rs)) = Range(q)
                                  /\ Clean(c, rs, m, Len(rs))
    BY <1>2 DEF TxnLog
  <2>4. ~Multi(c, r)
    BY DEF Multi
  <2>5. /\ OpensAt(c, s, m, Len(s)) /\ Clean(c, s, m, Len(s))
        /\ QueuedIn(s, m, Len(s)) = Range(q) \cup Gains(r)
    <3>1. QueuesMore(rs, s, m, r)
      BY <1>1, <2>4, PrefixGrows, Zenon
    <3>2. OpensAt(c, s, m, Len(s))
      BY <1>1, <2>3, <2>4, PrefixGrows, Zenon
    <3>3. Clean(c, s, m, Len(s))
      BY <1>1, <2>3, <2>4, PrefixGrows, Zenon
    <3> QED
      BY <2>3, <3>1, <3>2, <3>3 DEF QueuesMore
  <2>6. m \in 1 .. Len(s) /\ ReqsAt(s, {}) = {} /\ Gains(r) = {}
    BY <1>1, <1>4 DEF ReqsAt, Adds, Gains
  <2> QED
    BY <1>2, <1>4, <2>1, <2>2, <2>5, <2>6, Zenon DEF ArrayIn
<1>6. Arrays(c, s, q, TRUE)
  BY <1>1, <1>2, <1>5, ArraysDone, Zenon
<1> QED
  BY <1>2, <1>3, <1>6, Zenon DEF LogOf, s

\* EXEC runs the next command.
LEMMA ExecutesLog ==
  ASSUME NEW c, NEW cl \in Client, NEW new \in Client, NEW r, Says(cl, new, r),
         LogOf(c, cl, TRUE), cl.queue # << >>, new.queue = Tail(cl.queue),
         r.req = Head(cl.queue), r.n = 0, r.kind # "array",
         \A i, k \in 1 .. Len(cl.queue) : i < k => cl.queue[i] < cl.queue[k]
  PROVE  LogOf(c, new, TRUE)
<1> DEFINE rs == cl.replies
           s == new.replies
           q == cl.queue
           t == Tail(q)
<1>1. Adds(rs, s, r) /\ rs \in Seq(ReplyRecord) /\ q \in Seq(Nat)
  BY SaysAdds, Zenon DEF Client
<1>2. /\ Heads(rs, Len(q)) /\ Busy(rs, Len(q)) /\ Arrays(c, rs, q, TRUE)
      /\ new.queue = t /\ r.req = Head(q) /\ q # << >>
      /\ \A i, k \in 1 .. Len(q) : i < k => q[i] < q[k]
  BY Zenon DEF LogOf
<1> HIDE DEF rs, s, q
<1>3. /\ Len(q) \in Nat /\ Len(q) > 0 /\ t \in Seq(Nat) /\ Len(t) = Len(q) - 1 /\ Len(t) \in Nat
      /\ Head(q) = q[1] /\ \A i \in 1 .. Len(t) : t[i] = q[i + 1]
  BY <1>1, <1>2
<1>4. Range(q) = Range(t) \cup {r.req}
  BY <1>1, <1>2, TailElements, Zenon
<1> HIDE DEF t
<1>5. Heads(s, Len(t)) /\ Busy(s, Len(t))
  <2>1. Len(q) = Len(t) + 1
    BY <1>3
  <2> QED
    BY <1>1, <1>2, <1>3, <2>1, HeadsInner, Zenon
<1>6. /\ Len(rs) \in Nat /\ Len(s) = Len(rs) + 1 /\ s[Len(s)] = r
      /\ \A p \in 1 .. Len(rs) : s[p] = rs[p]
      /\ \A p \in 1 .. Len(s) : s[p].n \in Nat /\ s[p].req \in Nat
  BY <1>1, Zenon DEF Adds
<1>7. ASSUME NEW h \in 1 .. Len(rs), ArrayIn(c, rs, q, TRUE, h)
      PROVE  ArrayIn(c, s, t, TRUE, h)
  <2>1. CASE h + rs[h].n <= Len(rs)
    BY <1>1, <1>7, <2>1, ArrayDone, Zenon
  <2>2. CASE h + rs[h].n > Len(rs)
    <3>1. /\ h + rs[h].n = Len(rs) + Len(q)
          /\ \A p \in Inside(rs, h), i \in 1 .. Len(q) : rs[p].req < q[i]
          /\ \A p, k \in Inside(rs, h) : p < k => rs[p].req < rs[k].req
      BY <1>7, <2>2, Zenon DEF ArrayIn
    <3>2. s[h] = rs[h] /\ h + s[h].n = Len(s) + Len(t) /\ s[h].n \in Nat
      BY <1>3, <1>6, <3>1
    <3>3. Inside(s, h) = Inside(rs, h) \cup {Len(s)} /\ Inside(rs, h) \subseteq 1 .. Len(rs)
      <4> DEFINE l == Len(rs)
                 n == rs[h].n
      <4>1. /\ l \in Nat /\ n \in Nat /\ h \in 1 .. l /\ h + n > l
            /\ Len(s) = l + 1 /\ s[h].n = n
        BY <1>6, <2>2, <3>2, Zenon
      <4> HIDE DEF l, n
      <4>2. (h + 1 .. h + n) \cap (1 .. l + 1) = h + 1 .. l + 1
        BY <4>1
      <4>3. (h + 1 .. h + n) \cap (1 .. l) = h + 1 .. l
        BY <4>1
      <4>4. h + 1 .. l + 1 = (h + 1 .. l) \cup {l + 1} /\ h + 1 .. l \subseteq 1 .. l
        BY <4>1, SMTT(20)
      <4> QED
        BY <4>1, <4>2, <4>3, <4>4, Zenon DEF Inside, l, n
    <3>4. \A p \in Inside(rs, h) : s[p] = rs[p] /\ p < Len(s)
      BY <1>6, <3>3
    <3>5. ASSUME NEW p \in Inside(s, h), NEW i \in 1 .. Len(t)
          PROVE  s[p].req < t[i]
      <4>1. i + 1 \in 1 .. Len(q) /\ 1 \in 1 .. Len(q) /\ 1 < i + 1 /\ t[i] = q[i + 1]
        <5>1. \A a, b \in Nat : a = b - 1 =>
                \A k \in 1 .. a : k + 1 \in 1 .. b /\ 1 \in 1 .. b /\ 1 < k + 1
          OBVIOUS
        <5> QED
          BY <1>3, <5>1, Zenon
      <4>2. CASE p \in Inside(rs, h)
        BY <3>1, <3>4, <4>1, <4>2, Zenon
      <4>3. CASE p = Len(s)
        <5>1. s[p].req = q[1]
          BY <1>2, <1>3, <1>6, <4>3, Zenon
        <5> QED
          BY <1>2, <4>1, <5>1, Zenon
      <4> QED
        BY <3>3, <4>2, <4>3
    <3>6. ASSUME NEW p \in Inside(s, h), NEW k \in Inside(s, h), p < k
          PROVE  s[p].req < s[k].req
      <4>1. CASE p \in Inside(rs, h) /\ k \in Inside(rs, h)
        BY <3>1, <3>4, <3>6, <4>1, Zenon
      <4>2. CASE p \in Inside(rs, h) /\ k = Len(s)
        <5>1. 1 \in 1 .. Len(q) /\ s[p] = rs[p] /\ s[k].req = q[1]
          BY <1>2, <1>3, <1>6, <3>4, <4>2
        <5> QED
          BY <3>1, <4>2, <5>1, Zenon
      <4>3. ~(p = Len(s) /\ k \in Inside(s, h))
        <5>1. k \in 1 .. Len(s)
          BY <1>6, <3>3
        <5> QED
          BY <1>6, <3>6, <5>1
      <4> QED
        BY <3>3, <4>1, <4>2, <4>3, Zenon
    <3>7. (IF h + s[h].n > Len(s) THEN Range(t) ELSE {}) = Range(t)
      <4>1. Len(t) = 0 => Range(t) = {}
        BY <1>3 DEF Range
      <4>2. \A l, n \in Nat : ~(l + n > l) => n = 0
        OBVIOUS
      <4>3. Len(s) \in Nat /\ Len(t) \in Nat
        BY <1>3, <1>6
      <4> QED
        BY <3>2, <4>1, <4>2, <4>3, Zenon
    <3>8. PICK m \in 1 .. h : /\ OpensAt(c, rs, m, h)
                              /\ QueuedIn(rs, m, h) = ReqsAt(rs, Inside(rs, h)) \cup Range(q)
                              /\ Clean(c, rs, m, h)
      BY <1>7, <2>2, Zenon DEF ArrayIn
    <3>9. OpensAt(c, s, m, h) /\ QueuedIn(s, m, h) = QueuedIn(rs, m, h) /\ Clean(c, s, m, h)
      <4>1. Adds(rs, s, r) /\ m \in 1 .. h
        BY <1>1, <3>8, Zenon
      <4>2. QueuedIn(s, m, h) = QueuedIn(rs, m, h)
        BY <4>1, PrefixKept, Zenon
      <4> QED
        BY <3>8, <4>1, <4>2, PrefixKept, Zenon
    <3>10. ReqsAt(s, Inside(s, h)) = ReqsAt(rs, Inside(rs, h)) \cup {r.req}
      <4>1. \A p \in Inside(rs, h) : s[p].req = rs[p].req
        BY <3>4
      <4>2. s[Len(s)].req = r.req
        BY <1>6, Zenon
      <4> HIDE DEF Inside
      <4> QED
        BY <3>3, <4>1, <4>2, ZenonT(30) DEF ReqsAt
    <3>11. QueuedIn(s, m, h) = ReqsAt(s, Inside(s, h)) \cup Range(t)
      BY <1>4, <3>8, <3>9, <3>10, Zenon
    <3>12. \E x \in 1 .. h : /\ OpensAt(c, s, x, h)
                             /\ QueuedIn(s, x, h) = ReqsAt(s, Inside(s, h))
                                  \cup (IF h + s[h].n > Len(s) THEN Range(t) ELSE {})
                             /\ Clean(c, s, x, h)
      BY <3>7, <3>9, <3>11, Zenon
    <3>13. \A p, k \in Inside(s, h) : p < k => s[p].req < s[k].req
      BY <3>6, Zenon
    <3>14. \A p \in Inside(s, h), i \in 1 .. Len(t) : s[p].req < t[i]
      BY <3>5, Zenon
    <3> QED
      BY <3>2, <3>12, <3>13, <3>14, Zenon DEF ArrayIn
  <2>3. h + rs[h].n <= Len(rs) \/ h + rs[h].n > Len(rs)
    <3>1. s[h].n \in Nat /\ s[h] = rs[h]
      BY <1>6
    <3> QED
      BY <1>6, <3>1
  <2> QED
    BY <2>1, <2>2, <2>3, Zenon
<1>8. Arrays(c, s, t, TRUE)
  <2>1. 1 .. Len(s) = 1 .. Len(rs) \cup {Len(s)}
    BY <1>6
  <2> QED
    BY <1>2, <1>6, <1>7, <2>1, Zenon DEF Arrays
<1> QED
  BY <1>2, <1>5, <1>8, Zenon DEF LogOf, s

\* No EXEC is running, and nothing is said.
LEMMA QuietLog ==
  ASSUME NEW c, NEW cl \in Client, NEW new \in Client, NEW e \in BOOLEAN,
         LogOf(c, cl, e), new.replies = cl.replies, e => cl.queue = << >>,
         new.active => ~e /\ cl.active /\ new.queue = cl.queue /\ new.error = cl.error
  PROVE  LogOf(c, new, FALSE)
<1>1. cl.replies \in Seq(ReplyRecord)
  BY DEF Client
<1>2. Heads(cl.replies, 0) /\ Arrays(c, cl.replies, cl.queue, e)
  BY Zenon DEF LogOf
<1>3. Arrays(c, new.replies, new.queue, FALSE)
  BY <1>1, <1>2, ArraysDone, Zenon
<1> QED
  BY <1>2, <1>3, Zenon DEF LogOf

\* The log holds through every step of a client.
LEMMA LogKept ==
  ASSUME NEW c \in Conns, NEW cl \in Client, NEW new \in Client,
         NEW e \in BOOLEAN, NEW f \in BOOLEAN, Scripts, db \in Contents,
         RequestsOf(c, cl), cl.pos <= Len(script[c]), TxnOf(cl), LogOf(c, cl, e),
         Steps(c, cl, new, e, f) \/ (~e /\ ~f /\ Frees(cl, new))
  PROVE  LogOf(c, new, f)
<1> DEFINE j == cl.pos + 1
<1>1. /\ cl.queue \in Seq(Nat) /\ cl.active \in BOOLEAN /\ cl.error \in BOOLEAN
      /\ new.active \in BOOLEAN /\ new.error \in BOOLEAN
      /\ cl.pos \in Nat /\ cl.blocked_req \in Nat /\ Len(script[c]) \in Nat
  BY DEF Client, Scripts
<1>2. \A k : Reply(j, k).req = j /\ Reply(j, k).kind = k /\ Reply(j, k).n = 0
  BY DEF Reply
<1>3. ASSUME NEW i \in 1 .. Len(script[c]), NEW r, Outcome(c, i, db, db', r)
      PROVE  /\ r.req = i /\ r.n = 0 /\ r.kind # "array" /\ r.kind # "queued" /\ ~Multi(c, r)
  <2>1. r.req = i /\ r.n = 0 /\ r.kind \in {"error", "nil", "int", "elem"}
    BY <1>3, OutcomeTyped
  <2> QED
    BY <2>1, Zenon DEF Multi
<1>4. CASE Idles(cl, new) /\ (f <=> e)
  <2>1. f = e
    BY <1>4
  <2> QED
    BY <1>4, <2>1 DEF Idles, SameTxn, LogOf
<1>5. CASE ~e /\ ~f /\ Frees(cl, new)
  <2>1. LogOf(c, cl, FALSE) /\ new.replies = cl.replies /\ ~new.active
    BY <1>5, Zenon DEF Frees, NoTxn
  <2>2. LogOf(c, new, FALSE)
    BY <2>1, QuietLog, Zenon
  <2> QED
    BY <1>5, <2>2, Zenon
<1>6. CASE e /\ ~f /\ Finishes(cl, new)
  <2>1. LogOf(c, cl, TRUE) /\ new.replies = cl.replies /\ cl.queue = << >> /\ ~new.active
    BY <1>6, Zenon DEF Finishes, NoTxn
  <2>2. LogOf(c, new, FALSE)
    BY <2>1, QuietLog, Zenon
  <2> QED
    BY <1>6, <2>2, Zenon
<1>7. CASE ~e /\ ~f /\ Wakes(c, cl, new)
  <2>1. PICK r : Says(cl, new, r) /\ Outcome(c, cl.blocked_req, db, db', r)
    BY <1>7 DEF Wakes
  <2>2. cl.blocked_req \in 1 .. Len(script[c])
    <3>1. cl.blocked_req # 0 /\ cl.blocked_req = cl.pos
      BY <1>7, Zenon DEF Wakes, RequestsOf
    <3> QED
      BY <1>1, <3>1
  <2>3. ~new.active
    BY <1>7, Zenon DEF Wakes, TxnOf, SameTxn
  <2>4. LogOf(c, new, FALSE)
    BY <1>3, <1>7, <2>1, <2>2, <2>3, OuterLog, ZenonT(30)
  <2> QED
    BY <1>7, <2>4, Zenon
<1>8. CASE ~e /\ ~f /\ Responds(c, j, cl, new)
  <2>1. j \in 1 .. Len(script[c]) /\ LogOf(c, cl, FALSE) /\ f = FALSE
    BY <1>8, Zenon DEF Responds, Consumes
  <2>2. CASE Skips(c, j, cl, new)
    <3>1. /\ new.replies = cl.replies /\ new.active = cl.active
          /\ new.queue = cl.queue /\ new.error = cl.error
      BY <2>2, Zenon DEF Skips, SameTxn
    <3>2. LogOf(c, new, FALSE)
      BY <1>1, <2>1, <3>1, QuietLog, Zenon
    <3> QED
      BY <2>1, <3>2, Zenon
  <2>3. CASE Refuses(c, j, cl, new)
    <3> DEFINE r == Reply(j, "error")
    <3>1. r.req = j /\ r.kind = "error" /\ r.n = 0 /\ ~Multi(c, r)
      BY <1>2, Zenon DEF Multi
    <3> HIDE DEF r
    <3>2. /\ Says(cl, new, r) /\ new.queue = cl.queue /\ new.active = cl.active
          /\ new.error = (cl.error \/ (cl.active /\ script[c][j].op # "multi"))
      BY <2>3, Zenon DEF Refuses, r
    <3>3. \/ ~new.active
          \/ cl.active /\ (~new.error => ~cl.error /\ script[c][j].op = "multi")
      BY <1>1, <3>2, Zenon
    <3> QED
      BY <2>1, <3>1, <3>2, <3>3, OuterLog, Zenon
  <2>4. CASE Opened(c, j, cl, new)
    <3> DEFINE r == Reply(j, "ok")
    <3>1. r.n = 0 /\ Multi(c, r) /\ Says(cl, new, r)
      BY <1>2, <2>4, Zenon DEF Multi, Opened
    <3>2. new.queue = << >>
      BY <2>4, Zenon DEF Opened, TxnOf
    <3> HIDE DEF r
    <3> QED
      BY <2>1, <3>1, <3>2, OpenedLog, Zenon
  <2>5. CASE Resets(c, j, cl, new)
    <3>1. PICK r : r \in {Reply(j, "ok"), Reply(j, "error")} /\ Says(cl, new, r)
      BY <2>5, Zenon DEF Resets
    <3>2. r.req = j /\ r.n = 0 /\ r.kind # "array"
      BY <1>2, <3>1
    <3>3. ~Multi(c, r) /\ ~new.active
      BY <2>5, <3>2, Zenon DEF Multi, Resets, NoTxn
    <3> QED
      BY <2>1, <3>1, <3>2, <3>3, OuterLog, Zenon
  <2>6. CASE Queues(c, j, cl, new)
    <3> DEFINE r == Reply(j, "queued")
    <3>1. r.req = j /\ r.kind = "queued" /\ r.n = 0 /\ ~Multi(c, r)
      BY <1>2, Zenon DEF Multi
    <3>2. /\ Says(cl, new, r) /\ new.queue = Append(cl.queue, j) /\ cl.active
          /\ new.error = cl.error
      BY <2>6, Zenon DEF Queues
    <3> HIDE DEF r
    <3> QED
      BY <2>1, <3>1, <3>2, OuterLog, Zenon
  <2>7. CASE Runs(c, j, cl, new)
    <3>1. PICK r : Says(cl, new, r) /\ Outcome(c, j, db, db', r)
      BY <2>7, Zenon DEF Runs
    <3>2. ~new.active
      BY <2>7, Zenon DEF Runs, SameTxn
    <3> QED
      BY <1>3, <2>1, <3>1, <3>2, OuterLog, Zenon
  <2>8. CASE Parks(c, j, cl, new)
    <3>1. /\ new.replies = cl.replies /\ new.active = cl.active
          /\ new.queue = cl.queue /\ new.error = cl.error
      BY <2>8, Zenon DEF Parks, SameTxn
    <3>2. LogOf(c, new, FALSE)
      BY <1>1, <2>1, <3>1, QuietLog, Zenon
    <3> QED
      BY <2>1, <3>2, Zenon
  <2> QED
    BY <1>8, <2>2, <2>3, <2>4, <2>5, <2>6, <2>7, <2>8, Zenon DEF Responds
<1>9. CASE ~e /\ ~f /\ Turns(c, cl, new)
  <2>1. ASSUME NEW old \in Client, NEW nxt \in Client, NEW r, LogOf(c, old, FALSE),
               Says(old, nxt, r), SameTxn(old, nxt), r.n = 0, r.kind \in {"protocol", "limit"}
        PROVE  LogOf(c, nxt, FALSE)
    <3>1. ~Multi(c, r) /\ r.kind # "array" /\ r.kind # "queued" /\ r.kind # "error"
      BY <2>1, Zenon DEF Multi
    <3>2. \/ ~nxt.active
          \/ old.active /\ nxt.queue = old.queue /\ nxt.error = old.error
      BY <2>1, Zenon DEF SameTxn, Client
    <3> QED
      BY <2>1, <3>1, <3>2, OuterLog, Zenon
  <2>2. PICK mid \in Client : Protests(c, cl, mid) /\ Limits(mid, new)
    BY <1>9 DEF Turns
  <2>3. \A x, y : Idles(x, y) /\ LogOf(c, x, FALSE) => LogOf(c, y, FALSE)
    BY Zenon DEF Idles, SameTxn, LogOf
  <2>4. LogOf(c, mid, FALSE)
    <3>1. CASE Idles(cl, mid)
      BY <1>9, <2>3, <3>1, Zenon
    <3>2. CASE Says(cl, mid, Reply(j, "protocol")) /\ SameTxn(cl, mid)
      <4> DEFINE r == Reply(j, "protocol")
      <4>1. r.n = 0 /\ r.kind = "protocol"
        BY <1>2
      <4> HIDE DEF r
      <4>2. Says(cl, mid, r)
        BY <3>2 DEF r
      <4> QED
        BY <1>9, <2>1, <3>2, <4>1, <4>2, Zenon
    <3> QED
      BY <2>2, <3>1, <3>2, Zenon DEF Protests
  <2>5. CASE Idles(mid, new)
    BY <1>9, <2>3, <2>4, <2>5, Zenon
  <2>6. CASE Says(mid, new, Reply(0, "limit")) /\ SameTxn(mid, new)
    <3> DEFINE r == Reply(0, "limit")
    <3>1. r.n = 0 /\ r.kind = "limit"
      BY DEF Reply
    <3> HIDE DEF r
    <3>2. Says(mid, new, r)
      BY <2>6 DEF r
    <3>3. LogOf(c, new, FALSE)
      BY <2>1, <2>4, <2>6, <3>1, <3>2, Zenon
    <3> QED
      BY <1>9, <3>3, Zenon
  <2> QED
    BY <2>2, <2>5, <2>6 DEF Limits
<1>10. CASE ~e /\ f /\ Begins(c, j, cl, new)
  <2> DEFINE r == [Reply(j, "array") EXCEPT !.n = Len(cl.queue)]
  <2>1. r.kind = "array" /\ r.n = Len(cl.queue) /\ Says(cl, new, r)
    BY <1>10 DEF Begins, Reply
  <2>2. cl.active /\ ~cl.error /\ new.queue = cl.queue
    BY <1>10 DEF Begins, SameTxn
  <2> HIDE DEF r
  <2>3. LogOf(c, new, TRUE)
    BY <1>10, <2>1, <2>2, BeginsLog, Zenon
  <2> QED
    BY <1>10, <2>3, Zenon
<1>11. CASE e /\ f /\ Executes(c, cl, new)
  <2>1. PICK r : Says(cl, new, r) /\ Outcome(c, Head(cl.queue), db, db', r)
    BY <1>11, Zenon DEF Executes
  <2>2. cl.queue # << >> /\ new.queue = Tail(cl.queue)
    BY <1>11, Zenon DEF Executes
  <2>3. Head(cl.queue) \in 1 .. Len(script[c])
    <3>1. 1 \in 1 .. Len(cl.queue) /\ Head(cl.queue) = cl.queue[1]
      BY <1>1, <2>2
    <3>2. cl.queue[1] \in 1 .. cl.pos
      BY <3>1, Zenon DEF RequestsOf
    <3> QED
      BY <1>1, <3>1, <3>2
  <2>4. \A i, k \in 1 .. Len(cl.queue) : i < k => cl.queue[i] < cl.queue[k]
    BY Zenon DEF RequestsOf
  <2>5. r.req = Head(cl.queue) /\ r.n = 0 /\ r.kind # "array"
    BY <1>3, <2>1, <2>3
  <2>6. LogOf(c, new, TRUE)
    BY <1>11, <2>1, <2>2, <2>4, <2>5, ExecutesLog, Zenon
  <2> QED
    BY <1>11, <2>6, Zenon
<1> QED
  BY <1>4, <1>5, <1>6, <1>7, <1>8, <1>9, <1>10, <1>11, Zenon DEF Steps

===============================================================================
