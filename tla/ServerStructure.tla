---------------------------- MODULE ServerStructure ----------------------------
(***************************************************************************)
(* Every step of Server keeps the structure of the state: its types, what  *)
(* the buffers hold, and where the connections are.                        *)
(***************************************************************************)
EXTENDS ServerHandlers

-------------------------------------------------------------------------------
(* The structure is kept                                                   *)

LEMMA EvolvesMoves ==
  ASSUME NEW c \in Conns, Evolves(c)
  PROVE  Moves(c, client[c], client'[c])
BY Zenon DEF Evolves, Moves

\* The queue is kept and at most one more request is consumed.
LEMMA QueueKept ==
  ASSUME NEW c \in Conns, NEW cl \in Client, NEW new, RequestsOf(c, cl),
         new.queue = cl.queue, new.pos \in {cl.pos, cl.pos + 1}, new.blocked_req = 0
  PROVE  RequestsOf(c, new)
<1>1. cl.pos \in Nat
  BY DEF Client
<1>2. 1 .. cl.pos \subseteq 1 .. new.pos
  BY <1>1
<1> QED
  BY <1>2, Zenon DEF RequestsOf

LEMMA RequestsKept ==
  ASSUME NEW c \in Conns, NEW cl \in Client, NEW new \in Client,
         RequestsOf(c, cl), TxnOf(cl), Moves(c, cl, new)
  PROVE  RequestsOf(c, new) /\ TxnOf(new)
<1> DEFINE j == cl.pos + 1
<1>1. /\ cl.pos \in Nat /\ cl.queue \in Seq(Nat) /\ new.queue \in Seq(Nat)
      /\ cl.active \in BOOLEAN /\ cl.error \in BOOLEAN /\ j \in Nat /\ j # 0
      /\ Len(cl.queue) \in Nat /\ TXN_MAX_CMDS \in Nat
      /\ new.active \in BOOLEAN /\ new.error \in BOOLEAN
  <2>1. TXN_MAX_CMDS \in Nat
    BY ServerAssumption
  <2> QED
    BY <2>1, SMTT(20) DEF Client
<1>2. ASSUME SameTxn(cl, new), new.pos \in {cl.pos, j}, new.blocked_req = 0
      PROVE  RequestsOf(c, new) /\ TxnOf(new)
  <2>1. RequestsOf(c, new)
    BY <1>2, QueueKept, Zenon DEF SameTxn
  <2>2. TxnOf(new)
    BY <1>2, Zenon DEF TxnOf, SameTxn
  <2> QED
    BY <2>1, <2>2
<1>3. ASSUME NoTxn(new), new.blocked_req = 0
      PROVE  RequestsOf(c, new) /\ TxnOf(new)
  BY <1>1, <1>3 DEF RequestsOf, TxnOf, NoTxn
<1>4. ASSUME SameTxn(cl, new), new.pos = cl.pos, new.blocked_req = cl.blocked_req
      PROVE  RequestsOf(c, new) /\ TxnOf(new)
  BY <1>1, <1>4 DEF RequestsOf, TxnOf, SameTxn
<1>5. CASE Idles(cl, new)
  BY <1>4, <1>5 DEF Idles
<1>6. CASE Frees(cl, new)
  BY <1>3, <1>6 DEF Frees
<1>7. CASE Responds(c, j, cl, new)
  <2>1. new.pos = j /\ cl.blocked_req = 0
    BY <1>7 DEF Responds, Consumes
  <2>2. CASE Skips(c, j, cl, new)
    BY <1>2, <2>1, <2>2 DEF Skips
  <2>3. CASE Refuses(c, j, cl, new)
    <3>1. RequestsOf(c, new)
      BY <2>1, <2>3, QueueKept DEF Refuses
    <3>2. TxnOf(new)
      BY <1>1, <2>3, Zenon DEF Refuses, TxnOf
    <3> QED
      BY <3>1, <3>2
  <2>4. CASE Opened(c, j, cl, new)
    <3>1. RequestsOf(c, new)
      BY <2>1, <2>4, QueueKept DEF Opened
    <3>2. TxnOf(new)
      BY <1>1, <2>4, Zenon DEF Opened, TxnOf
    <3> QED
      BY <3>1, <3>2
  <2>5. CASE Resets(c, j, cl, new)
    BY <1>3, <2>5 DEF Resets
  <2>6. CASE Queues(c, j, cl, new)
    <3>1. /\ new.queue = Append(cl.queue, j) /\ Len(cl.queue) < TXN_MAX_CMDS
          /\ script[c][j].op \in Cmds /\ new.blocked_req = 0
          /\ new.active = cl.active /\ cl.active /\ new.error = cl.error
      BY <2>6 DEF Queues
    <3>2. /\ Len(new.queue) = Len(cl.queue) + 1 /\ new.queue[Len(cl.queue) + 1] = j
          /\ \A i \in 1 .. Len(cl.queue) : new.queue[i] = cl.queue[i]
      BY <1>1, <3>1
    <3>3. RequestsOf(c, new)
      <4>1. \A i \in 1 .. Len(new.queue) : i \in 1 .. Len(cl.queue) \/ i = Len(cl.queue) + 1
        BY <1>1, <3>2
      <4>2. \A i \in 1 .. Len(cl.queue) : cl.queue[i] \in 1 .. cl.pos
        BY DEF RequestsOf
      <4>3. \A i \in 1 .. Len(new.queue) : /\ new.queue[i] \in 1 .. new.pos
                                          /\ script[c][new.queue[i]].op \in Cmds
        <5>1. 1 .. cl.pos \subseteq 1 .. new.pos /\ j \in 1 .. new.pos
          BY <1>1, <2>1
        <5> QED
          BY <3>1, <3>2, <4>1, <5>1, ZenonT(40) DEF RequestsOf
      <4>4. \A i, k \in 1 .. Len(new.queue) : i < k => new.queue[i] < new.queue[k]
        <5> SUFFICES ASSUME NEW i \in 1 .. Len(new.queue), NEW k \in 1 .. Len(new.queue), i < k
                     PROVE  new.queue[i] < new.queue[k]
          OBVIOUS
        <5>1. i \in 1 .. Len(cl.queue)
          BY <1>1, <3>2
        <5>2. CASE k \in 1 .. Len(cl.queue)
          <6>1. cl.queue[i] < cl.queue[k]
            BY <5>1, <5>2 DEF RequestsOf
          <6> QED
            BY <3>2, <5>1, <5>2, <6>1
        <5>3. CASE k = Len(cl.queue) + 1
          <6>1. cl.queue[i] \in 1 .. cl.pos /\ new.queue[i] = cl.queue[i] /\ new.queue[k] = j
            BY <3>2, <4>2, <5>1, <5>3
          <6>2. \A p \in Nat : \A q \in 1 .. p : q < p + 1
            OBVIOUS
          <6> QED
            BY <1>1, <6>1, <6>2, Zenon
        <5> QED
          BY <4>1, <5>2, <5>3
      <4> QED
        BY <3>1, <4>3, <4>4, Zenon DEF RequestsOf
    <3>4. TxnOf(new)
      BY <1>1, <3>1, <3>2 DEF TxnOf
    <3> QED
      BY <3>3, <3>4
  <2>7. CASE Runs(c, j, cl, new)
    BY <1>2, <2>1, <2>7 DEF Runs
  <2>8. CASE Parks(c, j, cl, new)
    <3>1. /\ SameTxn(cl, new) /\ new.blocked_req = j /\ ~cl.active
          /\ script[c][j].op = "blpop"
      BY <2>8 DEF Parks
    <3> QED
      BY <1>1, <2>1, <3>1 DEF RequestsOf, TxnOf, SameTxn
  <2> QED
    BY <1>7, <2>2, <2>3, <2>4, <2>5, <2>6, <2>7, <2>8 DEF Responds
<1>8. CASE Wakes(c, cl, new)
  BY <1>2, <1>8 DEF Wakes
<1>9. CASE Turns(c, cl, new)
  <2>1. SameTxn(cl, new) /\ new.pos = cl.pos /\ new.blocked_req = cl.blocked_req
    BY <1>9, Zenon DEF Turns, Protests, Limits, Idles, SameTxn
  <2> QED
    BY <1>4, <2>1
<1>10. CASE Consumes(c, j, cl, new) /\ Begins(c, j, cl, new)
  BY <1>2, <1>10 DEF Consumes, Begins
<1>11. CASE Executes(c, cl, new)
  <2>1. /\ cl.queue # << >> /\ new.queue = Tail(cl.queue) /\ new.active = cl.active
        /\ new.error = cl.error /\ new.pos = cl.pos /\ new.blocked_req = cl.blocked_req
    BY <1>11 DEF Executes
  <2>2. /\ Len(new.queue) = Len(cl.queue) - 1
        /\ \A i \in 1 .. Len(new.queue) : /\ i + 1 \in 1 .. Len(cl.queue)
                                         /\ new.queue[i] = cl.queue[i + 1]
    BY <1>1, <2>1
  <2>3. \A i, k \in 1 .. Len(new.queue) : i < k => new.queue[i] < new.queue[k]
    BY <1>1, <2>2 DEF RequestsOf
  <2>4. \A i \in 1 .. Len(new.queue) : /\ new.queue[i] \in 1 .. new.pos
                                      /\ script[c][new.queue[i]].op \in Cmds
    BY <2>1, <2>2 DEF RequestsOf
  <2>5. RequestsOf(c, new)
    BY <2>1, <2>3, <2>4, Zenon DEF RequestsOf
  <2>6. Len(new.queue) <= TXN_MAX_CMDS
    <3>1. Len(cl.queue) <= TXN_MAX_CMDS
      BY DEF TxnOf
    <3> QED
      BY <1>1, <2>2, <3>1
  <2>7. TxnOf(new)
    BY <2>1, <2>6 DEF TxnOf
  <2> QED
    BY <2>5, <2>7
<1>12. CASE Finishes(cl, new)
  BY <1>1, <1>12 DEF Finishes, NoTxn, RequestsOf, TxnOf
<1> QED
  BY <1>5, <1>6, <1>7, <1>8, <1>9, <1>10, <1>11, <1>12 DEF Moves

\* A step that changes no client and runs no command.
LEMMA StillStep ==
  ASSUME Structure, client' = client, db' = db, script' = script,
         \/ pc # "exec" /\ pc' # "exec"
         \/ pc' = pc /\ todo' = todo
  PROVE  /\ client' \in [Conns -> Client] /\ db' \in Contents
         /\ \A d \in Conns : Evolves(d) /\ Idles(client[d], client'[d])
<1>1. client' \in [Conns -> Client] /\ db' \in Contents
  BY DEF Structure, Typed, TypeOK, Contents
<1>2. \A d \in Conns : Executing(d)' <=> Executing(d)
  BY DEF Executing, Current
<1>3. \A d \in Conns : client'[d] = client[d]
  OBVIOUS
<1>4. \A d \in Conns : Evolves(d)
  BY <1>2, <1>3, OthersEvolve
<1> QED
  BY <1>1, <1>3, <1>4 DEF Idles, SameTxn

\* What every step does to the clients and the lists.
LEMMA Evolution ==
  ASSUME LeastNumbers, Structure, [Next]_vars
  PROVE  /\ client' \in [Conns -> Client] /\ db' \in Contents /\ script' = script
         /\ \A d \in Conns : /\ Evolves(d)
                             /\ client[d].close_after_reply => client'[d].close_after_reply
<1>0. db \in Contents
  BY DEF Structure, Typed, TypeOK, Contents
<1>1. CASE Top
  BY <1>1, StillStep DEF Top, env
<1>2. CASE Poll
  BY <1>2, StillStep DEF Poll, env
<1>3. CASE PollFails
  BY <1>3, StillStep DEF PollFails, env
<1>4. CASE Read
  BY <1>0, <1>4, ReadStep DEF Read, env
<1>5. CASE ReadFails
  BY <1>0, <1>5, ReadFailsStep DEF ReadFails, env
<1>6. CASE Accept
  BY <1>6, StillStep DEF Accept
<1>7. CASE Service
  BY <1>7, ServiceStep, Zenon DEF Service, env, Framed
<1>8. CASE ProcessRequest
  BY <1>8, ProcessRequestStep, Zenon DEF ProcessRequest, env, Framed
<1>9. CASE ExecCommand
  BY <1>9, ExecCommandStep, Zenon DEF ExecCommand, env, Framed
<1>10. CASE ExecDone
  BY <1>0, <1>10, ExecDoneStep, Zenon DEF ExecDone, env, Framed
<1>11. CASE ProcessReturn
  BY <1>0, <1>11, ProcessReturnStep, Zenon DEF ProcessReturn, env
<1>12. CASE Flush
  BY <1>0, <1>12, FlushStep, Zenon DEF Flush
<1>13. CASE server_shutdown
  BY <1>0, <1>13, ShutdownStep DEF server_shutdown, env
<1>14. CASE Environment
  <2>1. pc # "exec"
    BY <1>14 DEF Environment
  <2>2. ASSUME NEW c \in Conns, Connect(c) \/ Send(c) \/ Receive(c) \/ Leave(c)
        PROVE  client' = client /\ db' = db /\ script' = script /\ pc' = pc
    BY <2>2 DEF Connect, Send, Receive, Leave, loop
  <2>3. CASE \E c \in Conns : Connect(c) \/ Send(c) \/ Receive(c) \/ Leave(c)
    BY <2>1, <2>2, <2>3, StillStep
  <2>4. CASE Signal
    BY <2>1, <2>4, StillStep DEF Signal, env, loop
  <2>5. CASE Tick
    <3>1. db' = db /\ script' = script
      BY <2>5 DEF Tick, env
    <3>2. pc \notin {"process", "exec"}
      BY <1>14 DEF Environment
    <3>3. \A d \in Conns : client[d].close_after_reply => client'[d].close_after_reply
      BY <2>5, <3>2, TickStep, Zenon DEF Framed
    <3> QED
      BY <1>0, <2>5, <3>1, <3>2, <3>3, TickStep, Zenon
  <2> QED
    BY <1>14, <2>3, <2>4, <2>5 DEF Environment
<1>15. CASE UNCHANGED vars
  BY <1>15, StillStep DEF vars, env, loop
<1> QED
  BY Zenon, <1>1, <1>2, <1>3, <1>4, <1>5, <1>6, <1>7, <1>8, <1>9, <1>10, <1>11, <1>12, <1>13,
     <1>14, <1>15 DEF Next, ServerStep, Terminated

LEMMA RepliesGrow ==
  ASSUME NEW c \in Conns, NEW cl \in Client, NEW new \in Client, Moves(c, cl, new)
  PROVE  Len(cl.replies) \in Nat /\ Len(new.replies) \in Nat /\ Len(cl.replies) <= Len(new.replies)
<1>1. cl.replies \in Seq(ReplyRecord) /\ new.replies \in Seq(ReplyRecord)
  BY DEF Client
<1>2. ASSUME NEW a \in Seq(ReplyRecord), NEW b, NEW r \in ReplyRecord, b = Append(a, r)
      PROVE  Len(a) <= Len(b)
  BY <1>2
<1>3. (\E r : Says(cl, new, r)) => Len(cl.replies) <= Len(new.replies)
  BY <1>1, <1>2 DEF Says
<1>4. new.replies = cl.replies => Len(cl.replies) <= Len(new.replies)
  BY <1>1
<1>5. CASE Turns(c, cl, new)
  <2>1. PICK mid \in Client : Protests(c, cl, mid) /\ Limits(mid, new)
    BY <1>5 DEF Turns
  <2>2. mid.replies \in Seq(ReplyRecord)
    BY DEF Client
  <2>3. Len(cl.replies) <= Len(mid.replies)
    <3>1. mid.replies = cl.replies \/ \E r : Says(cl, mid, r)
      BY <2>1, Zenon DEF Protests, Idles
    <3> QED
      BY <1>1, <1>2, <3>1 DEF Says
  <2>4. Len(mid.replies) <= Len(new.replies)
    <3>1. new.replies = mid.replies \/ \E r : Says(mid, new, r)
      BY <2>1, Zenon DEF Limits, Idles
    <3> QED
      BY <1>2, <2>2, <3>1 DEF Says
  <2> QED
    BY <1>1, <2>2, <2>3, <2>4
<1>6. CASE ~Turns(c, cl, new)
  <2>1. new.replies = cl.replies \/ \E r : Says(cl, new, r)
    BY <1>6, Zenon DEF Moves, Idles, Frees, Responds, Skips, Refuses, Opened, Resets, Queues,
                Runs, Parks, Wakes, Begins, Executes, Finishes
  <2> QED
    BY <1>1, <1>3, <1>4, <2>1
<1> QED
  BY <1>1, <1>5, <1>6

\* The buffers of a client whose peer has sent s: nothing is consumed that was
\* not got, got that was not sent, or flushed that was not said.
Fits(cl, s) ==
  Size * cl.pos <= cl.got /\ cl.got <= s /\ cl.flushed <= Len(cl.replies)

LEMMA Counters ==
  ASSUME NEW cl \in Client
  PROVE  /\ cl.got \in Nat /\ cl.pos \in Nat /\ cl.flushed \in Nat
         /\ Len(cl.replies) \in Nat /\ Size * cl.pos \in Nat
<1>1. /\ cl.got \in Nat /\ cl.pos \in Nat /\ cl.flushed \in Nat
      /\ cl.replies \in Seq(ReplyRecord)
  BY DEF Client
<1>2. Size \in Nat
  BY ServerAssumption
<1>3. Len(cl.replies) \in Nat
  BY <1>1
<1>4. Size * cl.pos \in Nat
  BY <1>1, <1>2
<1> QED
  BY <1>1, <1>3, <1>4

LEMMA FitsNow ==
  ASSUME Structure, NEW c \in Conns
  PROVE  Fits(client[c], sent[c])
BY ClientFacts, Outgoing, Zenon DEF Fits

LEMMA FitsKept ==
  ASSUME Structure, NEW c \in Conns, Evolves(c), client'[c] \in Client,
         client'[c].got = client[c].got, client'[c].pos = client[c].pos,
         client'[c].flushed = client[c].flushed
  PROVE  \A s \in Nat : sent[c] <= s => Fits(client'[c], s)
<1>1. /\ client[c] \in Client /\ Fits(client[c], sent[c]) /\ sent[c] \in Nat
      /\ client[c].flushed \in Nat /\ client[c].got \in Nat
  BY ClientFacts, FitsNow
<1>2. /\ Len(client[c].replies) \in Nat /\ Len(client'[c].replies) \in Nat
      /\ Len(client[c].replies) <= Len(client'[c].replies)
  BY <1>1, EvolvesMoves, RepliesGrow
<1>3. /\ Size * client'[c].pos <= client'[c].got
      /\ client'[c].got <= sent[c] /\ client'[c].got \in Nat
  BY <1>1 DEF Fits
<1>4. client'[c].flushed <= Len(client'[c].replies)
  BY <1>1, <1>2 DEF Fits
<1> QED
  BY <1>1, <1>3, <1>4 DEF Fits

LEMMA TypedIntro ==
  ASSUME Structure, script' = script, client' \in [Conns -> Client], db' \in Contents,
         clients' \in Seq(Conns), todo' \in Seq(Conns), backlog' \in Seq(Conns),
         pc' \in {"top", "poll", "read", "process", "exec", "service", "exit", "stopped"},
         caller' \in {"read", "service"}, eof' \in BOOLEAN,
         peer' \in [Conns -> {"new", "open", "half", "gone"}],
         sent' \in [Conns -> Nat], wire' \in [Conns -> 0 .. SocketRoom],
         \A c \in Conns : Fits(client'[c], sent'[c]) /\ sent'[c] <= Size * Len(script[c])
  PROVE  Typed'
<1>1. ASSUME NEW c \in Conns
      PROVE  InLen(client'[c]) \in Nat /\ OutLen(client'[c]) \in Nat
  <2>1. /\ client'[c].got \in Nat /\ client'[c].pos \in Nat /\ client'[c].flushed \in Nat
        /\ Len(client'[c].replies) \in Nat /\ Size * client'[c].pos \in Nat
    <3>1. client'[c] \in Client
      BY Zenon
    <3> QED
      BY <3>1, Counters, Zenon
  <2>2. /\ Size * client'[c].pos <= client'[c].got
        /\ client'[c].flushed <= Len(client'[c].replies)
    BY DEF Fits
  <2>3. \A a, b \in Nat : b <= a => a - b \in Nat
    OBVIOUS
  <2> QED
    BY <2>1, <2>2, <2>3, Zenon DEF InLen, OutLen
<1>2. TypeOK'
  BY <1>1 DEF TypeOK, Contents, InLen, OutLen
<1>3. Scripts'
  BY DEF Structure, Typed, Scripts
<1> QED
  BY <1>2, <1>3 DEF Typed, Fits

\* The lists of connections after accept_clients.
LEMMA AcceptLists ==
  ASSUME LeastNumbers, Structure, Accept
  PROVE  /\ clients' \in Seq(Conns) /\ backlog' \in Seq(Conns) /\ todo' \in Seq(Conns)
         /\ Distinct(clients') /\ Distinct(backlog') /\ Distinct(todo')
         /\ Range(clients') \cap Range(backlog') = {}
         /\ Range(clients') \cup Range(backlog') = Range(clients) \cup Range(backlog)
         /\ Range(clients) \subseteq Range(clients') /\ Range(backlog') \subseteq Range(backlog)
         /\ \A c \in Range(todo') : /\ c \in Range(clients)
                                    /\ client[c].blocked_req # 0 /\ ~client[c].closed
<1>1. /\ clients \in Seq(Conns) /\ backlog \in Seq(Conns) /\ Distinct(clients)
      /\ Distinct(backlog) /\ Range(clients) \cap Range(backlog) = {}
  BY DEF Structure, Typed, TypeOK, Visits
<1> DEFINE parked == {c \in Conns : client[c].blocked_req # 0 /\ ~client[c].closed}
<1>2. \/ \E n \in 0 .. Len(backlog) : accept_clients(n)
      \/ clients' = clients /\ backlog' = backlog
  BY Zenon DEF Accept
<1>3. /\ clients' \in Seq(Conns) /\ backlog' \in Seq(Conns)
      /\ Distinct(clients') /\ Distinct(backlog')
      /\ Range(clients') \cap Range(backlog') = {}
      /\ Range(clients') \cup Range(backlog') = Range(clients) \cup Range(backlog)
      /\ Range(clients) \subseteq Range(clients') /\ Range(backlog') \subseteq Range(backlog)
  <2>1. CASE \E n \in 0 .. Len(backlog) : accept_clients(n)
    BY <1>1, <2>1, SplitElements DEF accept_clients
  <2> QED
    BY <1>1, <1>2, <2>1
<1>4. todo' = Keep(clients, parked) \/ todo' = << >>
  BY Zenon DEF Accept
<1>5. \A c : c \in parked => client[c].blocked_req # 0 /\ ~client[c].closed
  OBVIOUS
<1> HIDE DEF parked
<1>6. CASE todo' = Keep(clients, parked)
  <2>1. todo' \in Seq(Conns) /\ Distinct(todo') /\ Range(todo') = Range(clients) \cap parked
    BY <1>1, <1>6, KeepRange
  <2> QED
    BY <1>3, <1>5, <2>1
<1>7. CASE todo' = << >>
  <2>1. todo' \in Seq(Conns) /\ Distinct(todo') /\ Range(todo') = {}
    BY <1>7 DEF Distinct, Range
  <2> QED
    BY <1>3, <2>1
<1> QED
  BY <1>4, <1>6, <1>7

LEMMA PollLists ==
  ASSUME LeastNumbers, Structure, Poll
  PROVE  todo' \in Seq(Conns) /\ Distinct(todo') /\ Range(todo') \subseteq Range(clients)
BY KeepRange DEF Poll, Structure, Typed, TypeOK, Visits

LEMMA ConnectLists ==
  ASSUME Structure, NEW c \in Conns, Connect(c)
  PROVE  /\ backlog' \in Seq(Conns) /\ Distinct(backlog')
         /\ Range(backlog') = Range(backlog) \cup {c} /\ c \notin Range(clients)
BY AppendElements DEF Connect, Structure, Typed, Visits

\* The buffers stay typed and bounded.
LEMMA TypedStep ==
  ASSUME LeastNumbers, Structure, [Next]_vars
  PROVE  Typed'
<1>0. /\ client' \in [Conns -> Client] /\ db' \in Contents /\ script' = script
      /\ \A d \in Conns : Evolves(d)
  BY Evolution
<1>1. /\ client \in [Conns -> Client]
      /\ clients \in Seq(Conns) /\ todo \in Seq(Conns) /\ backlog \in Seq(Conns)
      /\ pc \in {"top", "poll", "read", "process", "exec", "service", "exit", "stopped"}
      /\ caller \in {"read", "service"} /\ eof \in BOOLEAN
      /\ peer \in [Conns -> {"new", "open", "half", "gone"}]
      /\ sent \in [Conns -> Nat] /\ wire \in [Conns -> 0 .. SocketRoom]
      /\ \A c \in Conns : sent[c] <= Size * Len(script[c])
  BY DEF Structure, Typed, TypeOK
<1> DEFINE Lists == clients' \in Seq(Conns) /\ todo' \in Seq(Conns) /\ backlog' \in Seq(Conns)
           Places == /\ pc' \in {"top", "poll", "read", "process", "exec", "service",
                                  "exit", "stopped"}
                     /\ caller' \in {"read", "service"} /\ eof' \in BOOLEAN
           Peers == /\ peer' \in [Conns -> {"new", "open", "half", "gone"}]
                    /\ sent' \in [Conns -> Nat] /\ wire' \in [Conns -> 0 .. SocketRoom]
                    /\ \A c \in Conns : sent'[c] <= Size * Len(script[c])
           Buffers == \A c \in Conns : Fits(client'[c], sent'[c])
<1> SUFFICES Lists /\ Places /\ Peers /\ Buffers
  BY <1>0, TypedIntro
<1>2. todo # << >> => Tail(todo) \in Seq(Conns)
  BY CurrentFacts
<1>3. ASSUME peer' = peer, sent' = sent, wire' = wire
      PROVE  Peers
  BY <1>1, <1>3
<1>4. ASSUME \A c \in Conns : /\ client'[c].got = client[c].got
                              /\ client'[c].pos = client[c].pos
                              /\ client'[c].flushed = client[c].flushed
                              /\ sent'[c] \in Nat /\ sent[c] <= sent'[c]
      PROVE  Buffers
  BY <1>0, <1>4, FitsKept
<1>5. ASSUME client' = client, sent' = sent
      PROVE  Buffers
  BY <1>1, <1>4, <1>5
<1> HIDE DEF Buffers
<1>6. CASE Top
  BY <1>1, <1>3, <1>5, <1>6 DEF Top, env
<1>7. CASE Poll
  BY <1>1, <1>3, <1>5, <1>7, PollLists DEF Poll, env
<1>8. CASE PollFails
  BY <1>1, <1>3, <1>5, <1>8 DEF PollFails, env
<1>9. CASE Read
  <2>1. Lists /\ Places /\ Peers
    BY <1>1, <1>3, <1>9 DEF Read, env
  <2>2. ASSUME NEW c \in Conns
        PROVE  Fits(client'[c], sent'[c])
    <3>1. /\ client'[c].pos = client[c].pos /\ client'[c].replies = client[c].replies
          /\ client'[c].flushed = client[c].flushed
          /\ client'[c].got \in {client[c].got, sent[c]} /\ sent' = sent
      BY <1>9, ReadStep DEF Idles, Read, env
    <3>2. Size * client[c].pos <= sent[c] /\ client'[c].got <= sent[c]
      BY <3>1, ClientFacts
    <3> QED
      BY <3>1, <3>2, FitsNow DEF Fits
  <2> QED
    BY <2>1, <2>2 DEF Buffers
<1>10. CASE ReadFails
  <2>1. Lists /\ Places /\ Peers /\ sent' = sent
    BY <1>1, <1>2, <1>3, <1>10 DEF ReadFails, env
  <2> QED
    BY <1>1, <1>4, <1>10, <2>1, ReadFailsStep DEF Idles
<1>11. CASE Accept
  BY <1>1, <1>3, <1>5, <1>11, AcceptLists, Zenon DEF Accept
<1>12. CASE Service
  <2>1. Lists /\ Places /\ Peers /\ sent' = sent
    BY <1>1, <1>2, <1>3, <1>12, Zenon DEF Service, env
  <2>2. \A d \in Conns : Framed(client[d], client'[d]) /\ client'[d].pos = client[d].pos
    BY <1>12, ServiceStep, Zenon DEF Framed
  <2> QED
    BY <1>1, <1>4, <2>1, <2>2 DEF Framed
<1>13. CASE ProcessRequest
  <2>0. PICK c \in Conns : c = Current
    BY <1>13, CurrentFacts, Zenon DEF ProcessRequest, Structure, Visits
  <2>1. Lists /\ Places /\ Peers /\ sent' = sent
    BY <1>1, <1>3, <1>13, Zenon DEF ProcessRequest, env
  <2>2. Fits(client'[c], sent[c])
    <3>1. /\ Framed(client[c], client'[c]) /\ client'[c].pos = client[c].pos + 1
          /\ InLen(client[c]) >= Size
      BY <1>13, <2>0, ProcessRequestStep, Zenon
    <3>2. /\ client[c].pos \in Nat /\ client[c].got \in Nat /\ client[c].flushed \in Nat
          /\ Size \in Nat /\ client[c].got <= sent[c] /\ client[c] \in Client
      BY ClientFacts
    <3>3. Size * (client[c].pos + 1) = Size * client[c].pos + Size /\ Size * client[c].pos \in Nat
      BY <3>2
    <3>4. Size * client'[c].pos <= client'[c].got
      BY <3>1, <3>2, <3>3 DEF InLen, Framed
    <3>5. /\ Len(client[c].replies) \in Nat /\ Len(client'[c].replies) \in Nat
          /\ Len(client[c].replies) <= Len(client'[c].replies)
      BY <1>0, <3>2, EvolvesMoves, RepliesGrow, Zenon
    <3>6. client'[c].flushed <= Len(client'[c].replies)
      <4>1. client'[c].flushed = client[c].flushed
        BY <3>1 DEF Framed
      <4>2. client[c].flushed <= Len(client[c].replies)
        BY Outgoing
      <4> QED
        BY <3>2, <3>5, <4>1, <4>2
    <3> QED
      BY <3>1, <3>2, <3>4, <3>6, Zenon DEF Fits, Framed
  <2>3. \A d \in Conns : d # c => Fits(client'[d], sent[d])
    BY <1>13, <2>0, ProcessRequestStep, FitsNow, Zenon
  <2> QED
    BY <2>1, <2>2, <2>3 DEF Buffers
<1>14. CASE ExecCommand
  <2>1. Lists /\ Places /\ Peers /\ sent' = sent
    BY <1>1, <1>3, <1>14, Zenon DEF ExecCommand, env, loop
  <2>2. \A d \in Conns : Framed(client[d], client'[d]) /\ client'[d].pos = client[d].pos
    BY <1>14, ExecCommandStep, Zenon DEF Framed
  <2> QED
    BY <1>1, <1>4, <2>1, <2>2 DEF Framed
<1>15. CASE ExecDone
  <2>1. Lists /\ Places /\ Peers /\ sent' = sent
    BY <1>1, <1>3, <1>15, Zenon DEF ExecDone, env
  <2>2. \A d \in Conns : Framed(client[d], client'[d]) /\ client'[d].pos = client[d].pos
    BY <1>15, ExecDoneStep, Zenon DEF Framed
  <2> QED
    BY <1>1, <1>4, <2>1, <2>2 DEF Framed
<1>16. CASE ProcessReturn
  <2>0. todo # << >>
    BY <1>16, Zenon DEF ProcessReturn, Structure, Visits
  <2>1. Lists /\ Places /\ Peers /\ sent' = sent
    BY <1>1, <1>2, <1>3, <1>16, <2>0, Zenon DEF ProcessReturn, env
  <2>2. \A d \in Conns : /\ client'[d].got = client[d].got
                         /\ client'[d].flushed = client[d].flushed
                         /\ client'[d].pos = client[d].pos
    BY <1>16, ProcessReturnStep
  <2> QED
    BY <1>1, <1>4, <2>1, <2>2
<1>17. CASE Flush
  <2>1. Lists /\ Places /\ Peers /\ sent' = sent
    BY <1>1, <1>17, FlushStep, Zenon DEF Flush
  <2>2. ASSUME NEW c \in Conns
        PROVE  Fits(client'[c], sent[c])
    BY <1>17, FlushStep, FitsNow, Zenon DEF Fits
  <2> QED
    BY <2>1, <2>2 DEF Buffers
<1>18. CASE server_shutdown
  <2>1. Lists /\ Places /\ Peers /\ sent' = sent
    BY <1>1, <1>3, <1>18 DEF server_shutdown, env
  <2> QED
    BY <1>1, <1>4, <1>18, <2>1, ShutdownStep
<1>19. CASE Environment
  <2>1. ASSUME NEW c \in Conns, Connect(c)
        PROVE  Lists /\ Places /\ Peers /\ Buffers
    BY <1>1, <1>5, <2>1, ConnectLists, Zenon DEF Connect, loop
  <2>2. ASSUME NEW c \in Conns, Send(c)
        PROVE  Lists /\ Places /\ Peers /\ Buffers
    <3>1. PICK n \in sent[c] + 1 .. Size * Len(script[c]) : sent' = [sent EXCEPT ![c] = n]
      BY <2>2, Zenon DEF Send
    <3>2. sent[c] \in Nat /\ Size * Len(script[c]) \in Nat
      BY ClientFacts
    <3>3. n \in Nat /\ sent[c] <= n /\ n <= Size * Len(script[c])
      BY <3>1, <3>2
    <3>4. /\ sent' \in [Conns -> Nat] /\ \A d \in Conns : /\ sent[d] <= sent'[d]
                                                       /\ sent'[d] <= Size * Len(script[d])
      BY <1>1, <3>1, <3>3
    <3>5. client' = client
      BY <2>2 DEF Send
    <3>6. Buffers
      BY <1>4, <3>4, <3>5
    <3> QED
      BY <1>1, <2>2, <3>4, <3>6, Zenon DEF Send, loop
  <2>3. ASSUME NEW c \in Conns, Receive(c)
        PROVE  Lists /\ Places /\ Peers /\ Buffers
    BY <1>1, <1>5, <2>3, ServerAssumption DEF Receive, loop
  <2>4. ASSUME NEW c \in Conns, Leave(c)
        PROVE  Lists /\ Places /\ Peers /\ Buffers
    BY <1>1, <1>5, <2>4, Zenon DEF Leave, loop
  <2>5. CASE Signal
    BY <1>1, <1>3, <1>5, <2>5 DEF Signal, env, loop
  <2>6. CASE Tick
    <3>1. Lists /\ Places /\ Peers /\ sent' = sent
      BY <1>1, <1>3, <2>6 DEF Tick, env, loop
    <3>2. \A d \in Conns : Framed(client[d], client'[d]) /\ client'[d].pos = client[d].pos
      BY <1>19, <2>6, TickStep, Zenon DEF Environment, Idles
    <3> QED
      BY <1>1, <1>4, <3>1, <3>2 DEF Framed
  <2> QED
    BY <1>19, <2>1, <2>2, <2>3, <2>4, <2>5, <2>6, Zenon DEF Environment
<1>20. CASE UNCHANGED vars
  BY <1>1, <1>3, <1>5, <1>20 DEF vars, env, loop
<1> QED
  BY Zenon, <1>6, <1>7, <1>8, <1>9, <1>10, <1>11, <1>12, <1>13, <1>14, <1>15, <1>16, <1>17,
     <1>18, <1>19, <1>20 DEF Next, ServerStep, Terminated

\* Where the connections are, and what a pass has yet to visit.
LEMMA VisitsStep ==
  ASSUME LeastNumbers, Structure, [Next]_vars
  PROVE  Visits'
<1>1. /\ Distinct(clients) /\ Distinct(backlog) /\ Distinct(todo)
      /\ Range(clients) \cap Range(backlog) = {}
      /\ Range(todo) \subseteq Range(clients)
      /\ todo \in Seq(Conns)
  BY Zenon DEF Structure, Visits, Typed, TypeOK
<1>2. /\ pc \in {"process", "exec"} => todo # << >>
      /\ pc \in {"top", "poll", "exit", "stopped"} => todo = << >>
      /\ pc = "service" => \A c \in Range(todo) : client[c].blocked_req # 0
      /\ (pc \in {"process", "exec"} /\ caller = "service")
           => \A c \in Range(Tail(todo)) : client[c].blocked_req # 0
      /\ pc = "exec" => client[Current].active /\ ~client[Current].error
  BY Zenon DEF Structure, Visits
<1>3. \A c \in Conns :
        /\ peer[c] = "new" => c \notin Range(clients) \cup Range(backlog)
        /\ peer[c] = "new" \/ c \in Range(backlog) => client[c] = client_init
  BY DEF Structure, Visits
<1>4. todo # << >> => /\ Current \in Conns /\ Current \in Range(clients)
                      /\ Range(todo) = Range(Tail(todo)) \cup {Current}
                      /\ Current \notin Range(Tail(todo)) /\ Distinct(Tail(todo))
  BY CurrentFacts
<1>5. Range(<< >>) = {} /\ Distinct(<< >>)
  BY DEF Range, Distinct
<1> DEFINE Places ==
             /\ Distinct(clients') /\ Distinct(backlog') /\ Distinct(todo')
             /\ Range(clients') \cap Range(backlog') = {}
             /\ Range(todo') \subseteq Range(clients')
           Pass ==
             /\ pc' \in {"process", "exec"} => todo' # << >>
             /\ pc' \in {"top", "poll", "exit", "stopped"} => todo' = << >>
             /\ pc' = "service" => \A c \in Range(todo') : client'[c].blocked_req # 0
             /\ (pc' \in {"process", "exec"} /\ caller' = "service")
                  => \A c \in Range(Tail(todo')) : client'[c].blocked_req # 0
             /\ pc' = "exec" => client'[Head(todo')].active /\ ~client'[Head(todo')].error
           Fresh == \A c \in Conns :
             /\ peer'[c] = "new" => c \notin Range(clients') \cup Range(backlog')
             /\ peer'[c] = "new" \/ c \in Range(backlog') => client'[c] = client_init
<1> SUFFICES Places /\ Pass /\ Fresh
  BY Zenon DEF Visits, Current
<1>6. ASSUME \A c \in Conns : c \notin Range(clients) => client'[c] = client[c],
             peer' = peer, Range(clients') \subseteq Range(clients), backlog' = backlog
      PROVE  Fresh
  BY <1>1, <1>3, <1>6, Zenon
<1>7. ASSUME client' = client, peer' = peer, clients' = clients, backlog' = backlog
      PROVE  Fresh
  BY <1>3, <1>7, Zenon
<1> HIDE DEF Fresh
<1>8. CASE Top
  BY <1>1, <1>2, <1>7, <1>8, Zenon DEF Top, env
<1>9. CASE Poll
  BY <1>1, <1>7, <1>9, PollLists, Zenon DEF Poll, env
<1>10. CASE PollFails
  BY <1>1, <1>2, <1>7, <1>10, Zenon DEF PollFails, env
<1>11. CASE Read
  <2>1. /\ todo # << >> /\ UNCHANGED <<todo, clients, backlog, peer>>
        /\ pc' = "process" /\ caller' = "read"
    BY <1>11 DEF Read, env
  <2>2. Fresh
    BY <1>4, <1>6, <1>11, <2>1, ReadStep, Zenon
  <2> QED
    BY <1>1, <2>1, <2>2, Zenon
<1>12. CASE ReadFails
  <2>1. /\ todo # << >> /\ UNCHANGED <<clients, backlog, peer>>
        /\ todo' = Tail(todo) /\ pc' = "read"
    BY <1>12 DEF ReadFails, env
  <2>2. Fresh
    BY <1>4, <1>6, <1>12, <2>1, ReadFailsStep, Zenon
  <2> QED
    BY <1>1, <1>4, <2>1, <2>2, Zenon
<1>13. CASE Accept
  <2>1. client' = client /\ peer' = peer /\ pc' = "service"
    BY <1>13, Zenon DEF Accept
  <2>2. Fresh
    BY <1>3, <1>13, <2>1, AcceptLists, Zenon DEF Fresh
  <2> QED
    BY <1>13, <2>1, <2>2, AcceptLists, Zenon
<1>14. CASE Service
  <2>1. /\ todo # << >> /\ UNCHANGED <<clients, backlog, peer>> /\ pc = "service"
        /\ \/ todo' = Tail(todo) /\ pc' = pc
           \/ pc' = "process" /\ todo' = todo
    BY <1>14, Zenon DEF Service, env
  <2>2. Fresh
    BY <1>4, <1>6, <1>14, <2>1, ServiceStep
  <2>3. \A d \in Range(Tail(todo)) : client'[d] = client[d]
    BY <1>4, <1>14, <2>1, ServiceStep, CurrentFacts, RangeElements DEF Elements
  <2> QED
    BY <1>1, <1>2, <1>4, <2>1, <2>2, <2>3, Zenon
<1>15. CASE ProcessRequest
  <2>1. /\ todo # << >> /\ UNCHANGED <<clients, backlog, peer, todo, caller>>
        /\ pc = "process" /\ pc' \in {"process", "exec"}
    BY <1>2, <1>15, Zenon DEF ProcessRequest, env
  <2>2. Fresh
    BY <1>4, <1>6, <1>15, <2>1, ProcessRequestStep
  <2>3. \A d \in Range(Tail(todo)) : client'[d] = client[d]
    BY <1>4, <1>15, <2>1, ProcessRequestStep, CurrentFacts, RangeElements DEF Elements
  <2>4. pc' = "exec" => client'[Current].active /\ ~client'[Current].error
    BY <1>15, ProcessRequestStep DEF Begins, SameTxn
  <2> QED
    BY <1>1, <1>2, <1>4, <2>1, <2>2, <2>3, <2>4, Zenon DEF Current
<1>16. CASE ExecCommand
  <2>0. PICK c \in Conns : c = Current
    BY <1>2, <1>4, <1>16, Zenon DEF ExecCommand
  <2>1. /\ todo # << >> /\ UNCHANGED <<clients, backlog, peer, todo, caller>>
        /\ pc = "exec" /\ pc' = "exec"
    BY <1>2, <1>16, Zenon DEF ExecCommand, env, loop
  <2>2. Fresh
    BY <1>4, <1>6, <1>16, <2>1, ExecCommandStep, Zenon
  <2>3. \A d \in Range(Tail(todo)) : client'[d] = client[d]
    BY <1>4, <1>16, <2>1, ExecCommandStep, CurrentFacts, RangeElements DEF Elements
  <2>4. client'[c].active /\ ~client'[c].error
    <3>1. Evolves(c) /\ Executing(c) /\ Executing(c)'
      BY <1>16, <2>0, <2>1, ExecCommandStep, Zenon DEF Executing, Current
    <3> QED
      BY <1>2, <2>0, <2>1, <3>1, Zenon DEF Evolves, Idles, SameTxn, Executes
  <2> QED
    BY <1>1, <1>2, <1>4, <2>0, <2>1, <2>2, <2>3, <2>4, Zenon DEF Current
<1>17. CASE ExecDone
  <2>1. /\ todo # << >> /\ UNCHANGED <<clients, backlog, peer, todo, caller>>
        /\ pc = "exec" /\ pc' = "process"
    BY <1>2, <1>17, Zenon DEF ExecDone, env
  <2>2. Fresh
    BY <1>4, <1>6, <1>17, <2>1, ExecDoneStep, Zenon
  <2>3. \A d \in Range(Tail(todo)) : client'[d] = client[d]
    BY <1>4, <1>17, <2>1, ExecDoneStep, CurrentFacts, RangeElements DEF Elements
  <2> QED
    BY <1>1, <1>2, <1>4, <2>1, <2>2, <2>3, Zenon
<1>18. CASE ProcessReturn
  <2>1. /\ todo # << >> /\ UNCHANGED <<clients, backlog, peer, caller>>
        /\ pc = "process" /\ pc' = caller /\ todo' = Tail(todo)
        /\ caller \in {"read", "service"}
    BY <1>2, <1>18, Zenon DEF ProcessReturn, env, Structure, Typed
  <2>2. Fresh
    BY <1>4, <1>6, <1>18, <2>1, ProcessReturnStep, Zenon
  <2>3. \A d \in Range(Tail(todo)) : client'[d] = client[d]
    BY <1>4, <1>18, <2>1, ProcessReturnStep, CurrentFacts, RangeElements DEF Elements
  <2> QED
    BY <1>1, <1>2, <1>4, <2>1, <2>2, <2>3, Zenon
<1>19. CASE Flush
  <2>1. UNCHANGED <<backlog, peer, todo>> /\ todo = << >> /\ pc' = "top"
    BY <1>19, Zenon DEF Flush
  <2>2. Fresh
    BY <1>6, <1>19, <2>1, FlushStep, Zenon
  <2> QED
    BY <1>1, <1>5, <1>19, <2>1, <2>2, FlushStep, Zenon
<1>20. CASE server_shutdown
  <2>1. /\ UNCHANGED <<backlog, peer, todo>> /\ todo = << >> /\ pc' = "stopped"
        /\ clients' = << >>
    BY <1>2, <1>20 DEF server_shutdown, env
  <2>2. Fresh
    BY <1>5, <1>6, <1>20, <2>1, ShutdownStep
  <2> QED
    BY <1>1, <1>5, <2>1, <2>2
<1>21. CASE Environment
  <2>0. pc \notin {"process", "exec"}
    BY <1>21 DEF Environment
  <2>1. ASSUME NEW c \in Conns, Connect(c)
        PROVE  Places /\ Pass /\ Fresh
    <3>1. /\ UNCHANGED <<clients, client, pc, caller, todo>> /\ peer[c] = "new"
          /\ peer' = [peer EXCEPT ![c] = "open"]
          /\ peer \in [Conns -> {"new", "open", "half", "gone"}]
      BY <2>1, Zenon DEF Connect, loop, Structure, Typed
    <3>2. Fresh
      BY <1>3, <2>1, <3>1, ConnectLists, ZenonT(40) DEF Fresh
    <3> QED
      BY <1>1, <1>2, <2>0, <2>1, <3>1, <3>2, ConnectLists, Zenon
  <2>2. ASSUME NEW c \in Conns, Send(c) \/ Receive(c)
        PROVE  Places /\ Pass /\ Fresh
    BY <1>1, <1>2, <1>7, <2>0, <2>2, Zenon DEF Send, Receive, loop
  <2>3. ASSUME NEW c \in Conns, Leave(c)
        PROVE  Places /\ Pass /\ Fresh
    <3>1. /\ UNCHANGED <<clients, backlog, client, pc, caller, todo>>
          /\ peer \in [Conns -> {"new", "open", "half", "gone"}]
          /\ peer' = [peer EXCEPT ![c] = "half"] \/ peer' = [peer EXCEPT ![c] = "gone"]
      BY <2>3, Zenon DEF Leave, loop, Structure, Typed
    <3>2. Fresh
      BY <1>3, <3>1 DEF Fresh
    <3> QED
      BY <1>1, <1>2, <2>0, <3>1, <3>2, Zenon
  <2>4. CASE Signal
    BY <1>1, <1>2, <1>7, <2>0, <2>4, Zenon DEF Signal, env, loop
  <2>5. CASE Tick
    <3>1. UNCHANGED <<clients, backlog, peer, pc, caller, todo>>
      BY <2>5 DEF Tick, env, loop
    <3>2. \A d \in Conns : /\ client'[d].blocked_req = client[d].blocked_req
                           /\ client[d].blocked_req = 0 => client'[d] = client[d]
      BY <2>0, <2>5, TickStep, Zenon DEF Idles
    <3>3. Fresh
      <4>1. client_init.blocked_req = 0
        BY Zenon DEF client_init
      <4> QED
        BY <1>3, <3>1, <3>2, <4>1, Zenon DEF Fresh
    <3>4. Range(todo) \subseteq Conns
      BY <1>1, RangeElements DEF Elements
    <3> QED
      BY <1>1, <1>2, <2>0, <3>1, <3>2, <3>3, <3>4, Zenon
  <2> QED
    BY <1>21, <2>1, <2>2, <2>3, <2>4, <2>5, Zenon DEF Environment
<1>22. CASE UNCHANGED vars
  BY <1>1, <1>2, <1>7, <1>22, Zenon DEF vars, env, loop, Current
<1> QED
  BY Zenon, <1>8, <1>9, <1>10, <1>11, <1>12, <1>13, <1>14, <1>15, <1>16, <1>17, <1>18, <1>19,
     <1>20, <1>21, <1>22 DEF Next, ServerStep, Terminated

LEMMA StructureStep ==
  ASSUME LeastNumbers, Structure, [Next]_vars
  PROVE  Structure'
<1>1. ASSUME NEW c \in Conns
      PROVE  RequestsOf(c, client'[c]) /\ TxnOf(client'[c])
  <2>1. RequestsOf(c, client[c]) /\ TxnOf(client[c])
    BY DEF Structure, Requests, TxnDiscipline, TxnOf
  <2>2. client'[c] \in Client /\ Moves(c, client[c], client'[c])
    BY Evolution, EvolvesMoves
  <2>3. client[c] \in Client
    BY ClientFacts, Zenon
  <2> QED
    BY <2>1, <2>2, <2>3, RequestsKept, Zenon
<1>2. script' = script
  BY Evolution
<1>3. Requests'
  BY <1>1, <1>2, Zenon DEF Requests, RequestsOf
<1>4. TxnDiscipline'
  BY <1>1, Zenon DEF TxnDiscipline, TxnOf
<1> QED
  BY <1>3, <1>4, TypedStep, VisitsStep DEF Structure

LEMMA StructureInit ==
  ASSUME Init
  PROVE  Structure
<1>1. PICK case \in Cases : script = case.script
  BY DEF Init
<1>2. /\ script \in [Conns -> Seq(Request)]
      /\ \A c \in Conns : \A j \in 1 .. Len(script[c]) : script[c][j].keys # << >>
  BY <1>1, ServerAssumption
<1>3. Scripts
  BY <1>2 DEF Scripts
<1>4. << >> \in Seq(ReplyRecord) /\ << >> \in Seq(Nat) /\ << >> \in Seq(Conns)
      /\ << >> \in Seq(Conns \X Nat) /\ Len(<< >>) = 0
  OBVIOUS
<1>5. client_init \in Client
  BY <1>4, Zenon DEF client_init, Client
<1>6. \A c \in Conns : client[c] = client_init
  BY DEF Init
<1>7. InLen(client_init) = 0 /\ OutLen(client_init) = 0
  <2>1. Size * 0 = 0
    BY ServerAssumption
  <2> QED
    BY <1>4, <2>1 DEF client_init, InLen, OutLen
<1>8. TypeOK
  BY <1>4, <1>5, <1>6, <1>7 DEF Init, TypeOK
<1>9. ASSUME NEW c \in Conns
      PROVE  client[c].got <= sent[c] /\ sent[c] <= Size * Len(script[c])
  <2>1. Len(script[c]) \in Nat /\ Size \in Nat
    BY <1>2, ServerAssumption
  <2>2. Size * Len(script[c]) \in Nat
    BY <2>1
  <2> QED
    BY <1>6, <2>2 DEF Init, client_init
<1>10. Typed
  <2>1. 0 \in 0 .. SocketRoom
    BY ServerAssumption
  <2>2. wire \in [Conns -> 0 .. SocketRoom] /\ sent \in [Conns -> Nat]
    BY <2>1 DEF Init
  <2>3. peer \in [Conns -> {"new", "open", "half", "gone"}]
    BY DEF Init
  <2>4. backlog \in Seq(Conns) /\ caller \in {"read", "service"} /\ eof \in BOOLEAN
    BY <1>4, Zenon DEF Init
  <2> QED
    BY <1>3, <1>8, <1>9, <2>2, <2>3, <2>4 DEF Typed
<1>11. Requests /\ TxnDiscipline
  <2>1. /\ client_init.queue = << >> /\ client_init.blocked_req = 0
        /\ client_init.error = FALSE
    BY Zenon DEF client_init
  <2>2. TXN_MAX_CMDS \in Nat
    BY ServerAssumption, Zenon
  <2>3. \A c \in Conns : RequestsOf(c, client[c])
    BY <1>4, <1>6, <2>1 DEF RequestsOf
  <2>4. TxnDiscipline
    BY <1>4, <1>6, <2>1, <2>2 DEF TxnDiscipline
  <2> QED
    BY <2>3, <2>4 DEF Requests
<1>12. Range(<< >>) = {} /\ Distinct(<< >>)
  BY DEF Range, Distinct
<1>13. Visits
  BY <1>6, <1>12 DEF Visits, Init
<1> QED
  BY <1>10, <1>11, <1>13 DEF Structure

===============================================================================
