------------------------------ MODULE ServerProofs ------------------------------
(***************************************************************************)
(* What the server owes its clients: one reply for each request, the queue *)
(* from EXEC, the rest of the conversation before it closes, and every     *)
(* element they push, once and in order.                                   *)
(***************************************************************************)
EXTENDS ServerElements, ServerHistory, WellFoundedInduction

-------------------------------------------------------------------------------
(* The structure of the state                                              *)

LEMMA LeastNumbersHold == LeastNumbers
<1>1. ASSUME NEW S \in SUBSET Nat, S # {}
      PROVE  \E i \in S : \A h \in S : i <= h
  <2>1. PICK n \in S : \A m \in S : ~(<<m, n>> \in OpToRel(<, Nat))
    BY <1>1, WFMin, NatLessThanWellFounded, Zenon
  <2>2. ASSUME NEW m \in S PROVE n <= m
    <3>1. <<m, n>> \notin {ss \in Nat \X Nat : ss[1] < ss[2]}
      BY <2>1 DEF OpToRel
    <3>2. m \in Nat /\ n \in Nat
      OBVIOUS
    <3> QED
      BY <3>1, <3>2
  <2> QED
    BY <2>2
<1> QED
  BY <1>1, Zenon DEF LeastNumbers

\* Structure, the inductive invariant of the event loop: the state is well typed,
\* a client has consumed no more than it was sent and its queue holds requests it
\* consumed, and every connection is in one place (server_run, accept_clients,
\* remove_closed_clients).
THEOREM StructureHolds == Spec => []Structure
<1>1. Init => Structure
  BY StructureInit
<1>2. Structure /\ [Next]_vars => Structure'
  BY LeastNumbersHold, StructureStep
<1> QED
  BY <1>1, <1>2, PTL DEF Spec

\* The server's state is well typed: whatever the peers send and however they
\* leave, no buffer of a client ever gives out more than it holds.
THEOREM ServerTyped == Spec => []TypeOK
<1>1. Structure => TypeOK
  BY DEF Structure, Typed
<1> QED
  BY <1>1, StructureHolds, PTL

\* A parked client is in no transaction, a poisoned transaction is open, and
\* the MULTI queue stays within TXN_MAX_CMDS (command_process, exec_transaction,
\* service_blocked).
THEOREM TransactionsKeepDiscipline == Spec => []TxnDiscipline
<1>1. Structure => TxnDiscipline
  BY DEF Structure
<1> QED
  BY <1>1, StructureHolds, PTL

-------------------------------------------------------------------------------
(* One reply each, and EXEC                                                *)

\* The replies of every connection tell its story, and those of a client answer
\* what it sent.
History ==
  /\ \A c \in Conns : LogOf(c, client[c], Executing(c))
  /\ \A c \in Range(clients) : Answers(c, client[c]) /\ Ended(c, client[c])

\* A client is removed, or it takes one of the steps the history knows.
LEMMA EvolvesSteps ==
  ASSUME NEW c \in Conns, Evolves(c), NEW e \in BOOLEAN, NEW f \in BOOLEAN,
         e <=> Executing(c), f <=> Executing(c)'
  PROVE  \/ Steps(c, client[c], client'[c], e, f)
         \/ ~e /\ ~f /\ Frees(client[c], client'[c]) /\ c \notin Range(clients)'
BY Zenon DEF Evolves, Steps

\* A connection that becomes a client has said nothing yet.
LEMMA Joins ==
  ASSUME LeastNumbers, Structure, [Next]_vars, NEW c \in Range(clients')
  PROVE  \/ c \in Range(clients)
         \/ c \in Conns /\ client[c] = client_init /\ client'[c] = client_init
<1>1. CASE Accept
  <2>1. c \in Range(clients) \cup Range(backlog)
    BY <1>1, AcceptLists
  <2>2. Range(backlog) \subseteq Conns
    BY DEF Structure, Typed, Range
  <2> QED
    BY <1>1, <2>1, <2>2, Zenon DEF Accept, Structure, Visits
<1>2. CASE Flush
  BY <1>2, FlushStep
<1>3. CASE server_shutdown
  <2>1. Range(clients') = {}
    BY <1>3 DEF server_shutdown, Range
  <2> QED
    BY <2>1
<1>4. CASE clients' = clients
  BY <1>4
<1>5. Accept \/ Flush \/ server_shutdown \/ clients' = clients
  BY Zenon DEF Next, vars, ServerStep, Environment, Terminated, Top, Poll, PollFails, Read, ReadFails,
         Service, ProcessRequest, ExecCommand, ExecDone, ProcessReturn, Connect, Send, Receive,
         Leave, Signal, Tick
<1> QED
  BY <1>1, <1>2, <1>3, <1>4, <1>5

LEMMA HistoryInit ==
  ASSUME Init
  PROVE  History
<1>1. \A c \in Conns : client[c] = client_init /\ ~Executing(c)
  BY DEF Init, Executing
<1>2. client_init.replies = << >> /\ ~client_init.active /\ Len(<< >>) = 0
  BY DEF client_init
<1>3. ASSUME NEW c \in Conns PROVE LogOf(c, client[c], Executing(c))
  <2>1. LogOf(c, client_init, FALSE)
    BY <1>2 DEF LogOf, Heads, Arrays
  <2>2. Executing(c) = FALSE
    BY <1>1 DEF Executing
  <2> QED
    BY <1>1, <2>1, <2>2, Zenon
<1>4. Range(clients) = {}
  BY DEF Init, Range
<1> QED
  BY <1>3, <1>4 DEF History

\* The history refers to the script alone.
LEMMA LogPrimed ==
  ASSUME NEW c, NEW cl, NEW e, script' = script, LogOf(c, cl, e)
  PROVE  LogOf(c, cl, e)'
<1>1. \A r : Multi(c, r)' <=> Multi(c, r)
  BY DEF Multi
<1>2. \A rs, m, h : OpensAt(c, rs, m, h)' <=> OpensAt(c, rs, m, h)
  BY <1>1 DEF OpensAt
<1>3. \A rs, m, h : Clean(c, rs, m, h)' <=> Clean(c, rs, m, h)
  BY DEF Clean
<1>4. \A rs, queue, error : TxnLog(c, rs, queue, error)' <=> TxnLog(c, rs, queue, error)
  BY <1>2, <1>3 DEF TxnLog
<1>5. \A rs, queue, h : ArrayIn(c, rs, queue, e, h)' <=> ArrayIn(c, rs, queue, e, h)
  BY <1>2, <1>3 DEF ArrayIn
<1>6. \A rs, queue : Arrays(c, rs, queue, e)' <=> Arrays(c, rs, queue, e)
  BY <1>5 DEF Arrays
<1> QED
  BY <1>4, <1>6 DEF LogOf

LEMMA HistoryStep ==
  ASSUME LeastNumbers, Structure, Structure', History, [Next]_vars
  PROVE  History'
<1>1. /\ client' \in [Conns -> Client] /\ db \in Contents /\ Scripts /\ script' = script
      /\ \A d \in Conns : /\ Evolves(d)
                          /\ client[d].close_after_reply => client'[d].close_after_reply
  BY Evolution, Zenon DEF Structure, Typed, TypeOK, Contents
<1>2. ASSUME NEW c \in Conns
      PROVE  LogOf(c, client[c], Executing(c))'
  <2>1. PICK e \in BOOLEAN : e = Executing(c)
    BY Zenon DEF Executing
  <2>2. PICK f \in BOOLEAN : f = Executing(c)'
    BY Zenon DEF Executing
  <2>3. PICK new \in Client : new = client'[c]
    BY <1>1
  <2>4. /\ client[c] \in Client /\ RequestsOf(c, client[c])
        /\ client[c].pos <= Len(script[c]) /\ TxnOf(client[c])
    BY ClientFacts, PosInScript, Zenon DEF Structure, Requests, TxnDiscipline, TxnOf
  <2>5. LogOf(c, client[c], e)
    BY <2>1 DEF History
  <2>6. \/ Steps(c, client[c], new, e, f)
        \/ ~e /\ ~f /\ Frees(client[c], new)
    BY <1>1, <2>1, <2>2, <2>3, EvolvesSteps, Zenon
  <2>7. LogOf(c, new, f)
    BY <1>1, <2>4, <2>5, <2>6, LogKept, Zenon
  <2>8. LogOf(c, new, f)'
    BY <1>1, <2>7, LogPrimed
  <2> QED
    BY <2>2, <2>3, <2>8
<1>3. ASSUME NEW c \in Range(clients')
      PROVE  (Answers(c, client[c]) /\ Ended(c, client[c]))'
  <2>1. PICK new : new = client'[c]
    OBVIOUS
  <2>2. c \in Conns
    BY DEF Structure, Typed, TypeOK, Range
  <2>3. Answers(c, new) /\ Ended(c, new)
    <3>1. CASE c \in Range(clients)
      <4>1. PICK e \in BOOLEAN : e = Executing(c)
        BY Zenon DEF Executing
      <4>2. PICK f \in BOOLEAN : f = Executing(c)'
        BY Zenon DEF Executing
      <4>3. /\ client[c] \in Client /\ RequestsOf(c, client[c]) /\ new \in Client
            /\ client[c].pos <= Len(script[c])
        BY <1>1, <2>1, <2>2, ClientFacts, PosInScript, Zenon DEF Structure, Requests
      <4>4. Steps(c, client[c], new, e, f)
        BY <1>1, <2>1, <2>2, <4>1, <4>2, EvolvesSteps
      <4>5. LogOf(c, client[c], e)
        BY <2>2, <4>1 DEF History
      <4>6. /\ Heads(client[c].replies, IF e THEN Len(client[c].queue) ELSE 0)
            /\ e => Busy(client[c].replies, Len(client[c].queue))
        BY <4>5 DEF LogOf
      <4>7. Answers(c, client[c]) /\ Ended(c, client[c])
        BY <3>1 DEF History
      <4>8. client[c].close_after_reply => new.close_after_reply
        BY <1>1, <2>1, <2>2
      <4> QED
        BY <1>1, <2>2, <4>3, <4>4, <4>6, <4>7, <4>8, AnswersKept, Zenon
    <3>2. CASE client'[c] = client_init
      <4>1. new.replies = << >> /\ new.pos = 0 /\ new.blocked_req = 0 /\ Len(<< >>) = 0
        BY <2>1, <3>2 DEF client_init
      <4> QED
        BY <4>1 DEF Answers, Ended, Due, Told, Own, Answered, InOrder
    <3> QED
      BY <3>1, <3>2, Joins
  <2>4. (Answers(c, new) /\ Ended(c, new))'
    BY <1>1, <2>3, Zenon DEF Answers, Due, Ended
  <2> QED
    BY <2>1, <2>4
<1> QED
  BY <1>2, <1>3 DEF History

\* History: the replies of every client answer what it sent, each request once and
\* in order, and the array of every EXEC holds what was queued since its MULTI; the
\* one EXEC that is running has answered all but what is still in the queue.
THEOREM HistoryHolds == Spec => []History
<1>1. Init => History
  BY HistoryInit
<1>2. Structure /\ Structure' /\ History /\ [Next]_vars => History'
  BY LeastNumbersHold, HistoryStep
<1> QED
  BY <1>1, <1>2, StructureHolds, PTL DEF Spec

\* Every request a client sent is answered once and in order, whether it is run,
\* queued, refused, retried by service_blocked or a protocol error: blank lines
\* and the request that is parked are the only ones without a reply.
THEOREM EveryRequestAnsweredOnce == Spec => []OneReplyEach
<1>1. History => OneReplyEach
  BY Zenon DEF History, Answers, Answered, InOrder, Due, Told, OneReplyEach
<1> QED
  BY <1>1, HistoryHolds, PTL

\* The array EXEC answers with holds the replies of exactly the requests that were
\* queued since MULTI, in order, and there is none for a poisoned transaction
\* (exec_transaction).
THEOREM ExecRunsItsQueue == Spec => []ExecAnswersQueue
<1>1. ASSUME History, NEW c \in Conns, NEW h \in 1 .. Len(client[c].replies),
             client[c].replies[h].kind = "array"
      PROVE  ArrayIn(c, client[c].replies, client[c].queue, Executing(c), h)
  BY <1>1, Zenon DEF History, LogOf, Arrays
<1>2. \A c, m, h : OpensAt(c, client[c].replies, m, h) => Opens(c, m, h)
  BY Zenon DEF OpensAt, Opens, Multi
<1>3. History => ExecAnswersQueue
  <2> SUFFICES ASSUME History, NEW c \in Conns, NEW h \in 1 .. Len(client[c].replies),
                      client[c].replies[h].kind = "array"
               PROVE  LET rs     == client[c].replies
                          end    == h + rs[h].n
                          inside == (h + 1 .. end) \cap (1 .. Len(rs))
                          left   == IF end > Len(rs) THEN Range(client[c].queue) ELSE {}
                      IN  /\ end > Len(rs) => /\ pc = "exec" /\ c = Current
                                              /\ end = Len(rs) + Len(client[c].queue)
                          /\ \A p, q \in inside : p < q => rs[p].req < rs[q].req
                          /\ \E m \in 1 .. h :
                               /\ Opens(c, m, h)
                               /\ {rs[p].req : p \in {p \in m .. h : rs[p].kind = "queued"}}
                                    = {rs[p].req : p \in inside} \cup left
                               /\ \A p \in m .. h : rs[p].kind = "error" =>
                                                      script[c][rs[p].req].op = "multi"
    BY Zenon DEF ExecAnswersQueue
  <2> QED
    BY <1>1, <1>2, Zenon DEF ArrayIn, Inside, QueuedIn, ReqsAt, Clean, Executing
<1> QED
  BY <1>3, HistoryHolds, PTL

-------------------------------------------------------------------------------
(* Answer, then close                                                      *)

\* All that the peer sent is answered, or its input was refused as a whole.
Settled(c, cl) ==
  \/ peer[c] \in {"half", "gone"} /\ sent[c] < Size * (cl.pos + 1)
  \/ \E p \in 1 .. Len(cl.replies) : cl.replies[p].kind \in {"protocol", "limit"}

\* A client is closed when its peer is gone, or at the end of its input with
\* nothing to write or while it is parked; and no more is read from a client only
\* when there is nothing left to answer.
ClosingOf(c, cl) ==
  /\ cl.closed => \/ peer[c] = "gone"
                  \/ cl.close_after_reply /\ (cl.blocked_req # 0 \/ OutLen(cl) = 0)
  /\ cl.close_after_reply /\ (cl.blocked_req = 0 \/ ~cl.closed) => Settled(c, cl)

\* A closed client is not visited any more, and is removed at the end of the turn.
Closing ==
  /\ \A c \in Range(clients) : ClosingOf(c, client[c])
  /\ \A c \in Range(todo) : ~client[c].closed
  /\ pc \in {"top", "poll"} => \A c \in Range(clients) : ~client[c].closed
  /\ pc \notin {"process", "exec"} => ~eof
  /\ eof => peer[Current] \in {"half", "gone"} /\ client[Current].got = sent[Current]

\* What has been said stays said.
LEMMA RepliesKept ==
  ASSUME NEW c, NEW cl \in Client, NEW new \in Client, Moves(c, cl, new),
         NEW p \in 1 .. Len(cl.replies)
  PROVE  p \in 1 .. Len(new.replies) /\ new.replies[p] = cl.replies[p]
<1>1. ASSUME NEW x \in Client, NEW y \in Client, NEW q \in 1 .. Len(x.replies),
             y.replies = x.replies \/ \E r : Says(x, y, r)
      PROVE  q \in 1 .. Len(y.replies) /\ y.replies[q] = x.replies[q]
  <2>1. CASE y.replies = x.replies
    BY <2>1
  <2>2. ASSUME NEW r, Says(x, y, r)
        PROVE  q \in 1 .. Len(y.replies) /\ y.replies[q] = x.replies[q]
    <3>1. Adds(x.replies, y.replies, r)
      BY <2>2, SaysAdds
    <3> QED
      BY <3>1 DEF Adds
  <2> QED
    BY <1>1, <2>1, <2>2
<1>2. CASE Turns(c, cl, new)
  <2>1. PICK mid \in Client : Protests(c, cl, mid) /\ Limits(mid, new)
    BY <1>2 DEF Turns
  <2>2. p \in 1 .. Len(mid.replies) /\ mid.replies[p] = cl.replies[p]
    BY <1>1, <2>1 DEF Protests, Idles
  <2>3. new.replies = mid.replies \/ \E r : Says(mid, new, r)
    BY <2>1, Zenon DEF Limits, Idles
  <2> QED
    BY <1>1, <2>2, <2>3
<1>3. CASE ~Turns(c, cl, new)
  <2>1. new.replies = cl.replies \/ \E r : Says(cl, new, r)
    BY <1>3, Zenon DEF Moves, Idles, Frees, Responds, Skips, Refuses, Opened, Resets, Queues, Runs, Parks,
                Wakes, Begins, Executes, Finishes
  <2> QED
    BY <1>1, <2>1, Zenon
<1> QED
  BY <1>2, <1>3

LEMMA SettledKept ==
  ASSUME NEW c, NEW cl \in Client, NEW new \in Client, Moves(c, cl, new), new.pos = cl.pos,
         Settled(c, cl)
  PROVE  Settled(c, new)
<1>1. CASE peer[c] \in {"half", "gone"} /\ sent[c] < Size * (cl.pos + 1)
  BY <1>1, Zenon DEF Settled
<1>2. ASSUME NEW p \in 1 .. Len(cl.replies), cl.replies[p].kind \in {"protocol", "limit"}
      PROVE  Settled(c, new)
  BY <1>2, RepliesKept, Zenon DEF Settled
<1> QED
  BY <1>1, <1>2, Zenon DEF Settled

\* A handler that leaves the flags alone, on a client that is not closed.
LEMMA FramedCloses ==
  ASSUME Structure, NEW c \in Conns, ClosingOf(c, client[c]), ~client[c].closed, Evolves(c),
         client'[c] \in Client, Framed(client[c], client'[c]),
         client'[c].pos = client[c].pos \/ ~client[c].close_after_reply
  PROVE  ClosingOf(c, client'[c]) /\ ~client'[c].closed
<1>1. /\ client'[c].closed = client[c].closed
      /\ client'[c].close_after_reply = client[c].close_after_reply
  BY Zenon DEF Framed
<1>2. ASSUME client[c].close_after_reply PROVE Settled(c, client'[c])
  <2>1. Settled(c, client[c]) /\ client'[c].pos = client[c].pos
    BY <1>2, Zenon DEF ClosingOf
  <2> QED
    BY <2>1, ClientFacts, EvolvesMoves, SettledKept, Zenon
<1> QED
  BY <1>1, <1>2, Zenon DEF ClosingOf

LEMMA SaysSettles ==
  ASSUME NEW c, NEW cl \in Client, NEW new \in Client, NEW r, Says(cl, new, r),
         r.kind \in {"protocol", "limit"}
  PROVE  Settled(c, new)
<1>1. Adds(cl.replies, new.replies, r)
  BY SaysAdds
<1>2. Len(new.replies) \in 1 .. Len(new.replies) /\ new.replies[Len(new.replies)] = r
  BY <1>1 DEF Adds
<1> QED
  BY <1>2, Zenon DEF Settled

\* process_input stops reading from a client only with a reply that says why.
LEMMA ProtocolCloses ==
  ASSUME Structure, NEW c \in Conns, NEW new, new = ProtocolError(client[c], c),
         client[c].close_after_reply => Settled(c, client[c])
  PROVE  /\ new \in Client /\ new.closed = client[c].closed /\ new.got = client[c].got
         /\ new.pos = client[c].pos /\ new.blocked_req = client[c].blocked_req
         /\ new.close_after_reply => Settled(c, new)
         /\ ~new.close_after_reply =>
              /\ ~client[c].close_after_reply
              /\ ~(Looping(client[c]) /\ resp_parse_command(client[c], c) = "error")
<1> DEFINE cl == client[c]
           r == Reply(cl.pos + 1, "protocol")
           s == Say(cl, r)
<1>1. cl \in Client /\ new \in Client /\ new.got = cl.got /\ Protests(c, cl, new)
  BY ClientFacts, ProtocolErrorTyped, Zenon
<1>2. CASE ~(Looping(cl) /\ resp_parse_command(cl, c) = "error")
  <2>1. new = cl
    BY <1>2, Zenon DEF ProtocolError
  <2> QED
    BY <1>1, <1>2, <2>1, Zenon
<1>3. CASE Looping(cl) /\ resp_parse_command(cl, c) = "error"
  <2>1. cl.pos + 1 \in Nat /\ r.kind = "protocol"
    BY ClientFacts DEF Reply
  <2>2. r \in ReplyRecord
    BY <2>1, ReplyTyped DEF Kinds
  <2>3. /\ s \in Client /\ Framed(cl, s) /\ Says(cl, s, r)
        /\ s.pos = cl.pos /\ s.blocked_req = cl.blocked_req
    BY <1>1, <2>2, SayTyped, Zenon
  <2>4. new = [s EXCEPT !.close_after_reply = TRUE]
    BY <1>3 DEF ProtocolError
  <2> HIDE DEF s, r
  <2>5. /\ new.replies = s.replies /\ new.pos = s.pos /\ new.closed = s.closed
        /\ new.blocked_req = s.blocked_req /\ new.close_after_reply
    BY <2>3, <2>4, Zenon DEF Client
  <2>6. Settled(c, new)
    BY <1>1, <2>1, <2>3, <2>5, SaysSettles, Zenon DEF Says
  <2> QED
    BY <1>1, <2>3, <2>5, <2>6, Zenon DEF Framed
<1> QED
  BY <1>2, <1>3, Zenon

LEMMA LimitCloses ==
  ASSUME NEW c, NEW cl \in Client, NEW new, new = QueryLimit(cl),
         cl.close_after_reply => Settled(c, cl)
  PROVE  /\ new \in Client /\ new.closed = cl.closed /\ new.got = cl.got
         /\ new.pos = cl.pos /\ new.blocked_req = cl.blocked_req
         /\ new.close_after_reply => Settled(c, new)
         /\ cl.close_after_reply => new.close_after_reply
<1> DEFINE r == Reply(0, "limit")
           s == Say(cl, r)
<1>1. new \in Client /\ new.got = cl.got /\ (cl.close_after_reply => new.close_after_reply)
  BY QueryLimitTyped, Zenon
<1>2. CASE ~(InLen(cl) > MaxQuery)
  BY <1>1, <1>2 DEF QueryLimit
<1>3. CASE InLen(cl) > MaxQuery
  <2>1. r \in ReplyRecord /\ r.kind = "limit"
    BY ReplyTyped, Zenon DEF Kinds, Reply
  <2>2. /\ s \in Client /\ Framed(cl, s) /\ Says(cl, s, r)
        /\ s.pos = cl.pos /\ s.blocked_req = cl.blocked_req
    BY <2>1, SayTyped, Zenon
  <2>3. new = [s EXCEPT !.close_after_reply = TRUE]
    BY <1>3 DEF QueryLimit
  <2> HIDE DEF s, r
  <2>4. /\ new.replies = s.replies /\ new.pos = s.pos /\ new.closed = s.closed
        /\ new.blocked_req = s.blocked_req /\ new.close_after_reply
    BY <2>2, <2>3, Zenon DEF Client
  <2>5. Settled(c, new)
    BY <1>1, <2>1, <2>2, <2>4, SaysSettles, Zenon DEF Says
  <2> QED
    BY <1>1, <2>2, <2>4, <2>5, Zenon DEF Framed
<1> QED
  BY <1>2, <1>3, Zenon

\* The end of process_input, and of read_from_client.
LEMMA ReturnCloses ==
  ASSUME Structure, Closing, ProcessReturn
  PROVE  ClosingOf(Current, client'[Current])
<1>0. PICK c \in Conns : c = Current
  BY CurrentFacts, Zenon DEF ProcessReturn, Structure, Visits
<1> DEFINE cl == client[c]
<1>1. PICK mid : mid = ProtocolError(cl, c)
  OBVIOUS
<1>2. PICK end : end = QueryLimit(mid)
  OBVIOUS
<1>3. PICK new : new = client'[c]
  OBVIOUS
<1>4. /\ ~cl.closed /\ ClosingOf(c, cl)
      /\ cl.got \in Nat /\ cl.pos \in Nat /\ Size \in Nat \ {0} /\ sent[c] \in Nat
      /\ client \in [Conns -> Client] /\ eof \in BOOLEAN
  BY <1>0, ClientFacts, CurrentFacts, Zenon DEF ProcessReturn, Structure, Typed, TypeOK, Visits, Closing
<1>5. new = IF eof THEN AtEof(end) ELSE end
  BY <1>0, <1>1, <1>2, <1>3, <1>4, Zenon DEF ProcessReturn, Set
<1>6. /\ mid \in Client /\ mid.closed = cl.closed /\ mid.got = cl.got
      /\ mid.pos = cl.pos /\ mid.blocked_req = cl.blocked_req
      /\ mid.close_after_reply => Settled(c, mid)
      /\ ~mid.close_after_reply =>
           /\ ~cl.close_after_reply
           /\ ~(Looping(cl) /\ resp_parse_command(cl, c) = "error")
  <2>1. cl.close_after_reply => Settled(c, cl)
    BY <1>4, Zenon DEF ClosingOf
  <2> QED
    BY <1>1, <2>1, ProtocolCloses, Zenon
<1>7. /\ end \in Client /\ end.closed = cl.closed /\ end.got = cl.got
      /\ end.pos = cl.pos /\ end.blocked_req = cl.blocked_req
      /\ end.close_after_reply => Settled(c, end)
      /\ mid.close_after_reply => end.close_after_reply
  BY <1>2, <1>6, LimitCloses
<1>8. CASE ~eof
  BY <1>0, <1>3, <1>4, <1>5, <1>7, <1>8, Zenon DEF ClosingOf
<1>9. CASE eof
  <2>1. /\ new.replies = end.replies /\ new.flushed = end.flushed /\ new.pos = cl.pos
        /\ new.blocked_req = end.blocked_req /\ new.close_after_reply
        /\ new.closed = (end.closed \/ end.blocked_req # 0 \/ OutLen(end) = 0)
    BY <1>5, <1>7, <1>9, Zenon DEF AtEof, Client
  <2>2. new.closed => new.blocked_req # 0 \/ OutLen(new) = 0
    BY <1>4, <1>7, <2>1, Zenon DEF OutLen
  <2>3. ASSUME new.blocked_req = 0 PROVE Settled(c, new)
    <3>1. CASE end.close_after_reply
      BY <1>7, <2>1, <3>1, Zenon DEF Settled
    <3>2. CASE ~end.close_after_reply
      <4>1. /\ ~cl.close_after_reply /\ cl.blocked_req = 0
            /\ ~(Looping(cl) /\ resp_parse_command(cl, c) = "error")
        BY <1>6, <1>7, <2>1, <2>3, <3>2, Zenon
      <4>2. Looping(cl) => resp_parse_command(cl, c) = "incomplete"
        BY <1>0, <4>1, Zenon DEF ProcessReturn, resp_parse_command
      <4>3. Size * cl.pos \in Nat /\ Size * (cl.pos + 1) = Size * cl.pos + Size
        BY <1>4
      <4>4. InLen(cl) < Size
        <5>1. CASE Looping(cl)
          BY <4>2, <5>1, Zenon DEF resp_parse_command
        <5>2. CASE ~(InLen(cl) > 0)
          BY <1>4, <4>3, <5>2 DEF InLen
        <5> QED
          BY <4>1, <5>1, <5>2, Zenon DEF Looping
      <4>5. peer[c] \in {"half", "gone"} /\ cl.got = sent[c]
        BY <1>0, <1>9, Zenon DEF Closing
      <4>6. sent[c] < Size * (new.pos + 1)
        BY <1>4, <2>1, <4>3, <4>4, <4>5 DEF InLen
      <4> QED
        BY <4>5, <4>6, Zenon DEF Settled
    <3> QED
      BY <3>1, <3>2, Zenon
  <2>4. ~new.closed => new.blocked_req = 0
    BY <2>1, Zenon
  <2> QED
    BY <1>0, <1>3, <2>1, <2>2, <2>3, <2>4, Zenon DEF ClosingOf
<1> QED
  BY <1>4, <1>8, <1>9, Zenon

\* A client that stays after the flush is not closed; one that goes while its peer
\* is there and not parked has been told everything.
LEMMA FlushCloses ==
  ASSUME LeastNumbers, Structure, Closing, Flush, NEW c \in Range(clients)
  PROVE  /\ c \in Range(clients') => ~client'[c].closed /\ ClosingOf(c, client'[c])
         /\ (c \notin Range(clients') /\ peer[c] # "gone" /\ client[c].blocked_req = 0)
              => OutLen(client'[c]) = 0 /\ Settled(c, client'[c])
<1>0. c \in Conns /\ clients \in Seq(Conns) /\ ClosingOf(c, client[c])
  <2>1. c \in Conns /\ clients \in Seq(Conns)
    BY DEF Structure, Typed, TypeOK, Range
  <2> QED
    BY <2>1, Zenon DEF Closing
<1>1. PICK failed \in SUBSET {d \in Range(clients) : peer[d] = "gone"} :
        remove_closed_clients([d \in Conns |-> IF d \in Range(clients)
                                                THEN write_to_client(d, d \in failed)
                                                ELSE client[d]])
  BY Zenon DEF Flush
<1> DEFINE cl == client[c]
<1>2. PICK w : w = write_to_client(c, c \in failed)
  OBVIOUS
<1>3. /\ client'[c] = IF w.closed THEN client_free(w) ELSE w
      /\ c \in Range(clients') <=> ~w.closed
  <2> DEFINE new == [d \in Conns |-> IF d \in Range(clients)
                                      THEN write_to_client(d, d \in failed)
                                      ELSE client[d]]
             open == {d \in Conns : ~new[d].closed}
  <2>1. /\ clients' = Keep(clients, open)
        /\ client'[c] = IF c \in Range(clients) /\ new[c].closed THEN client_free(new[c]) ELSE new[c]
    BY <1>0, <1>1, Zenon DEF remove_closed_clients
  <2>2. new[c] = w /\ (c \in open <=> ~new[c].closed)
    BY <1>0, <1>2, Zenon
  <2> HIDE DEF new, open
  <2>3. Range(clients') = Range(clients) \cap open
    BY <1>0, <2>1, KeepRange, Zenon
  <2> QED
    BY <2>1, <2>2, <2>3, Zenon
<1>4. /\ w \in Client /\ Idles(cl, w) /\ w.close_after_reply = cl.close_after_reply
      /\ cl \in Client /\ cl.closed \in BOOLEAN /\ w.closed \in BOOLEAN
  <2>1. (c \in failed) \in BOOLEAN
    OBVIOUS
  <2>2. w \in Client /\ Idles(cl, w) /\ w.close_after_reply = cl.close_after_reply
    BY <1>0, <1>2, <2>1, WriteTyped, Zenon
  <2> QED
    BY <1>0, <2>2, ClientFacts, Zenon DEF Client
<1>5. w.closed => \/ peer[c] = "gone"
                 \/ /\ cl.close_after_reply
                    /\ cl.blocked_req # 0 \/ OutLen(w) = 0
  <2> DEFINE s == [cl EXCEPT !.flushed = @ + Written(c)]
  <2>1. CASE cl.closed \/ OutLen(cl) = 0
    <3>1. w = cl
      BY <1>2, <2>1 DEF write_to_client
    <3> QED
      BY <1>0, <3>1, Zenon DEF ClosingOf
  <2>2. CASE c \in failed
    BY <2>2
  <2>3. CASE ~cl.closed /\ OutLen(cl) # 0 /\ ~(c \in failed)
    <3>1. w = [s EXCEPT !.closed = cl.close_after_reply /\ OutLen(s) = 0]
      BY <1>2, <2>3 DEF write_to_client
    <3>2. w.replies = s.replies /\ w.flushed = s.flushed
          /\ w.closed = (cl.close_after_reply /\ OutLen(s) = 0)
      BY <1>4, <3>1 DEF Client
    <3> HIDE DEF s
    <3> QED
      BY <3>2, Zenon DEF OutLen
  <2> QED
    BY <1>4, <2>1, <2>2, <2>3, Zenon
<1>6. ASSUME cl.close_after_reply, cl.blocked_req = 0 \/ ~cl.closed PROVE Settled(c, w)
  BY <1>0, <1>4, <1>6, Zenon DEF ClosingOf, Settled, Idles
<1>7. CASE ~w.closed
  <2>1. client'[c] = w /\ c \in Range(clients')
    BY <1>3, <1>7
  <2>2. ~cl.closed
    BY <1>2, <1>7 DEF write_to_client
  <2> QED
    BY <1>4, <1>6, <1>7, <2>1, <2>2, Zenon DEF ClosingOf
<1>8. CASE w.closed
  <2>1. client'[c] = client_free(w) /\ c \notin Range(clients')
    BY <1>3, <1>8
  <2>2. Frees(w, client'[c]) /\ Framed(w, client'[c])
    BY <1>4, <2>1, FreeTyped, Zenon
  <2>3. OutLen(client'[c]) = OutLen(w) /\ (Settled(c, w) => Settled(c, client'[c]))
    BY <2>2, Zenon DEF Frees, Framed, OutLen, Settled
  <2> QED
    BY <1>5, <1>6, <1>8, <2>1, <2>3, Zenon
<1> QED
  BY <1>4, <1>7, <1>8, Zenon

\* What a step may do to a peer: one that has finished sending sends no more.
PeerMoves(c) ==
  /\ peer[c] \in {"half", "gone"} => peer'[c] \in {"half", "gone"} /\ sent'[c] = sent[c]
  /\ peer[c] = "gone" => peer'[c] = "gone"

LEMMA PeerStep ==
  ASSUME Structure, [Next]_vars, NEW c \in Conns
  PROVE  PeerMoves(c)
<1>1. /\ peer \in [Conns -> {"new", "open", "half", "gone"}] /\ sent \in [Conns -> Nat]
  BY Zenon DEF Structure, Typed
<1>2. CASE peer' = peer /\ sent' = sent
  BY <1>2 DEF PeerMoves
<1>3. ASSUME NEW d \in Conns, Connect(d) \/ Send(d) \/ Leave(d) PROVE PeerMoves(c)
  BY <1>1, <1>3, Zenon DEF Connect, Send, Leave, PeerMoves
<1>4. \/ peer' = peer /\ sent' = sent
      \/ \E d \in Conns : Connect(d) \/ Send(d) \/ Leave(d)
  BY Zenon DEF Next, vars, env, ServerStep, Environment, Terminated, Top, Poll, PollFails, Read,
         ReadFails, Accept, Service, ProcessRequest, ExecCommand, ExecDone, ProcessReturn,
         Flush, server_shutdown, Receive, Signal, Tick
<1> QED
  BY <1>2, <1>3, <1>4, Zenon

LEMMA ClosingPrimed ==
  ASSUME NEW c, NEW cl, PeerMoves(c), ClosingOf(c, cl)
  PROVE  ClosingOf(c, cl)'
<1>1. Settled(c, cl) => Settled(c, cl)'
  BY Zenon DEF Settled, PeerMoves
<1> QED
  BY <1>1, Zenon DEF ClosingOf, PeerMoves, OutLen

\* What a step does to a client that stays one.
LEMMA ClientCloses ==
  ASSUME LeastNumbers, Structure, Closing, [Next]_vars, NEW c \in Conns, c \in Range(clients),
         c \in Range(clients')
  PROVE  /\ ClosingOf(c, client'[c])
         /\ \/ client'[c].closed = client[c].closed
            \/ c = Current /\ pc \in {"read", "process"} /\ todo' = Tail(todo) /\ todo # << >>
            \/ Flush /\ ~client'[c].closed
<1>1. ClosingOf(c, client[c]) /\ client[c] \in Client
  BY ClientFacts, Zenon DEF Closing
<1>2. CASE client'[c] = client[c]
  BY <1>1, <1>2
<1>3. CASE c = Current /\ (ProcessRequest \/ ExecCommand \/ ExecDone \/ Service)
  <2>1. todo # << >>
    BY <1>3, Zenon DEF ProcessRequest, ExecCommand, ExecDone, Service, Structure, Visits
  <2>2. ~client[c].closed
    BY <1>3, <2>1, CurrentFacts, Zenon DEF Closing
  <2>3. client'[c] \in Client /\ Framed(client[c], client'[c]) /\ Evolves(c)
    BY <1>3, ProcessRequestStep, ExecCommandStep, ExecDoneStep, ServiceStep, Zenon
  <2>4. client'[c].pos = client[c].pos \/ ~client[c].close_after_reply
    <3>1. CASE ProcessRequest
      BY <1>3, <3>1, Zenon DEF ProcessRequest, Looping
    <3>2. CASE ExecCommand \/ ExecDone \/ Service
      BY <1>3, <3>2, ExecCommandStep, ExecDoneStep, ServiceStep, Zenon
    <3> QED
      BY <1>3, <3>1, <3>2, Zenon
  <2> QED
    BY <1>1, <2>2, <2>3, <2>4, FramedCloses, Zenon DEF Framed
<1>4. CASE c = Current /\ ProcessReturn
  BY <1>4, ReturnCloses, Zenon DEF ProcessReturn, Structure, Visits
<1>5. CASE c = Current /\ Read
  BY <1>1, <1>5, ReadStep, Zenon DEF Idles, ClosingOf, Settled, OutLen
<1>6. CASE c = Current /\ ReadFails
  <2>1. /\ peer[c] = "gone" /\ todo # << >> /\ pc = "read" /\ todo' = Tail(todo)
        /\ client' = [client EXCEPT ![c] = [client[c] EXCEPT !.closed = TRUE]]
    BY <1>6 DEF ReadFails, Set
  <2>2. client'[c].closed = TRUE /\ Idles(client[c], client'[c])
        /\ client'[c].close_after_reply = client[c].close_after_reply
    <3>1. client'[c] = [client[c] EXCEPT !.closed = TRUE]
      BY <2>1, Zenon DEF Structure, Typed, TypeOK
    <3> QED
      BY <1>1, <3>1, Zenon DEF Client, Idles, SameTxn
  <2> QED
    BY <1>1, <1>6, <2>1, <2>2, Zenon DEF ClosingOf, Settled, Idles
<1>7. CASE Flush
  BY <1>7, FlushCloses, Zenon
<1>8. CASE Tick /\ pc \notin {"process", "exec"}
  <2>1. Idles(client[c], client'[c]) /\ Framed(client[c], client'[c])
    BY <1>8, TickStep, Zenon
  <2> QED
    BY <1>1, <2>1, Zenon DEF Idles, Framed, ClosingOf, Settled, OutLen
<1>9. ~server_shutdown
  BY DEF server_shutdown, Range
<1>10. \/ client'[c] = client[c]
       \/ c = Current /\ (ProcessRequest \/ ExecCommand \/ ExecDone \/ Service)
       \/ c = Current /\ (ProcessReturn \/ Read \/ ReadFails)
       \/ Flush \/ (Tick /\ pc \notin {"process", "exec"})
  <2>1. CASE ProcessRequest
    BY <2>1, ProcessRequestStep, Zenon
  <2>2. CASE ExecCommand
    BY <2>2, ExecCommandStep, Zenon
  <2>3. CASE ExecDone
    BY <2>3, ExecDoneStep
  <2>4. CASE Service
    BY <2>4, ServiceStep, Zenon
  <2>5. CASE ProcessReturn
    BY <2>5, ProcessReturnStep, Zenon
  <2>6. CASE Read
    BY <2>6, ReadStep, Zenon
  <2>7. CASE ReadFails
    BY <2>7, ReadFailsStep, Zenon
  <2>8. CASE client' = client
    BY <2>8, Zenon
  <2>9. \/ ProcessRequest \/ ExecCommand \/ ExecDone \/ Service \/ ProcessReturn \/ Read
        \/ ReadFails \/ client' = client \/ Flush \/ (Tick /\ pc \notin {"process", "exec"})
    BY <1>9, Zenon DEF Next, vars, ServerStep, Environment, Terminated, Top, Poll, PollFails, Accept,
                Connect, Send, Receive, Leave, Signal
  <2> QED
    BY <2>1, <2>2, <2>3, <2>4, <2>5, <2>6, <2>7, <2>8, <2>9, Zenon
<1> QED
  BY <1>2, <1>3, <1>4, <1>5, <1>6, <1>7, <1>8, <1>10, Zenon

LEMMA ClosingInit ==
  ASSUME Init
  PROVE  Closing
BY DEF Init, Closing, Range

LEMMA ClosingStep ==
  ASSUME LeastNumbers, Structure, Structure', Closing, [Next]_vars
  PROVE  Closing'
<1>1. /\ Range(clients) \subseteq Conns /\ Range(clients') \subseteq Conns
      /\ Range(todo) \subseteq Range(clients) /\ Range(todo') \subseteq Range(clients')
      /\ todo \in Seq(Conns) /\ eof \in BOOLEAN
  <2>1. clients \in Seq(Conns) /\ clients' \in Seq(Conns)
    BY Zenon DEF Structure, Typed, TypeOK
  <2>2. Range(clients) \subseteq Conns
    BY <2>1 DEF Range
  <2>3. Range(clients') \subseteq Conns
    BY <2>1 DEF Range
  <2> QED
    BY <2>2, <2>3, Zenon DEF Structure, Typed, TypeOK, Visits
<1>2. ASSUME NEW c \in Range(clients') PROVE ClosingOf(c, client[c])'
  <2>1. PICK new : new = client'[c]
    OBVIOUS
  <2>2. ClosingOf(c, new)
    <3>1. CASE c \in Range(clients)
      BY <1>1, <2>1, <3>1, ClientCloses, Zenon
    <3>2. CASE client'[c] = client_init
      BY <2>1, <3>2 DEF ClosingOf, client_init
    <3> QED
      BY <3>1, <3>2, Joins, Zenon
  <2>3. ClosingOf(c, new)'
    BY <1>1, <2>2, PeerStep, ClosingPrimed, Zenon
  <2> QED
    BY <2>1, <2>3
<1>3. ASSUME NEW c \in Range(todo'), c \in Range(todo) PROVE ~client'[c].closed
  <2>1. ~client[c].closed /\ c \in Conns /\ c \in Range(clients) /\ c \in Range(clients')
    BY <1>1, <1>3, Zenon DEF Closing
  <2>2. ~(c = Current /\ todo' = Tail(todo) /\ todo # << >>)
    BY <1>3, CurrentFacts, Zenon
  <2> QED
    BY <2>1, <2>2, ClientCloses, Zenon
<1>4. \A c \in Range(todo') : ~client'[c].closed
  <2>1. CASE Poll
    BY <2>1, PollLists, Zenon DEF Poll, Closing
  <2>2. CASE Accept
    BY <2>2, AcceptLists, Zenon DEF Accept
  <2>3. CASE todo' = todo \/ (todo # << >> /\ todo' = Tail(todo))
    BY <1>3, <2>3, CurrentFacts, Zenon
  <2>4. Poll \/ Accept \/ todo' = todo \/ (todo # << >> /\ todo' = Tail(todo))
    BY Zenon DEF Next, vars, loop, ServerStep, Environment, Terminated, Top, PollFails, Read, ReadFails,
           Service, ProcessRequest, ExecCommand, ExecDone, ProcessReturn, Flush, server_shutdown,
           Connect, Send, Receive, Leave, Signal, Tick, Structure, Visits
  <2> QED
    BY <2>1, <2>2, <2>3, <2>4
<1>5. pc' \in {"top", "poll"} => \A c \in Range(clients') : ~client'[c].closed
  <2>1. CASE Flush
    BY <1>1, <2>1, FlushStep, FlushCloses, Zenon
  <2>2. CASE pc \in {"top", "poll"}
    <3> SUFFICES ASSUME NEW c \in Range(clients'), ~Flush PROVE ~client'[c].closed
      BY <2>1, Zenon
    <3>1. CASE c \in Range(clients)
      <4>1. ~client[c].closed
        BY <2>2, <3>1, Zenon DEF Closing
      <4> QED
        BY <1>1, <2>2, <3>1, <4>1, ClientCloses, Zenon
    <3>2. CASE client'[c] = client_init
      BY <3>2 DEF client_init
    <3> QED
      BY <3>1, <3>2, Joins, Zenon
  <2>3. pc' \in {"top", "poll"} => Flush \/ pc \in {"top", "poll"}
    BY Zenon DEF Next, vars, loop, ServerStep, Environment, Terminated, Top, Poll, PollFails, Read,
           ReadFails, Accept, Service, ProcessRequest, ExecCommand, ExecDone, ProcessReturn,
           server_shutdown, Connect, Send, Receive, Leave, Signal, Tick, Structure, Typed
  <2> QED
    BY <2>1, <2>2, <2>3
<1>6. /\ pc' \notin {"process", "exec"} => ~eof'
      /\ eof' => peer'[Current'] \in {"half", "gone"} /\ client'[Current'].got = sent'[Current']
  <2>1. CASE Read
    <3>1. /\ todo' = todo /\ pc' = "process" /\ peer' = peer /\ sent' = sent
          /\ eof' => peer[Current] \in {"half", "gone"}
          /\ Set(Current, [client[Current] EXCEPT !.got = sent[Current]])
          /\ Current \in Conns
      BY <2>1, CurrentFacts DEF Read, env
    <3>2. Current' = Current
      BY <3>1 DEF Current
    <3>3. client \in [Conns -> Client]
      BY Zenon DEF Structure, Typed, TypeOK
    <3>4. client'[Current].got = sent[Current]
      BY <3>1, <3>3 DEF Set, Client
    <3> QED
      BY <3>1, <3>2, <3>4
  <2>2. CASE ProcessRequest \/ ExecCommand \/ ExecDone
    <3>1. /\ todo' = todo /\ pc' \in {"process", "exec"} /\ peer' = peer /\ sent' = sent
          /\ eof' = eof
      BY <2>2, Zenon DEF ProcessRequest, ExecCommand, ExecDone, env, loop
    <3>2. Current' = Current
      BY <3>1 DEF Current
    <3>3. client'[Current].got = client[Current].got
      BY <2>2, ProcessRequestStep, ExecCommandStep, ExecDoneStep, Zenon DEF Framed
    <3> QED
      BY <3>1, <3>2, <3>3, Zenon DEF Closing
  <2>3. CASE ProcessReturn
    BY <2>3, Zenon DEF ProcessReturn
  <2>4. CASE eof' = eof /\ pc \notin {"process", "exec"}
    BY <2>4, Zenon DEF Closing
  <2>5. CASE UNCHANGED vars
    BY <2>5, Zenon DEF Closing, vars, loop, env, Current
  <2>6. \/ Read \/ ProcessRequest \/ ExecCommand \/ ExecDone \/ ProcessReturn \/ UNCHANGED vars
        \/ eof' = eof /\ pc \notin {"process", "exec"}
    BY Zenon DEF Next, loop, ServerStep, Environment, Terminated, Top, Poll, PollFails, ReadFails,
           Accept, Service, Flush, server_shutdown, Connect, Send, Receive, Leave, Signal, Tick
  <2> QED
    BY <2>1, <2>2, <2>3, <2>4, <2>5, <2>6, Zenon
<1> QED
  BY <1>2, <1>4, <1>5, <1>6, Zenon DEF Closing

\* Closing: a client marked to be closed after its replies has been answered all it
\* sent, or its input was refused as a whole, and a client at end of file is so
\* marked when process_client_buffer returns.
THEOREM ClosingHolds == Spec => []Closing
<1>1. Init => Closing
  BY ClosingInit
<1>2. Structure /\ Structure' /\ Closing /\ [Next]_vars => Closing'
  BY LeastNumbersHold, ClosingStep
<1> QED
  BY <1>1, <1>2, StructureHolds, PTL DEF Spec

\* "answer what it sent, then close": a client whose peer has finished sending is
\* removed only when all its complete requests are answered, or its input was
\* refused as a whole, and all the replies are written (read_from_client,
\* write_to_client, remove_closed_clients).
THEOREM AnsweredThenClosed == Spec => DrainBeforeClose
<1>1. ASSUME Structure, Closing, [Next]_vars, NEW c \in Conns, c \in Range(clients),
             c \notin Range(clients'), pc # "exit", peer[c] = "half", client[c].blocked_req = 0
      PROVE  LET cl == client'[c]
             IN  /\ OutLen(cl) = 0
                 /\ \/ sent[c] < Size * (cl.pos + 1)
                    \/ \E p \in 1 .. Len(cl.replies) :
                         cl.replies[p].kind \in {"protocol", "limit"}
  <2>1. CASE Flush
    BY <1>1, <2>1, LeastNumbersHold, FlushCloses, Zenon DEF Settled
  <2>2. CASE Accept
    BY <1>1, <2>2, LeastNumbersHold, AcceptLists, Zenon
  <2>3. CASE server_shutdown
    BY <1>1, <2>3, Zenon DEF server_shutdown
  <2>4. CASE clients' = clients
    BY <1>1, <2>4, Zenon
  <2>5. Flush \/ Accept \/ server_shutdown \/ clients' = clients
    BY <1>1, Zenon DEF Next, vars, ServerStep, Environment, Terminated, Top, Poll, PollFails, Read,
                ReadFails, Service, ProcessRequest, ExecCommand, ExecDone, ProcessReturn,
                Connect, Send, Receive, Leave, Signal, Tick
  <2> QED
    BY <2>1, <2>2, <2>3, <2>4, <2>5, Zenon
<1>2. Structure /\ Closing /\ [Next]_vars =>
        [\A c \in Conns :
           (/\ c \in Range(clients) /\ c \notin Range(clients') /\ pc # "exit"
            /\ peer[c] = "half" /\ client[c].blocked_req = 0)
             => LET cl == client'[c]
                IN  /\ OutLen(cl) = 0
                    /\ \/ sent[c] < Size * (cl.pos + 1)
                       \/ \E p \in 1 .. Len(cl.replies) :
                            cl.replies[p].kind \in {"protocol", "limit"}]_vars
  BY <1>1, Zenon
<1> QED
  BY <1>2, StructureHolds, ClosingHolds, PTL DEF Spec, DrainBeforeClose

-------------------------------------------------------------------------------
(* Where the elements are                                                  *)

\* ElementsKept: the lists and the replies hold every element whose push was
\* answered and no other, no element twice, each list in the order of its pushes
\* and behind what was popped from it (cmd_push, cmd_pop, cmd_bpop).
THEOREM ElementsStay == Spec => []ElementsKept
<1>1. Init => ElementsKept
  BY ElementsInit
<1>2. Structure /\ ElementsKept /\ [Next]_vars => ElementsKept'
  BY LeastNumbersHold, ElementsStep
<1> QED
  BY <1>1, <1>2, StructureHolds, PTL DEF Spec

Sets == INSTANCE FiniteSetTheorems

\* The number of elements is the same operator in the library.
LEMMA SameCardinality == \A S : Sets!Cardinality(S) = Cardinality(S)
BY DEF Sets!Cardinality, Cardinality

\* An element is in one list or in one reply from the moment its push is answered:
\* no retry by service_blocked, timeout, transaction or disconnect loses it or hands
\* it out twice.
THEOREM EveryElementHasOneHome == Spec => []OneHome
<1>1. Cardinality({}) = 0 /\ \A x : Cardinality({x}) = 1
  BY Sets!FS_EmptySet, Sets!FS_Singleton, SameCardinality, Zenon
<1>2. ASSUME Structure, ElementsKept, NEW c \in Conns, NEW j \in 1 .. Len(script[c])
      PROVE  Cardinality(Stored(<<c, j>>)) + Cardinality(Taken(<<c, j>>))
               = IF Pushed(c, j) THEN 1 ELSE 0
  <2>1. <<c, j>> \in Element /\ (Pushed(c, j) <=> Known(Replies, <<c, j>>))
    BY <1>2, ElementOfRequest, Zenon
  <2>2. IF Pushed(c, j)
        THEN \E x : \/ Stored(<<c, j>>) = {x} /\ Taken(<<c, j>>) = {}
                    \/ Stored(<<c, j>>) = {} /\ Taken(<<c, j>>) = {x}
        ELSE Stored(<<c, j>>) = {} /\ Taken(<<c, j>>) = {}
    BY <1>2, <2>1, OnePlace, Zenon DEF ElementsKept
  <2>3. CASE Pushed(c, j)
    <3>1. \/ Cardinality(Stored(<<c, j>>)) = 1 /\ Cardinality(Taken(<<c, j>>)) = 0
          \/ Cardinality(Stored(<<c, j>>)) = 0 /\ Cardinality(Taken(<<c, j>>)) = 1
      BY <1>1, <2>2, <2>3, Zenon
    <3> QED
      BY <2>3, <3>1
  <2>4. CASE ~Pushed(c, j)
    <3>1. Cardinality(Stored(<<c, j>>)) = 0 /\ Cardinality(Taken(<<c, j>>)) = 0
      BY <1>1, <2>2, <2>4, Zenon
    <3> QED
      BY <2>4, <3>1
  <2> QED
    BY <2>3, <2>4
<1>3. ASSUME Structure, ElementsKept
      PROVE  OneHome
  BY <1>2, <1>3, Zenon DEF OneHome
<1> QED
  BY <1>3, StructureHolds, ElementsStay, PTL

\* A list gives its elements out in the order one client pushed them, whoever pops,
\* and parked or not.
THEOREM ElementsLeaveInOrder == Spec => []FirstInFirstOut
<1>1. Structure /\ ElementsKept => FirstInFirstOut
  BY InOrderOfPushes, Zenon DEF ElementsKept
<1> QED
  BY <1>1, StructureHolds, ElementsStay, PTL

===============================================================================
