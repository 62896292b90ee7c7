------------------------------ MODULE ServerMoves ------------------------------
(***************************************************************************)
(* The vocabulary of the proofs about Server: the structure of its states, *)
(* and what one step may do to one client and to the lists.                *)
(***************************************************************************)
EXTENDS Server

\* Every set of numbers that is not empty has a least one.
LeastNumbers == \A S \in SUBSET Nat : S # {} => \E i \in S : \A h \in S : i <= h

-------------------------------------------------------------------------------
(* The list commands                                                       *)

Contents == [Keys -> Seq(Conns \X Nat)]

Scripts ==
  /\ script \in [Conns -> Seq(Request)]
  /\ \A c \in Conns : \A j \in 1 .. Len(script[c]) : script[c][j].keys # << >>

\* A command answered with r takes the head of a list.
Takes(j, d, new, r) ==
  \E k \in Keys : /\ d[k] # << >>
                  /\ new = [d EXCEPT ![k] = Tail(@)]
                  /\ r = [Reply(j, "elem") EXCEPT !.elems = {Head(d[k])}]

Pushes(c, j, d, new, r) ==
  /\ script[c][j].op = "rpush"
  /\ new = [d EXCEPT ![script[c][j].keys[1]] = Append(@, <<c, j>>)]
  /\ r = Reply(j, "int")

\* What a command that is answered with r does to the lists.
Outcome(c, j, d, new, r) ==
  \/ new = d /\ r \in {Reply(j, "error"), Reply(j, "nil")}
  \/ Pushes(c, j, d, new, r)
  \/ Takes(j, d, new, r)

-------------------------------------------------------------------------------
(* The structure of the state                                              *)

Cmds == {"rpush", "lpop", "blpop"}

Typed ==
  /\ TypeOK
  /\ Scripts
  /\ peer \in [Conns -> {"new", "open", "half", "gone"}]
  /\ sent \in [Conns -> Nat]
  /\ wire \in [Conns -> 0 .. SocketRoom]
  /\ backlog \in Seq(Conns)
  /\ caller \in {"read", "service"}
  /\ eof \in BOOLEAN
  /\ \A c \in Conns : client[c].got <= sent[c] /\ sent[c] <= Size * Len(script[c])

\* The requests a client refers to are among those it has consumed: the queue
\* holds commands in the order they came, and a parked request is the last one.
RequestsOf(c, cl) ==
  /\ \A i \in 1 .. Len(cl.queue) : /\ cl.queue[i] \in 1 .. cl.pos
                                  /\ script[c][cl.queue[i]].op \in Cmds
  /\ \A i, k \in 1 .. Len(cl.queue) : i < k => cl.queue[i] < cl.queue[k]
  /\ cl.blocked_req # 0 => /\ cl.blocked_req = cl.pos
                           /\ script[c][cl.pos].op = "blpop"

Requests == \A c \in Conns : RequestsOf(c, client[c])

TxnOf(cl) ==
  /\ cl.blocked_req # 0 => ~cl.active
  /\ cl.error \/ cl.queue # << >> => cl.active
  /\ Len(cl.queue) <= TXN_MAX_CMDS

\* A connection is in one place, and what a pass has yet to visit are clients;
\* those service_blocked has yet to visit are parked.
Visits ==
  /\ Distinct(clients) /\ Distinct(backlog) /\ Distinct(todo)
  /\ Range(clients) \cap Range(backlog) = {}
  /\ Range(todo) \subseteq Range(clients)
  /\ pc \in {"process", "exec"} => todo # << >>
  /\ pc \in {"top", "poll", "exit", "stopped"} => todo = << >>
  /\ pc = "service" => \A c \in Range(todo) : client[c].blocked_req # 0
  /\ (pc \in {"process", "exec"} /\ caller = "service")
       => \A c \in Range(Tail(todo)) : client[c].blocked_req # 0
  /\ \A c \in Conns :
       /\ peer[c] = "new" => c \notin Range(clients) \cup Range(backlog)
       /\ peer[c] = "new" \/ c \in Range(backlog) => client[c] = client_init
  /\ pc = "exec" => client[Current].active /\ ~client[Current].error

Structure == Typed /\ Requests /\ TxnDiscipline /\ Visits

-------------------------------------------------------------------------------
(* What a step may do to a client                                          *)

\* Client c is in the middle of its EXEC.
Executing(c) == pc = "exec" /\ c = Current

SameTxn(cl, new) ==
  new.queue = cl.queue /\ new.active = cl.active /\ new.error = cl.error

NoTxn(new) == new.queue = << >> /\ ~new.active /\ ~new.error

Says(cl, new, r) == r \in ReplyRecord /\ new.replies = Append(cl.replies, r)

\* At most its buffers change.
Idles(cl, new) ==
  /\ SameTxn(cl, new)
  /\ new.pos = cl.pos /\ new.replies = cl.replies /\ new.blocked_req = cl.blocked_req

\* It is removed.
Frees(cl, new) ==
  /\ NoTxn(new)
  /\ new.pos = cl.pos /\ new.replies = cl.replies /\ new.blocked_req = 0

\* It consumes request j, and ...
Consumes(c, j, cl, new) ==
  /\ ~cl.close_after_reply /\ cl.blocked_req = 0
  /\ j = cl.pos + 1 /\ j \in 1 .. Len(script[c])
  /\ new.pos = j

\* ... skips it,
Skips(c, j, cl, new) ==
  /\ script[c][j].op = "blank"
  /\ SameTxn(cl, new) /\ new.replies = cl.replies /\ new.blocked_req = 0

\* ... refuses it,
Refuses(c, j, cl, new) ==
  /\ script[c][j].op # "blank"
  /\ Says(cl, new, Reply(j, "error"))
  /\ new.queue = cl.queue /\ new.active = cl.active /\ new.blocked_req = 0
  /\ new.error = (cl.error \/ (cl.active /\ script[c][j].op # "multi"))

\* ... opens a transaction,
Opened(c, j, cl, new) ==
  /\ script[c][j].op = "multi" /\ ~cl.active
  /\ Says(cl, new, Reply(j, "ok"))
  /\ new.active /\ new.queue = cl.queue /\ new.error = cl.error /\ new.blocked_req = 0

\* ... ends it without running it,
Resets(c, j, cl, new) ==
  /\ script[c][j].op \in {"discard", "exec"} /\ cl.active
  /\ Says(cl, new, Reply(j, "ok")) \/ Says(cl, new, Reply(j, "error"))
  /\ NoTxn(new) /\ new.blocked_req = 0

\* ... puts it into the queue,
Queues(c, j, cl, new) ==
  /\ script[c][j].op \in Cmds /\ cl.active /\ Len(cl.queue) < TXN_MAX_CMDS
  /\ Says(cl, new, Reply(j, "queued"))
  /\ new.queue = Append(cl.queue, j)
  /\ new.active = cl.active /\ new.error = cl.error /\ new.blocked_req = 0

\* ... starts to run the queue,
Begins(c, j, cl, new) ==
  /\ script[c][j].op = "exec" /\ cl.active /\ ~cl.error
  /\ Says(cl, new, [Reply(j, "array") EXCEPT !.n = Len(cl.queue)])
  /\ SameTxn(cl, new) /\ new.blocked_req = 0

\* ... runs it,
Runs(c, j, cl, new) ==
  /\ script[c][j].op \in Cmds /\ ~cl.active
  /\ \E r : Says(cl, new, r) /\ Outcome(c, j, db, db', r)
  /\ SameTxn(cl, new) /\ new.blocked_req = 0

\* ... or is parked with it.
Parks(c, j, cl, new) ==
  /\ script[c][j].op = "blpop" /\ ~cl.active
  /\ new.replies = cl.replies
  /\ SameTxn(cl, new) /\ new.blocked_req = j

\* It is no longer parked, but answered.
Wakes(c, cl, new) ==
  /\ cl.blocked_req # 0
  /\ \E r : Says(cl, new, r) /\ Outcome(c, cl.blocked_req, db, db', r)
  /\ new.pos = cl.pos /\ SameTxn(cl, new) /\ new.blocked_req = 0

\* The next command of the queue is run.
Executes(c, cl, new) ==
  /\ cl.queue # << >>
  /\ \E r : Says(cl, new, r) /\ Outcome(c, Head(cl.queue), db, db', r)
  /\ new.queue = Tail(cl.queue) /\ new.active = cl.active /\ new.error = cl.error
  /\ new.pos = cl.pos /\ new.blocked_req = cl.blocked_req

\* EXEC is through with the queue.
Finishes(cl, new) ==
  /\ cl.queue = << >> /\ NoTxn(new)
  /\ new.pos = cl.pos /\ new.replies = cl.replies /\ new.blocked_req = cl.blocked_req

\* It is told that its input is not RESP, that it is too long, or both.
Protests(c, cl, new) ==
  \/ Idles(cl, new) /\ new.close_after_reply = cl.close_after_reply
  \/ /\ ~cl.close_after_reply /\ cl.blocked_req = 0
     /\ cl.pos + 1 \in 1 .. Len(script[c]) /\ script[c][cl.pos + 1].op = "garbage"
     /\ Says(cl, new, Reply(cl.pos + 1, "protocol"))
     /\ SameTxn(cl, new) /\ new.pos = cl.pos /\ new.blocked_req = cl.blocked_req
     /\ new.close_after_reply

Limits(cl, new) ==
  /\ cl.close_after_reply => new.close_after_reply
  /\ \/ Idles(cl, new)
     \/ /\ Says(cl, new, Reply(0, "limit"))
        /\ SameTxn(cl, new) /\ new.pos = cl.pos /\ new.blocked_req = cl.blocked_req

Turns(c, cl, new) == \E mid \in Client : Protests(c, cl, mid) /\ Limits(mid, new)

Responds(c, j, cl, new) ==
  /\ Consumes(c, j, cl, new)
  /\ \/ Skips(c, j, cl, new) \/ Refuses(c, j, cl, new) \/ Opened(c, j, cl, new)
     \/ Resets(c, j, cl, new) \/ Queues(c, j, cl, new) \/ Runs(c, j, cl, new)
     \/ Parks(c, j, cl, new)

\* What may happen to client c in a step.
Evolves(c) ==
  LET cl  == client[c]
      new == client'[c]
      j   == cl.pos + 1
  IN  \/ Idles(cl, new) /\ (Executing(c)' <=> Executing(c))
      \/ /\ ~Executing(c) /\ ~Executing(c)'
         /\ \/ Frees(cl, new) /\ c \notin Range(clients)'
            \/ Responds(c, j, cl, new) \/ Wakes(c, cl, new) \/ Turns(c, cl, new)
      \/ ~Executing(c) /\ Executing(c)' /\ Consumes(c, j, cl, new) /\ Begins(c, j, cl, new)
      \/ Executing(c) /\ Executing(c)' /\ Executes(c, cl, new)
      \/ Executing(c) /\ ~Executing(c)' /\ Finishes(cl, new)

\* The same without its place in the loop.
Moves(c, cl, new) ==
  \/ Idles(cl, new) \/ Frees(cl, new)
  \/ Responds(c, cl.pos + 1, cl, new) \/ Wakes(c, cl, new) \/ Turns(c, cl, new)
  \/ Consumes(c, cl.pos + 1, cl, new) /\ Begins(c, cl.pos + 1, cl, new)
  \/ Executes(c, cl, new) \/ Finishes(cl, new)

\* Client c, and it alone, is answered with what a command does to the lists: the
\* request it just sent, the next of its queue, or the one it is parked with.
Deals(c) ==
  /\ \A d \in Conns : d # c => client'[d] = client[d]
  /\ \E j \in 1 .. Len(script[c]), r \in ReplyRecord :
       /\ client'[c].replies = Append(client[c].replies, r)
       /\ Outcome(c, j, db, db', r)
       /\ \/ j = client[c].pos + 1
          \/ client[c].queue # << >> /\ j = Head(client[c].queue)
          \/ script[c][j].op = "blpop"

\* A handler leaves the buffers and flags of the connection alone.
Framed(cl, new) ==
  /\ new.got = cl.got /\ new.flushed = cl.flushed
  /\ new.close_after_reply = cl.close_after_reply /\ new.closed = cl.closed

-------------------------------------------------------------------------------
(* Where the elements are                                                  *)

Element == Conns \X Nat

\* The key of the push that made element e.
KeyOf(e) == script[e[1]][e[2]].keys[1]

\* Element e is the i-th of list k,
In(d, k, i, e) == i \in 1 .. Len(d[k]) /\ d[k][i] = e

\* ... it is in the p-th reply to client c,
At(rs, c, p, e) == p \in 1 .. Len(rs[c]) /\ e \in rs[c][p].elems

\* ... and the push of it was answered.
Known(rs, e) == \E p \in 1 .. Len(rs[e[1]]) : /\ rs[e[1]][p].kind = "int"
                                            /\ rs[e[1]][p].req = e[2]

\* What is stored was pushed, to that list,
StoredKnown(d, rs) ==
  \A k \in Keys, i \in Nat, e \in Element :
    In(d, k, i, e) => Known(rs, e) /\ KeyOf(e) = k

\* ... and what is handed out was pushed too.
TakenKnown(rs) ==
  \A c \in Conns, p \in Nat, e \in Element : At(rs, c, p, e) => Known(rs, e)

\* The elements of one client are in a list in the order it pushed them,
Ordered(d) ==
  \A k \in Keys, i, h \in Nat, e, f \in Element :
    In(d, k, i, e) /\ In(d, k, h, f) /\ i < h /\ e[1] = f[1] => e[2] < f[2]

\* ... behind those of them that were handed out.
Behind(d, rs) ==
  \A c \in Conns, k \in Keys, p, i \in Nat, e, f \in Element :
    At(rs, c, p, e) /\ In(d, k, i, f) /\ KeyOf(e) = k /\ e[1] = f[1] => e[2] < f[2]

\* No element is handed out twice,
Once(rs) ==
  \A b, c \in Conns, p, q \in Nat, e \in Element :
    At(rs, b, p, e) /\ At(rs, c, q, e) => b = c /\ p = q

\* ... and none is lost.
NoneLost(d, rs) ==
  \A e \in Element :
    Known(rs, e) => \/ \E k \in Keys, i \in Nat : In(d, k, i, e)
                    \/ \E c \in Conns, p \in Nat : At(rs, c, p, e)

Homes(d, rs) ==
  /\ StoredKnown(d, rs) /\ TakenKnown(rs) /\ Ordered(d)
  /\ Behind(d, rs) /\ Once(rs) /\ NoneLost(d, rs)

Replies == [c \in Conns |-> client[c].replies]

\* The pushes of client c that are answered are consumed requests, all of them
\* sent before those that are queued.
Past(c, cl) ==
  \A p \in 1 .. Len(cl.replies) : cl.replies[p].kind = "int" =>
    /\ cl.replies[p].req <= cl.pos
    /\ \A i \in 1 .. Len(cl.queue) : cl.replies[p].req < cl.queue[i]

ElementsKept == Homes(db, Replies) /\ \A c \in Conns : Past(c, client[c])

===============================================================================
