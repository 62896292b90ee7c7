-------------------------------- MODULE Server --------------------------------
(***************************************************************************)
(* The event loop of server.c with the request dispatch and transactions   *)
(* of commands.c and txn.c, and the list commands that can park a client.  *)
(*                                                                         *)
(* The server is one thread: pc says where in the loop it is.  What runs   *)
(* beside it is the peers, the monotonic clock and the signal handler.     *)
(*                                                                         *)
(* A peer sends the requests of its script, in order, Size units of input  *)
(* each, in pieces of its own choosing.  An element pushed by request j of *)
(* connection c is the pair <<c, j>>.                                      *)
(***************************************************************************)
EXTENDS Integers, Sequences, FiniteSets, Functions, Lists

CONSTANTS Conns,         \* connections
          Keys,          \* list keys
          StringKeys,    \* those that hold a string instead
          Cases,         \* what the peers may send, and what may go wrong meanwhile
          Size,          \* units of input per request
          TXN_MAX_CMDS,  \* length of the MULTI queue (1024 in the code)
          MaxQuery,      \* CLIENT_MAX_QUERY_BUF, in units
          SocketRoom,    \* bound: replies a socket holds until its peer reads
          MaxTicks,      \* bound: longest finite BLPOP timeout, in clock ticks
          Forever,       \* BLPOP timeout 0: no deadline
          Invalid        \* a BLPOP timeout that does not parse

Ops == {"rpush", "lpop", "blpop", "multi", "exec", "discard",
        "invalid",   \* refused by validate(): name, arity or a NUL byte
        "blank",     \* an empty line or array
        "garbage"}   \* not RESP

Request == [op : Ops, keys : Seq(Keys), timeout : 0 .. MaxTicks \cup {Forever, Invalid}]

ASSUME ServerAssumption ==
  /\ StringKeys \subseteq Keys
  /\ \A case \in Cases :
       /\ case.script \in [Conns -> Seq(Request)]
       /\ \A c \in Conns : \A j \in 1 .. Len(case.script[c]) : case.script[c][j].keys # << >>
       /\ case.faults \subseteq {"half", "vanish", "signal", "poll", "accept"}
  /\ Size \in Nat \ {0}
  /\ TXN_MAX_CMDS \in Nat
  /\ MaxQuery \in Nat
  /\ SocketRoom \in Nat \ {0}
  /\ MaxTicks \in Nat
  /\ Forever \notin Int /\ Invalid \notin Int /\ Forever # Invalid

VARIABLES script,    \* the script of each peer
          faults,    \* what may go wrong
          peer,      \* "new", "open", "half" (sent FIN) or "gone"
          sent,      \* units of input the peer has sent
          wire,      \* replies in the socket, not yet read by the peer
          backlog,   \* connections waiting for accept()
          db,        \* key -> list of elements
          clients,   \* srv->clients, in array order
          client,    \* the Client struct of each connection
          stop_requested,
          pc,        \* where the loop is
          caller,    \* the function that called process_input
          todo,      \* clients the current pass has yet to visit
          eof,       \* local of read_from_client
          any_blocked,   \* locals of server_run
          accepting,     \* revents of the listening socket
          lapsed     \* parked clients whose deadline service_blocked saw pass

env  == <<script, faults, peer, sent, wire, backlog>>
loop == <<pc, caller, todo, eof, any_blocked, accepting, lapsed>>
vars == <<env, db, clients, client, stop_requested, loop>>

-------------------------------------------------------------------------------
(* State *)

\* in is what was got beyond the pos requests consumed; replies is all that was
\* ever appended to out, its first flushed ones written to the socket.
\* blocked_req is the number of the parked request, 0 for NULL.
\* block_deadline is the number of ticks left.
client_init ==
  [got |-> 0, pos |-> 0, replies |-> << >>, flushed |-> 0,
   queue |-> << >>, active |-> FALSE, error |-> FALSE,
   blocked_req |-> 0, block_deadline |-> 0,
   close_after_reply |-> FALSE, closed |-> FALSE]

InLen(cl)  == cl.got - Size * cl.pos
OutLen(cl) == Len(cl.replies) - cl.flushed

\* req is the request answered, n the length an array header announces, and
\* elems the element handed out, if any.
Reply(req, kind) == [req |-> req, kind |-> kind, n |-> 0, elems |-> {}]

Say(cl, r) == [cl EXCEPT !.replies = Append(@, r)]

Init ==
  /\ \E case \in Cases : script = case.script /\ faults = case.faults
  /\ peer = [c \in Conns |-> "new"]
  /\ sent = [c \in Conns |-> 0]
  /\ wire = [c \in Conns |-> 0]
  /\ backlog = << >>
  /\ db = [k \in Keys |-> << >>]
  /\ clients = << >>
  /\ client = [c \in Conns |-> client_init]
  /\ stop_requested = FALSE
  /\ pc = "top"
  /\ caller = "read"
  /\ todo = << >>
  /\ eof = FALSE
  /\ any_blocked = FALSE
  /\ accepting = FALSE
  /\ lapsed = {}

-------------------------------------------------------------------------------
(* cmd_list.c.  A handler maps the lists d to [db, reply]; a reply of kind    *)
(* "block" stands for CMD_BLOCK.                                              *)

\* Mutant: pushes at the wrong end.
PushAtHead(d, c, j) ==
  [db    |-> [d EXCEPT ![script[c][j].keys[1]] = <<<<c, j>>>> \o @],
   reply |-> Reply(j, "int")]

cmd_rpush(d, c, j) ==
  LET k == script[c][j].keys[1]
  IN  IF k \in StringKeys
      THEN [db |-> d, reply |-> Reply(j, "error")]
      ELSE [db |-> [d EXCEPT ![k] = Append(@, <<c, j>>)], reply |-> Reply(j, "int")]

\* Mutant: the element is not removed.
PeekFirst(d, ks, j, nothing) ==
  LET hits == {i \in 1 .. Len(ks) : d[ks[i]] # << >>}
      k    == ks[CHOOSE i \in hits : \A h \in hits : i <= h]
  IN  [db    |-> d,
       reply |-> IF hits = {} THEN Reply(j, nothing)
                 ELSE [Reply(j, "elem") EXCEPT !.elems = {Head(d[k])}]]

\* The first key that holds something decides: its head, or a type error.
PopFirst(d, ks, j, nothing) ==
  LET hits == {i \in 1 .. Len(ks) : ks[i] \in StringKeys \/ d[ks[i]] # << >>}
      k    == ks[CHOOSE i \in hits : \A h \in hits : i <= h]
  IN  CASE hits = {} -> [db |-> d, reply |-> Reply(j, nothing)]
        [] hits # {} /\ k \in StringKeys -> [db |-> d, reply |-> Reply(j, "error")]
        [] OTHER -> [db |-> [d EXCEPT ![k] = Tail(@)],
                     reply |-> [Reply(j, "elem") EXCEPT !.elems = {Head(d[k])}]]

cmd_lpop(d, c, j) == PopFirst(d, <<script[c][j].keys[1]>>, j, "nil")

\* Mutant: the timeout is looked at after the pop.
PopsThenTimesOut(d, c, j, can_block, timed_out) ==
  LET r == PopFirst(d, script[c][j].keys, j, "block")
  IN  IF timed_out THEN [r EXCEPT !.reply = Reply(j, "nil")] ELSE r

cmd_blpop(d, c, j, can_block, timed_out) ==
  IF script[c][j].timeout = Invalid
  THEN [db |-> d, reply |-> Reply(j, "error")]
  ELSE PopFirst(d, script[c][j].keys, j,
                IF can_block /\ ~timed_out THEN "block" ELSE "nil")

run(d, c, j, can_block, timed_out) ==
  CASE script[c][j].op = "rpush" -> cmd_rpush(d, c, j)
    [] script[c][j].op = "lpop"  -> cmd_lpop(d, c, j)
    [] OTHER -> cmd_blpop(d, c, j, can_block, timed_out)

\* Mutant: every retry sets the deadline again.
ParkAnew(cl, c, j) == [cl EXCEPT !.block_deadline = script[c][j].timeout]

\* The end of cmd_blpop: the deadline is set when the client is parked, and not
\* again when the parked request is retried.
Park(cl, c, j) ==
  IF cl.blocked_req = 0 THEN [cl EXCEPT !.block_deadline = script[c][j].timeout]
                        ELSE cl

-------------------------------------------------------------------------------
(* commands.c, txn.c: one parsed request j of client c.                       *)

txn_reset(cl) == [cl EXCEPT !.queue = << >>, !.active = FALSE, !.error = FALSE]

\* Mutant: the transaction is not poisoned.
RefuseOnly(cl, j) == Say(cl, Reply(j, "error"))

\* A request refused while queuing poisons the transaction.
Refuse(cl, j) == [Say(cl, Reply(j, "error")) EXCEPT !.error = @ \/ cl.active]

\* Mutant: off by one at the limit.
QueueOneMore(cl, j) ==
  IF Len(cl.queue) > TXN_MAX_CMDS
  THEN Refuse(cl, j)
  ELSE [Say(cl, Reply(j, "queued")) EXCEPT !.queue = Append(@, j)]

txn_queue(cl, j) ==
  IF Len(cl.queue) >= TXN_MAX_CMDS
  THEN Refuse(cl, j)
  ELSE [Say(cl, Reply(j, "queued")) EXCEPT !.queue = Append(@, j)]

\* MULTI, DISCARD, and a request that is refused or queued: the new Client.
Answer(cl, j, op) ==
  CASE op = "invalid" -> Refuse(cl, j)
    [] op = "multi" ->
         IF cl.active THEN Say(cl, Reply(j, "error"))
                      ELSE [Say(cl, Reply(j, "ok")) EXCEPT !.active = TRUE]
    [] op = "discard" ->
         IF cl.active THEN txn_reset(Say(cl, Reply(j, "ok")))
                      ELSE Say(cl, Reply(j, "error"))
    [] OTHER -> txn_queue(cl, j)

\* EXEC up to its first queued command.
exec_transaction(cl, j) ==
  IF cl.error
  THEN txn_reset(Say(cl, Reply(j, "error")))
  ELSE Say(cl, [Reply(j, "array") EXCEPT !.n = Len(cl.queue)])

\* Mutant: the parked request is kept when it has been answered.
StaysParked(cl, c, j, r) ==
  IF r.kind = "block" THEN [Park(cl, c, j) EXCEPT !.blocked_req = j] ELSE Say(cl, r)

\* A command run outside a transaction, or retried: answered, or parked.
Served(cl, c, j, r) ==
  IF r.kind = "block" THEN [Park(cl, c, j) EXCEPT !.blocked_req = j]
                      ELSE [Say(cl, r) EXCEPT !.blocked_req = 0]

-------------------------------------------------------------------------------
(* server.c: process_input                                                    *)

Current == Head(todo)

Set(c, cl) == client' = [client EXCEPT ![c] = cl]

\* process_input takes another turn: there is input and nothing holds it up.
Looping(cl) ==
  /\ cl.blocked_req = 0
  /\ ~cl.close_after_reply
  /\ InLen(cl) > 0

\* resp_parse_command on what is there.  The first unit of a request that is
\* not RESP gives it away.
resp_parse_command(cl, c) ==
  CASE script[c][cl.pos + 1].op = "garbage" -> "error"
    [] script[c][cl.pos + 1].op # "garbage" /\ InLen(cl) < Size -> "incomplete"
    [] OTHER -> "ok"

\* One complete request: dispatched by command_process, or skipped if blank.
ProcessRequest ==
  LET c  == Current
      cl == [client[c] EXCEPT !.pos = @ + 1]
      j  == cl.pos
      op == script[c][j].op
      r  == run(db, c, j, TRUE, FALSE)
  IN  /\ pc = "process"
      /\ Looping(client[c])
      /\ resp_parse_command(client[c], c) = "ok"
      /\ \/ /\ op = "blank"
            /\ Set(c, cl)
            /\ UNCHANGED <<db, pc>>
         \/ /\ \/ op \in {"invalid", "multi", "discard"}
               \/ cl.active /\ op \in {"rpush", "lpop", "blpop"}
            /\ Set(c, Answer(cl, j, op))
            /\ UNCHANGED <<db, pc>>
         \/ /\ op = "exec"
            /\ IF cl.active THEN Set(c, exec_transaction(cl, j))
                            ELSE Set(c, Say(cl, Reply(j, "error")))
            /\ pc' = IF cl.active /\ ~cl.error THEN "exec" ELSE pc
            /\ UNCHANGED db
         \/ /\ ~cl.active /\ op \in {"rpush", "lpop", "blpop"}
            /\ db' = r.db
            /\ Set(c, Served(cl, c, j, r.reply))
            /\ UNCHANGED pc
      /\ UNCHANGED <<env, clients, stop_requested, caller, todo, eof,
                     any_blocked, accepting, lapsed>>

\* Mutant: EXEC lets a BLPOP of its queue block.
ExecMayBlock ==
  LET c  == Current
      cl == [client[c] EXCEPT !.queue = Tail(@)]
      r  == run(db, c, Head(client[c].queue), TRUE, FALSE)
  IN  /\ pc = "exec"
      /\ client[c].queue # << >>
      /\ db' = r.db
      /\ Set(c, IF r.reply.kind = "block" THEN cl ELSE Say(cl, r.reply))
      /\ UNCHANGED <<env, clients, stop_requested, loop>>

\* The next command of the queue, which may not block.
ExecCommand ==
  LET c  == Current
      cl == client[c]
      r  == run(db, c, Head(cl.queue), FALSE, FALSE)
  IN  /\ pc = "exec"
      /\ cl.queue # << >>
      /\ db' = r.db
      /\ Set(c, [Say(cl, r.reply) EXCEPT !.queue = Tail(@)])
      /\ UNCHANGED <<env, clients, stop_requested, loop>>

ExecDone ==
  /\ pc = "exec"
  /\ client[Current].queue = << >>
  /\ Set(Current, txn_reset(client[Current]))
  /\ pc' = "process"
  /\ UNCHANGED <<env, db, clients, stop_requested, caller, todo, eof,
                 any_blocked, accepting, lapsed>>

\* Mutant: the client is not closed.
ProtocolErrorStaysOpen(cl, c) ==
  IF Looping(cl) /\ resp_parse_command(cl, c) = "error"
  THEN Say(cl, Reply(cl.pos + 1, "protocol"))
  ELSE cl

\* A request that is not RESP is answered with an error, and the client closed.
ProtocolError(cl, c) ==
  IF Looping(cl) /\ resp_parse_command(cl, c) = "error"
  THEN [Say(cl, Reply(cl.pos + 1, "protocol")) EXCEPT !.close_after_reply = TRUE]
  ELSE cl

\* The size check at the end of process_input.
QueryLimit(cl) ==
  IF InLen(cl) > MaxQuery
  THEN [Say(cl, Reply(0, "limit")) EXCEPT !.close_after_reply = TRUE]
  ELSE cl

\* Mutant: the client is closed at once.
CloseAtEof(cl) == [cl EXCEPT !.close_after_reply = TRUE, !.closed = TRUE]

\* The end of read_from_client, once the peer has finished sending.
AtEof(cl) ==
  [cl EXCEPT !.close_after_reply = TRUE,
             !.closed = @ \/ cl.blocked_req # 0 \/ OutLen(cl) = 0]

\* process_input leaves its loop, and its caller goes on to the next client.
ProcessReturn ==
  LET c  == Current
      cl == QueryLimit(ProtocolError(client[c], c))
  IN  /\ pc = "process"
      /\ Looping(client[c]) => resp_parse_command(client[c], c) # "ok"
      /\ Set(c, IF eof THEN AtEof(cl) ELSE cl)
      /\ pc' = caller
      /\ todo' = Tail(todo)
      /\ eof' = FALSE
      /\ UNCHANGED <<env, db, clients, stop_requested, caller, any_blocked,
                     accepting, lapsed>>

-------------------------------------------------------------------------------
(* server.c: one turn of server_run                                           *)

\* Mutant: the flag is that of the last client.
TopKeepsLast ==
  /\ pc = "top"
  /\ pc' = IF stop_requested THEN "exit" ELSE "poll"
  /\ any_blocked' = (clients # << >> /\ client[clients[Len(clients)]].blocked_req # 0)
  /\ UNCHANGED <<env, db, clients, client, stop_requested, caller, todo, eof,
                 accepting, lapsed>>

\* Mutant: the loop does not look at the flag.
TopIgnoresStop ==
  /\ pc = "top"
  /\ pc' = "poll"
  /\ any_blocked' = \E c \in Range(clients) : client[c].blocked_req # 0
  /\ UNCHANGED <<env, db, clients, client, stop_requested, caller, todo, eof,
                 accepting, lapsed>>

\* The loop condition, and the scan of the clients before poll().
Top ==
  /\ pc = "top"
  /\ pc' = IF stop_requested THEN "exit" ELSE "poll"
  /\ any_blocked' = \E c \in Range(clients) : client[c].blocked_req # 0
  /\ UNCHANGED <<env, db, clients, client, stop_requested, caller, todo, eof,
                 accepting, lapsed>>

\* POLLIN, POLLHUP or POLLERR.
Readable(c) == sent[c] > client[c].got \/ peer[c] \in {"half", "gone"}

\* poll() returns, if only because its time is up.
Poll ==
  /\ pc = "poll"
  /\ pc' = "read"
  /\ todo' = Keep(clients, {c \in Conns : Readable(c)})
  /\ accepting' = (backlog # << >>)
  /\ UNCHANGED <<env, db, clients, client, stop_requested, caller, eof,
                 any_blocked, lapsed>>

\* A signal interrupts poll() (EINTR), or it fails for another reason.
PollFails ==
  /\ pc = "poll"
  /\ \/ stop_requested /\ pc' = "top"
     \/ "poll" \in faults /\ pc' = "exit"
  /\ UNCHANGED <<env, db, clients, client, stop_requested, caller, todo, eof,
                 any_blocked, accepting, lapsed>>

\* read_from_client up to process_input: everything there is to read.  A read
\* that does not fill the chunk ends the loop before the end of file is seen.
Read ==
  LET c == Current
  IN  /\ pc = "read" /\ todo # << >>
      /\ eof' \in {b \in BOOLEAN : /\ b => peer[c] \in {"half", "gone"}
                                   /\ sent[c] = client[c].got => b}
      /\ Set(c, [client[c] EXCEPT !.got = sent[c]])
      /\ pc' = "process"
      /\ caller' = "read"
      /\ UNCHANGED <<env, db, clients, stop_requested, todo, any_blocked,
                     accepting, lapsed>>

\* ECONNRESET: nothing that was read is processed.
ReadFails ==
  LET c == Current
  IN  /\ pc = "read" /\ todo # << >>
      /\ peer[c] = "gone"
      /\ Set(c, [client[c] EXCEPT !.closed = TRUE])
      /\ todo' = Tail(todo)
      /\ UNCHANGED <<env, db, clients, stop_requested, pc, caller, eof,
                     any_blocked, accepting, lapsed>>

\* accept_clients takes the backlog, or what it can get before accept() fails.
accept_clients(n) ==
  /\ n \in IF "accept" \in faults THEN 0 .. Len(backlog) ELSE {Len(backlog)}
  /\ clients' = clients \o SubSeq(backlog, 1, n)
  /\ backlog' = SubSeq(backlog, n + 1, Len(backlog))

\* After the last read: accept_clients, and the start of service_blocked, which
\* reads the clock once for all the parked clients it is going to visit.
Accept ==
  LET parked(c) == client[c].blocked_req # 0 /\ ~client[c].closed
  IN  /\ pc = "read" /\ todo = << >>
      /\ pc' = "service"
      /\ IF accepting THEN \E n \in 0 .. Len(backlog) : accept_clients(n)
                      ELSE UNCHANGED <<clients, backlog>>
      /\ todo' = IF any_blocked THEN Keep(clients, {c \in Conns : parked(c)}) ELSE << >>
      /\ lapsed' = {c \in Range(todo') : client[c].block_deadline = 0}
      /\ UNCHANGED <<script, faults, peer, sent, wire, db, client, stop_requested, caller,
                     eof, any_blocked, accepting>>

\* Mutant: process_input is not called.
ServiceOnly ==
  LET c == Current
      j == client[c].blocked_req
      r == run(db, c, j, TRUE, c \in lapsed)
  IN  /\ pc = "service" /\ todo # << >>
      /\ db' = r.db
      /\ Set(c, Served(client[c], c, j, r.reply))
      /\ todo' = Tail(todo)
      /\ UNCHANGED <<env, clients, stop_requested, pc, caller, eof, any_blocked,
                     accepting, lapsed>>

\* service_blocked: retry a parked request, then what was pipelined behind it.
Service ==
  LET c  == Current
      j  == client[c].blocked_req
      r  == run(db, c, j, TRUE, c \in lapsed)
  IN  /\ pc = "service" /\ todo # << >>
      /\ db' = r.db
      /\ Set(c, Served(client[c], c, j, r.reply))
      /\ IF r.reply.kind = "block"
         THEN todo' = Tail(todo) /\ UNCHANGED <<pc, caller>>
         ELSE pc' = "process" /\ caller' = "service" /\ UNCHANGED todo
      /\ UNCHANGED <<env, clients, stop_requested, eof, any_blocked, accepting,
                     lapsed>>

\* Mutant: writes as much as the socket takes.
WritesAllRoom(c) == SocketRoom - wire[c]

\* What one write_to_client gets into the socket.  To a peer that is gone it
\* may still seem to succeed.
Written(c) ==
  IF peer[c] = "gone" \/ OutLen(client[c]) <= SocketRoom - wire[c]
  THEN OutLen(client[c])
  ELSE SocketRoom - wire[c]

write_to_client(c, failed) ==
  LET cl  == client[c]
      new == [cl EXCEPT !.flushed = @ + Written(c)]
  IN  CASE cl.closed \/ OutLen(cl) = 0 -> cl
        [] ~cl.closed /\ OutLen(cl) # 0 /\ failed -> [cl EXCEPT !.closed = TRUE]
        [] OTHER -> [new EXCEPT !.closed = cl.close_after_reply /\ OutLen(new) = 0]

client_free(cl) == [txn_reset(cl) EXCEPT !.blocked_req = 0]

\* The clients as the writes have left them.
remove_closed_clients(new) ==
  /\ clients' = Keep(clients, {c \in Conns : ~new[c].closed})
  /\ client' = [c \in Conns |-> IF c \in Range(clients) /\ new[c].closed
                                THEN client_free(new[c]) ELSE new[c]]

\* The flush of all clients and remove_closed_clients.
Flush ==
  \E failed \in SUBSET {c \in Range(clients) : peer[c] = "gone"} :
    LET new  == [c \in Conns |-> IF c \in Range(clients)
                                 THEN write_to_client(c, c \in failed)
                                 ELSE client[c]]
    IN  /\ pc = "service" /\ todo = << >>
        /\ pc' = "top"
        /\ wire' = [c \in Conns |-> IF peer[c] = "gone" THEN 0 ELSE
                                    wire[c] + new[c].flushed - client[c].flushed]
        /\ remove_closed_clients(new)
        /\ lapsed' = {}
        /\ UNCHANGED <<script, faults, peer, sent, backlog, db, stop_requested, caller,
                       todo, eof, any_blocked, accepting>>

\* After the loop: main calls server_shutdown, and the process ends.
server_shutdown ==
  /\ pc = "exit"
  /\ pc' = "stopped"
  /\ client' = [c \in Conns |-> IF c \in Range(clients) THEN client_free(client[c])
                                                        ELSE client[c]]
  /\ clients' = << >>
  /\ UNCHANGED <<env, db, stop_requested, caller, todo, eof, any_blocked,
                 accepting, lapsed>>

-------------------------------------------------------------------------------
(* The peers, the clock and the signal handler                                *)

Connected(c) == c \in Range(clients) \cup Range(backlog)

Connect(c) ==
  /\ pc # "stopped"
  /\ peer[c] = "new"
  /\ peer' = [peer EXCEPT ![c] = "open"]
  /\ backlog' = Append(backlog, c)
  /\ UNCHANGED <<script, faults, sent, wire, db, clients, client, stop_requested, loop>>

Send(c) ==
  /\ peer[c] = "open" /\ Connected(c)
  /\ \E n \in sent[c] + 1 .. Size * Len(script[c]) : sent' = [sent EXCEPT ![c] = n]
  /\ UNCHANGED <<script, faults, peer, wire, backlog, db, clients, client, stop_requested, loop>>

\* The peer takes its replies out of the socket.
Receive(c) ==
  /\ peer[c] \in {"open", "half"} /\ Connected(c)
  /\ wire[c] > 0
  /\ wire' = [wire EXCEPT ![c] = 0]
  /\ UNCHANGED <<script, faults, peer, sent, backlog, db, clients, client, stop_requested, loop>>

\* The peer ends its side of the connection, or is gone altogether.
Leave(c) ==
  /\ Connected(c)
  /\ \/ "half" \in faults /\ peer[c] = "open" /\ peer' = [peer EXCEPT ![c] = "half"]
     \/ "vanish" \in faults /\ peer[c] # "gone" /\ peer' = [peer EXCEPT ![c] = "gone"]
  /\ UNCHANGED <<script, faults, sent, wire, backlog, db, clients, client, stop_requested, loop>>

\* on_signal, server_request_stop.
Signal ==
  /\ "signal" \in faults /\ ~stop_requested /\ pc # "stopped"
  /\ stop_requested' = TRUE
  /\ UNCHANGED <<env, db, clients, client, loop>>

\* mono_ms advances.
Tick ==
  LET running == {c \in Range(clients) : /\ client[c].blocked_req # 0
                                         /\ client[c].block_deadline \notin {0, Forever}}
  IN  /\ running # {}
      /\ client' = [c \in Conns |-> IF c \in running
                                    THEN [client[c] EXCEPT !.block_deadline = @ - 1]
                                    ELSE client[c]]
      /\ UNCHANGED <<env, db, clients, stop_requested, loop>>

\* The process has ended.
Terminated == pc = "stopped" /\ UNCHANGED vars

-------------------------------------------------------------------------------
ServerStep ==
  \/ Top \/ Poll \/ PollFails \/ Read \/ ReadFails \/ Accept \/ Service
  \/ ProcessRequest \/ ExecCommand \/ ExecDone \/ ProcessReturn
  \/ Flush \/ server_shutdown

\* process_input and EXEC make no system call but to read the clock when they
\* park a client, so what happens meanwhile might as well happen before or after.
Environment ==
  /\ pc \notin {"process", "exec"}
  /\ \/ \E c \in Conns : Connect(c) \/ Send(c) \/ Receive(c) \/ Leave(c)
     \/ Signal
     \/ Tick

Next == ServerStep \/ Environment \/ Terminated

\* poll() has a timeout, so the loop never waits forever, and time passes.
Spec == Init /\ [][Next]_vars /\ WF_vars(ServerStep) /\ WF_vars(Tick)

-------------------------------------------------------------------------------
(* Properties *)

\* What a client may be sent: not "block".
Kinds == {"ok", "queued", "array", "int", "elem", "nil", "error", "protocol", "limit"}

ReplyRecord == [req : Nat, kind : Kinds, n : Nat, elems : SUBSET (Conns \X Nat)]

Client ==
  [got : Nat, pos : Nat, replies : Seq(ReplyRecord), flushed : Nat,
   queue : Seq(Nat), active : BOOLEAN, error : BOOLEAN,
   blocked_req : Nat, block_deadline : Nat \cup {Forever},
   close_after_reply : BOOLEAN, closed : BOOLEAN]

\* The server's state is well typed, and no buffer gives out more than it holds.
TypeOK ==
  /\ client \in [Conns -> Client]
  /\ \A c \in Conns : InLen(client[c]) \in Nat /\ OutLen(client[c]) \in Nat
  /\ clients \in Seq(Conns) /\ todo \in Seq(Conns)
  /\ db \in [Keys -> Seq(Conns \X Nat)]
  /\ pc \in {"top", "poll", "read", "process", "exec", "service", "exit", "stopped"}

\* A parked client is in no transaction: retried commands are never queued and
\* EXEC never parks.  A poisoned transaction is an open one, and the queue stays
\* within TXN_MAX_CMDS.
TxnDiscipline ==
  \A c \in Conns :
    LET cl == client[c]
    IN  /\ cl.blocked_req # 0 => ~cl.active
        /\ cl.error \/ cl.queue # << >> => cl.active
        /\ Len(cl.queue) <= TXN_MAX_CMDS

\* The positions of the replies that are elements of an EXEC array.
Inner(rs) == {p \in 1 .. Len(rs) : \E h \in 1 .. p - 1 : h + rs[h].n >= p}

\* The positions of the replies that answer a request by themselves.
Own(rs) == {p \in 1 .. Len(rs) : p \notin Inner(rs) /\ rs[p].kind # "limit"}

\* Requests are answered one reply each, in the order they were sent: all those
\* consumed so far, but for blank lines and the request that is parked.
OneReplyEach ==
  \A c \in Range(clients) :
    LET cl   == client[c]
        rs   == cl.replies
        last == IF \E p \in 1 .. Len(rs) : rs[p].kind = "protocol"
                THEN cl.pos + 1 ELSE cl.pos
    IN  /\ {rs[p].req : p \in Own(rs)}
             = {j \in 1 .. last : script[c][j].op # "blank" /\ j # cl.blocked_req}
        /\ \A p, q \in Own(rs) : p < q => rs[p].req < rs[q].req

\* Reply m opened the transaction that is open at reply h.
Opens(c, m, h) ==
  LET rs       == client[c].replies
      multi(p) == rs[p].kind = "ok" /\ script[c][rs[p].req].op = "multi"
  IN  multi(m) /\ \A p \in m + 1 .. h : ~multi(p)

\* EXEC answers with exactly the replies of the requests queued since MULTI, in
\* their order, and only if none of them was refused while queuing.  While it is
\* answering, the queue holds the requests whose replies are missing.
ExecAnswersQueue ==
  \A c \in Conns : \A h \in 1 .. Len(client[c].replies) :
    LET rs     == client[c].replies
        end    == h + rs[h].n
        inside == (h + 1 .. end) \cap (1 .. Len(rs))
        left   == IF end > Len(rs) THEN Range(client[c].queue) ELSE {}
    IN  rs[h].kind = "array" =>
          /\ end > Len(rs) => /\ pc = "exec" /\ c = Current
                              /\ end = Len(rs) + Len(client[c].queue)
          /\ \A p, q \in inside : p < q => rs[p].req < rs[q].req
          /\ \E m \in 1 .. h :
               /\ Opens(c, m, h)
               /\ {rs[p].req : p \in {p \in m .. h : rs[p].kind = "queued"}}
                    = {rs[p].req : p \in inside} \cup left
               /\ \A p \in m .. h : rs[p].kind = "error" =>
                                      script[c][rs[p].req].op = "multi"

Pushed(c, j) == \E p \in 1 .. Len(client[c].replies) :
                  /\ client[c].replies[p].req = j
                  /\ client[c].replies[p].kind = "int"

\* Where element e is: in a list, or in the reply to a pop.
Stored(e) == UNION {{<<k, i>> : i \in {i \in 1 .. Len(db[k]) : db[k][i] = e}} : k \in Keys}

Taken(e) ==
  UNION {{<<c, p>> : p \in {p \in 1 .. Len(client[c].replies) :
                              e \in client[c].replies[p].elems}} : c \in Conns}

\* An element is in one place from the moment its push is answered: no retry,
\* timeout, transaction or disconnect loses it or hands it out twice.
OneHome ==
  \A c \in Conns : \A j \in 1 .. Len(script[c]) :
    Cardinality(Stored(<<c, j>>)) + Cardinality(Taken(<<c, j>>))
      = IF Pushed(c, j) THEN 1 ELSE 0

\* Elements leave a list in the order one client pushed them, whoever pops, and
\* parked or not.
FirstInFirstOut ==
  \A c \in Conns : \A i, j \in 1 .. Len(script[c]) :
    (/\ i < j
     /\ script[c][i].keys[1] = script[c][j].keys[1]
     /\ Stored(<<c, i>>) # {})
      => Taken(<<c, j>>) = {}

\* "answer what it sent, then close" (read_from_client): when a client that has
\* finished sending is removed and is not parked, every complete request was
\* read and answered, or refused as a whole, and every reply was written.
DrainBeforeClose ==
  [][\A c \in Conns :
       (/\ c \in Range(clients) /\ c \notin Range(clients') /\ pc # "exit"
        /\ peer[c] = "half" /\ client[c].blocked_req = 0)
         => LET cl == client'[c]
            IN  /\ OutLen(cl) = 0
                /\ \/ sent[c] < Size * (cl.pos + 1)
                   \/ \E p \in 1 .. Len(cl.replies) :
                        cl.replies[p].kind \in {"protocol", "limit"}]_vars

Parked(c) == c \in Range(clients) /\ client[c].blocked_req # 0

\* A BLPOP with a timeout ends: answered, timed out or dropped with its client.
DeadlineKept ==
  \A c \in Conns : (Parked(c) /\ client[c].block_deadline # Forever) ~> ~Parked(c)

\* A client is not left parked beside data for it.
NoLostWakeup ==
  \A c \in Conns :
    LET ready == /\ Parked(c)
                 /\ \E i \in 1 .. Len(script[c][client[c].blocked_req].keys) :
                      db[script[c][client[c].blocked_req].keys[i]] # << >>
    IN  ready ~> ~ready

\* A complete request of a client that is not parked or being closed is executed,
\* also when it was pipelined behind a BLPOP and no further input follows.
RequestsExecuted ==
  \A c \in Conns :
    LET waiting == /\ c \in Range(clients)
                   /\ client[c].blocked_req = 0
                   /\ ~client[c].close_after_reply /\ ~client[c].closed
                   /\ sent[c] >= Size * (client[c].pos + 1)
    IN  waiting ~> ~waiting

\* A signal ends the server, whatever it is doing and even if it arrives between
\* the loop's check and poll().
StopsOnSignal == stop_requested ~> pc = "stopped"

===============================================================================
