---------------------------------- MODULE Wire ----------------------------------
(***************************************************************************)
(* A client of tools/cli.c or bench/bench.c and the server, byte by byte:  *)
(* the client writes a batch of requests and then reads its replies; the   *)
(* server executes what has arrived, looking commands up in its table; the *)
(* sockets between them are bounded and deliver in any pieces.  What the   *)
(* event loop does besides is in Server.                                   *)
(***************************************************************************)
EXTENDS Resp

CONSTANTS CommandTable,   \* sequence of [name, arity, proc]
          LookupSlots,    \* LOOKUP_SLOTS
          MaxName,        \* MAX_COMMAND_NAME
          NameHash(_),    \* name_hash
          Lower(_),       \* a character in lower case
          Settings,       \* names and values that CONFIG GET reports
          Others,         \* the answers of the commands modelled elsewhere, by proc
          Work,           \* what the client may do: [batches, requests, broken]
          SocketRoom      \* bytes that fit into a socket

ASSUME WireAssumption ==
  /\ Len(CommandTable) < LookupSlots
  /\ \A i, j \in 1 .. Len(CommandTable) : CommandTable[i].name = CommandTable[j].name => i = j
  /\ SocketRoom \in Nat \ {0}

VARIABLES work,      \* what the client does
          batches,   \* batches it has not begun: [bytes, replies]
          req,       \* bytes it still has to write
          expect,    \* replies it still has to read
          inbuf,     \* bytes it has read
          got,       \* replies it has read
          lost,      \* it has given up
          up, down,  \* bytes in the sockets
          in, out,   \* the server's buffers for the client
          handled,   \* requests given to command_process
          close_after_reply, closed,
          alive      \* the server runs

clientVars == <<work, batches, req, expect, inbuf, got, lost>>
serverVars == <<in, out, handled, close_after_reply, closed, alive>>
vars == <<clientVars, up, down, serverVars>>

-------------------------------------------------------------------------------
(* commands.c *)

\* The first slot, from the hash on and around, that is free or has the name.
Probe(slots, name) ==
  LET at(d) == (NameHash(name) + d) % LookupSlots
  IN  at(Min({d \in 0 .. LookupSlots - 1 :
                slots[at(d)] = 0 \/ CommandTable[slots[at(d)]].name = name}))

\* Slots hold positions of the table, 0 if they are free.
build_lookup ==
  LET slots[i \in 0 .. Len(CommandTable)] ==
        IF i = 0 THEN [s \in 0 .. LookupSlots - 1 |-> 0]
        ELSE [slots[i - 1] EXCEPT ![Probe(slots[i - 1], CommandTable[i].name)] = i]
  IN  slots[Len(CommandTable)]

command_lookup(name) ==
  LET lower == [i \in 1 .. Len(name) |-> Lower(name[i])]
  IN  IF Len(name) >= MaxName THEN 0 ELSE build_lookup[Probe(build_lookup, lower)]

arity_ok(spec, argc) == IF spec.arity > 0 THEN argc = spec.arity ELSE argc >= -spec.arity

\* What C string functions see of a string.
CString(s) == IF NUL \in ToSet(s) THEN SubSeq(s, 1, Min({i \in 1 .. Len(s) : s[i] = NUL}) - 1) ELSE s

\* Messages, by their first letter.
Unknown(name)    == Error(<<"u">> \o name)
WrongArity(name) == Error(<<"w">> \o name)
HasNul           == Error(<<"n">>)
NotSupported(s)  == Error(<<"s">> \o s)
ProtocolError    == Error(<<"p">>)
Pong             == Simple(<<"P">>)

cmd_ping(args) ==
  CASE Len(args) = 1 -> Pong
    [] Len(args) = 2 -> Bulk(args[2])
    [] OTHER         -> WrongArity(<<"p">>)

cmd_echo(args) == Bulk(args[2])

\* A pattern is the name of a setting, or "*".
cmd_config(args) ==
  LET matching == SelectSeq(Settings, LAMBDA kv : args[3] \in {kv[1], <<"*">>})
      is_get   == [i \in 1 .. Len(args[2]) |-> Lower(args[2][i])] = <<"g">>
  IN  CASE ~is_get -> NotSupported(args[2])
        [] is_get /\ Len(args) # 3 -> WrongArity(<<"c">>)
        [] OTHER -> Array(FlattenSeq([i \in 1 .. Len(matching) |->
                                        <<Bulk(matching[i][1]), Bulk(matching[i][2])>>]))

\* validate and run, with what command_lookup has found.
Answer(args, found) ==
  LET spec == CommandTable[found]
  IN  CASE found = 0 -> Unknown(CString(args[1]))
        [] found # 0 /\ ~arity_ok(spec, Len(args)) -> WrongArity(spec.name)
        [] found # 0 /\ arity_ok(spec, Len(args)) ->
             IF \E i \in 1 .. Len(args) : CString(args[i]) # args[i] THEN HasNul
             ELSE CASE spec.proc = "ping"   -> cmd_ping(args)
                    [] spec.proc = "echo"   -> cmd_echo(args)
                    [] spec.proc = "config" -> cmd_config(args)
                    [] OTHER                -> Others[spec.proc]

\* A null has no string, and validate reads that of the name, and those of the
\* arguments once their number is right: the process ends.
Faults(elements) ==
  LET found == command_lookup(CString(elements[1].str))
  IN  \/ elements[1] = Null
      \/ /\ elements[1] # Null
         /\ \E i \in 1 .. Len(elements) : elements[i] = Null
         /\ found # 0 /\ arity_ok(CommandTable[found], Len(elements))

ArgsOf(elements) == [i \in 1 .. Len(elements) |-> IF elements[i] = Null THEN << >> ELSE elements[i].str]

command_process(elements) ==
  LET args == ArgsOf(elements) IN Answer(args, command_lookup(CString(args[1])))

\* A reply as the handlers write it.
RECURSIVE Encode(_)
Encode(v) ==
  CASE v.type = "simple"  -> reply_simple(v.str)
    [] v.type = "error"   -> reply_error(v.str)
    [] v.type = "integer" -> reply_integer(v.integer)
    [] v.type = "bulk"    -> reply_bulk(v.str)
    [] v.type = "null"    -> reply_null
    [] v.type = "array"   -> reply_array(Len(v.elements))
                               \o FlattenSeq([i \in 1 .. Len(v.elements) |-> Encode(v.elements[i])])

-------------------------------------------------------------------------------
(* server.c *)

\* What is left of a buffer without its first n bytes.
buffer_consume(b, n) == SubSeq(b, n + 1, Len(b))

\* The requests process_input finds in a buffer, where it stops, and why.
Requests(buf) ==
  LET from[pos \in 1 .. Len(buf) + 1] ==
        LET step(r) ==
              CASE r.st # "ok" -> [reqs |-> << >>, pos |-> pos, why |-> r.st]
                [] r.st = "ok" /\ r.v.elements = << >> -> from[pos + r.next - 1]   \* blank inline line
                [] OTHER -> IF Faults(r.v.elements)
                            THEN [reqs |-> <<r.v.elements>>, pos |-> pos, why |-> "fault"]
                            ELSE [from[pos + r.next - 1] EXCEPT !.reqs = <<r.v.elements>> \o @]
        IN  step(resp_parse_command(buffer_consume(buf, pos - 1)))
  IN  from[1]

\* Mutant: a client is read again only after it has taken its replies.
ReadableWhenFlushed == alive /\ ~closed /\ up # << >> /\ out = << >>

\* POLLIN is asked for whatever is still to be written.
Readable == alive /\ ~closed /\ up # << >>

\* read_from_client and process_input.
ServerRead ==
  /\ Readable
  /\ up' = << >>
  /\ \E p \in {Requests(in \o up)} :
       IF close_after_reply
       THEN in' = in \o up /\ UNCHANGED <<out, handled, close_after_reply, closed, alive>>
       ELSE /\ in' = buffer_consume(in \o up, p.pos - 1)
            /\ handled' = handled \o p.reqs
            /\ alive' = (p.why # "fault")
            /\ closed' = (p.why = "fault")
            /\ close_after_reply' = (p.why = "error")
            /\ out' = IF p.why = "fault" THEN << >>
                      ELSE out \o FlattenSeq([i \in 1 .. Len(p.reqs) |-> Encode(command_process(p.reqs[i]))])
                               \o (IF p.why = "error" THEN Encode(ProtocolError) ELSE << >>)
  /\ UNCHANGED <<clientVars, down>>

\* write_to_client: what the socket takes.
ServerWrite ==
  LET n == Min({Len(out), SocketRoom - Len(down)})
  IN  /\ ~closed /\ out # << >> /\ n > 0
      /\ down' = down \o SubSeq(out, 1, n)
      /\ out' = buffer_consume(out, n)
      /\ closed' = (close_after_reply /\ n = Len(out))
      /\ UNCHANGED <<clientVars, up, in, handled, close_after_reply, alive>>

-------------------------------------------------------------------------------
(* The client: run_one of cli.c, where a batch is one request, and run_pipeline *)
(* of bench.c.                                                                  *)

\* The next batch is put together.
NextBatch ==
  /\ ~lost /\ req = << >> /\ expect = 0 /\ batches # << >>
  /\ req' = Head(batches).bytes
  /\ expect' = Head(batches).replies
  /\ batches' = Tail(batches)
  /\ UNCHANGED <<work, inbuf, got, lost, up, down, serverVars>>

\* write(): some bytes, or an error if the server is gone.
ClientWrite ==
  /\ ~lost /\ req # << >>
  /\ IF closed
     THEN lost' = TRUE /\ UNCHANGED <<req, up>>
     ELSE \E n \in 1 .. Min({Len(req), SocketRoom - Len(up)}) :
            /\ up' = up \o SubSeq(req, 1, n)
            /\ req' = buffer_consume(req, n)
            /\ UNCHANGED lost
  /\ UNCHANGED <<work, batches, expect, inbuf, got, down, serverVars>>

\* Up to max replies of a buffer, where they end, and why.
Replies(buf, max) ==
  LET from[pos \in 1 .. Len(buf) + 1, n \in 0 .. max] ==
        LET step(r) ==
              IF r.st = "ok" THEN [from[pos + r.next - 1, n - 1] EXCEPT !.vals = <<r.v>> \o @]
                             ELSE [vals |-> << >>, pos |-> pos, why |-> r.st]
        IN  IF n = 0 THEN [vals |-> << >>, pos |-> pos, why |-> "done"]
            ELSE step(resp_parse_reply(buffer_consume(buf, pos - 1)))
  IN  from[1, max]

\* read() has something, or the end of the stream, for the client.
Replied == ~lost /\ req = << >> /\ expect > 0 /\ (down # << >> \/ closed)

\* read_reply
ClientRead ==
  /\ Replied
  /\ \/ /\ down # << >>
        /\ \E p \in {Replies(inbuf \o down, expect)} :
             /\ inbuf' = buffer_consume(inbuf \o down, p.pos - 1)
             /\ got' = got \o p.vals
             /\ expect' = expect - Len(p.vals)
             /\ lost' = (p.why = "error")
        /\ down' = << >>
     \/ /\ down = << >>
        /\ lost' = TRUE
        /\ UNCHANGED <<inbuf, got, expect, down>>
  /\ UNCHANGED <<work, batches, req, up, serverVars>>

Init ==
  /\ work \in Work
  /\ batches = work.batches
  /\ req = << >> /\ expect = 0 /\ inbuf = << >> /\ got = << >> /\ lost = FALSE
  /\ up = << >> /\ down = << >>
  /\ in = << >> /\ out = << >> /\ handled = << >>
  /\ close_after_reply = FALSE /\ closed = FALSE /\ alive = TRUE

Next == ServerRead \/ ServerWrite \/ NextBatch \/ ClientWrite \/ ClientRead

\* The loop polls both directions in every turn, and the client waits in write() and
\* read() only.  The first two conjuncts are weak fairness of reading, with what
\* enables it in place of ENABLED.
Spec ==
  /\ Init /\ [][Next]_vars
  /\ []<>(~Readable) \/ []<><<ServerRead>>_vars
  /\ []<>(~Replied) \/ []<><<ClientRead>>_vars
  /\ WF_vars(ServerWrite) /\ WF_vars(NextBatch) /\ WF_vars(ClientWrite)

-------------------------------------------------------------------------------
(* Properties *)

\* The position of a command in the table, by its definition.
Position(name) ==
  LET lower == [i \in 1 .. Len(name) |-> Lower(name[i])]
      at    == {i \in 1 .. Len(CommandTable) : CommandTable[i].name = lower}
  IN  IF at = {} THEN 0 ELSE Max(at)

\* The replies a client should see.
Wanted ==
  LET reply(elements) ==
        LET v == Answer(ArgsOf(elements), Position(CString(ArgsOf(elements)[1])))
        IN  IF v.type = "error"
            THEN Error([i \in 1 .. Len(v.str) |-> IF v.str[i] \in {CR, LF} THEN " " ELSE v.str[i]])
            ELSE v
  IN  [i \in 1 .. Len(work.requests) |-> reply(work.requests[i])]
        \o (IF work.broken THEN <<ProtocolError>> ELSE << >>)

\* "Parsing is restartable" (resp.c): whatever pieces the stream arrives in, the
\* server executes the requests that the client encoded, or that the stream as a
\* whole holds, in order, and refuses the stream only after all of them and only if
\* it is broken as a whole.
PiecesInvisible ==
  /\ IsPrefix(handled, work.requests)
  /\ close_after_reply => work.broken /\ handled = work.requests
  /\ (batches = << >> /\ req = << >> /\ up = << >> /\ alive) =>
       handled = work.requests /\ close_after_reply = work.broken

\* What reply.c writes, the clients' parser reads back: the replies a client has read
\* are those of its requests, one each and in order, whatever bytes arguments and
\* names of commands are made of, and it gives up only on a stream that is refused
\* or on a server that is gone.
RepliesReadBack ==
  /\ IsPrefix(got, Wanted)
  /\ lost => work.broken \/ ~alive

\* A client that writes a whole batch before it reads gets through, however little
\* fits into the sockets: the server goes on reading while its replies wait.
BatchesEnd == <>(lost \/ (batches = << >> /\ req = << >> /\ expect = 0))

\* "A request must be a non-null array of bulk strings." (resp_parse_command)
RequestsAreBulk ==
  \A i \in 1 .. Len(handled) : \A j \in 1 .. Len(handled[i]) : handled[i][j].type = "bulk"

===============================================================================
