------------------------------- MODULE MCServer -------------------------------
(* Instances of Server for TLC. *)
EXTENDS Server

CONSTANTS c1, c2, jobs, done, text

Cmd(op)        == [op |-> op, keys |-> <<jobs>>, timeout |-> 0]
On(op, key)    == [op |-> op, keys |-> <<key>>, timeout |-> 0]
Blpop(ks, t)   == [op |-> "blpop", keys |-> ks, timeout |-> t]

\* One script per connection.
Pair(a, b) == [c \in Conns |-> IF c = c1 THEN a ELSE b]

\* Pops that park, with requests pipelined behind them, and pushes that wake
\* them up.
BlockingScripts ==
  {Pair(<<Blpop(<<jobs>>, t), On("rpush", done)>>,
        <<Cmd("rpush"), Cmd("rpush"), Blpop(<<done, jobs>>, 1)>>) : t \in {0, 1, Forever}}

\* A pop that parks, a push, and a pop behind the one or the other.
PopBehindPark == Pair(<<Blpop(<<jobs>>, 1), Cmd("lpop")>>, <<Cmd("rpush")>>)
PopBehindPush == Pair(<<Blpop(<<jobs>>, 1)>>, <<Cmd("rpush"), Cmd("lpop")>>)

\* Transactions: run, poisoned, overfull, discarded, nested, with a BLPOP inside,
\* and the requests that need one and have none.
TxnScripts ==
  {Pair(txn, <<Cmd("rpush")>>) :
     txn \in {<<Cmd("multi"), Cmd("rpush"), Blpop(<<done>>, Forever), Cmd("exec"), Cmd("lpop")>>,
              <<Cmd("multi"), Cmd("lpop"), Cmd("invalid"), Cmd("exec"), Cmd("rpush")>>,
              <<Cmd("multi"), Cmd("rpush"), Cmd("multi"), Cmd("rpush"), Cmd("lpop"), Cmd("exec")>>,
              <<Cmd("multi"), Cmd("rpush"), Cmd("discard"), Cmd("multi"), On("rpush", text), Cmd("exec")>>,
              <<Cmd("exec"), Cmd("discard"), Cmd("invalid"), Blpop(<<done, text>>, 1),
                Blpop(<<jobs>>, Invalid)>>}}

\* Input that ends or breaks off: in the middle of a request, while parked, in
\* the middle of a transaction, after a protocol error, and over the limit.
ClosingScripts ==
  {Pair(a, <<Cmd("rpush")>>) :
     a \in {<<Cmd("lpop"), Blpop(<<jobs>>, Forever), Cmd("rpush"), Cmd("rpush")>>,
            <<Cmd("rpush"), Cmd("garbage"), Cmd("rpush")>>,
            <<Cmd("multi"), Cmd("blank"), Cmd("rpush"), Cmd("exec")>>}}

Without(scripts) == {[script |-> s, faults |-> {}] : s \in scripts}

\* Parked clients, with everything but a half-closed connection going wrong, all
\* but that and a vanishing peer, or nothing.
LoopCases ==
  Without(BlockingScripts)
    \cup {[script |-> PopBehindPark, faults |-> {"vanish", "signal", "poll", "accept"}],
          [script |-> PopBehindPush, faults |-> {"signal", "poll", "accept"}]}

\* Requests in two pieces and sockets for one reply.
RequestCases == Without(TxnScripts) \cup {[script |-> s, faults |-> {"half"}] : s \in ClosingScripts}

\* Bound: a client over the limit is told so again whenever its input is read.
MaxErrors == 2
FewErrors ==
  \A c \in Conns :
    Len(SelectSeq(client[c].replies, LAMBDA r : r.kind = "limit")) <= MaxErrors

===============================================================================
