-------------------------------- MODULE MCWire --------------------------------
(* Instances of Wire for TLC. *)
EXTENDS Wire

\* Names are one or two letters: ping, echo, config, one that answers with nested
\* arrays, and two that collide with it and are put around the end of the array.
Table == <<[name |-> <<"p">>, arity |-> -1, proc |-> "ping"],
           [name |-> <<"x">>, arity |-> 1, proc |-> "xread"],
           [name |-> <<"e">>, arity |-> 2, proc |-> "echo"],
           [name |-> <<"c">>, arity |-> -2, proc |-> "config"],
           [name |-> <<"i">>, arity |-> 2, proc |-> "incr"]>>

SmallHash(name) ==
  CASE name = << >>    -> 0
    [] name = <<"p">>  -> 1
    [] name = <<"c">>  -> 0
    [] OTHER           -> 6   \* x, e and i, and unknown names

LowerCase(c) == IF c = "P" THEN "p" ELSE IF c = "E" THEN "e" ELSE c

Answers == [xread |-> Array(<<Array(<<Bulk(<<"k">>), Null>>), Integer(0)>>), incr |-> Integer(-12)]

Reported == <<<< <<"d">>, << >> >>, << <<"h">>, <<"1", "0">> >>>>

Depth(requests, n) ==
  LET last(i) == IF i * n < Len(requests) THEN i * n ELSE Len(requests)
      batch(i) == SubSeq(requests, (i - 1) * n + 1, last(i))
  IN  [batches  |-> [i \in 1 .. ((Len(requests) + n - 1) \div n) |->
                       [bytes   |-> FlattenSeq([j \in 1 .. Len(batch(i)) |-> send_command(batch(i)[j])]),
                        replies |-> Len(batch(i))]],
       requests |-> [i \in 1 .. Len(requests) |-> [j \in 1 .. Len(requests[i]) |-> Bulk(requests[i][j])]],
       broken   |-> FALSE]

\* Arguments and names that look like the protocol's own bytes.
Sessions ==
  {<< << <<"P">> >>, << <<"e">>, <<CR, LF>> >>, << <<"z", CR, LF, "+">> >> >>,
   << << <<"x">> >>, << <<"c">>, <<"g">>, <<"*">> >>, << <<"p">>, << >> >> >>,
   << << <<"i">>, <<"a">> >>, << <<"E">>, <<"$", "1">> >>, << <<"e">>, <<NUL>> >>, << <<"p", NUL>>, <<"a">> >> >>,
   << << <<"e">> >>, << <<"c">>, <<LF>> >>, << <<"c">>, <<"g">> >>, << <<"p">>, <<"a">>, <<"a">> >> >>,
   << << <<"p", "p", "p", "p", "p">> >>, << <<"i">>, <<"a">> >>, << <<"x">> >>, << <<"x">> >>, << <<"P">> >> >>}

\* A stream that somebody types, or that is damaged.
Stream(bytes) ==
  LET whole == Requests(bytes)
  IN  [batches  |-> <<[bytes |-> bytes, replies |-> Len(whole.reqs) + (IF whole.why = "error" THEN 1 ELSE 0)]>>,
       requests |-> whole.reqs,
       broken   |-> whole.why = "error"]

Typed == {<<"p">> \o CRLF \o <<" ", LF>> \o <<"e", " ", " ", "b", LF>> \o <<"p", LF>>,
          <<"c", " ", "g", " ", "d", LF, "*", "0", CR, LF, "p", LF>>}

Samples == {send_command(<< <<"e">>, <<"a", "b">> >>) \o <<"p", LF>>,
            <<"e", " ", "a">> \o CRLF \o send_command(<< <<"p">> >>) \o <<"p", " ", LF>>}

\* One byte replaced by another, or dropped.
Damaged == UNION {{[s EXCEPT ![i] = c] : i \in 1 .. Len(s), c \in {"1", "7", "-", "*", " ", CR, LF}}
                    \cup {RemoveAt(s, i) : i \in 1 .. Len(s)} : s \in Samples}

NullArgument == {<<"*", "2", CR, LF>> \o reply_bulk(<<"e">>) \o reply_null \o <<"p", LF>>}

Tasks ==
  {Depth(s, n) : s \in Sessions, n \in {1, 4}}
    \cup {Stream(b) : b \in Typed \cup Damaged \cup NullArgument}

===============================================================================
