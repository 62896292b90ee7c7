---------------------------------- MODULE Resp ----------------------------------
(***************************************************************************)
(* The wire format: the restartable parser of resp.c, and the writers of   *)
(* reply.c and of the clients.  Bytes are one-character strings, and the   *)
(* model values CR, LF and NUL.                                            *)
(***************************************************************************)
EXTENDS Integers, Sequences, FiniteSets, SequencesExt

CONSTANTS CR, LF, NUL,
          MaxNumberLine,  \* longest line with a number (32 in the code)
          MaxNumber,      \* longest number in it (20)
          INT64_MAX,
          RESP_MAX_BULK_LEN, RESP_MAX_ARRAY_LEN, RESP_MAX_INLINE_LEN, RESP_MAX_DEPTH

Digits == <<"0", "1", "2", "3", "4", "5", "6", "7", "8", "9">>
CRLF   == <<CR, LF>>

\* RespValue, by type.
Simple(s)  == [type |-> "simple", str |-> s]
Error(s)   == [type |-> "error", str |-> s]
Integer(n) == [type |-> "integer", integer |-> n]
Bulk(s)    == [type |-> "bulk", str |-> s]
Array(es)  == [type |-> "array", elements |-> es]
Null       == [type |-> "null"]

\* RespParseStatus, with the value and the position behind it when it is OK.
OK(v, next) == [st |-> "ok", v |-> v, next |-> next]
INCOMPLETE  == [st |-> "incomplete", v |-> 0, next |-> 1]
ERROR       == [st |-> "error", v |-> 0, next |-> 1]

\* What becomes of a result: anything but OK is passed on.
Then(r, Next(_)) == IF r.st = "ok" THEN Next(r) ELSE r

-------------------------------------------------------------------------------
(* resp.c.  The position of a byte is its index in buf. *)

\* Mutant: a line feed that has not arrived yet is taken for a missing one.
LineEndInOnePiece(buf, pos, max_line) ==
  LET stops == {i \in pos .. Len(buf) : buf[i] = CR \/ i - pos > max_line}
      i     == Min(stops)
  IN  CASE stops = {} -> IF Len(buf) + 1 - pos > max_line THEN ERROR ELSE INCOMPLETE
        [] stops # {} /\ buf[i] = CR /\ i < Len(buf) /\ buf[i + 1] = LF -> OK(i, i + 2)
        [] OTHER -> ERROR

\* The value is the position of the carriage return.
find_line_end(buf, pos, max_line) ==
  LET stops == {i \in pos .. Len(buf) : buf[i] = CR \/ i - pos > max_line}
      i     == Min(stops)
  IN  CASE stops = {} -> IF Len(buf) + 1 - pos > max_line THEN ERROR ELSE INCOMPLETE
        [] stops # {} /\ buf[i] = CR /\ i = Len(buf) -> INCOMPLETE
        [] stops # {} /\ buf[i] = CR /\ i < Len(buf) /\ buf[i + 1] = LF -> OK(i, i + 2)
        [] OTHER -> ERROR

\* What an int64 overflow leaves in the usual build.
Wrap(n) == ((n + INT64_MAX + 1) % (2 * (INT64_MAX + 1))) - INT64_MAX - 1

\* The number of a text, or ERROR.
parse_number(text) ==
  LET neg    == text # << >> /\ text[1] = "-"
      digits == IF neg THEN Tail(text) ELSE text
      v[i \in 0 .. Len(digits)] ==
        IF i = 0 THEN 0 ELSE Wrap(v[i - 1] * 10 + SelectInSeq(Digits, LAMBDA d : d = digits[i]) - 1)
  IN  IF /\ digits # << >>
         /\ Len(text) <= MaxNumber
         /\ \A i \in 1 .. Len(digits) : digits[i] \in ToSet(Digits)
      THEN OK(IF neg THEN Wrap(-v[Len(digits)]) ELSE v[Len(digits)], 0)
      ELSE ERROR

read_number_line(buf, pos) ==
  Then(find_line_end(buf, pos, MaxNumberLine), LAMBDA line :
    Then(parse_number(SubSeq(buf, pos, line.v - 1)), LAMBDA n : OK(n.v, line.next)))

\* h: the length, and where the payload begins.
parse_bulk(buf, pos) ==
  Then(read_number_line(buf, pos), LAMBDA h :
    CASE h.v = -1 -> OK(Null, h.next)
      [] h.v < -1 \/ h.v > RESP_MAX_BULK_LEN -> ERROR
      [] OTHER -> LET end == h.next + h.v
                  IN  IF end + 1 > Len(buf) THEN INCOMPLETE
                      ELSE IF SubSeq(buf, end, end + 1) = CRLF
                           THEN OK(Bulk(SubSeq(buf, h.next, end - 1)), end + 2)
                           ELSE ERROR)

\* A status or error line.
parse_line(buf, pos, type) ==
  Then(find_line_end(buf, pos, RESP_MAX_INLINE_LEN), LAMBDA line :
    OK([type |-> type, str |-> SubSeq(buf, pos, line.v - 1)], line.next))

\* parse_value and parse_array: at [pos, depth, n] the sequence of the n values that
\* begin at pos.
parse_values(buf, bulk_only) ==
  LET parse[pos \in 1 .. Len(buf) + 1, depth \in 0 .. RESP_MAX_DEPTH + 1,
            n \in 0 .. RESP_MAX_ARRAY_LEN] ==
        LET array(h) ==
              CASE h.v = -1 -> OK(Null, h.next)
                [] h.v < -1 \/ h.v > RESP_MAX_ARRAY_LEN -> ERROR
                [] OTHER -> Then(parse[h.next, depth + 1, h.v], LAMBDA es : OK(Array(es.v), es.next))
            value(type) ==
              CASE type = "$" -> parse_bulk(buf, pos + 1)
                [] bulk_only /\ type # "$" -> ERROR
                [] ~bulk_only /\ type = "*" -> Then(read_number_line(buf, pos + 1), array)
                [] ~bulk_only /\ type = "+" -> parse_line(buf, pos + 1, "simple")
                [] ~bulk_only /\ type = "-" -> parse_line(buf, pos + 1, "error")
                [] ~bulk_only /\ type = ":" ->
                     Then(read_number_line(buf, pos + 1), LAMBDA h : OK(Integer(h.v), h.next))
                [] OTHER -> ERROR
        IN  IF n = 0 THEN OK(<< >>, pos)
            ELSE Then(IF depth > RESP_MAX_DEPTH THEN ERROR
                      ELSE IF pos > Len(buf) THEN INCOMPLETE ELSE value(buf[pos]), LAMBDA first :
                   Then(parse[first.next, depth, n - 1], LAMBDA rest :
                     OK(<<first.v>> \o rest.v, rest.next)))
  IN  parse

\* The words of a line, which spaces separate.
Words(line) ==
  LET blank(i) == i \notin 1 .. Len(line) \/ line[i] = " "
      starts   == {i \in 1 .. Len(line) : ~blank(i) /\ blank(i - 1)}
      ends     == {i \in 1 .. Len(line) : ~blank(i) /\ blank(i + 1)}
      nth(set, n) == CHOOSE i \in set : Cardinality({j \in set : j <= i}) = n
  IN  [n \in 1 .. Cardinality(starts) |-> SubSeq(line, nth(starts, n), nth(ends, n))]

parse_inline(buf) ==
  LET nl   == SelectInSeq(buf, LAMBDA c : c = LF)
      line == SubSeq(buf, 1, nl - (IF nl > 1 /\ buf[nl - 1] = CR THEN 2 ELSE 1))
      ws   == Words(line)
  IN  CASE nl = 0 /\ Len(buf) > RESP_MAX_INLINE_LEN -> ERROR
        [] nl = 0 /\ Len(buf) <= RESP_MAX_INLINE_LEN -> INCOMPLETE
        [] nl - 1 > RESP_MAX_INLINE_LEN -> ERROR
        [] OTHER -> OK(Array([i \in 1 .. Len(ws) |-> Bulk(ws[i])]), nl + 1)

resp_parse_command(buf) ==
  IF buf = << >> THEN INCOMPLETE
  ELSE IF buf[1] # "*" THEN parse_inline(buf)
  ELSE Then(read_number_line(buf, 2), LAMBDA h :
         IF h.v \notin 0 .. RESP_MAX_ARRAY_LEN THEN ERROR
         ELSE Then(parse_values(buf, TRUE)[h.next, 1, h.v], LAMBDA es : OK(Array(es.v), es.next)))

resp_parse_reply(buf) ==
  Then(parse_values(buf, FALSE)[1, 0, 1], LAMBDA r : OK(r.v[1], r.next))

-------------------------------------------------------------------------------
(* Writers. *)

\* printf of an integer.
Decimal(n) ==
  LET text[i \in 0 .. (IF n < 0 THEN -n ELSE n)] ==
        (IF i < 10 THEN << >> ELSE text[i \div 10]) \o <<Digits[(i % 10) + 1]>>
  IN  IF n < 0 THEN <<"-">> \o text[-n] ELSE text[n]

reply_simple(msg) == <<"+">> \o msg \o CRLF

\* Mutant: the message as it is.
reply_error_raw(msg) == <<"-">> \o msg \o CRLF

\* "Error lines cannot contain CR or LF."
reply_error(msg) ==
  <<"-">> \o [i \in 1 .. Len(msg) |-> IF msg[i] \in {CR, LF} THEN " " ELSE msg[i]] \o CRLF

reply_integer(val) == <<":">> \o Decimal(val) \o CRLF

reply_bulk(data) == <<"$">> \o Decimal(Len(data)) \o CRLF \o data \o CRLF

reply_null == <<"$", "-", "1">> \o CRLF

reply_array(count) == <<"*">> \o Decimal(count) \o CRLF

\* A request as cli.c and bench.c write it.
send_command(argv) ==
  reply_array(Len(argv)) \o FlattenSeq([i \in 1 .. Len(argv) |-> reply_bulk(argv[i])])

===============================================================================
