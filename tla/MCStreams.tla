------------------------------- MODULE MCStreams -------------------------------
(* Instances of Streams for TLC. *)
EXTENDS Streams

T(form, m, s) == [form |-> form, id |-> Id(m, s)]

\* Generated IDs, half generated ones, given ones and one that does not parse.
AllSpecs ==
  {T("*", 0, 0), T("bad", 0, 0)}
    \cup {T("ms-*", m, 0) : m \in U64} \cup {T("ms", m, 0) : m \in U64}
    \cup {T("ms-seq", m, q) : m \in U64, q \in U64}

\* Range ends that are open, inclusive, partial, unparsable, and the XREAD "$".
SomeBounds ==
  {T("-", 0, 0), T("+", 0, 0), T("$", 0, 0), T("ms-seq", 1, 1), T("ms", 1, 0),
   T("ms", 0, 0), T("bad", 0, 0)}

\* No step depends on the last reply.
StateView == <<db, taken, now, reader>>

===============================================================================
