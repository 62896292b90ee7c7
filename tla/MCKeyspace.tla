------------------------------ MODULE MCKeyspace ------------------------------
(* Instances of Keyspace for TLC. *)
EXTENDS Keyspace

Px(n) == [unit |-> "PX", n |-> n]
Ex(n) == [unit |-> "EX", n |-> n]

\* No option, a one-tick expiry, an expiry in seconds, an expiry option that is
\* overridden, one that is refused, text for a number, and an unknown option.
OptionLists == {<< >>, <<Px(1)>>, <<Ex(1)>>, <<Px(2), Px(1)>>,
                <<Px(1), Px(0)>>, <<Ex(INT64_MAX)>>, <<Px(Nil)>>,
                <<[unit |-> "unknown", n |-> Nil]>>}

\* Negative numbers cannot be written in a cfg.
RangeBounds == {-3, -1, 0, 1}
AllDeltas   == Int64

\* Enough for two keys to expire at the same and at different times.
FewOptions == {<< >>, <<Px(1)>>, <<Px(2)>>}

\* No step depends on the previous command or its reply.
StoreView == <<store, now>>

\* A time to live that the clock cannot be added to.
LongOptions == {<< >>, <<Px(INT64_MAX)>>}

===============================================================================
