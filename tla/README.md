# PulseDB in TLA+

A TLA+ development of PulseDB, the Redis-like server under `src/`: modules that
model its keyspace, sorted sets, streams, event loop, wire protocol and start-up,
the TLC runs that check them on small instances, and TLAPS proofs of what holds
for every instance.

## The system

PulseDB is one process with one thread. `main` loads an RDB file into a store
and runs `server_run`, a `poll()` loop. Each turn reads from the clients that
have input, parses and runs their requests, accepts new clients, retries parked
`BLPOP`s, writes replies and removes closed clients.

| Part | State | Operations | Interacts with |
| --- | --- | --- | --- |
| Keyspace (`store.c`) | hash table of typed entries with an expiry | `lookup` (lazy expiry), `store_*` | every command handler, the wall clock |
| String, list, hash commands (`cmd_string.c`, `cmd_list.c`, `cmd_hash.c`) | none | one handler per command | keyspace, replies |
| Sorted sets (`store.c`, `cmd_zset.c`) | sorted array and hash index | `ZADD`, queries | keyspace |
| Geo (`geo.c`, `cmd_zset.c`) | none | encode, decode, distance | sorted sets |
| Streams (`store.c`, `cmd_stream.c`) | entries with increasing IDs, `last_id` | `XADD`, `XRANGE`, `XREAD` | keyspace, the wall clock |
| Event loop (`server.c`) | client array, buffers, parked requests, stop flag | the steps of one turn | peers, signals, the monotonic clock |
| Dispatch and transactions (`commands.c`, `txn.c`) | `MULTI` queue, poison flag | `command_process`, `EXEC`, retry | event loop, handlers |
| RESP parser, replies (`resp.c`, `reply.c`) | none; restarted on the buffer | parse, append | event loop, clients |
| RDB loader, start-up (`rdb.c`, `main.c`) | pending expiry | opcode loop, fall-back to empty | keyspace, the file |
| Configuration, utilities (`config.c`, `util.c`) | read-only values, buffers | parse, grow, consume | all |
| Client and benchmark (`tools/`, `bench/`) | unread replies | write a batch, read its replies | event loop, through sockets |

What makes it hard, although it has one thread:

* Every `lookup` reads the wall clock for itself. A key may expire between two
  lookups of one command, and the clock may be set back.
* Handlers check a type first and ignore the status of the calls that follow.
* A parked `BLPOP` is retried between other clients' commands, against a
  deadline, with requests pipelined behind it and a peer that may leave.
* Requests come in pieces, replies leave in pieces, and closing has to wait for
  them, or must not.
* Array and index of a sorted set change together while the index grows, and the
  keyspace doubles in the middle of the command that adds a key.
* The parser starts again with every piece that arrives, and clients write whole
  batches before they read.
* A dump may break off anywhere, after part of it has been stored.
* Stream IDs have to increase although the clock may not, up to `UINT64_MAX`.

`PROJECT.json` lists these hazards at the lines where they bite, with the
properties that cover them.

## Modules

| Module | Models |
| --- | --- |
| `KeyTypes` | entries (`store.h`), replies, integers of a given width |
| `Keyspace` | the keyspace with lazy expiry; one action per string, list and hash handler |
| `EagerKeyspace` | what it promises: keys vanish when they expire, commands happen at an instant |
| `KeyspaceProofs` | theorems about `Keyspace`; the refinement of the commands that read, `SET` and `INCR` |
| `KeyspaceRefinement` | `DEL`, lists and hashes, and the proof that `Keyspace` implements `EagerKeyspace` |
| `KeyTable` | the bucket array of the keyspace: chains, growth, unlinking of expired entries |
| `Rdb` | the RDB loader, filling a `KeyTable`, and what a file means |
| `Startup` | `main`: command line, load, serving, the end and crashes, again and again |
| `SortedSet` | array, hash index and the Z commands |
| `Geo` | cells, interleaved codes and the geo commands, on top of `SortedSet` |
| `ScoreBoard` | what a sorted set promises: queries answered from a table of scores |
| `Streams` | ID resolution, the X commands, and a reader that polls |
| `StreamsProofs` | theorems about `Streams` |
| `Server` | the event loop, dispatch, transactions and the list commands that meet parking |
| `Lists` | the compaction of the client array |
| `ServerMoves` | the vocabulary of the proofs about `Server`: structure, moves of a client, places of elements |
| `ServerHandlers`, `ServerStructure` | what handlers and steps do, in these terms; that every step keeps the structure |
| `ServerHistory`, `ServerElements` | what the moves do to the log of replies and to the elements |
| `ServerProofs` | theorems about `Server` |
| `Resp` | both parsers of `resp.c`, the writers of `reply.c` and of the clients, on bytes |
| `Wire` | a client and the server over bounded sockets; command table, `PING`, `ECHO`, `CONFIG GET` |
| `MCKeyspace`, `MCServer`, `MCSortedSet`, `MCStartup`, `MCStreams`, `MCWire` | instances for TLC |

Operators marked `Mutant:` are wrong variants of the operator that follows
them. No specification uses them. Substituted for the right ones, they show that
a property can fail.

### Keyspace

`store` is a function from keys to entries; `KeyTable` has the buckets behind it.
An action is a whole handler. It takes a sequence of clock readings, one for
each lookup, that does not decrease unless `ClockSteps` is `TRUE`. An expired
entry stays in `store` until a lookup runs into it. String values are integers
of the chosen width or words that do not parse. `now_ms() + n` wraps, as the
build does on overflow.

`RefinesEager` maps `store` to its live part and shows that lazy expiry cannot
be observed. In `EagerKeyspace` a command acts at one instant between its start
and its return. `DEL` and `EXISTS` with several keys are the exceptions, and
have an instant per key. `ErrorsChangeNothing` says that a command which answers
with an error has left every live key alone.

### KeyTable, Rdb and Startup

`table` is the array of chains and the count of `Store`. A node is its key and
entry. The commands are those of `Keyspace` that between them create, find,
change, unlink, delete and scan entries. `Map` is `Keyspace` on the function
that the table stands for, and `ServesKeyspace` says that every command served
is a step of it.

A file is a list of items and the cells that have reached the disk: a dump that
breaks off at any cell. A cell is a byte or a text. `LoadOpcode` is one turn of
`rdb_load`'s loop, and works on cells only. `Loads` and `Meaning` say what a file
means and work on items only. `AllOrNothing` compares the two when `main` is
about to listen.

`Startup` runs a process from `main`'s first line to its end. `Crash` kills it in
any phase. A fresh one finds whatever `Disk` allows at its path: nothing is ever
written back, and the file may have been replaced.

### SortedSet and Geo

The binary search, the move of a rescored member and the index with its growth
are as in `store.c`. Scores and members are integers in the order of the doubles
and strings they stand for. The index starts at `IndexSize` buckets (8 in the
code). The other types that a key may hold are one value of `type`.

In `Geo` coordinates are integers on a small map of `GEO_BITS` bits each (26 in
the code). Decoded positions are scaled, so that centres of cells are integers.
`GEOPOS` converts any score to an unsigned number, which C leaves undefined for a
negative one; `Casts` allows what builds do. The haversine formula is left as a
function of the two positions.

### Streams

An ID argument is a record that says which form its text has. Entries are their
IDs: field/value pairs are payload. `last_id` is the last ID of the list, which
is what the code keeps in step. The clock may go either way at any time. The
reader uses `XREAD` from the last ID it got, and starts afresh when the key is
deleted or overwritten.

### Server

`pc` is the place in the loop: `top`, `poll`, `read`, `process`, `exec`,
`service`, and `exit`, `stopped` after it. Beside it run the peers (`Connect`,
`Send`, `Receive`, `Leave`), the monotonic clock (`Tick`) and the signal handler
(`Signal`). The peers follow scripts of requests, `Size` units of input each, sent
in any pieces. A pushed element is named after the request that pushed it, so a
lost or duplicated one is visible.

* `in` is a count of units and of consumed requests. `out` is the sequence of
  all replies and the number of those written. A socket takes `SocketRoom`
  replies until its peer reads.
* `block_deadline` is the number of ticks left. It does not run below 0.
* `ProcessRequest` is one turn of `process_input`'s loop with all of
  `command_process`. `EXEC` runs its queue one command per step.
* `Accept` ends the reads, accepts, and takes the clock reading that
  `service_blocked` uses for all clients.
* The environment waits while `pc` is `process` or `exec`. These steps make no
  system call, except to read the clock when a client is parked. What happens
  meanwhile is not seen by them and commutes with them.
* The handlers here read no wall clock: lists do not expire, which is
  `OnlyStringsExpire`.
* `Cases` pairs a script with the faults it is run with.

### Resp and Wire

Bytes are one-character strings, with model values for CR, LF and NUL. The
parsers are operators from a buffer to a status, a value and a position, with the
limits of the code as constants. `Wire` puts them to work: `ClientWrite` passes on
any number of bytes that fit into the socket, `ServerRead` appends them and starts
the parser again, `ServerWrite` and `ClientRead` do the same the other way. The
client is `run_one` of `cli.c` with batches of one request and `run_pipeline` of
`bench.c` with larger ones. Commands are looked up in an array of slots as in
`commands.c`. Names and messages are one to five letters.

`PiecesInvisible` and `RepliesReadBack` compare with what the client encoded, not
with another run of the parser. Only for streams that are typed or have a byte
damaged is the reference the parser's own reading of the whole stream.

After a protocol error the server closes with input unread. TCP may then discard
replies on their way to the client; `Wire` delivers them.

## Runs

| Run | Checks | Shows |
| --- | --- | --- |
| `keyspace_commands` | `OnlyStringsExpire`, `NoEmptyCollection`, `ErrorsChangeNothing`, `RefinesEager` | all commands on two keys that may expire in the middle of a command |
| `keyspace_numbers` | `TypeOK`, `ExpiryOnlyFromSet`, `RefinesEager` | every increment of the width, lifetimes in ticks and seconds |
| `keyspace_clock` | `OnlyStringsExpire`, `PushAppliesAll` | a clock that may be set back between any two readings |
| `sortedset` | `TypeOK`, `Sorted`, `IndexAgrees`, `RefinesScoreBoard`, `GeoaddPlaces` | adding and rescoring with colliding hashes and a growing index; positions up to the edges of the map |
| `streams` | `TypeOK`, `StrictlyIncreasing`, `RangeExact`, `ReaderSeesAll` | all forms of IDs up to the limits, any clock |
| `startup` | `TableSound`, `AllOrNothing`, `ServesKeyspace`, `StartEnds` | every prefix of six dumps, crashes, expiry during the load; then commands on a table with collisions and growth |
| `wire` | `PiecesInvisible`, `RepliesReadBack`, `BatchesEnd` | requests and replies in any pieces, arguments that look like protocol, damaged streams, small sockets |
| `server_loop` | `TypeOK`, `OneReplyEach`, `OneHome`, `FirstInFirstOut`, `DeadlineKept`, `NoLostWakeup`, `RequestsExecuted`, `StopsOnSignal` | parked clients, timeouts, wake-ups, pipelines; peers that vanish, signals, failing `poll` and `accept` |
| `server_requests` | `TxnDiscipline`, `ExecAnswersQueue`, `OneReplyEach`, `OneHome`, `DrainBeforeClose` | transactions that run, are poisoned, overflow, nest, hold a `BLPOP`; peers that finish sending, protocol errors, the input limit, slow sockets |

Three runs show a statement of the repository that the code does not keep:

| Run | Property | Statement | What happens |
| --- | --- | --- | --- |
| `keyspace_px` | `SetExpiryAhead` | `README.md`: integer overflow is reported | `PX` near `INT64_MAX` overflows, and the key is gone |
| `keyspace_ttl` | `TtlRoundsUp` | `cmd_string.c:100`: "Round seconds up" | rounds to the nearest second |
| `wire_null` | `RequestsAreBulk` | `resp.c:223`: "a non-null array of bulk strings" | a null element is accepted, and has no string for `validate` to read |

Further statements hold only when they are read with care. Commands are
atomic (`README.md`) towards each other, not towards the clock: `EXISTS k k` may
answer 1 when `k` expires between the two lookups, which `EagerKeyspace` allows.
And "answer what it sent, then close" (`server.c:155`) does not hold for a
client that is parked when it finishes sending: it is dropped together with
unsent replies to its earlier requests, so `DrainBeforeClose` leaves it out.
"A client's unparsed input [is capped] at 256 MB" (`README.md:87`) is checked after
reading only: a client over the cap whose replies are not taken is still read.

### Bounds

* Keyspace: one or two keys, one or two values and fields, lists of at most
  `MaxLen` = 2, variadic commands with at most two arguments. Two are enough for
  one to succeed and the next to find the key expired. Integers have 4 bits
  (`INT64_MAX` = 7), so the limits are close; a second has two or three ticks.
  `RefinesEager` is checked with lifetimes that do not overflow:
  the overflow is the subject of `keyspace_px`.
* SortedSet and Geo: four members, three scores, an index that starts at one
  bucket and doubles twice, a map of four by four cells, with a corner of it, a
  point inside and a point outside. The scores are a negative one and codes of
  cells, so that `ZADD` and `GEOADD` meet.
* Startup: three keys, two of which collide until there are four buckets, an array
  that starts with one bucket and doubles twice, two clock readings, lists of one
  element. The dumps have every opcode, every length and integer encoding, a
  key twice and an expiry apart from its key.
* Wire: sockets of three bytes, five commands in a table of eight slots with a
  probe that wraps, batches of one and of up to four requests, integers of a
  width that holds all lengths. The limits on the elements of a request and on
  inline lines are small enough to be met.
* Streams: numbers up to 2, one stream of up to three entries.
* Server: two clients and up to six requests each, two list keys and one that
  holds a string, a queue of two commands, deadlines of at most one tick.
  `server_loop` has whole requests and sockets of three replies,
  `server_requests` requests in two pieces and sockets of one reply. Each case
  allows the faults it is about.
* `FewErrors` bounds, in `server_requests`, how often a client over the input
  limit is told so. The code appends the error again whenever it reads from such
  a client.

The views of the keyspace, stream, sorted set and start-up runs leave out the
last command and its reply, which no step reads. No symmetry is used.

### Fairness

`Server` assumes weak fairness of `ServerStep` and of `Tick`. The loop never
waits without end: sockets do not block and `poll` has a timeout of 10 ms or
1 s. Time passes. No fairness is assumed of the peers, of signals or of single
steps, and none is needed. `server_loop` lets `poll` and `accept` fail.

`Startup` assumes weak fairness of `MainStep`: until it serves, the process waits
for nothing. Starting, serving, stopping and crashing are left to the environment.

`Wire` assumes that both sides go on: the loop polls both directions in every
turn, and the client waits only in `write` and `read`. Weak fairness of the two
reads is written out with their guards, which are what enables them. The client
stops when it has its replies, so `wire` does not check for deadlock; that it gets
there is `BatchesEnd`.

## Proofs

For every value of the constants that satisfies the named assumptions of the
modules (`KeyTypesAssumption`, `KeyspaceAssumption`, `StreamsAssumption`,
`ServerAssumption`: the types of the constants, and that clock readings fit the
width). TLC evaluates them in the runs.

### Keyspace

| Theorem | States | Needs |
| --- | --- | --- |
| `TypeCorrect` | `TypeOK` | |
| `OnlyStringsCarryExpiry` | `OnlyStringsExpire` | |
| `CollectionsNeverEmpty` | `NoEmptyCollection` | |
| `PushesApplyAll` | `PushAppliesAll` | |
| `ErrorsAreHarmless` | `ErrorsChangeNothing` | |
| `ExpiryComesFromSet` | `ExpiryOnlyFromSet` | `~ClockSteps` |
| `LazyIsEager` | `RefinesEager` | `~ClockSteps`, `NoWrap` |

* The invariant is `IInv`. Its three parts are not inductive one by one: what a
  pop or an `HDEL` leaves behind is only known of entries that are well formed.
  `IInv` therefore puts all three on each entry (`GoodEntry`). There is a lemma
  for each `store_*` call, which takes good tables to good tables whatever
  instant its lookup reads, and a step for each command.
* `ErrorsChangeNothing`: a refused command has done nothing but look keys up, and
  what its last lookup removes is not live when it returns (`LookupLive`). A
  command refused at its second lookup has found its key at the first, and so
  removed nothing then. `HSET` and `HDEL` are
  never refused half-way, because the first field leaves a hash, which cannot
  expire (`HashSetOk`, `HashDelOk`).
* `ExpiryOnlyFromSet`: the store calls of lists and hashes store no string
  (`Tame`), and `INCR` puts back the expiry it found.
* `~ClockSteps` says that the wall clock is not set back. Otherwise `INCR` may find
  its key expired, start again from 0 without an expiry, and return at an
  instant at which the key was still live.
* `RefinesEager` (module `KeyspaceRefinement`) has one lemma per command. The
  instant at which the eager command happens is that of the first lookup. What
  later lookups find is what was live then, because only strings expire. A
  command that goes on after its first lookup goes on with a list, a hash or
  nothing, and one that finds a string in the place of a list is refused at once.
  Several pushes, assignments or deletions one after the other are compared with
  all at once (`PushedTwo`, `AssignedTwo`, `ClearedIs`), and the counts they
  report with cardinalities (`CountTwo`). What the lemmas need of the number of
  elements of a set is their hypothesis `Counts`, which `CountsHold` proves from
  the library's theorems. `NoWrap` says that no expiry `SET`
  accepts leaves `int64_t`; `keyspace_px` shows what happens otherwise.

### Streams

| Theorem | States |
| --- | --- |
| `TypeCorrect` | `TypeOK` |
| `StreamsIncrease` | `StrictlyIncreasing` |
| `RangesAreExact` | `RangeExact` |
| `ReadersMissNothing` | `ReaderSeesAll` |

For every width of the numbers, every length and every clock. Whichever way
`resolve_new_id` finds an ID, it accepts only one of the machine's width that
follows the last (`NewIdFollows`). The order is transitive, so a sequence
extended by it still increases (`AppendIncreasing`). An increasing sequence has
its entries between two bounds next to each other. The loop of `XRANGE`, which
stops at the first one past the end, therefore finds them all, and what `XREAD`
returns to a reader continues the prefix it has.

### Server

For any number of connections and keys, any scripts of requests, any sizes of
buffers, sockets and queues, and any interleaving of the loop with its peers, the
clock and signals:

| Theorem | States | Invariant |
| --- | --- | --- |
| `ServerTyped` | `TypeOK` | `Structure` |
| `TransactionsKeepDiscipline` | `TxnDiscipline` | `Structure` |
| `EveryRequestAnsweredOnce` | `OneReplyEach` | `History` |
| `ExecRunsItsQueue` | `ExecAnswersQueue` | `History` |
| `AnsweredThenClosed` | `DrainBeforeClose` | `Closing` |
| `EveryElementHasOneHome` | `OneHome` | `ElementsKept` |
| `ElementsLeaveInOrder` | `FirstInFirstOut` | `ElementsKept` |

* `ServerMoves` says what a step may do to one client: nothing, take a request
  and answer, queue or park it, begin or go on with an `EXEC`, write, close, be
  removed. `ServerHandlers` shows it of each handler and of each step of the loop.
  The other arguments are about these moves and not about the loop.
* `Structure` (module `ServerStructure`) adds to `TypeOK` and `TxnDiscipline` what they need to be inductive:
  no client is in the array or in the rest of the turn twice, the queue and the
  parked request are requests that were consumed, in order, and a connection
  that was not accepted is untouched.
* `History` reads the replies of a connection as a log. From the replies alone
  one can tell which transaction is open, which requests it has queued, and
  which replies belong to an array that is not complete. `OneReplyEach` and
  `ExecAnswersQueue` follow when no `EXEC` is half done, and need more when one is.
* `Closing` says what a client that is closed, or will be, has been told. It is an
  invariant because the end of the input is seen only after all of it is read.
* `ElementsKept` says of lists and replies that each element is known from the
  answer to its push, is somewhere, is in one place, and is behind those pushed
  before it. `OneHome` counts places and says nothing of order, so neither it
  nor `FirstInFirstOut` is inductive.
* The one use of induction is `Keep`, the compaction of the array. The provers
  cannot apply an induction rule to a formula. The lemmas therefore use that a set
  of numbers has a least one (`LeastNumbers`), which they carry as a hypothesis
  and `LeastNumbersHold` proves from the library's theorems.

### Only model-checked

* `DeadlineKept`, `NoLostWakeup`, `RequestsExecuted`, `StopsOnSignal`,
  `BatchesEnd` and `StartEnds`: liveness under fairness is out of the prover's
  reach.
* `SortedSet`, `Geo`, `KeyTable`, `Rdb`, `Startup`, `Resp` and `Wire`: growth of a
  table, search, parsing, loading and the interleaving of bits are recursive over
  their data, and what such a definition computes for every input cannot be proved
  here.

## Not modelled

* The 64 fixed buckets of a hash, which never grow; formatting of numbers and
  messages; glob patterns (a pattern is the set of keys it matches); memory
  allocation and the growth of buffers.
* Floating point: parsing and printing of doubles, the haversine formula and the
  units of distance, and the conversion of very long `BLPOP` timeouts.
* Inside texts: the RDB model reads a text at once, so a dump is not cut within
  one, and a text with a NUL byte, which the loader cuts, does not occur.
* A failing `fcntl` on an accepted socket; `socket`, `bind` and `listen` are one
  step that works or does not.
* In the client, the terminal, the splitting of typed lines and connecting; in
  the benchmark, measuring; the examples.

## Plan

1. An abstract server in which sessions execute whole requests atomically, and
   `Server` as a refinement of it.
2. Sorted sets and streams as entries of `Keyspace`, so that one table holds all
   the types.
