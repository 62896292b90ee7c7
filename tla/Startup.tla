-------------------------------- MODULE Startup --------------------------------
(***************************************************************************)
(* The life of the process (main.c): the command line, the RDB file, the   *)
(* server, and an end by its own doing or by a crash, any number of times. *)
(* Nothing is ever written back to the file.                               *)
(***************************************************************************)
EXTENDS Rdb

CONSTANTS ArgLists,    \* command lines: sequences of [opt, val]
          DefaultPath, \* [dir, dbfilename] without options
          Disk         \* what may be found at a path

VARIABLES phase,       \* "down", "args", "open", "load", "init" or "serve"
          cfg,         \* the path of the configuration
          code         \* the last exit code

vars == <<tableVars, rdbVars, phase, cfg, code>>

\* config_parse_args: options are taken in turn, later ones override.  An option
\* without a value, an unknown one and a bad port are errors; help ends it.
config_parse_args(args) ==
  LET take(c, a) ==
        IF c.rc # 0 THEN c
        ELSE CASE a.opt = "help"    -> [c EXCEPT !.rc = 1]
               [] a.opt = "bad"     -> [c EXCEPT !.rc = -1]
               [] a.opt = "dir"     -> [c EXCEPT !.path.dir = a.val]
               [] a.opt = "name"    -> [c EXCEPT !.path.dbfilename = a.val]
               [] OTHER             -> c   \* port and bind
  IN  FoldLeft(take, [rc |-> 0, path |-> DefaultPath], args)

\* The process is gone, and the store with it.
Gone(c) ==
  /\ phase' = "down"
  /\ code' = c
  /\ table' = store_create
  /\ file' = Missing /\ pos' = 0 /\ expiry_ms' = 0 /\ result' = "none"
  /\ cfg' = DefaultPath
  /\ UNCHANGED <<now, cmd, reply>>

Init ==
  /\ TableInit
  /\ file = Missing /\ pos = 0 /\ expiry_ms = 0 /\ result = "none"
  /\ phase = "down"
  /\ cfg = DefaultPath
  /\ code = 0

\* Someone starts the process.
Start ==
  /\ phase = "down"
  /\ phase' = "args"
  /\ UNCHANGED <<tableVars, rdbVars, cfg, code>>

ParseArgs ==
  /\ phase = "args"
  /\ \E args \in ArgLists :
       LET c == config_parse_args(args)
       IN  IF c.rc # 0 THEN Gone(IF c.rc > 0 THEN 0 ELSE 2)
           ELSE /\ phase' = "open"
                /\ cfg' = c.path
                /\ UNCHANGED <<tableVars, rdbVars, code>>

\* A fresh store, and the start of rdb_load.
Open ==
  /\ phase = "open"
  /\ \E f \in Disk[cfg] : rdb_open(f)
  /\ phase' = "load"
  /\ UNCHANGED <<tableVars, cfg, code>>

Load ==
  /\ phase = "load" /\ result = "none"
  /\ LoadOpcode(file.cells)
  /\ UNCHANGED <<cmd, reply, phase, cfg, code>>

\* A file that is broken or not supported leaves an empty store.
Loaded ==
  /\ phase = "load" /\ result # "none"
  /\ table' = IF result \in {"ok", "not found"} THEN table ELSE store_create
  /\ phase' = "init"
  /\ UNCHANGED <<now, cmd, reply, rdbVars, cfg, code>>

\* server_init listens, or cannot.
ServerInit ==
  /\ phase = "init"
  /\ \/ /\ phase' = "serve"
        /\ file' = Missing /\ pos' = 0 /\ expiry_ms' = 0 /\ result' = "none"
        /\ cfg' = DefaultPath
        /\ UNCHANGED <<tableVars, code>>
     \/ Gone(1)

\* server_run: commands.
Serve ==
  /\ phase = "serve"
  /\ TableNext
  /\ UNCHANGED <<rdbVars, phase, cfg, code>>

\* server_run returns.
Shutdown == phase = "serve" /\ Gone(0)

\* The process is killed.
Crash == phase # "down" /\ Gone(137)

MainStep == ParseArgs \/ Open \/ Load \/ Loaded \/ ServerInit

Next == Start \/ MainStep \/ Serve \/ Shutdown \/ Crash

\* Until it serves, the process waits for nothing.
Spec == Init /\ [][Next]_vars /\ WF_vars(MainStep)

-------------------------------------------------------------------------------
(* Properties *)

\* The table at a time, as a function.
Contents == Map!Live([k \in Keys |-> EntryAt(table, k)], now)

\* "a broken file never leaves us with half of its keys" (main): the server comes
\* up with every key of the file, its last value and its own expiry, or with none,
\* wherever the file breaks off and whatever expires while it is loaded.
AllOrNothing ==
  phase = "init" =>
    Contents = IF Loads(file) THEN Map!Live(Meaning(file), now)
                              ELSE [k \in Keys |-> Absent]

\* While the process serves, every command acts on the table as it does on the
\* function from keys to entries that Keyspace has in its place: chains, collisions
\* and growth cannot be observed.
ServesKeyspace ==
  [][phase = "serve" /\ phase' = "serve" => Map!Next]_vars

\* Loading comes to an end, for every file: the process serves or exits.
StartEnds == phase = "args" ~> phase \in {"serve", "down"}

===============================================================================
