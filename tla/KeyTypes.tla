------------------------------- MODULE KeyTypes -------------------------------
(***************************************************************************)
(* The values of the keyspace: store entries (store.h), the replies the    *)
(* command handlers write (reply.c), and the 64-bit integers both are made *)
(* of.  Strings, lists and hashes are covered.                             *)
(*                                                                         *)
(* A string value is either the decimal text of an integer, represented by *)
(* that integer, or some other text, a member of Words.                    *)
(***************************************************************************)
EXTENDS Integers, Sequences, FiniteSets

CONSTANTS Keys,       \* key names
          Words,      \* texts that parse_int64 rejects
          Elems,      \* list elements and hash values
          Fields,     \* hash field names
          Nil,        \* no value
          INT64_MAX   \* largest integer of the width in use

ASSUME KeyTypesAssumption ==
  /\ INT64_MAX \in Nat
  /\ Nil \notin Elems
  /\ Words \cap Int = {}

INT64_MIN == -INT64_MAX - 1
Int64     == INT64_MIN .. INT64_MAX
Text      == Int64 \cup Words

\* Two's complement wrap-around of the sum of two non-negative integers.
Wrap(n) == IF n > INT64_MAX THEN n - 2 * (INT64_MAX + 1) ELSE n

-------------------------------------------------------------------------------
(* Entries.  The union of StoreEntry is a differently named field per type. *)

Absent == [type |-> "none", expires_at |-> 0]

StringEntry == [type : {"string"}, str : Text, expires_at : Int64]
ListEntry   == [type : {"list"}, list : Seq(Elems), expires_at : Int64]
HashEntry   == [type : {"hash"}, hash : [Fields -> Elems \cup {Nil}],
                expires_at : Int64]

Entry == {Absent} \cup StringEntry \cup ListEntry \cup HashEntry

NewString(v, at) == [type |-> "string", str |-> v, expires_at |-> at]

\* create_entry callocs the entry, so a new collection has no expiry.
NewList == [type |-> "list", list |-> << >>, expires_at |-> 0]
NewHash == [type |-> "hash", hash |-> [f \in Fields |-> Nil], expires_at |-> 0]

HashFields(e) == {f \in Fields : e.hash[f] # Nil}

entry_is_expired(e, t) == e.expires_at # 0 /\ t > e.expires_at

-------------------------------------------------------------------------------
(* Replies. *)

OkReply      == [kind |-> "ok"]
NilReply     == [kind |-> "nil"]
ErrorReply   == [kind |-> "error"]
IntReply(n)  == [kind |-> "int", n |-> n]
BulkReply(v) == [kind |-> "bulk", v |-> v]
TypeReply(t) == [kind |-> "type", t |-> t]
ArrayReply(s) == [kind |-> "array", items |-> s]

\* The keys that KEYS reports, in the unspecified order of the bucket array.
KeysReply(S) == [kind |-> "keys", keys |-> S]

\* The field/value pairs of HGETALL, in the order of the hash buckets.
PairsReply(h) == [kind |-> "pairs", pairs |-> h]

\* An optional bulk: one element of the HMGET array.
BulkOrNil(v) == IF v = Nil THEN NilReply ELSE BulkReply(v)

-------------------------------------------------------------------------------
(* Arguments.  A variadic command gets one or two of them: two are enough  *)
(* for one to succeed and the next to fail.                                *)

Args(S) == {<<x>> : x \in S} \cup {<<x, y>> : x \in S, y \in S}

===============================================================================
