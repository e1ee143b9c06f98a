----------------------------- MODULE BTreeNode -----------------------------
(***************************************************************************)
(* The leaf page of btree/btree.h.  Records grow down from the end of the  *)
(* page to _upper; an array of their offsets, sorted by key, grows up from *)
(* the header.  insert and find locate a key by binary search; a step of   *)
(* the model is one probe of a search, or the work before or after it.     *)
(*                                                                         *)
(* A value is a string, here its length and a name; keys are numbers.      *)
(* Sizes are in bytes.  Every page is a leaf (isLeaf is always true), so   *)
(* the find with which insert begins returns the page itself and is left   *)
(* out.                                                                    *)
(***************************************************************************)
EXTENDS Integers, Sequences

CONSTANTS
  Key,                 \* the keys inserted and looked for
  Value,               \* records [name, len]: the strings inserted
  PageSize, HeaderSize,
  OffsetSize,          \* sizeof(uint16_t)
  KeySize,             \* serialised size of a key
  LengthSize,          \* sizeof(size_t), which precedes a string
  LengthMod,           \* 256: deserialize reads one byte of the length
  ArgsSize,            \* sizeof(key) + sizeof(value), whatever the string's length
  MaxFillFactor        \* in percent: 90

MaxPageSlotSpace == PageSize - HeaderSize
RecordSize(v) == KeySize + LengthSize + v.len

ASSUME KeyAssumption == Key \subseteq Int
ASSUME SizeAssumption ==
  /\ PageSize \in Nat /\ HeaderSize \in Nat /\ HeaderSize < PageSize
  /\ OffsetSize \in Nat \ {0} /\ KeySize \in Nat \ {0} /\ LengthSize \in Nat
  /\ LengthMod \in Nat \ {0} /\ ArgsSize \in Nat /\ MaxFillFactor \in 0 .. 100
  /\ \A v \in Value : v.len \in Nat

\* What main.cpp's strings of at most 70 code points, of up to three bytes each,
\* give: a record and its offset fit into the part of the page that
\* MaxFillFactor leaves free.
RecordsFit ==
  \A v \in Value : 100 * (RecordSize(v) + OffsetSize) <= (100 - MaxFillFactor) * MaxPageSlotSpace

ASSUME RecordAssumption == RecordsFit

VARIABLES
  _upper,
  items,      \* the offset array; its length is _items_count
  record,     \* record[o]: key and value serialised at offset o
  op,         \* the call in progress
  stored      \* <<key, value>> pairs insert did not drop

pageVars == <<_upper, items, record, op, stored>>

NotFound == {}              \* a FindResult with InvalidPid: it has no data
Idle == [at |-> "idle"]

\* main sets _info, _upper and _padding only.  That _items_count and _pid are 0 is
\* assumed: the cache's array, from new unsigned char[], is not initialised, but
\* malloc takes 800 KiB from fresh pages of the kernel, which are zero.
PageInit ==
  /\ _upper = PageSize /\ items = << >> /\ record = << >>
  /\ op = Idle /\ stored = {}

\* getItemKeyValue; deserialize keeps the string's length modulo 256
KeyAt(i) == record[items[i]].key
Deserialized(v) == [v EXCEPT !.len = @ % LengthMod]

----------------------------------------------------------------------------
(* insert                                                                  *)

FreeSpace == MaxPageSlotSpace - (Len(items) * OffsetSize + (PageSize - _upper))

\* over the fill factor, or no room for the arguments' C++ objects
SplitsLate == FreeSpace < 0                                  \* mutant
NeedSplit ==
  \/ 100 * (MaxPageSlotSpace - FreeSpace) > MaxFillFactor * MaxPageSlotSpace
  \/ ArgsSize >= FreeSpace

\* a split is not implemented: the element is dropped and insert returns
InsertDropped(k, v) ==
  /\ op = Idle
  /\ NeedSplit
  /\ UNCHANGED pageVars

\* key and value serialised at offset o
Serialized(k, v, o) ==
  [i \in DOMAIN record \cup {o} |-> IF i = o THEN [key |-> k, val |-> v] ELSE record[i]]

\* store the record below _upper, and test the ends of the array
EndsOnly(k) == IF Len(items) = 0 \/ k > KeyAt(Len(items)) THEN Len(items) + 1 ELSE 1   \* mutant
AtEnds(k) ==
  CASE Len(items) = 0 -> 1
    [] Len(items) > 0 /\ k > KeyAt(Len(items)) -> Len(items) + 1
    [] Len(items) > 0 /\ k < KeyAt(1) -> 1
    [] OTHER -> 0

Insert(k, v) ==
  LET o == _upper - RecordSize(v) IN
  /\ op = Idle
  /\ ~NeedSplit
  /\ record' = Serialized(k, v, o)
  /\ _upper' = o
  /\ stored' = stored \cup {<<k, v>>}
  /\ op' = IF AtEnds(k) = 0
             THEN [at |-> "position", key |-> k, low |-> 1, high |-> Len(items), found |-> FALSE]
             ELSE [at |-> "place", key |-> k, low |-> AtEnds(k)]
  /\ UNCHANGED items

\* move the later offsets up by one and store the new one.  The move is a memcpy
\* of overlapping ranges, undefined in the standard; it is assumed to act as a
\* memmove, which glibc's memcpy for x86-64 is.
Place ==
  /\ op.at = "place"
  /\ items' = [i \in 1 .. Len(items) + 1 |->
                 CASE i < op.low -> items[i] [] i = op.low -> _upper [] OTHER -> items[i - 1]]
  /\ op' = Idle
  /\ UNCHANGED <<_upper, record, stored>>

----------------------------------------------------------------------------
(* find, and the binary search both use                                    *)

Find(k) ==
  /\ op = Idle
  /\ op' = [at |-> "find", key |-> k, low |-> 1, high |-> Len(items), found |-> FALSE]
  /\ UNCHANGED <<_upper, items, record, stored>>

Searching == op.at \in {"find", "position"}
Mid == (op.low + op.high) \div 2

RightOf == Mid + 1

Probe ==
  /\ Searching /\ op.low <= op.high /\ ~op.found
  /\ op' = CASE op.key > KeyAt(Mid) -> [op EXCEPT !.low = RightOf]
             [] op.key < KeyAt(Mid) -> [op EXCEPT !.high = Mid - 1]
             [] OTHER -> [op EXCEPT !.low = Mid, !.found = TRUE]
  /\ UNCHANGED <<_upper, items, record, stored>>

SearchEnds == Searching /\ (op.low > op.high \/ op.found)

FindResult ==
  /\ SearchEnds /\ op.at = "find"
  /\ op' = [at |-> "return", key |-> op.key,
            answer |-> IF op.found THEN {Deserialized(record[items[op.low]].val)} ELSE NotFound]
  /\ UNCHANGED <<_upper, items, record, stored>>

FindReturns ==
  /\ op.at = "return"
  /\ op' = Idle
  /\ UNCHANGED <<_upper, items, record, stored>>

ReturnPosition ==
  /\ SearchEnds /\ op.at = "position"
  /\ op' = [at |-> "place", key |-> op.key, low |-> op.low]
  /\ UNCHANGED <<_upper, items, record, stored>>

PageNext ==
  \/ \E k \in Key, v \in Value : Insert(k, v) \/ InsertDropped(k, v)
  \/ \E k \in Key : Find(k)
  \/ Place \/ Probe \/ FindResult \/ FindReturns \/ ReturnPosition

PageSpec == PageInit /\ [][PageNext]_pageVars

----------------------------------------------------------------------------
\* The page stays well formed: the offset array, with room for the record
\* being placed, ends below the records; every offset in it is that of a
\* record; and it is sorted by key.
PageWellFormed ==
  /\ HeaderSize + OffsetSize * (Len(items) + (IF op.at \in {"position", "place"} THEN 1 ELSE 0)) <= _upper
  /\ \A i \in DOMAIN items : items[i] \in DOMAIN record /\ items[i] >= _upper
  /\ \A i, j \in DOMAIN items : i < j => items[i] # items[j] /\ KeyAt(i) <= KeyAt(j)

\* find returns a value stored under its key, up to the length deserialize
\* keeps, exactly if there is one: nothing that insert stored gets lost in the
\* search.
FindExact ==
  op.at = "return" =>
    IF op.answer = NotFound
      THEN \A p \in stored : p[1] # op.key
      ELSE \E p \in stored : p[1] = op.key /\ op.answer = {Deserialized(p[2])}
=============================================================================
