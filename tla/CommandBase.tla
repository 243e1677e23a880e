----------------------------- MODULE CommandBase -----------------------------
(***************************************************************************)
(* What the command handlers of commands.cpp share: values, conversions,   *)
(* replies and the typed lookup.                                           *)
(*                                                                         *)
(* A handler is a function of the keyspace, the client's database, two     *)
(* clock readings t <= u and the command.  The first access of the handler *)
(* reads t, every later one reads u, so that the clock may move while the  *)
(* handler runs.  It returns [ks |-> keyspace, reply |-> reply].           *)
(*                                                                         *)
(* A string is a sequence of characters.  A list is a sequence of          *)
(* one-character elements, a set a set of labels and a hash a function     *)
(* from labels to strings.  The characters 0 to 9 are the digits.          *)
(***************************************************************************)
EXTENDS Integers, Sequences, SequencesExt

CONSTANTS
    Dbs, Keys, KeySize(_), kSampleWindow, Missing,
    Second,          \* clock ticks in a second
    LLMin, LLMax,    \* the range of long long
    NotInt           \* what ParseIntStrict rejects

ASSUME CommandBaseAssumption ==
    /\ Second \in Nat \ {0}
    /\ LLMin \in Int /\ LLMax \in Int /\ LLMin <= 0 /\ LLMax > 0
    /\ NotInt \notin Int

Minus == 10
Letter == 11
Nul == 12
Star == 13
Question == 14
Chars == 0 .. 14
Labels == 0 .. 2    \* the members of sets and the fields of hashes

ASSUME KeysAreStrings == Keys \subseteq Seq(Chars)

String(s) == [type |-> "string", data |-> s]
List(s) == [type |-> "list", data |-> s]
Hash(f) == [type |-> "hash", data |-> f]
SetOf(m) == [type |-> "set", data |-> m]
Values == [type : {"string", "list"}, data : Seq(Chars)]
          \cup [type : {"set"}, data : SUBSET Labels]
          \cup [type : {"hash"}, data : UNION {[f -> Seq(Chars)] : f \in SUBSET Labels}]

ValueSize(v) ==
    CASE v.type = "string" -> 16 + Len(v.data)
      [] v.type = "list"   -> 16 + 9 * Len(v.data)
      [] v.type = "set"    -> 16 + 17 * Cardinality(v.data)
      [] v.type = "hash"   -> 32 + MapThenSumSet(LAMBDA f : 17 + Len(v.data[f]), DOMAIN v.data)

INSTANCE Database

-----------------------------------------------------------------------------
\* strtoll and to_string on the characters above.
Number(digits) == FoldLeft(LAMBDA n, c : 10 * n + c, 0, digits)

IsNumber(s) ==
    LET body == IF s # <<>> /\ s[1] = Minus THEN Tail(s) ELSE s
    IN  body # <<>> /\ \A i \in DOMAIN body : body[i] \in 0 .. 9

ToNumber(s) == IF s[1] = Minus THEN -Number(Tail(s)) ELSE Number(s)

InRange(n) == LLMin <= n /\ n <= LLMax

ParseIntStrict(s) ==
    IF IsNumber(s) /\ InRange(ToNumber(s)) THEN ToNumber(s) ELSE NotInt

Digits[n \in Nat] == IF n < 10 THEN <<n>> ELSE Append(Digits[n \div 10], n % 10)

\* base + n * unit leaves long long on the way.
Overflows(base, n, unit) == ~InRange(n * unit) \/ ~InRange(base + n * unit)

Decimal(n) == IF n < 0 THEN <<Minus>> \o Digits[-n] ELSE Digits[n]

-----------------------------------------------------------------------------
OK == <<"ok">>
Nil == <<"nil">>
Int64(n) == <<"int", n>>
Bulk(s) == <<"bulk", s>>
Array(s) == <<"array", s>>
Error(e) == <<"error", e>>

WrongType == Error("wrongtype")
ErrNotInt == Error("notint")

\* The handler reached code whose behaviour C++ does not define.
Undefined == <<"undefined">>

Result(ks, reply) == [ks |-> ks, reply |-> reply]

IsError(reply) == reply[1] = "error"

\* GetTyped: the lookup, and what it found.
Found(ks, d, k, t) == Lookup(ks, d, k, t).table[d][k]

\* A key that a handler wants to find with a value of some type.
Kind(e, type) ==
    IF e = Missing THEN "missing" ELSE IF e.val.type = type THEN "found" ELSE "wrongtype"

\* The handlers that begin with GetTyped: the error if the key holds a value of another
\* type, otherwise what Then makes of the keyspace after the lookup and of the entry.
WithTyped(ks, d, t, k, type, Then(_, _)) ==
    LET Typed(looked, e) ==
            IF Kind(e, type) = "wrongtype" THEN Result(looked, WrongType) ELSE Then(looked, e)
    IN  Typed(Lookup(ks, d, k, t), Found(ks, d, k, t))

\* Mutant of GetOrCreate: the table is searched directly, past the lazy expiry.
GetOrCreateRaw(ks, d, k, t, v) ==
    IF ks.table[d][k] = Missing THEN Set(ks, d, k, v, 0) ELSE ks

\* Look a key up and create it without a deadline if it is missing
\* (GetOrCreateStringEntry, ListCreate, HashOrCreate, SetCreate and the first lines of
\* CmdPush).
GetOrCreate(ks, d, k, t, v) ==
    LET Create(looked) == IF looked.table[d][k] = Missing THEN Set(looked, d, k, v, 0) ELSE looked
    IN  Create(Lookup(ks, d, k, t))

\* The handlers that begin with GetOrCreate: the error if the key holds a value of another
\* type than v, otherwise what Then makes of the keyspace in which the key exists and of
\* the data it holds.
WithMade(ks, d, t, k, v, Then(_, _)) ==
    LET Typed(made) ==
            IF made.table[d][k].val.type # v.type THEN Result(made, WrongType)
            ELSE Then(made, made.table[d][k].val.data)
    IN  Typed(GetOrCreate(ks, d, k, t, v))

\* Mutant of Rewrite: the new value is stored with Set, which drops the deadline.
RewriteBySet(ks, d, k, data) ==
    Set(ks, d, k, [ks.table[d][k].val EXCEPT !.data = data], 0)

\* Change the data of the value of k in place.
Rewrite(ks, d, k, data) ==
    Poke(ks, d, k, [ks.table[d][k] EXCEPT !.val.data = data])
=============================================================================
