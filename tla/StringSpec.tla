----------------------------- MODULE StringSpec -----------------------------
(***************************************************************************)
(* What the string commands promise, on a map from keys to values with     *)
(* deadlines, and with values seen as sequences of bits.  Keyspace is      *)
(* checked against it.                                                     *)
(***************************************************************************)
EXTENDS Integers, Sequences, FiniteSets, SequencesExt, FiniteSetsExt

CONSTANTS Keys,
          ByteBits,    \* bits of a byte (8)
          MaxInt,      \* the largest integer INCR accepts (2^63 - 1)
          MaxString    \* the longest value in bytes (32 MiB)

Absent == [type |-> "none", val |-> <<>>, at |-> 0]

MinInt == 0 - MaxInt - 1

\* What a command answers: a kind, a number and a value.
OK == <<"ok", 0, <<>>>>
Nil == <<"nil", 0, <<>>>>
Num(n) == <<"int", n, <<>>>>
Bulk(v) == <<"bulk", 0, v>>
Err(e) == <<"err", 0, e>>
Many(vs) == <<"many", 0, vs>>

Digits(n) ==
  IF n < 3 THEN <<n + 1>>
  ELSE IF n < 9 THEN <<(n \div 3) + 1, (n % 3) + 1>>
  ELSE <<(n \div 9) + 1, ((n \div 3) % 3) + 1, (n % 3) + 1>>

Formatted(n) == IF n < 0 THEN <<0>> \o Digits(0 - n) ELSE Digits(n)

\* Only the canonical form of an integer in range counts as one.
IsInteger(v) == \E n \in MinInt..MaxInt : Formatted(n) = v

IntegerOf(v) == CHOOSE n \in MinInt..MaxInt : Formatted(n) = v

\* A number has a sign at most, digits, and leading zeros if it likes.
IsNumber(v) ==
  LET d == IF v # <<>> /\ v[1] = 0 THEN Tail(v) ELSE v
  IN d # <<>> /\ \A i \in DOMAIN d : d[i] \in 1..3

NumberOf(v) ==
  LET d == IF v[1] = 0 THEN Tail(v) ELSE v
      n == FoldLeft(LAMBDA s, b : 3 * s + b - 1, 0, d)
  IN IF v[1] = 0 THEN 0 - n ELSE n

----------------------------------------------------------------------------
\* Bits.

Bits(v) == [i \in 1..(ByteBits * Len(v)) |->
              (v[((i - 1) \div ByteBits) + 1] \div 2^(ByteBits - 1 - ((i - 1) % ByteBits))) % 2]

Packed(bs) ==
  [i \in 1..(Len(bs) \div ByteBits) |->
     FoldLeft(LAMBDA n, b : 2 * n + b, 0, SubSeq(bs, (i - 1) * ByteBits + 1, i * ByteBits))]

Padded(s, n) == [i \in 1..(IF Len(s) > n THEN Len(s) ELSE n) |-> IF i <= Len(s) THEN s[i] ELSE 0]

\* Positions of a range whose ends count from the right when negative.
From(len, i) == IF i < 0 THEN len + i ELSE i

Within(len, s, e) == {i \in 0..(len - 1) : From(len, s) <= i /\ i <= From(len, e)}

Picked(s, at) == [i \in 1..Cardinality(at) |-> s[Min(at) + i]]

\* The bits of a range in bytes or in bits.
BitsWithin(v, s, e, unit) ==
  IF unit = "bits" THEN Within(ByteBits * Len(v), s, e)
  ELSE {i \in 0..(ByteBits * Len(v) - 1) : i \div ByteBits \in Within(Len(v), s, e)}

\* A bit of BITOP from the bits of its sources.
Combined(op, b) ==
  LET ones == {i \in DOMAIN b : b[i] = 1}
      others == ones \ {1}
      holds == CASE op = "AND" -> ones = DOMAIN b
                 [] op = "OR" -> ones # {}
                 [] op = "XOR" -> Cardinality(ones) % 2 = 1
                 [] op = "NOT" -> ones = {}
                 [] op = "DIFF" -> 1 \in ones /\ others = {}
                 [] op = "DIFF1" -> 1 \notin ones /\ others # {}
                 [] op = "ANDOR" -> 1 \in ones /\ others # {}
                 [] op = "ONE" -> Cardinality(ones) = 1
  IN IF holds THEN 1 ELSE 0

----------------------------------------------------------------------------
\* Want(m, t, r): what request r does to the map m at time t, and its reply.
\* A request has an operation, its keys and values, two numbers, an option.

Is(m, k) == m[k] # Absent

Effect(m, reply) == [m |-> m, reply |-> reply]

Put(m, k, v, at) == [m EXCEPT ![k] = [type |-> "string", val |-> v, at |-> at]]

Dropped(m, k) == [m EXCEPT ![k] = Absent]

AnyPresent(m, ks) == Cardinality({i \in DOMAIN ks : Is(m, ks[i])})

PutAll(m, ks, vs) ==
  [k \in Keys |-> IF \E i \in DOMAIN ks : ks[i] = k
                  THEN [type |-> "string", val |-> vs[Max({i \in DOMAIN ks : ks[i] = k})], at |-> 0]
                  ELSE m[k]]

Counted(m, k, n) ==
  LET old == IF Is(m, k) THEN m[k].val ELSE Formatted(0)
  IN IF ~IsInteger(old) THEN Effect(m, Err("integer"))
     ELSE IF IntegerOf(old) + n \notin MinInt..MaxInt THEN Effect(m, Err("overflow"))
     ELSE Effect(Put(m, k, Formatted(IntegerOf(old) + n), m[k].at), Num(IntegerOf(old) + n))

Expiring(m, t, k, when, o) ==
  LET set == m[k].at # 0
      takes == CASE o = "NX" -> ~set
                 [] o = "XX" -> set
                 [] o = "GT" -> set /\ when > m[k].at
                 [] o = "LT" -> ~set \/ when < m[k].at
                 [] OTHER -> TRUE
  IN IF ~Is(m, k) \/ ~takes THEN Effect(m, Num(0))
     ELSE Effect(IF when <= t THEN Dropped(m, k) ELSE [m EXCEPT ![k].at = when], Num(1))

Scalar == {"GET", "GETSET", "GETEX", "APPEND", "GETRANGE", "SETRANGE", "GETBIT", "SETBIT",
           "BITCOUNT", "BITPOS", "INCRBY", "DECRBY", "INCRBYFLOAT"}

\* The value is a hash, and the command or an option of it wants a string.
WrongType(m, r) ==
  \/ r.op \in Scalar /\ m[r.keys[1]].type = "hash"
  \/ r.op = "SET" /\ r.opt = "GET" /\ m[r.keys[1]].type = "hash"
  \/ r.op = "BITOP" /\ \E i \in 2..Len(r.keys) : m[r.keys[i]].type = "hash"
  \/ r.op = "HSET" /\ m[r.keys[1]].type = "string"

Want(m, t, r) ==
  LET k == r.keys[1]
      old == m[k].val
      v == r.vals[1]
      bits == Bits(old)
  IN
  CASE WrongType(m, r) -> Effect(m, Err("wrongtype"))
    [] r.op = "GET" -> Effect(m, IF Is(m, k) THEN Bulk(old) ELSE Nil)
    [] r.op = "SET" ->
         IF (r.opt = "NX" /\ Is(m, k)) \/ (r.opt = "XX" /\ ~Is(m, k)) THEN Effect(m, Nil)
         ELSE Effect(IF r.a # 0 /\ r.a <= t THEN Dropped(m, k)
                     ELSE Put(m, k, v, IF r.opt = "KEEPTTL" THEN m[k].at ELSE r.a),
                     IF r.opt # "GET" THEN OK ELSE IF Is(m, k) THEN Bulk(old) ELSE Nil)
    [] r.op = "GETSET" -> Effect(Put(m, k, v, 0), IF Is(m, k) THEN Bulk(old) ELSE Nil)
    [] r.op \in {"MSET", "BATCH", "LOCAL"} -> Effect(PutAll(m, r.keys, r.vals), OK)
    [] r.op = "MSETNX" ->
         IF AnyPresent(m, r.keys) > 0 THEN Effect(m, Num(0)) ELSE Effect(PutAll(m, r.keys, r.vals), Num(1))
    [] r.op = "MGET" ->
         Effect(m, Many([i \in DOMAIN r.keys |-> IF m[r.keys[i]].type = "string" THEN Bulk(m[r.keys[i]].val) ELSE Nil]))
    [] r.op \in {"EXISTS", "TOUCH"} -> Effect(m, Num(AnyPresent(m, r.keys)))
    [] r.op = "DEL" ->
         Effect([x \in Keys |-> IF x \in Range(r.keys) THEN Absent ELSE m[x]],
                Num(Cardinality({x \in Range(r.keys) : Is(m, x)})))
    [] r.op = "GETDEL" ->
         IF m[k].type = "string" THEN Effect(Dropped(m, k), Bulk(old)) ELSE Effect(m, Nil)
    [] r.op = "EXPIRE" -> Expiring(m, t, k, r.a, r.opt)
    [] r.op = "PERSIST" ->
         IF m[k].at = 0 THEN Effect(m, Num(0)) ELSE Effect([m EXCEPT ![k].at = 0], Num(1))
    [] r.op = "EXPIRETIME" ->
         Effect(m, Num(IF ~Is(m, k) THEN 0 - 2 ELSE IF m[k].at = 0 THEN 0 - 1 ELSE m[k].at))
    [] r.op = "GETEX" ->
         IF ~Is(m, k) THEN Effect(m, Nil)
         ELSE Effect(IF r.opt = "PERSIST" THEN [m EXCEPT ![k].at = 0]
                     ELSE IF r.a = 0 THEN m
                     ELSE IF r.a <= t THEN Dropped(m, k) ELSE [m EXCEPT ![k].at = r.a], Bulk(old))
    [] r.op = "INCRBY" -> Counted(m, k, r.a)
    [] r.op = "DECRBY" -> Counted(m, k, 0 - r.a)
    [] r.op = "INCRBYFLOAT" ->
         IF Is(m, k) /\ ~IsNumber(old) THEN Effect(m, Err("float"))
         ELSE LET n == (IF Is(m, k) THEN NumberOf(old) ELSE 0) + r.a
              IN Effect(Put(m, k, Formatted(n), m[k].at), Bulk(Formatted(n)))
    [] r.op = "RENAME" ->
         LET to == r.keys[2] IN
         IF k = to THEN Effect(m, Err("same"))
         ELSE IF ~Is(m, k) THEN Effect(m, Err("nokey"))
         ELSE IF r.opt = "NX" /\ Is(m, to) THEN Effect(m, Num(0))
         ELSE Effect([m EXCEPT ![to] = m[k], ![k] = Absent], Num(1))
    [] r.op = "APPEND" ->
         IF Len(old) + Len(v) > MaxString THEN Effect(m, Err("size"))
         ELSE Effect(Put(m, k, old \o v, m[k].at), Num(Len(old) + Len(v)))
    [] r.op = "GETRANGE" -> Effect(m, Bulk(Picked(old, Within(Len(old), r.a, r.b))))
    [] r.op = "SETRANGE" ->
         IF r.a < 0 \/ r.a + Len(v) > MaxString THEN Effect(m, Err("size"))
         ELSE IF v = <<>> THEN Effect(m, Num(Len(old)))
         ELSE LET s == [i \in DOMAIN Padded(old, r.a + Len(v)) |->
                          IF i - r.a \in DOMAIN v THEN v[i - r.a] ELSE Padded(old, r.a + Len(v))[i]]
              IN Effect(Put(m, k, s, m[k].at), Num(Len(s)))
    [] r.op = "GETBIT" ->
         IF r.a < 0 \/ r.a >= ByteBits * MaxString THEN Effect(m, Err("offset"))
         ELSE Effect(m, Num(Padded(bits, r.a + 1)[r.a + 1]))
    [] r.op = "SETBIT" ->
         IF r.a < 0 \/ r.a >= ByteBits * MaxString THEN Effect(m, Err("offset"))
         ELSE LET bs == Padded(bits, ByteBits * ((r.a \div ByteBits) + 1))
              IN Effect(Put(m, k, Packed([bs EXCEPT ![r.a + 1] = r.b]), m[k].at), Num(bs[r.a + 1]))
    [] r.op = "BITCOUNT" ->
         LET at == IF r.opt = "all" THEN 0..(Len(bits) - 1) ELSE BitsWithin(old, r.a, r.b, r.opt)
         IN Effect(m, Num(Cardinality({i \in at : bits[i + 1] = 1})))
    [] r.op = "BITPOS" ->
         LET open == r.vals[2] = <<>>   \* no end: zeros go on to the right
             unit == IF r.opt = "bits" THEN 1 ELSE ByteBits
             len == IF r.opt = "bits" THEN Len(bits) ELSE Len(old)
             first == IF r.opt = "all" THEN 0 ELSE IF From(len, r.a) < 0 THEN 0 ELSE From(len, r.a)
             at == IF open \/ r.opt = "all" THEN {i \in 0..(Len(bits) - 1) : i >= unit * first}
                   ELSE BitsWithin(old, r.a, r.b, r.opt)
             hits == {i \in at : bits[i + 1] = r.vals[1][1]}
         IN Effect(m, Num(IF hits # {} THEN Min(hits)
                          ELSE IF r.vals[1][1] = 0 /\ (open \/ r.opt = "all")
                          THEN (IF first >= len THEN unit * first ELSE Len(bits)) ELSE 0 - 1))
    [] r.op = "BITOP" ->
         LET src == [i \in 1..(Len(r.keys) - 1) |-> m[r.keys[i + 1]].val]
             n == Max({Len(src[i]) : i \in DOMAIN src})
             bs == [i \in DOMAIN src |-> Bits(Padded(src[i], n))]
             out == Packed([j \in 1..(ByteBits * n) |-> Combined(r.opt, [i \in DOMAIN src |-> bs[i][j]])])
         IN IF n = 0 THEN Effect(Dropped(m, k), Num(0))
            ELSE Effect(Put(m, k, out, 0), Num(n))
    [] r.op = "HSET" ->
         Effect([m EXCEPT ![k] = [type |-> "hash", at |-> m[k].at,
                                  val |-> IF v[1] \in Range(old) THEN old ELSE old \o v]],
                Num(IF v[1] \in Range(old) THEN 0 ELSE 1))
    [] r.op = "TYPE" -> Effect(m, Num(IF m[k].type = "none" THEN 0 ELSE IF m[k].type = "hash" THEN 2 ELSE 1))
    [] r.op = "KEYS" -> Effect(m, Num(Cardinality({x \in Keys : Is(m, x)})))
    [] r.op = "FLUSHDB" -> Effect([x \in Keys |-> Absent], OK)

=============================================================================
