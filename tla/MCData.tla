------------------------------- MODULE MCData --------------------------------
(* The data types, what keeps them and the services around the server, one component per behaviour.  *)
EXTENDS Integers, Sequences, FiniteSets, TLC

CONSTANTS None, Parts, k1, k2

VARIABLES part,   \* the component this behaviour is about
    conf, mem, log, snap, copy, dead, torn, sent, defs, ids, topics, mgr, workers, calls, role,
    stats, handled, accepted, astray, db, now, jobs, agreed, steps

mcVars == <<part, conf, mem, log, snap, copy, dead, torn, sent, defs, ids, topics, mgr, workers, calls, role,
    stats, handled, accepted, astray, db, now, jobs, agreed, steps>>

-----------------------------------------------------------------------------
(* Two keys; IDs up to a few milliseconds of two sequence numbers; chunks of two entries.  *)

XAdd(id, trim, p) == [op |-> "xadd", k |-> k1, id |-> id, trim |-> trim, policy |-> p, nomk |-> FALSE]
Cut(b, n, l) == [by |-> b, arg |-> n, limit |-> l]
XTrim(trim, p) == [op |-> "xtrim", k |-> k1, trim |-> trim, policy |-> p]
Ids(o, s, p) == [op |-> o, k |-> k1, g |-> "g", ids |-> s, policy |-> p]
Group(o, g, id) == [op |-> o, k |-> k1, g |-> g, id |-> id, mk |-> TRUE]
Member(o, c) == [op |-> o, k |-> k1, g |-> "g", c |-> c]
Read(g, c, ks, n, noack) == [op |-> "read", k |-> k1, g |-> g, c |-> c, streams |-> ks, count |-> n, noack |-> noack]
XClaim(c, s, idle, force, just) ==
    [op |-> "claim", k |-> k1, g |-> "g", c |-> c, ids |-> s, idle |-> idle, force |-> force, justid |-> just]
AutoClaim(c, n) == [op |-> "autoclaim", k |-> k1, g |-> "g", c |-> c, start |-> 0, count |-> n, idle |-> 1, justid |-> FALSE]
Auto == <<"auto">>
News == <<<<k1, -1>>>>

\* A stream of four entries in two chunks, read by a group that has two of them pending.
Position(l, p) == [last |-> l, read |-> l - 1, cons |-> [c \in {"x"} |-> 0],
                   pend |-> [id \in p |-> [c |-> "x", at |-> 0, n |-> 1]]]
Stored4(groups) == [entries |-> <<2, 3, 4, 5>>, last |-> 5, maxDel |-> 0, added |-> 4, groups |-> groups]
Fresh == [k \in {k1, k2} |-> None]
Held == (k1 :> Stored4([g \in {"g"} |-> Position(4, {2, 4})])) @@ (k2 :> None)
Both == (k1 :> Stored4([g \in {"g", "h"} |-> IF g = "g" THEN Position(5, {4}) ELSE Position(3, {2})])) @@ (k2 :> None)

Server == [requests |-> {}, spill |-> 0, durable |-> TRUE, fails |-> TRUE, fits |-> {{k1, k2}}, saves |-> TRUE,
           sent |-> 3, clocks |-> {1}, streams |-> Held]
StrDeployments ==
    <<\* chunks that fill, spill, are trimmed and cut, without and with a journal
     [Server EXCEPT !.streams = Fresh, !.spill = 2, !.sent = 7, !.saves = FALSE, !.durable = FALSE, !.fails = FALSE,
        !.clocks = {1, 2, 3}, !.requests = {XAdd(Auto, None, None), XTrim(Cut("maxlen", 2, 1), "keep"), Ids("xdel", {3, 4}, None)}],
     [Server EXCEPT !.spill = 2, !.clocks = {3}, !.sent = 4,
        !.requests = {XAdd(Auto, None, None), XAdd(Auto, Cut("maxlen", 2, 0), None), XTrim(Cut("minid", 4, 0), "keep"),
                      XTrim(Cut("maxlen", 1, 1), "keep"), Ids("xdel", {3, 5}, None)}],
     \* IDs given in part or in full, memory that runs short, keys that go
     [Server EXCEPT !.streams = Fresh, !.saves = FALSE, !.fits = {{k1, k2}, {}}, !.clocks = {0, 2},
        !.requests = {XAdd(Auto, None, None), XAdd(<<"partial", 1>>, Cut("minid", 3, 0), None), XAdd(<<"id", 2>>, None, None),
                      [XAdd(Auto, None, None) EXCEPT !.nomk = TRUE], Group("create", "g", -1),
                      [op |-> "rename", k |-> k1, to |-> k2], [op |-> "del", k |-> k2]}],
     \* groups, consumers and their pending entries
     [Server EXCEPT !.requests =
        {Group("create", "h", 3), Group("destroy", "g", 0), Group("setid", "g", 3), Member("consumer", "y"),
         Member("delconsumer", "x"), Read("g", "y", News, 1, FALSE), Read("g", "y", News, 2, TRUE),
         Read("g", "x", <<<<k1, 0>>>>, 1, FALSE), Ids("xack", {2}, None), Ids("xdel", {4}, None)}],
     [Server EXCEPT !.fits = {{k1, k2}, {}}, !.requests =
        {Ids("xdel", {2}, None), XClaim("y", {2, 3, 4}, 2, TRUE, FALSE), XClaim("x", {4}, 0, FALSE, TRUE), AutoClaim("y", 1),
         Member("delconsumer", "y"), Read("g", "x", News, 9, FALSE)}],
     \* two groups and the policies for what they refer to
     [Server EXCEPT !.streams = Both, !.requests =
        {XAdd(Auto, Cut("maxlen", 2, 0), "del"), XTrim(Cut("maxlen", 2, 0), "del"), Ids("xdelex", {2, 3}, "del"),
         Ids("xackdel", {4, 5}, "del"), Ids("xackdel", {4}, "keep"), Ids("xdelex", {3}, "keep")}],
     [Server EXCEPT !.streams = Both, !.clocks = {3}, !.sent = 4, !.requests =
        {XAdd(Auto, Cut("maxlen", 2, 0), "acked"), XTrim(Cut("minid", 5, 2), "acked"), Ids("xdelex", {2, 3, 5}, "acked"),
         Ids("xackdel", {4}, "acked"), Read("h", "x", News, 2, FALSE), [Ids("xack", {2, 4}, None) EXCEPT !.g = "h"]}],
     \* one read of two streams, the second of which may fail
     [Server EXCEPT !.fits = {{k1, k2}, {k1}}, !.requests =
        {Read("g", "x", <<<<k1, -1>>, <<k2, -1>>>>, 1, FALSE), [Group("create", "g", 0) EXCEPT !.k = k2],
         [XAdd(Auto, None, None) EXCEPT !.k = k2]}]>>
Str == INSTANCE Streams WITH ChunkSize <- 2, SeqCount <- 2, Keys <- {k1, k2}, Deployments <- StrDeployments

-----------------------------------------------------------------------------
(* Webhooks: one hook of each kind.  *)

Out(v, t) == [kind |-> "outbound", topic |-> t, v |-> v, enabled |-> TRUE, opens |-> TRUE, from |-> "0", deadLetter |-> TRUE,
              rate |-> 1, maxLen |-> 0, valid |-> TRUE, mode |-> "none", secret |-> ""]
In(v) == [kind |-> "inbound", topic |-> "t", v |-> v, enabled |-> TRUE, opens |-> TRUE, from |-> "0", deadLetter |-> TRUE,
          rate |-> 1, maxLen |-> 1, valid |-> TRUE, mode |-> "token", secret |-> "s"]
Hooked(i, o) == [h \in {"in", "out"} |-> IF h = "in" THEN i ELSE o]
Change(o, h, d) == [op |-> o, h |-> h, def |-> d]
Web0 == [defs |-> Hooked(None, Out(1, "t")), edits |-> {}, outcomes |-> {"ok"}, attempts |-> 2, faults |-> FALSE,
         flips |-> FALSE, crashes |-> FALSE, messages |-> 2, secrets |-> {"s"}, producers |-> {"t"}, disturbances |-> 0]
WebDeployments ==
    {\* commands and deliveries that fail, restarts
     [Web0 EXCEPT !.faults = TRUE, !.outcomes = {"ok", "retry", "refused"}, !.messages = 3],
     [Web0 EXCEPT !.crashes = TRUE, !.flips = TRUE, !.disturbances = 2],
     \* definitions that change while workers run
     [Web0 EXCEPT !.edits = {Change("update", "out", Out(2, "t")), Change("update", "out", [Out(2, "t") EXCEPT !.enabled = FALSE])},
        !.disturbances = 1, !.messages = 1],
     [Web0 EXCEPT !.edits = {Change("update", "out", Out(2, "u")), Change("delete", "out", None)}, !.disturbances = 1, !.messages = 1],
     \* requests that come in
     [Web0 EXCEPT !.defs = Hooked(In(1), Out(1, "t")), !.producers = {}, !.messages = 2, !.faults = TRUE],
     [Web0 EXCEPT !.defs = Hooked(None, None), !.secrets = {"s", "x"}, !.edits =
        {Change("create", "in", [In(1) EXCEPT !.rate = 0]), Change("update", "in", [In(2) EXCEPT !.secret = ""]),
         Change("update", "in", [In(2) EXCEPT !.mode = "none"]), Change("create", "in", [In(1) EXCEPT !.valid = FALSE]),
         Change("delete", "in", None)},
        !.producers = {}, !.disturbances = 3, !.messages = 1, !.faults = TRUE]}
Web == INSTANCE Webhooks WITH Hooks <- {"in", "out"}, Topics <- {"t", "u"}, Callers <- {"loop", "api"}, Loop <- "loop", Batch <- 2, MaxWebhooks <- 2, DefaultRate <- 1, Deployments <- WebDeployments

-----------------------------------------------------------------------------
(* Keyspace: three keys, bytes of three bits, integers from -5 to 4, values of up to four bytes.  *)

Rq(o, ks, vs, a, b, w) == [op |-> o, keys |-> ks, vals |-> vs, a |-> a, b |-> b, opt |-> w]
On(o, k) == Rq(o, <<k>>, <<<<>>>>, 0, 0, "")
SetTo(k, v) == Rq("SET", <<k>>, <<v>>, 0, 0, "")
With(o, k, v, a, b, w) == Rq(o, <<k>>, <<v>>, a, b, w)
Pair(o, v, w) == Rq(o, <<"p", "q">>, <<v, w>>, 0, 0, "")
Field(k, f, w) == With("HSET", k, <<f>>, 0, 0, w)
Plain == [encoding |-> TRUE, compression |-> FALSE, shapes |-> FALSE, packed |-> TRUE, max |-> 0, seed |-> <<>>, requests |-> {},
          queued |-> {}, workers |-> {1}, background |-> {}, limits |-> {}, ticks |-> 0, steps |-> 3, audited |-> TRUE, scratch |-> 10000000]
Runs == <<5, 5, 5>>
Shaped(t) == <<4, t, 5, 6>>
Reads == {On("GET", "p"), On("EXPIRETIME", "p"), On("TYPE", "p"), On("KEYS", "p"), Rq("MGET", <<"p", "q", "p">>, <<<<>>>>, 0, 0, ""),
          Rq("EXISTS", <<"p", "p">>, <<<<>>>>, 0, 0, ""), Rq("TOUCH", <<"q", "p">>, <<<<>>>>, 0, 0, "")}
KeyDeployments ==
    {\* options and deadlines
     [Plain EXCEPT !.ticks = 2, !.steps = 4, !.background = {"expire"}, !.requests = Reads \cup
        {With("SET", "p", <<2>>, a, 0, w) : a \in {0, 1}, w \in {"", "NX", "XX", "GET", "KEEPTTL"}}
        \cup {With("EXPIRE", "p", <<>>, a, 0, w) : a \in {0, 1, 2}, w \in {"", "NX", "XX", "GT", "LT"}}
        \cup {With("GETEX", "p", <<>>, 2, 0, ""), With("GETEX", "p", <<>>, 0, 0, "PERSIST"), On("PERSIST", "p"), On("GETDEL", "p")}],
     [Plain EXCEPT !.ticks = 1, !.steps = 4, !.background = {"expire", "compact"}, !.seed = <<With("SET", "p", <<5>>, 1, 0, "")>>, !.requests =
        {Rq("RENAME", ks, <<<<>>>>, 0, 0, w) : ks \in {<<"p", "q">>, <<"q", "p">>, <<"p", "p">>}, w \in {"", "NX"}}
        \cup {Rq("DEL", <<"p", "q">>, <<<<>>>>, 0, 0, ""), With("GETSET", "p", <<6, 6>>, 0, 0, ""), With("APPEND", "p", <<6>>, 0, 0, ""),
              On("FLUSHDB", "p"), Pair("MSETNX", <<2>>, <<6>>), Field("q", 1, ""), On("GET", "q"), With("SET", "q", <<2>>, 0, 1, ""), Pair("MGET", <<>>, <<>>)}],
     \* numbers at their limits
     [Plain EXCEPT !.steps = 4, !.requests =
        {With("INCRBY", "p", <<>>, a, 0, "") : a \in {-5, -1, 3}} \cup {With("DECRBY", "p", <<>>, a, 0, "") : a \in {-5, 2}}
        \cup {SetTo("p", v) : v \in {<<0, 3, 3>>, <<0, 2>>, <<1, 2>>, <<6>>}} \cup {With("INCRBYFLOAT", "p", <<>>, 2, 0, ""), On("GET", "p")}],
     \* ranges and bits
     [Plain EXCEPT !.steps = 3, !.requests = {SetTo("p", v) : v \in {<<>>, <<0, 5>>, <<7, 7, 0>>}}
        \cup {With("GETRANGE", "p", <<>>, a, b, "") : a, b \in -4 .. 3}
        \cup {With("SETRANGE", "p", v, a, 0, "") : a \in {-1, 0, 2, 4}, v \in {<<>>, <<6>>}} \cup {With("APPEND", "p", <<6, 1>>, 0, 0, "")}
        \cup {With("BITCOUNT", "p", <<>>, a, b, w) : a, b \in {-7, -2, -1, 0, 1, 4}, w \in {"all", "bytes", "bits"}}],
     [Plain EXCEPT !.steps = 3, !.requests = {SetTo("p", v) : v \in {<<0, 5>>, <<7, 7, 0>>, <<6>>}}
        \cup {With("SETBIT", "p", <<>>, a, b, "") : a \in {-1, 0, 4, 11, 12}, b \in {0, 1}} \cup {With("GETBIT", "p", <<>>, a, 0, "") : a \in {-1, 0, 4, 12}}
        \cup {Rq("BITPOS", <<"p">>, <<<<t>>, e>>, a, b, w) : t \in {0, 1}, e \in {<<>>, <<1>>}, a, b \in {-4, -1, 0, 1, 3}, w \in {"all", "bytes", "bits"}}],
     [Plain EXCEPT !.seed = <<SetTo("q", <<6, 3>>), SetTo("r", <<5>>)>>, !.requests =
        {Rq("BITOP", <<d, "q", "r", "p">>, <<<<>>>>, 0, 0, w) : d \in {"p", "q"}, w \in {"AND", "OR", "XOR", "DIFF", "DIFF1", "ANDOR", "ONE"}}
        \cup {Rq("BITOP", <<"r", "q">>, <<<<>>>>, 0, 0, "NOT"), On("DEL", "q"), Rq("BITOP", <<"r", "p">>, <<<<>>>>, 0, 0, "OR")}],
     \* several keys under a limit, with and without compaction
     [Plain EXCEPT !.max = 16000, !.steps = 5, !.ticks = 1, !.background = {"compact", "expire"}, !.requests =
        {Pair("MSETNX", <<5>>, <<2>>), Pair("BATCH", <<2>>, <<6, 6>>), SetTo("r", <<6>>),
         Rq("BATCH", <<"p", "p">>, <<<<2>>, <<6>>>>, 0, 0, ""), Rq("DEL", <<"q", "p">>, <<<<>>>>, 0, 0, ""), With("APPEND", "q", <<6>>, 0, 0, ""),
         With("SET", "r", <<2>>, 1, 0, "")}],
     [Plain EXCEPT !.audited = FALSE, !.packed = FALSE, !.steps = 5, !.compression = TRUE, !.background = {"compact"}, !.limits = {9000}, !.requests =
        {Pair("MSET", <<5>>, <<2>>), Rq("MSET", <<"r", "p", "r">>, <<<<5>>, <<6, 6>>, <<2>>>>, 0, 0, ""), Pair("BATCH", <<2>>, <<6, 6>>),
         On("DEL", "p"), Pair("MGET", <<>>, <<>>)}],
     [Plain EXCEPT !.steps = 4, !.compression = TRUE, !.background = {"compact"}, !.requests =
        {Pair("LOCAL", <<5, 5>>, <<2>>), Pair("LOCAL", <<5>>, <<6, 5>>), Rq("LOCAL", <<"p", "p">>, <<<<2>>, <<6>>>>, 0, 0, ""), On("DEL", "p")}],
     \* hashes that turn hot and cold
     [Plain EXCEPT !.steps = 5, !.ticks = 1, !.background = {"compact", "expire"}, !.seed = <<SetTo("q", <<6>>), Field("p", 1, "batch")>>, !.requests =
        {Field("p", f, "batch") : f \in {1, 2}} \cup
        {Field("p", 3, ""), Field("q", 1, ""), On("DEL", "p"), SetTo("p", <<5>>), Rq("RENAME", <<"p", "q">>, <<<<>>>>, 0, 0, ""), On("GET", "p"),
         With("EXPIRE", "p", <<>>, 1, 0, "")}],
     \* the optimizer, and what happens between its steps
     [Plain EXCEPT !.compression = TRUE, !.steps = 10, !.queued = {"p"}, !.background = {"compact"}, !.seed = <<SetTo("p", Runs)>>, !.requests =
        {SetTo("p", Runs), SetTo("p", <<5, 6, 5>>), On("DEL", "p"), With("EXPIRE", "p", <<>>, 1, 0, "")}],
     [Plain EXCEPT !.shapes = TRUE, !.workers = {1, 2}, !.steps = 8, !.queued = {"p", "q"}, !.background = {"compact"}, !.seed = <<SetTo("p", Shaped(1)), SetTo("q", Shaped(2))>>,
        !.requests = {SetTo("q", Shaped(1)), On("DEL", "p"), With("APPEND", "p", <<>>, 0, 0, "")}]}
Kys == INSTANCE Keyspace WITH Keys <- {"p", "q", "r"}, KeyOrder <- [p |-> 1, q |-> 2, r |-> 3], ByteBits <- 3, MaxInt <- 4, MaxString <- 4,
                    GenerationMask <- 7, Workers <- {1, 2}, HotFields <- 2, ShapeThreshold <- 1, MaxSchemas <- 1, Deployments <- KeyDeployments

-----------------------------------------------------------------------------
(* Lists of up to a dozen elements of at most two bytes; indexed from four elements on. *)

Typed == [max |-> 0, seed |-> <<>>, requests |-> {}, compacts |-> FALSE, ticks |-> 0, steps |-> 3]
Pushed(o, k, vs) == Rq(o, <<k>>, vs, 0, 0, "")
X == <<7>>
Y == <<8, 9>>
Z == <<>>
Pop(o, k, n, w) == Rq(o, <<k>>, <<>>, n, 0, w)
PQ(o, a, b, w) == Rq(o, <<"p", "q">>, <<>>, a, b, w)
Pos(a, n, b) == Rq("LPOS", <<"p">>, <<X, <<n>>>>, a, b, "")
ListReads == {Rq("LRANGE", <<"p">>, <<>>, a, b, "") : a \in {-9, -2, 1, 3}, b \in {-9, -1, 2, 9}}
             \cup {Rq("LINDEX", <<"p">>, <<>>, a, 0, "") : a \in {-9, -2, 0, 3, 9}}
             \cup {Pos(a, n, b) : a \in {-2, -1, 1, 2}, n \in {-1, 0, 2}, b \in {0, 3}} \cup {Pop("LLEN", "p", 0, "")}
ListDeployments ==
    {\* growth, pops, trimming and the cold layout
     [Typed EXCEPT !.steps = 6, !.compacts = TRUE, !.seed = <<Pushed("RPUSH", "p", <<X, Y, Z, X>>)>>, !.requests =
        {Pushed("RPUSH", "p", <<Y>>), Pushed("RPUSH", "p", <<Z, X>>), Pop("LPOP", "p", 1, ""), Pop("LPOP", "p", 2, "count"), Pop("RPOP", "p", 1, ""),
         Pop("RPOP", "p", 3, "count"), Pushed("LPUSH", "p", <<X>>)}],
     \* offsets that no longer fit in two bytes
     [Typed EXCEPT !.steps = 7, !.compacts = TRUE, !.seed = <<Pushed("RPUSH", "p", <<Y, Y, Y, Y, Z>>)>>, !.requests =
        {Pushed("RPUSH", "p", <<Y>>), Pushed("RPUSH", "p", <<X, Z>>), Pop("RPOP", "p", 1, ""), Pop("LPOP", "p", 1, "")}],
     \* reads in every layout
     [Typed EXCEPT !.steps = 3, !.compacts = TRUE, !.requests = ListReads \cup {Pushed("RPUSH", "p", <<X, Y, X>>), Pushed("RPUSH", "p", <<Z, X, X, Y>>)}],
     \* writes that pack the list again
     [Typed EXCEPT !.steps = 4, !.requests = {Rq("LSET", <<"p">>, <<Z>>, a, 0, "") : a \in {-5, -1, 1, 5}}
        \cup {Rq("LTRIM", <<"p">>, <<>>, a, b, "") : a \in {-2, 1, 7}, b \in {-2, 2}} \cup {Rq("LREM", <<"p">>, <<X>>, a, 0, "") : a \in {-2, -1, 0, 1}}
        \cup {Rq("LINSERT", <<"p">>, <<X, Y>>, 0, 0, w) : w \in {"before", "after"}} \cup {Pushed(o, "p", <<Y, X>>) : o \in {"LPUSHX", "RPUSHX", "RPUSH", "LPUSH"}}],
     \* two keys, deadlines and other types, under a limit
     [Typed EXCEPT !.steps = 4, !.ticks = 1, !.max = 60, !.seed = <<Pushed("RPUSH", "p", <<X, Y>>), Pushed("RPUSH", "q", <<Y>>)>>, !.requests =
        {PQ("LMOVE", a, b, "") : a, b \in {0, 1}} \cup {PQ("LMPOP", n, 0, w) : n \in {1, 3}, w \in {"left", "right"}}
        \cup {PQ("RENAME", 0, 0, w) : w \in {"", "NX"}} \cup {Pop("EXPIRE", k, 1, "") : k \in {"p", "q"}}
        \cup {Rq(o, <<"q", "q">>, <<>>, 0, 1, "") : o \in {"LMOVE", "RENAME"}} \cup {Rq("LMOVE", <<"q", "q">>, <<>>, 1, 1, "")}
        \cup {Rq("SET", <<"q">>, <<Y>>, 0, 0, ""), Pushed("LPUSH", "p", <<Z, Y, Y>>), Pushed("LPUSH", "q", <<X>>), Pushed("REPLACE", "q", <<>>), Pushed("REPLACE", "q", <<Y, X>>),
              Pop("RPOP", "q", 1, ""), Pushed("RPUSHX", "p", <<Z>>), Pop("LLEN", "q", 0, ""), Pop("DEL", "p", 0, "")}]}
Lst == INSTANCE Lists WITH Keys <- {"p", "q"}, Promote <- 4, Stride <- 2, MinRoom <- 3, NarrowMax <- 14, Doubling <- 12, MaxHeadroom <- 6,
                    Varint <- 3, MaxList <- 80, Deployments <- ListDeployments

-----------------------------------------------------------------------------
(* Sets of up to eight members of at most three bytes, indexed from three members on, or from five of one width. *)

MemAA == <<1, 1>>
MemAB == <<1, 2>>
MemBA == <<2, 1>>
MemBB == <<2, 2>>
MemAC == <<1, 3>>
Short == <<1>>
Long == <<1, 1, 2>>
Huge(n) == [i \in 1..n |-> 6]
Wide == {MemAA, MemAB, MemBA, MemBB, MemAC}
SetReads == {Rq("SISMEMBER", <<"p">>, <<x>>, 0, 0, "") : x \in Wide \cup {Short, Long}}
            \cup {Rq("SSCAN", <<"p">>, <<>>, a, b, "") : a \in {0, 1, 3}, b \in {1, 2}}
            \cup {Rq("SMISMEMBER", <<"p">>, <<MemAB, Long, MemBB>>, 0, 0, ""), Rq("SMEMBERS", <<"p">>, <<>>, 0, 0, ""), Rq("SCARD", <<"p">>, <<>>, 0, 0, "")}
Drawn(o, n, w) == {Rq(o, <<"p">>, <<a, b, 0>>, n, 0, w) : a, b \in {0, 2}}
SetDeployments ==
    {\* members of one width, front coded and then indexed
     [Typed EXCEPT !.steps = 5, !.compacts = TRUE, !.requests = {Pushed("SADD", "p", <<x>>) : x \in Wide}
        \cup {Pushed("SREM", "p", <<MemAA, MemBB>>), Pushed("SADD", "p", <<MemAB, MemBA, MemAB>>), Pushed("SADDS", "p", <<MemAA, MemAC, MemAA>>)}],
     \* members of several widths, packed and indexed
     [Typed EXCEPT !.steps = 4, !.compacts = TRUE, !.seed = <<Pushed("SADD", "p", <<Short, MemAA>>)>>, !.requests = {Pushed("SADD", "p", <<x>>) : x \in {Z, Long, MemBB}}
        \cup {Pushed("SADDS", "p", <<Long, MemAB, MemBA, Long>>), Pushed("SADD", "p", <<MemBB, MemAC, <<4>>, <<5>>>>), Pushed("SREM", "p", <<Z, MemAA>>)}],
     \* reads in every layout
     [Typed EXCEPT !.steps = 3, !.requests = SetReads \cup {Pushed("SADD", "p", <<MemAA, MemBA>>), Pushed("SADD", "p", <<MemAB, MemBB>>), Pushed("SADD", "p", <<MemAA>>), Pushed("SADD", "p", <<Long, Short, MemAC>>)}],
     \* members that are too long together
     [Typed EXCEPT !.steps = 4, !.requests = {Pushed("SADD", "p", <<Huge(90)>>), Pushed("SADD", "q", <<Huge(88)>>), Pushed("SADDS", "q", <<Huge(90)>>), Pushed("SADD", "p", <<Short, MemAA>>),
        Rq("SMOVE", <<"p", "q">>, <<Huge(90)>>, 0, 0, ""), Rq("SUNIONSTORE", <<"q", "q", "p">>, <<>>, 0, 0, "")}],
     \* picks
     [Typed EXCEPT !.steps = 3, !.seed = <<Pushed("SADD", "p", <<MemAA, MemAB, MemBA>>)>>, !.requests = Drawn("SPOP", 1, "") \cup Drawn("SPOP", 2, "count") \cup Drawn("SRANDMEMBER", 2, "count")
        \cup {Rq(o, <<"p">>, <<2, 1, 4>>, n, 0, "count") : o \in {"SPOP"}, n \in {0, 3}} \cup {Rq("SRANDMEMBER", <<"p">>, <<2, 1, 4>>, n, 0, "count") : n \in {-3, 0, 4}} \cup Drawn("SRANDMEMBER", 1, "")],
     \* two keys, deadlines and other types, under a limit
     [Typed EXCEPT !.steps = 4, !.ticks = 1, !.max = 30, !.seed = <<Pushed("SADD", "p", <<MemAA, Short>>), Pushed("SADD", "q", <<MemAB, MemBA>>)>>, !.requests =
        {PQ(o, 0, 0, "") : o \in {"SUNION", "SINTER", "SDIFF", "SINTERSTORE", "RENAME"}} \cup {PQ("RENAME", 0, 0, "NX"), PQ("SINTERCARD", 1, 0, "")}
        \cup {Rq(o, <<"q", "p", "q">>, <<>>, 0, 0, "") : o \in {"SUNIONSTORE", "SINTERSTORE", "SDIFFSTORE"}} \cup {Pop("EXPIRE", k, 1, "") : k \in {"p", "q"}}
        \cup {Rq("SMOVE", <<"p", k>>, <<x>>, 0, 0, "") : k \in {"p", "q"}, x \in {MemAA, MemAB}} \cup {Rq("RENAME", <<"p", "p">>, <<>>, 0, 0, "")}
        \cup {Rq("SET", <<"q">>, <<Y>>, 0, 0, ""), Pushed("SADD", "p", <<MemAB, MemBB>>), Pushed("SADDS", "q", <<MemAA, MemBB>>), Pushed("SREM", "q", <<MemAB>>), Pop("SCARD", "q", 0, ""), Rq("SPOP", <<"p">>, <<0, 0, 0>>, 1, 0, ""), Pop("DEL", "p", 0, "")}]}
Set == INSTANCE Sets WITH Keys <- {"p", "q"}, MinRoom <- 4, MinSlots <- 4, Promote <- 3, TinyMax <- 5, BatchProbe <- 5, CompactMin <- 4,
                    Varint <- 3, MaxSet <- 180, Deployments <- SetDeployments

-----------------------------------------------------------------------------
(* Sorted sets of up to six members, indexed from four on, with integral, other and infinite scores. *)

Z1(s, m) == <<<<s>> \o m>>
Zadd(k, ps, o) == Rq("ZADD", <<k>>, ps, 0, 0, o)
ZHas(k, ps) == Zadd(k, ps, {})
Zop(o, k, a, b, w) == Rq(o, <<k>>, <<>>, a, b, w)
ZFew == Z1(2, MemAA) \o Z1(4, MemAB)
ZFloat == Z1(3, MemBA) \o Z1(4, MemAB)
ZFront == Z1(2, <<1, 1, 1, 1>>) \o Z1(2, <<1, 1, 1, 2>>)
ZMany == Z1(2, MemAA) \o Z1(4, MemAB) \o Z1(2, MemBA) \o Z1(3, MemBB) \o Z1(6, Short)
Ranks == {<<0, 0>>, <<0, 1>>, <<1, 2>>, <<0, -1>>, <<-2, -1>>, <<-9, 1>>, <<2, 1>>, <<9, 9>>}
Bounds == {<<<<0, 2>>, <<0, 4>>>>, <<<<1, 2>>, <<0, 4>>>>, <<<<0, -100>>, <<1, 4>>>>, <<<<0, 3>>, <<0, 100>>>>}
Lexes == {<<<<-2>>, <<2>>>>, <<<<0>> \o MemAB, <<0>> \o MemBA>>, <<<<1>> \o MemAA, <<1>> \o MemBB>>, <<<<2>>, <<2>>>>, <<<<-2>>, <<-2>>>>}
ZRanged(o, ks) ==
  {Rq(o, ks, <<>>, x[1], x[2], w) : x \in Ranks, w \in {{}, {"REV"}}}
  \cup {Rq(o, ks, v, x[1], x[2], {"SCORE"} \cup w) : v \in Bounds, x \in {<<0, -1>>, <<1, 2>>, <<0, 0>>}, w \in {{}, {"REV"}}}
  \cup {Rq(o, ks, v, x[1], x[2], {"LEX"} \cup w) : v \in Lexes, x \in {<<0, -1>>, <<1, 1>>, <<0, 0>>}, w \in {{}, {"REV"}}}
ZReads ==
  ZRanged("ZRANGE", <<"p">>) \cup ZRanged("ZRANGESTORE", <<"q", "p">>) \cup {Rq("ZRANGE", <<"p">>, <<<<0, 2>>, <<0, 4>>>>, -1, 2, {"SCORE"})}
  \cup {Rq(o, <<"p">>, v, 0, -1, {"SCORE"}) : o \in {"ZCOUNT", "ZREMRANGE"}, v \in Bounds}
  \cup {Rq(o, <<"p">>, v, 0, -1, {"LEX"}) : o \in {"ZCOUNT", "ZREMRANGE"}, v \in Lexes} \cup {Zop("ZREMRANGE", "p", x[1], x[2], {}) : x \in Ranks}
  \cup {Rq(o, <<"p">>, <<x>>, 0, 0, w) : o \in {"ZSCORE", "ZRANK"}, x \in Wide, w \in {{}, {"REV"}}}
  \cup {Rq("ZMSCORE", <<"p">>, <<MemAB, MemAC, MemAA>>, 0, 0, {}), Zop("ZCARD", "p", 0, 0, {}), Rq("ZRANDMEMBER", <<"p">>, <<<<2, 1, 0>>>>, 1, 0, {})}
  \cup {Zop("ZSCAN", "p", a, b, {}) : a \in {0, 1, 3, 7}, b \in {1, 2, 9}}
  \cup {Rq("ZRANDMEMBER", <<"p">>, <<<<a, b, 0>>>>, n, 0, {"COUNTED"}) : a, b \in {0, 2}, n \in {-3, 0, 2, 9}}
  \cup {Zop("ZPOP", "p", n, 0, w) : n \in {0, 1, 2, 9}, w \in {{}, {"MAX"}}}
ZAlgebra ==
  {Rq(o, <<"p", "q">>, v, 0, 0, w) : o \in {"ZUNION", "ZINTER"}, v \in {<<>>, <<<<2, -1>>>>, <<<<0, 1>>>>, <<<<-1, 1>>>>}, w \in {{}, {"MIN"}, {"MAX"}, {"COUNT"}}}
  \cup {Rq(o, <<"q", "p", "q">>, <<>>, 0, 0, {}) : o \in {"ZUNIONSTORE", "ZINTERSTORE", "ZDIFFSTORE"}}
  \cup {Rq("ZDIFF", <<"p", "q">>, <<>>, 0, 0, {}), Rq("ZINTERCARD", <<"p", "q">>, <<>>, 0, 0, {}), Rq("ZINTERCARD", <<"q", "p">>, <<>>, 1, 0, {}),
        Rq("ZINTERSTORE", <<"p", "p", "q">>, <<<<2, 3>>>>, 0, 0, {"MAX"}), Rq("ZDIFFSTORE", <<"p", "p", "p">>, <<>>, 0, 0, {})}
ZOptions == {{}, {"NX"}, {"XX"}, {"GT"}, {"LT"}, {"CH"}, {"XX", "GT", "CH"}}
ZIncrs == {{"INCR"}, {"INCR", "XX"}, {"INCR", "NX"}, {"INCR", "GT"}, {"INCR", "LT"}}
ZSetDeployments ==
    {\* growth from nothing through both layouts
     [Typed EXCEPT !.steps = 4, !.compacts = TRUE, !.requests =
        {ZHas("p", Z1(2, MemAA)), ZHas("p", Z1(4, MemAB)), ZHas("p", Z1(3, MemBB)), ZHas("p", Z1(6, MemAA)), ZHas("p", Z1(2, MemBA) \o Z1(2, Short)),
         ZHas("p", Z1(2, MemAC) \o Z1(4, MemAA) \o Z1(0, MemAB)), Rq("ZREM", <<"p">>, <<MemAA, MemAB>>, 0, 0, {})}],
     \* front coding, and members appended last
     [Typed EXCEPT !.steps = 3, !.seed = <<ZHas("p", ZFront)>>, !.requests =
        {ZHas("p", Z1(4, <<1, 1, 1, 3>>)), ZHas("p", Z1(3, <<1, 1, 1, 3>>)), ZHas("p", Z1(2, Short)), ZHas("p", Z1(6, <<2, 2, 2>>)), ZHas("p", Z1(4, <<1, 1, 1, 1>>)), Rq("ZREM", <<"p">>, <<<<1, 1, 1, 1>>>>, 0, 0, {}), Rq("ZSCORE", <<"p">>, <<<<1, 1, 1, 2>>>>, 0, 0, {})}],
     \* a table that fills up
     [Typed EXCEPT !.steps = 4, !.compacts = TRUE, !.seed = <<ZHas("p", ZMany)>>, !.requests =
        {ZHas("p", Z1(s, m)) : s \in {2, 4}, m \in {MemAA, MemAC}} \cup {ZHas("p", Z1(2, Long) \o Z1(4, MemAA)), ZHas("p", Z1(4, MemBB) \o Z1(6, <<4>>) \o Z1(8, <<5>>)), Zadd("p", Z1(1, MemAB), {"INCR"}), Rq("ZREM", <<"p">>, <<MemAB>>, 0, 0, {})}],
     \* members that are too long together
     [Typed EXCEPT !.steps = 3, !.requests = {ZHas("p", Z1(2, Huge(90))), ZHas("p", Z1(4, [Huge(90) EXCEPT ![1] = 5])), ZHas("p", Z1(4, MemAA)), ZHas("q", Z1(2, Huge(88))), Rq("ZUNIONSTORE", <<"q", "q", "p">>, <<>>, 0, 0, {})}],
     \* algebra, deadlines and other types, under a limit
     [Typed EXCEPT !.steps = 3, !.ticks = 1, !.max = 60, !.seed = <<ZHas("p", ZFew), ZHas("q", ZFloat)>>, !.requests =
        {Rq("ZUNIONSTORE", <<"q", "p", "q">>, <<>>, 0, 0, {}), Rq("ZRANGESTORE", <<"q", "p">>, <<>>, 0, 0, {}), Rq("RENAME", <<"p", "q">>, <<>>, 0, 0, {}), Rq("RENAME", <<"p", "q">>, <<>>, 0, 0, {"NX"}), Rq("RENAME", <<"p", "p">>, <<>>, 0, 0, {}),
         Rq("REPLACE", <<"p">>, ZMany, 0, 0, {}), Rq("REPLACE", <<"q">>, <<>>, 0, 0, {}), Rq("SET", <<"q">>, <<Y>>, 0, 0, {}), Zop("EXPIRE", "p", 1, 0, {}), Zop("EXPIRE", "q", 1, 0, {}), Zop("DEL", "p", 0, 0, {}), Zop("ZCARD", "q", 0, 0, {}),
         Rq("ZMPOP", <<"p", "q">>, <<>>, 1, 0, {}), Rq("ZMPOP", <<"q", "p">>, <<>>, 3, 0, {"MAX"}), ZHas("q", Z1(2, MemAA)), Rq("ZREM", <<"q">>, <<MemAB>>, 0, 0, {}), Zadd("q", Z1(2, MemBA), {"XX"})}]}
    \cup \* every read, in every layout
    {[Typed EXCEPT !.steps = 1, !.seed = <<ZHas("p", s)>>, !.requests = ZReads] : s \in {ZFew, ZFloat, ZMany}}
    \cup \* options and increments, in both layouts
    {[Typed EXCEPT !.steps = 2, !.seed = <<ZHas("p", s)>>, !.requests = {Zadd("p", Z1(4, MemAA) \o Z1(3, MemAC), o) : o \in ZOptions} \cup {Zadd("p", Z1(n, m), o) : n \in {1, -2}, m \in {MemAA, MemAC}, o \in ZIncrs}] : s \in {ZFew, ZMany}}
    \cup \* increments that reach and leave the infinite
    {[Typed EXCEPT !.steps = 1, !.seed = <<ZHas("p", s \o Z1(100, MemAC))>>, !.requests = {Zadd("p", Z1(x[1], x[2]), o) : x \in {<<100, MemAA>>, <<-100, MemAA>>, <<-100, MemAC>>}, o \in ZIncrs}] : s \in {ZFew, ZMany}}
    \cup \* the algebra of sorted sets and sets
    {[Typed EXCEPT !.steps = 1, !.seed = <<ZHas("p", s), t>>, !.requests = ZAlgebra] : s \in {ZFew, ZMany, Z1(100, MemAB) \o Z1(0, MemBA)},
        t \in {ZHas("q", ZFloat), ZHas("q", Z1(-100, MemAB)), Rq("SADD", <<"q">>, <<MemAA, MemBA>>, 0, 0, {}), Rq("SET", <<"q">>, <<Y>>, 0, 0, {})}}
Zs == INSTANCE ZSets WITH Keys <- {"p", "q"}, MinRoom <- 4, MinSlots <- 4, Promote <- 4, PlainMax <- 2, Aggressive <- 5, SmallRange <- 2,
                   NarrowMax <- 40, MaxZSet <- 180, Deployments <- ZSetDeployments

-----------------------------------------------------------------------------
(* Hashes of up to six fields, indexed from three on and hot from four on, shapes admitted at their second sighting. *)

One == <<2>>
Half == <<3>>
Most == <<10>>
Text == <<7, 7, 7>>
Hop(o, k, vs) == Rq(o, <<k>>, vs, 0, 0, {})
Hset(k, vs) == Hop("HSET", k, vs)
HTwo == <<MemAA, One, MemAB, Half>>
HThree == <<MemAA, One, MemAB, Half, MemBA, Most>>
HLong == <<MemAA, One, MemAB, Half, MemBA, Text>>
HFour == <<MemAA, One, MemAB, Half, MemBA, Most, MemBB, One>>
HFields == {MemAA, MemAB, MemBB, MemAC}
HReads ==
  {Hop(o, "p", <<f>>) : o \in {"HGET", "HSTRLEN", "HEXISTS", "HPTTL", "HPEXPIRETIME"}, f \in HFields}
  \cup {Hop(o, "p", <<MemAB, MemAC, MemAA>>) : o \in {"HGETS", "HMGET", "HGETDEL", "HPTTL"}} \cup {Hop(o, "p", <<>>) : o \in {"HLEN", "HGETALL", "HKEYS", "HVALS"}}
  \cup {Rq("HSCAN", <<"p">>, <<>>, a, b, {}) : a \in {0, 1, 3, 7}, b \in {1, 2, 9}}
  \cup {Rq("HRANDFIELD", <<"p">>, <<<<a, b, 0, 1, 0>>>>, n, 0, {"COUNTED"}) : a, b \in {0, 2}, n \in {-3, 0, 2, 9}} \cup {Rq("HRANDFIELD", <<"p">>, <<<<2, 1, 0>>>>, 1, 0, {})}
  \cup {Rq(o, <<"p">>, <<f>>, n, 0, {}) : o \in {"HINCRBY", "HINCRBYFLOAT"}, f \in HFields \cup {MemBA}, n \in {2, -2}} \cup {Rq("HINCRBYFLOAT", <<"p">>, <<MemAA>>, 1, 0, {})}
HDated(o, w) == {Rq(o, <<"p">>, <<f>>, n, 0, w) : f \in {MemAA, MemAC}, n \in {0, 1, 2}}
HTimes ==
  UNION {HDated("HEXPIRE", w) : w \in {{}, {"NX"}, {"XX"}, {"GT"}, {"LT"}}} \cup HDated("HGETEX", {"EX"}) \cup {Rq("HGETEX", <<"p">>, <<MemAA, MemAC, MemAA>>, 0, 0, w) : w \in {{}, {"PERSIST"}, {"EX"}}}
  \cup {Rq("HSETEX", <<"p">>, <<MemAA, Text, MemAC, One>>, n, 0, w) : n \in {0, 1}, w \in {{}, {"EX"}, {"KEEPTTL"}, {"FNX"}, {"FXX", "EX"}, {"FNX", "EX", "AT"}}}
  \cup {Hop("HPERSIST", "p", <<MemAB, MemAA, MemAC>>), Hop("HPTTL", "p", <<MemAA, MemAC>>), Hop("HPEXPIRETIME", "p", <<MemAA, MemAC>>)}
HashDeployments ==
    {\* growth from nothing through packed and indexed
     [Typed EXCEPT !.steps = 4, !.compacts = TRUE, !.requests =
        {Hset("p", <<MemAA, One>>), Hset("p", <<MemAB, Half>>), Hset("p", HThree), Hset("p", <<MemBB, Text>>), Hset("p", <<MemBA, Text, MemAC, One, MemAA, Half>>),
         Hop("HSETNX", "p", <<MemAC, One>>), Hop("HDEL", "p", <<MemAA, MemAB, MemAA>>)}],
     \* hot hashes
     [Typed EXCEPT !.steps = 4, !.compacts = TRUE, !.ticks = 1, !.seed = <<Hset("p", HThree)>>, !.requests =
        {Hop("HSETS", "p", <<MemBB, One, MemBB, Half>>), Hop("HSETS", "p", <<MemAA, Half>>), Hset("p", <<Short, One, MemAC, Text>>), Hop("HSETNX", "p", <<MemAC, One>>), Hop("HDEL", "p", <<MemAB, MemAC>>),
         Hop("HDEL", "p", <<MemAA, MemAB, MemBA, MemBB>>), Rq("HINCRBY", <<"p">>, <<MemAA>>, 2, 0, {}), Rq("HEXPIRE", <<"p">>, <<MemAA>>, 1, 0, {}), Rq("RENAME", <<"q", "p">>, <<>>, 0, 0, {})}],
     [Typed EXCEPT !.steps = 4, !.ticks = 1, !.seed = <<Hop("HSETS", "p", HFour)>>, !.requests =
        {Hop("HSETS", "p", <<MemAC, One>>), Hop("HSETS", "p", <<Short, One, <<4>>, One, <<5>>, One>>), Rq("RENAME", <<"p", "q">>, <<>>, 0, 0, {}), Rq("EXPIRE", <<"p">>, <<>>, 1, 0, {}), Hop("HGETALL", "p", <<>>), Hop("HDEL", "p", <<MemAB, MemAA, MemBA>>), Hop("FLUSHALL", "p", <<>>)}],
     \* shapes: admitted, full, confused with another, dropped
     [Typed EXCEPT !.steps = 5, !.seed = <<Hset("p", HTwo)>>, !.requests =
        {Hset("q", HTwo), Hset("p", <<MemAB, Text>>), Hset("q", <<MemAC, One>>), Hop("HDEL", "q", <<MemAA>>), Hop("FLUSHALL", "p", <<>>), Rq("RENAME", <<"q", "p">>, <<>>, 0, 0, {})}],
     [Typed EXCEPT !.steps = 4, !.max = 60, !.seed = <<Hset("p", HTwo), Hset("p", <<MemAA, Half>>)>>, !.requests =
        {Hset("q", <<MemAA, One, <<1, 1, 1>>, One>>), Hset("q", HTwo), Hset("q", <<MemBA, One, MemBB, One>>), Hset("p", <<MemAB, Text>>), Hop("DEL", "q", <<>>), Hop("HSETS", "p", HFour)}],
     \* indexed hashes that compaction shapes
     [Typed EXCEPT !.steps = 5, !.compacts = TRUE, !.ticks = 1, !.seed = <<Hset("p", HThree), Hset("q", HLong)>>, !.requests = {Hset("p", <<MemAB, One>>), Hset("q", <<MemBB, Half>>), Hset("p", <<MemBB, One>>), Hop("HDEL", "q", <<MemBB>>)}],
     \* values that are too long together, deadlines of keys and other types
     [Typed EXCEPT !.steps = 3, !.requests = {Hset("p", <<MemAA, Huge(90)>>), Hset("p", <<MemAB, Huge(90)>>), Hop("HSETNX", "p", <<MemAC, Huge(90)>>), Hset("p", <<MemBA, One, MemBB, One>>), Rq("HINCRBY", <<"p">>, <<MemBA>>, 10, 0, {})}],
     [Typed EXCEPT !.steps = 3, !.ticks = 1, !.seed = <<Hset("p", HTwo), Hset("q", HThree)>>, !.requests =
        {Rq("RENAME", <<"p", "q">>, <<>>, 0, 0, w) : w \in {{}, {"NX"}}} \cup {Rq("RENAME", <<"p", "p">>, <<>>, 0, 0, {}), Rq("EXPIRE", <<"p">>, <<>>, 1, 0, {}), Rq("EXPIRE", <<"q">>, <<>>, 1, 0, {}), Rq("SET", <<"q">>, <<Y>>, 0, 0, {}), Hop("DEL", "p", <<>>),
         Hset("p", <<MemAC, One>>), Hset("q", <<MemAA, One>>), Hop("HSETNX", "q", <<MemAC, One>>), Hop("HDEL", "q", <<MemAA>>), Hop("HLEN", "q", <<>>), Hop("HGETDEL", "p", <<MemAA, MemAB>>), Hop("HSETS", "q", <<MemAA, One>>)}],
     \* deadlines of fields
     [Typed EXCEPT !.steps = 3, !.ticks = 2, !.seed = <<Hset("p", HTwo)>>, !.requests = HTimes],
     [Typed EXCEPT !.steps = 3, !.ticks = 2, !.seed = <<Hset("p", HTwo), Rq("HEXPIRE", <<"p">>, <<MemAA, MemAB>>, 1, 0, {})>>, !.requests =
        {Rq("RENAME", <<"p", "q">>, <<>>, 0, 0, {"NX"}), Rq("RENAME", <<"p", "q">>, <<>>, 0, 0, {}), Hset("p", <<MemAA, Text>>), Hset("p", HLong), Hop("HSETS", "p", HFour), Hop("HLEN", "p", <<>>), Hop("HDEL", "p", <<MemAA>>),
         Rq("HINCRBY", <<"p">>, <<MemAA>>, 2, 0, {}), Hop("HSETNX", "p", <<MemAA, One>>), Rq("HSETEX", <<"p">>, <<MemAA, One>>, 0, 0, {"EX"}), Rq("HSETEX", <<"p">>, <<MemAA, One>>, 0, 0, {"KEEPTTL"}), Hop("HGETDEL", "p", <<MemAB>>), Hop("HGET", "p", <<MemAA>>)}]}
    \cup \* every read and count, in every layout
    {[Typed EXCEPT !.steps = 1, !.seed = s, !.requests = HReads] :
        s \in {<<>>, <<Hset("p", HTwo)>>, <<Hset("p", HTwo), Hset("p", HTwo)>>, <<Hset("p", <<MemAA, One, MemAB, Text>>), Hset("q", HTwo)>>, <<Hset("p", HLong)>>, <<Hop("HSETS", "p", HFour)>>,
               <<Hset("p", HTwo), Rq("HEXPIRE", <<"p">>, <<MemAA>>, 1, 0, {})>>}}
Hs == INSTANCE Hashes WITH Keys <- {"p", "q", "shapes"}, MinRoom <- 4, MinSlots <- 4, IndexFields <- 3, HotFields <- 4, HotSlots <- 4, IdleFreeze <- 1,
                   Admission <- 2, Candidates <- 2, MaxShapes <- 2, ShapeBudget <- 30, MinSavings <- 4, MaxHash <- 220, MaxInt <- 5, Deployments <- HashDeployments

-----------------------------------------------------------------------------
(* One component runs in a behaviour; the variables of the others stay unset. *)

StrOthers == <<defs, ids, topics, mgr, workers, calls, role, stats, handled, accepted, astray, db, now,
    jobs, agreed, steps>>
StrAlone == defs = None /\ ids = None /\ topics = None /\ mgr = None /\ workers = None /\ calls = None /\
    role = None /\ stats = None /\ handled = None /\ accepted = None /\ astray = None /\
    db = None /\ now = None /\ jobs = None /\ agreed = None /\ steps = None

WebOthers == <<mem, log, snap, copy, dead, torn, db, now, jobs, agreed, steps>>
WebAlone == mem = None /\ log = None /\ snap = None /\ copy = None /\ dead = None /\ torn = None /\
    db = None /\ now = None /\ jobs = None /\ agreed = None /\ steps = None

KysOthers == <<mem, log, snap, copy, dead, torn, sent, defs, ids, topics, mgr, workers, calls, role, stats,
    handled, accepted, astray>>
KysAlone == mem = None /\ log = None /\ snap = None /\ copy = None /\ dead = None /\ torn = None /\
    sent = None /\ defs = None /\ ids = None /\ topics = None /\ mgr = None /\ workers = None /\
    calls = None /\ role = None /\ stats = None /\ handled = None /\ accepted = None /\
    astray = None

LstOthers == <<mem, log, snap, copy, dead, torn, sent, defs, ids, topics, mgr, workers, calls, role, stats,
    handled, accepted, astray, jobs>>
LstAlone == mem = None /\ log = None /\ snap = None /\ copy = None /\ dead = None /\ torn = None /\
    sent = None /\ defs = None /\ ids = None /\ topics = None /\ mgr = None /\ workers = None /\
    calls = None /\ role = None /\ stats = None /\ handled = None /\ accepted = None /\
    astray = None /\ jobs = None

SetOthers == <<mem, log, snap, copy, dead, torn, sent, defs, ids, topics, mgr, workers, calls, role, stats,
    handled, accepted, astray, jobs>>
SetAlone == mem = None /\ log = None /\ snap = None /\ copy = None /\ dead = None /\ torn = None /\
    sent = None /\ defs = None /\ ids = None /\ topics = None /\ mgr = None /\ workers = None /\
    calls = None /\ role = None /\ stats = None /\ handled = None /\ accepted = None /\
    astray = None /\ jobs = None

ZsOthers == <<mem, log, snap, copy, dead, torn, sent, defs, ids, topics, mgr, workers, calls, role, stats,
    handled, accepted, astray, jobs>>
ZsAlone == mem = None /\ log = None /\ snap = None /\ copy = None /\ dead = None /\ torn = None /\
    sent = None /\ defs = None /\ ids = None /\ topics = None /\ mgr = None /\ workers = None /\
    calls = None /\ role = None /\ stats = None /\ handled = None /\ accepted = None /\
    astray = None /\ jobs = None

HsOthers == <<mem, log, snap, copy, dead, torn, sent, defs, ids, topics, mgr, workers, calls, role, stats,
    handled, accepted, astray, jobs>>
HsAlone == mem = None /\ log = None /\ snap = None /\ copy = None /\ dead = None /\ torn = None /\
    sent = None /\ defs = None /\ ids = None /\ topics = None /\ mgr = None /\ workers = None /\
    calls = None /\ role = None /\ stats = None /\ handled = None /\ accepted = None /\
    astray = None /\ jobs = None

MCInit ==
    /\ part \in Parts
    /\ \/ part = "streams" /\ Str!Init /\ StrAlone
       \/ part = "webhooks" /\ Web!Init /\ WebAlone
       \/ part = "keyspace" /\ Kys!Init /\ KysAlone
       \/ part = "lists" /\ Lst!Init /\ LstAlone
       \/ part = "sets" /\ Set!Init /\ SetAlone
       \/ part = "zsets" /\ Zs!Init /\ ZsAlone
       \/ part = "hashes" /\ Hs!Init /\ HsAlone

MCNext ==
    \/ part = "streams" /\ Str!Next /\ UNCHANGED <<part, StrOthers>>
    \/ part = "webhooks" /\ Web!Next /\ UNCHANGED <<part, WebOthers>>
    \/ part = "keyspace" /\ Kys!Next /\ UNCHANGED <<part, KysOthers>>
    \/ part = "lists" /\ Lst!Next /\ UNCHANGED <<part, LstOthers>>
    \/ part = "sets" /\ Set!Next /\ UNCHANGED <<part, SetOthers>>
    \/ part = "zsets" /\ Zs!Next /\ UNCHANGED <<part, ZsOthers>>
    \/ part = "hashes" /\ Hs!Next /\ UNCHANGED <<part, HsOthers>>

MCSpec == MCInit /\ [][MCNext]_mcVars

-----------------------------------------------------------------------------
(* Properties.                                                             *)

\* Reads that search the chunks see exactly the entries; a replica and a restart hold what memory holds; a
\* failed command or append changes nothing; ACKED removes only what every group has acknowledged.
StreamsKept ==
    /\ [](part = "streams" => Str!StreamsKept)
    /\ [][part = "streams" => Str!RollbackExact /\ Str!AckedOnly]_mcVars


Promise == INSTANCE StreamSpec WITH Keys <- {k1, k2}, val <- IF part = "streams" THEN Str!Abstract(mem) ELSE Fresh

\* Streams implements StreamSpec: IDs only grow, groups hand out entries in order
\* and none twice, and what they handed out stays pending until it is acknowledged, taken over or removed.
StreamsImplement == Promise!Spec

\* However commands fail, definitions change and the process restarts, an entry a group has passed is pending or
\* was handled, one worker of a hook is in charge, entries go out in order and requests are counted once.
WebhooksKept == part = "webhooks" => Web!WebhooksKept

\* Commands do what they promise on any representation of the values, whatever the optimizer, compaction and
\* expiry do in between, and the account of the bytes is exact.
StorageKept ==
    part = "keyspace" =>
        /\ Kys!KeyspaceKept
        /\ Kys!AccountExact

\* Commands on lists do what they do on plain sequences, in every layout, and every offset of an indexed list
\* finds its record.
ListsKept == part = "lists" => Lst!ListsKept

\* Commands on sets do what they do on plain sets, in every layout, and every member is where a search for it ends.
SetsKept == part = "sets" => Set!SetsKept

\* Commands on sorted sets do what they do on maps from members to scores, in every layout, and every item is found.
ZSetsKept == part = "zsets" => Zs!ZSetsKept

\* Commands on hashes do what they do on maps from fields to values and deadlines, in every layout, and every hash can be read.
HashesKept == part = "hashes" => Hs!HashesKept
=============================================================================
