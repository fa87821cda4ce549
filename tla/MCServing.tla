------------------------------ MODULE MCServing ------------------------------
(***************************************************************************)
(* Transactions, Blocking, Membership, ClusterPlan, ClusterSlots, Acl,     *)
(* Pushes, Tracking, RpcCache and RpcKeys for TLC, one per behaviour.      *)
(***************************************************************************)
EXTENDS Integers, Sequences, FiniteSets, TLC

CONSTANTS None, Parts, TxScripts, na, nb, nc, nd, k1, k2, v1, v2, c1, c2, c3

VARIABLES part,   \* the component this behaviour is about
    conf, mem, log, copy, unavail, fenced, role, ses, registry, ex, late, changes, touched, sent,
    db, made, mu, call, run, waiting, woken, stopped, unblock, hungup, merged, given, dropped,
    asked, rec, co, retry, known, budget, prepared, in, topo, aof, frame, plan, job, acked,
    users, version, sess, aclLog, nextID, saver, file, saved, told, seen, up, steps, reg, holder,
    failed, mons, monitors, monitorCount, loop, open, buf, wire, due, published, clients, proto,
    tracking, trackingClients, cache, excused, flights, slots, idle, down, store, head, now, req,
    entries, current, pending, batch, usage, admin, revoked, outages, again, raced

mcVars == <<part, conf, mem, log, copy, unavail, fenced, role, ses, registry, ex, late, changes, touched, sent,
    db, made, mu, call, run, waiting, woken, stopped, unblock, hungup, merged, given, dropped,
    asked, rec, co, retry, known, budget, prepared, in, topo, aof, frame, plan, job, acked,
    users, version, sess, aclLog, nextID, saver, file, saved, told, seen, up, steps, reg, holder,
    failed, mons, monitors, monitorCount, loop, open, buf, wire, due, published, clients, proto,
    tracking, trackingClients, cache, excused, flights, slots, idle, down, store, head, now, req,
    entries, current, pending, batch, usage, admin, revoked, outages, again, raced>>

-----------------------------------------------------------------------------
(* Two clients and two keys; 3 stands for a value with a TTL.              *)

Plain == [plain |-> {"set"}, queued |-> {"set"}, modes |-> {FALSE, TRUE}, multis |-> {c1},
          keys |-> {k1, k2}, values |-> {1, 3}, watch |-> {},
          journal |-> FALSE, replicas |-> FALSE, fails |-> FALSE, limit |-> 0,
          fences |-> FALSE, roles |-> {"master"}, sent |-> 2, changes |-> 2]
TxDeployments ==
    IF TxScripts
    THEN \* scripts with an AOF and a replica
         {[Plain EXCEPT !.plain = {"script"}, !.modes = {}, !.watch = {k1}, !.journal = TRUE, !.replicas = TRUE]}
    ELSE {\* two clients watch one key and change it there and back
          [Plain EXCEPT !.multis = {c1, c2}, !.keys = {k1}, !.watch = {k1}, !.values = {1, 2},
                        !.queued = {"set", "broken"}, !.modes = {TRUE}, !.sent = 1, !.changes = 3],
          \* every kind of command in a transaction, an AOF that may fail, a replica
          [Plain EXCEPT !.queued = {"set", "script", "broken"}, !.journal = TRUE, !.fails = TRUE, !.replicas = TRUE],
          [Plain EXCEPT !.queued = {"set", "bad", "unknown"}, !.values = {1}, !.journal = TRUE, !.fails = TRUE, !.replicas = TRUE],
          \* transactions of scripts that evict
          [Plain EXCEPT !.queued = {"script", "broken"}, !.journal = TRUE, !.fails = TRUE, !.limit = 1],
          \* plain commands that evict, a lease that lapses, a role that changes
          [Plain EXCEPT !.plain = {"set", "script", "broken", "bad"}, !.modes = {}, !.watch = {k1},
                        !.journal = TRUE, !.fails = TRUE, !.limit = 1, !.fences = TRUE,
                        !.roles = {"master", "replica"}, !.changes = 5]}
Tx == INSTANCE Transactions WITH Clients <- {c1, c2}, Keys <- {k1, k2}, Values <- {1, 2}, Ttl <- 3, Deployments <- TxDeployments

-----------------------------------------------------------------------------
(* Clients c1 and c2 block, c3 writes.                                     *)

Request(op, t, keys) == [op |-> op, t |-> t, keys |-> keys, dst |-> None, latest |-> FALSE, finite |-> FALSE]
Patient(op, t, keys) == [Request(op, t, keys) EXCEPT !.finite = TRUE]
BLMove(k, x) == [Request("move", "list", <<k>>) EXCEPT !.dst = x]
XRead(keys) == [Request("read", "stream", keys) EXCEPT !.latest = TRUE]
Cmd(op, t, k, x) == [op |-> op, t |-> t, k |-> k, dst |-> x, keys |-> <<k>>]
Add(t, k) == Cmd("push", t, k, None)
Job(path, cmds) == [path |-> path, cmds |-> cmds]
Case(r1, r2, jobs, n) ==
    [journal |-> FALSE, fails |-> FALSE, streams |-> {},
     sent |-> (c1 :> 1) @@ (c2 :> 1) @@ (c3 :> n),
     requests |-> (c1 :> r1) @@ (c2 :> r2) @@ (c3 :> {}),
     jobs |-> (c1 :> {}) @@ (c2 :> {}) @@ (c3 :> jobs),
     unblocks |-> {}, hangups |-> {}, closes |-> FALSE]

BlkDeployments ==
    {\* lists, pushes on the fast path, in a batch, and in a transaction with a command that fails
     Case({Request("pop", "list", <<k1, k2>>)},
          {Request("mpop", "list", <<k2, k1>>), BLMove(k1, k2)},
          {Job("fast", <<Add("list", k1)>>), Job("batch", <<Add("list", k2), Add("list", k1)>>),
           Job("multi", <<Add("list", k1), Cmd("bad", "list", k1, None), Cmd("pop", "list", k1, None)>>)}, 2),
     \* sorted sets with an AOF that may fail; rename, deletion, MULTI ATOMIC
     [Case({Request("pop", "zset", <<k1, k2>>)}, {Patient("mpop", "zset", <<k2, k1>>)},
           {Job("locked", <<Add("zset", k2)>>), Job("locked", <<Cmd("rename", "zset", k2, k1)>>),
            Job("locked", <<Cmd("del", "zset", k1, None)>>), Job("locked", <<Add("list", k1)>>),
            Job("atomic", <<Add("zset", k1), Cmd("bad", "zset", k1, None)>>)}, 2)
        EXCEPT !.journal = TRUE, !.fails = TRUE],
     \* streams: readers and the consumers of a group
     [Case({Request("readgroup", "stream", <<k1>>), XRead(<<k1, k2>>)}, {Request("readgroup", "stream", <<k1>>)},
           {Job("locked", <<Add("stream", k1)>>), Job("multi", <<Add("stream", k1), Add("stream", k2)>>)}, 2)
        EXCEPT !.journal = TRUE, !.streams = {k1}],
     \* a stream that appears as the copy of another
     [Case({XRead(<<k1, k2>>)}, {},
           {Job("locked", <<Add("stream", k1)>>), Job("locked", <<Cmd("copy", "stream", k1, k2)>>)}, 2)
        EXCEPT !.journal = TRUE],
     \* timeouts, CLIENT UNBLOCK, disconnects and the shutdown against one push
     [Case({Request("pop", "list", <<k1>>), Patient("pop", "zset", <<k1>>)}, {}, {Job("fast", <<Add("list", k1)>>)}, 1)
        EXCEPT !.sent[c1] = 2, !.unblocks = {"timeout", "error"}, !.hangups = {c1}, !.closes = TRUE]}
Blk == INSTANCE Blocking WITH Clients <- {c1, c2, c3}, Keys <- {k1, k2}, Deployments <- BlkDeployments

-----------------------------------------------------------------------------
(* A failover group of three that adds, removes or swaps a member, and one of two that adopts.  *)

Calls(p, l, k, o) == [proposals |-> p, losses |-> l, crashes |-> k, polls |-> o]
Group == [members |-> {na, nb, nc}, coordinators |-> {na}, proposals |-> {}, seeds |-> {}, budget |-> Calls(1, 1, 1, 0)]
MemDeployments ==
    {[Group EXCEPT !.proposals = {{na, nb, nc, nd}}], [Group EXCEPT !.proposals = {{na, nb}, {na, nd}}],
     [Group EXCEPT !.members = {na, nb}, !.seeds = {nc}, !.budget = Calls(1, 0, 0, 1)]}
Mem == INSTANCE Membership WITH Nodes <- {na, nb, nc, nd}, Deployments <- MemDeployments

-----------------------------------------------------------------------------
(* Owner maps of five slots, sets of nodes, and keys with braces.          *)

OwnerMaps == [0 .. 4 -> {1, 2, 3, None}]
Pieces == UNION {[1 .. n -> {"{", "}", "x"}] : n \in 0 .. 2}
PlanInputs ==
    [about : {"owners"}, owners : OwnerMaps, nodes : SUBSET (1 .. 3), gone : 1 .. 3]
      \cup [about : {"key"}, before : Pieces, tag : Pieces, after : Pieces]
Plan == INSTANCE ClusterPlan WITH SlotCount <- 5

-----------------------------------------------------------------------------
(* Three nodes and two slots; node 1 owns both slots, or nodes 1 and 2 one each.  *)

Work(p, r, l, x, w) == [plans |-> p, resumes |-> r, losses |-> l, crashes |-> x, writes |-> w,
                        manual |-> 0, joins |-> 0, recovers |-> 0, converges |-> 0]
Each(x) == [n \in {1, 2, 3} |-> x]
Empty == [k \in {k1, k2} |-> None]

\* A move of two keys with a client, a lost answer, a crash and a RESUME.
Move == [owners |-> [s \in 0 .. 1 |-> 1], known |-> Each({1, 2, 3}), slotOf |-> [k \in {k1, k2} |-> 1],
         data |-> [k \in {k1, k2} |-> v1], operators |-> {1}, modes |-> {"once"}, manual |-> {}, joins |-> {},
         removes |-> {}, recovers |-> {}, promoted |-> {}, group |-> [n \in {1, 2, 3} |-> {n}], retries |-> 1, hops |-> 2,
         unchecked |-> FALSE, written |-> {k1}, budget |-> Work(1, 1, 1, 1, 1)]
Halves == [Move EXCEPT !.owners = [s \in 0 .. 1 |-> s + 1], !.modes = {}]
Bare == [Move EXCEPT !.data = Empty]
SlotDeployments ==
    {Move,
     \* a node that owns nothing plans and applies
     [Move EXCEPT !.operators = {2}, !.modes = {"all", "batch"}, !.budget = Work(1, 0, 0, 0, 1)],
     \* the target gives up importing
     [Move EXCEPT !.manual = {<<"STABLE", 2>>}, !.budget = [Work(1, 1, 0, 0, 1) EXCEPT !.manual = 1]],
     \* a third node joins
     [Bare EXCEPT !.known = [n \in {1, 2, 3} |-> IF n = 3 THEN {1, 3} ELSE {1, 2}], !.joins = {<<1, 3>>},
                  !.budget = [Work(0, 0, 1, 1, 0) EXCEPT !.joins = 2]],
     \* node 2 is removed by node 1, by itself, and while slots move to it
     [Halves EXCEPT !.removes = {<<1, 2>>}, !.budget = Work(2, 1, 1, 0, 0)],
     [Halves EXCEPT !.removes = {<<2, 2>>}, !.operators = {2}, !.budget = Work(1, 0, 1, 0, 0)],
     [Bare EXCEPT !.removes = {<<1, 2>>}, !.budget = Work(2, 0, 1, 0, 0)],
     \* node 3 replaces node 1
     [Halves EXCEPT !.data = Empty, !.operators = {}, !.known[2] = {1, 2}, !.promoted = {3},
                    !.group = [n \in {1, 2, 3} |-> IF n = 2 THEN {2} ELSE {1, 3}],
                    !.budget = [Work(0, 0, 1, 1, 0) EXCEPT !.converges = 2]],
     \* commands of an operator, and views that differ
     [Bare EXCEPT !.known[3] = {1, 2}, !.operators = {},
                  !.manual = {"STABLE", "ADDSLOTS", "DELSLOTS", "FLUSHSLOTS"} \X {1, 2, 3}, !.recovers = {<<1, 3>>, <<3, 1>>},
                  !.budget = [Work(0, 0, 1, 0, 0) EXCEPT !.manual = 3, !.recovers = 2]]}
Clu == INSTANCE ClusterSlots WITH Nodes <- {1, 2, 3}, SlotCount <- 2, Keys <- {k1, k2}, Values <- {v1, v2},
                    Clients <- {c1}, Deployments <- SlotDeployments

-----------------------------------------------------------------------------
(* Two connections, the default user and bob, short patterns and keys, a log of two entries. *)

AclCategories == [read |-> {<<"get", "">>, <<"config", "get">>}, admin |-> {<<"acl", "list">>, <<"acl", "save">>, <<"config", "set">>}]
W(kind) == <<kind, <<>>, <<>>>>
A(kind, arg) == <<kind, arg, <<>>>>
Pick(rules) == <<"(", <<>>, rules>>
Can(name) == A("+", <<name, "">>)
Cannot(name) == A("-", <<name, "">>)
Key(p) == A("~", p)
Chan(p) == A("&", p)
All == A("+@", <<"all">>)
Nothing == A("-@", <<"all">>)
Ask(name, keys, channels) == [cmd |-> <<name, "">>, keys |-> keys, channels |-> channels, external |-> FALSE]
Sub(name, sub) == [Ask(name, <<>>, <<>>) EXCEPT !.cmd = <<name, sub>>]
SortBy(k) == [Ask("sort", <<k>>, <<>>) EXCEPT !.external = TRUE]
Full == <<All, Key(<<"*">>), Chan(<<"*">>)>>
OnBob == <<W("on"), A(">", <<"p">>)>>
Guarded == [conns |-> {c1}, names |-> {"default", "bob"}, rules |-> {}, requests |-> {Ask("get", <<<<"a">>>>, <<>>)}, found |-> {},
            logins |-> {}, ops |-> {"setuser", "deluser", "command", "auth", "reset"}, configured |-> FALSE,
            file |-> None, given |-> <<>>, edits |-> {}, fails |-> FALSE, requirepass |-> <<>>, steps |-> 3]
Given == <<<<"default", <<W("on"), W("nopass")>> \o Full>>, <<"bob", OnBob \o Full>>>>
Globs == UNION {[1 .. n -> {"*", "?", "a", "b"}] : n \in 1 .. 3}
Words == UNION {[1 .. n -> {"a", "b"}] : n \in 0 .. 3}

AclDeployments ==
    {\* cached decisions against changes of the rules
     [Guarded EXCEPT !.conns = {c1, c2}, !.configured = TRUE, !.file = Given, !.logins = {<<"bob", <<"p">>, "AUTH">>, <<"", <<"p">>, "AUTH">>},
        !.rules = {OnBob \o Full, <<W("off")>>, <<Cannot("get")>>, <<W("reset")>>, <<Pick(<<>>)>>, <<W("resetpass"), A(">", <<"p">>)>>}],
     \* rules of commands and categories
     [Guarded EXCEPT !.names = {"bob"}, !.ops = {"setuser"},
        !.requests = {Sub("config", "get"), Sub("config", "set"), Sub("acl", "save"), Sub("acl", "load"), Ask("get", <<>>, <<>>), Ask("set", <<>>, <<>>)},
        !.rules = {<<A("+@", <<"read">>)>>, <<A("-@", <<"read">>)>>, <<A("-@", <<"admin">>)>>, <<All>>, <<Nothing>>, <<Can("get")>>, <<Cannot("config")>>,
                   <<Can("set"), A("+@", <<"none">>)>>, <<A("+", <<"acl", "load">>)>>, <<Pick(<<A("+@", <<"admin">>), A("-", <<"acl", "save">>)>>)>>, <<Pick(<<A("-@", <<"none">>)>>)>>}],
     \* keys and channels, in the root rules and in selectors
     [Guarded EXCEPT !.names = {"bob"}, !.ops = {"setuser"}, !.given = <<<<"bob", OnBob>>>>, !.found = {<<"b">>},
        !.requests = {Ask("get", <<<<"a">>>>, <<>>), Ask("mget", <<<<"a">>, <<"b">>>>, <<>>), SortBy(<<"a">>), Ask("publish", <<>>, <<<<"c">>>>),
                      Ask("psubscribe", <<>>, <<<<"c", "*">>>>), Ask("subscribe", <<>>, <<<<"c">>, <<"d">>>>)},
        !.rules = {<<All, W("resetkeys"), Key(<<"a">>), Key(<<"c">>)>>, <<Key(<<"*">>)>>, <<W("allkeys"), W("allchannels")>>, <<W("resetkeys"), Key(<<"b">>)>>, <<Key(<<>>)>>,
                   <<Chan(<<"c", "*">>), Chan(<<"c", "*">>)>>, <<Chan(<<"d">>)>>, <<Chan(<<"*">>)>>, <<W("resetchannels")>>,
                   <<Pick(<<Can("mget"), Key(<<"b">>), Chan(<<"d">>), Chan(<<"d">>)>>)>>, <<Pick(<<All, W("allkeys"), W("allchannels"), W("resetchannels"), Chan(<<"c">>)>>)>>,
                   <<Pick(<<W("resetkeys"), All, Key(<<"*">>), Chan(<<"*">>), Chan(<<"e">>), Nothing, Can("sort")>>)>>, <<Pick(<<W("on")>>)>>}],
     \* passwords
     [Guarded EXCEPT !.names = {"bob"}, !.ops = {"setuser", "auth"}, !.logins = {"bob"} \X {<<"p">>, <<"r">>} \X {"AUTH", "HELLO"},
        !.rules = {<<W("on")>>, <<W("off")>>, <<W("nopass")>>, <<W("resetpass")>>, <<A(">", <<"p">>)>>, <<A("<", <<"p">>)>>, <<A("#", <<"r">>)>>, <<A("!", <<"r">>)>>,
                   <<W("skip-sanitize-payload"), W("unknown"), W("on")>>, <<W("sanitize-payload")>>}],
     \* refusals and the log
     [Guarded EXCEPT !.names = {"bob"}, !.steps = 4, !.ops = {"setuser", "command", "auth", "log", "deluser"}, !.logins = {<<"bob", <<"p">>, "AUTH">>, <<"bob", <<"x">>, "AUTH">>},
        !.given = <<<<"bob", OnBob \o <<Can("get"), Key(<<"a">>), Pick(<<Can("publish"), Can("get"), Can("sort"), Chan(<<"c">>), Key(<<"b">>)>>)>>>>>>,
        !.requirepass = <<"s">>,
        !.requests = {Ask("get", <<<<"b">>, <<"c">>>>, <<>>), Ask("get", <<<<"a">>, <<"b">>>>, <<>>), Ask("set", <<>>, <<>>), SortBy(<<"b">>), Ask("publish", <<>>, <<<<"d">>>>)},
        !.rules = {<<Key(<<"*">>)>>}],
     \* the file: saves that overlap changes, loads and restarts
     [Guarded EXCEPT !.conns = {c1, c2}, !.configured = TRUE, !.fails = TRUE, !.steps = 4, !.ops = {"setuser", "deluser", "save", "load", "restart"},
        !.file = <<<<"default", <<W("on"), W("nopass")>> \o Full>>, <<"bob", OnBob \o <<Can("get"), Cannot("set"), Key(<<"a">>), Chan(<<"c">>)>>>>>>,
        !.rules = {<<W("nopass"), A("-@", <<"read">>)>>, <<W("skip-sanitize-payload"), Key(<<"b">>), A(">", <<"p">>), A(">", <<"r">>)>>, <<W("reset"), Chan(<<"d">>), Chan(<<"*">>), W("half")>>}]}
    \cup \* files that are wrong, or missing, or lack the default user
    {[Guarded EXCEPT !.configured = TRUE, !.ops = {"setuser", "edit", "load", "restart", "command"}, !.file = Given, !.rules = {<<W("off")>>}, !.requirepass = r, !.edits = {None, <<<<"bob", <<A("+@", <<"none">>)>>>>>>, <<<<"bob", <<W("on")>>>>, <<"bob", <<W("unknown")>>>>>>, <<<<"bob", <<W("on")>>>>, <<"bob", Full>>>>}] : r \in {<<>>, <<"s">>}}
    \cup \* every short pattern
    {[Guarded EXCEPT !.names = {"bob"}, !.ops = {"setuser"}, !.steps = 1, !.rules = {<<All, Key(p)>> : p \in Globs}, !.requests = {Ask("get", <<w>>, <<>>) : w \in Words}]}
Ac == INSTANCE Acl WITH Conns <- {c1, c2}, Categories <- AclCategories, aclLogMaxEntries <- 2, Deployments <- AclDeployments

-----------------------------------------------------------------------------
(* Subscribers of a channel, a pattern and a shard channel; slow ones; monitors. *)

Pushed == [conns |-> {c1}, asks |-> {}, posts |-> {}, publishes |-> 0, patterns |-> <<>>, globs |-> {}, steps |-> 3, resets |-> 1,
           queue |-> 1, lines |-> 1, buffer |-> 1, faults |-> FALSE]
Does(what) == <<what, None, {}>>
PushDeployments ==
    {\* two connections that subscribe and leave
     [Pushed EXCEPT !.conns = {c1, c2}, !.publishes = 1, !.posts = {<<"channel", "a">>}, !.patterns = <<"*">>, !.globs = {<<"*", "a">>}, !.queue = 2,
        !.asks = {<<"subscribe", "channel", {"a"}>>, <<"subscribe", "pattern", {"*"}>>, <<"unsubscribe", "channel", {}>>}],
     \* classic and sharded names are apart
     [Pushed EXCEPT !.publishes = 2, !.posts = {<<"channel", "a">>, <<"shard", "a">>}, !.queue = 2,
        !.asks = {<<"subscribe", "channel", {"a", "b"}>>, <<"subscribe", "shard", {"a"}>>, <<"unsubscribe", "shard", {}>>, <<"unsubscribe", "channel", {"a"}>>, Does("command")}],
     \* a subscriber that does not read
     [Pushed EXCEPT !.publishes = 2, !.posts = {<<"channel", "a">>}, !.patterns = <<"*", "a*">>, !.globs = {<<"*", "a">>, <<"a*", "a">>}, !.steps = 2, !.faults = TRUE,
        !.asks = {<<"subscribe", "channel", {"a"}>>, <<"subscribe", "pattern", {"*", "a*"}>>, <<"unsubscribe", "channel", {"a"}>>, Does("reset")}],
     \* monitors
     [Pushed EXCEPT !.conns = {c1, c2}, !.lines = 1, !.asks = {Does("monitor"), Does("command"), Does("big"), Does("reset")}],
     [Pushed EXCEPT !.conns = {c1}, !.steps = 4, !.lines = 2, !.faults = TRUE, !.asks = {Does("monitor"), Does("command"), Does("reset")}]}
Pu == INSTANCE Pushes WITH Deployments <- PushDeployments

-----------------------------------------------------------------------------
(* Two or three clients, one or two keys, every mode of tracking. *)

Reading(ks) == [reads |-> ks, writes |-> {}, fast |-> FALSE]
Writing(ks, fast) == [reads |-> {}, writes |-> ks, fast |-> fast]
Option(c) == [who |-> c, bcast |-> FALSE, noloop |-> FALSE, optin |-> FALSE, optout |-> FALSE, prefixes |-> {}, redirect |-> None]
Tracked == [proto |-> (c1 :> 3) @@ (c2 :> 3), keys |-> {k1}, commands |-> {Reading({k1}), Writing({k1}, TRUE)}, execs |-> {},
            options |-> {Option(c1)}, caching |-> FALSE, ends |-> {}, steps |-> 5]
TrackDeployments ==
    {\* the default mode, with writers that are the reader or not, and NOLOOP
     [Tracked EXCEPT !.options = {Option(c1), [Option(c1) EXCEPT !.noloop = TRUE], Option(c2)}, !.ends = {"off"}],
     \* transactions, and commands that read one key and write another
     [Tracked EXCEPT !.keys = {k1, k2}, !.execs = {Writing({k1}, FALSE)}, !.commands = {Reading({k1, k2}), [reads |-> {k1}, writes |-> {k2}, fast |-> FALSE]}],
     \* BCAST with prefixes
     [Tracked EXCEPT !.keys = {k1, k2}, !.steps = 4, !.commands = {Reading({k1}), Reading({k2}), Writing({k1, k2}, FALSE)},
        !.options = {[Option(c1) EXCEPT !.bcast = TRUE, !.prefixes = {{k1}}], [Option(c1) EXCEPT !.bcast = TRUE, !.noloop = TRUE], [Option(c1) EXCEPT !.prefixes = {{k1}}],
                     [Option(c1) EXCEPT !.bcast = TRUE, !.optin = TRUE]}],
     \* OPTIN and OPTOUT
     [Tracked EXCEPT !.caching = TRUE, !.commands = {Reading({k1}), Writing({k1}, FALSE)},
        !.options = {[Option(c1) EXCEPT !.optin = TRUE], [Option(c1) EXCEPT !.optout = TRUE], [Option(c1) EXCEPT !.optin = TRUE, !.optout = TRUE]}],
     \* redirection, to a connection that may go, or speak RESP2
     [Tracked EXCEPT !.options = {[Option(c1) EXCEPT !.redirect = c2]}, !.ends = {"hangup", "reset"}, !.steps = 4],
     [Tracked EXCEPT !.proto = (c1 :> 3) @@ (c2 :> 2), !.options = {[Option(c1) EXCEPT !.redirect = c2], [Option(c2) EXCEPT !.redirect = c1]}, !.steps = 4]}
Trk == INSTANCE Tracking WITH Deployments <- TrackDeployments

-----------------------------------------------------------------------------
(* Two to four calls of one or two keys over one or two connections. *)

Query(chain, row, at, min, k) == [chain |-> chain, row |-> row, at |-> at, minContextSlot |-> min, key |-> k]
Account(k) == Query("solana", "state", "none", FALSE, k)
Proxied == [calls |-> (c1 :> Account(k1)) @@ (c2 :> Account(k1)) @@ (c3 :> Account(k1)), batch |-> <<>>, parallel |-> 1, size |-> 1, heads |-> 1,
            kept |-> (k1 :> TRUE), answers |-> {"result"}, faults |-> {}]
RpcDeployments ==
    {\* one key, one connection
     Proxied, [Proxied EXCEPT !.size = 2],
     \* two keys; a cache server that is slow
     [Proxied EXCEPT !.calls = (c1 :> Account(k1)) @@ (c2 :> Account(k2)) @@ (c3 :> Account(k1)), !.kept = (k1 :> TRUE) @@ (k2 :> TRUE)],
     [Proxied EXCEPT !.calls = (c1 :> Account(k1)) @@ (c2 :> Account(k1)), !.size = 2, !.heads = 2, !.faults = {"timeout"}],
     \* every answer of the node, and a cache that refuses or is away
     [Proxied EXCEPT !.calls = (c1 :> Account(k1)) @@ (c2 :> Account(k1)), !.answers = {"result", "null", "error", "status", "down"}, !.heads = 2, !.faults = {"dial", "refuse"}],
     [Proxied EXCEPT !.kept = (k1 :> FALSE)],
     \* a batch with a request that is not cached
     [Proxied EXCEPT !.calls = (c1 :> Account(k1)) @@ (c2 :> Query("solana", "bypass", "none", FALSE, k1)) @@ (c3 :> Account(k1)), !.batch = <<c1, c2, c3>>, !.parallel = 2]}
    \cup {[Proxied EXCEPT !.calls = (c1 :> q)] : q \in
            {Query("solana", row, at, min, k1) : row \in {"history", "tip"}, at \in {"finalized", "confirmed"}, min \in BOOLEAN}
            \cup {Query("evm", row, at, FALSE, k1) : row \in {"tagged", "logs"}, at \in {"none", "latest", "pending", "finalized", "number", "object"}}
            \cup {Query("evm", "hash", "none", FALSE, k1)}}
Rpc == INSTANCE RpcCache WITH Deployments <- RpcDeployments

-----------------------------------------------------------------------------
(* One or two requests with one key, of one or two calls. *)

Plans == ("p" :> [burst |-> 2, daily |-> 2]) @@ ("q" :> [burst |-> 1, daily |-> 0])
Order(op, to) == [op |-> op, plan |-> to]
Metered == [requests |-> (c1 :> 2) @@ (c2 :> 1), plans |-> Plans, rec |-> [plan |-> "p", revoked |-> FALSE], admin |-> <<>>,
            ttl |-> 1, clock |-> 1, outages |-> 0, limited |-> FALSE, flood |-> FALSE]
KeyDeployments ==
    {\* the quota, with records that expire
     Metered,
     \* outages, a flood of keys, a rate limit
     [Metered EXCEPT !.outages = 1, !.limited = TRUE],
     [Metered EXCEPT !.flood = TRUE],
     \* a revocation, one against a change of plan, and a key that is made
     [Metered EXCEPT !.admin = <<Order("revoke", "p")>>, !.ttl = 2, !.clock = 2],
     [Metered EXCEPT !.requests = (c1 :> 1), !.admin = <<Order("revoke", "p"), Order("move", "q")>>],
     [Metered EXCEPT !.requests = (c1 :> 1), !.rec = None, !.admin = <<Order("create", "q"), Order("move", "r"), Order("revoke", "q")>>],
     \* a record on a plan that does not exist
     [Metered EXCEPT !.requests = (c1 :> 1), !.rec = [plan |-> "r", revoked |-> FALSE]]}
Met == INSTANCE RpcKeys WITH Deployments <- KeyDeployments

-----------------------------------------------------------------------------
(* One component runs in a behaviour; the variables of the others stay unset. *)

TxOthers == <<db, made, mu, call, run, waiting, woken, stopped, unblock, hungup, merged, given, dropped,
    asked, rec, co, retry, known, budget, prepared, in, topo, aof, frame, plan, job, acked,
    users, version, sess, aclLog, nextID, saver, file, saved, told, seen, up, steps, reg, holder,
    failed, mons, monitors, monitorCount, loop, open, buf, wire, due, published, clients, proto,
    tracking, trackingClients, cache, excused, flights, slots, idle, down, store, head, now, req,
    entries, current, pending, batch, usage, admin, revoked, outages, again, raced>>
TxAlone == db = None /\ made = None /\ mu = None /\ call = None /\ run = None /\ waiting = None /\
    woken = None /\ stopped = None /\ unblock = None /\ hungup = None /\ merged = None /\
    given = None /\ dropped = None /\ asked = None /\ rec = None /\ co = None /\ retry = None /\
    known = None /\ budget = None /\ prepared = None /\ in = None /\ topo = None /\ aof = None /\
    frame = None /\ plan = None /\ job = None /\ acked = None /\ users = None /\
    version = None /\ sess = None /\ aclLog = None /\ nextID = None /\ saver = None /\
    file = None /\ saved = None /\ told = None /\ seen = None /\ up = None /\ steps = None /\
    reg = None /\ holder = None /\ failed = None /\ mons = None /\ monitors = None /\
    monitorCount = None /\ loop = None /\ open = None /\ buf = None /\ wire = None /\
    due = None /\ published = None /\ clients = None /\ proto = None /\ tracking = None /\
    trackingClients = None /\ cache = None /\ excused = None /\ flights = None /\ slots = None /\
    idle = None /\ down = None /\ store = None /\ head = None /\ now = None /\ req = None /\
    entries = None /\ current = None /\ pending = None /\ batch = None /\ usage = None /\
    admin = None /\ revoked = None /\ outages = None /\ again = None /\ raced = None

BlkOthers == <<mem, copy, fenced, role, ses, registry, ex, late, changes, touched, rec, co, retry, known,
    budget, prepared, in, topo, aof, frame, plan, job, acked, users, version, sess, aclLog,
    nextID, saver, file, saved, told, seen, up, steps, reg, holder, failed, mons, monitors,
    monitorCount, loop, open, buf, wire, due, published, clients, proto, tracking,
    trackingClients, cache, excused, flights, slots, idle, down, store, head, now, req, entries,
    current, pending, batch, usage, admin, revoked, outages, again, raced>>
BlkAlone == mem = None /\ copy = None /\ fenced = None /\ role = None /\ ses = None /\ registry = None /\
    ex = None /\ late = None /\ changes = None /\ touched = None /\ rec = None /\ co = None /\
    retry = None /\ known = None /\ budget = None /\ prepared = None /\ in = None /\
    topo = None /\ aof = None /\ frame = None /\ plan = None /\ job = None /\ acked = None /\
    users = None /\ version = None /\ sess = None /\ aclLog = None /\ nextID = None /\
    saver = None /\ file = None /\ saved = None /\ told = None /\ seen = None /\ up = None /\
    steps = None /\ reg = None /\ holder = None /\ failed = None /\ mons = None /\
    monitors = None /\ monitorCount = None /\ loop = None /\ open = None /\ buf = None /\
    wire = None /\ due = None /\ published = None /\ clients = None /\ proto = None /\
    tracking = None /\ trackingClients = None /\ cache = None /\ excused = None /\
    flights = None /\ slots = None /\ idle = None /\ down = None /\ store = None /\
    head = None /\ now = None /\ req = None /\ entries = None /\ current = None /\
    pending = None /\ batch = None /\ usage = None /\ admin = None /\ revoked = None /\
    outages = None /\ again = None /\ raced = None

MemOthers == <<mem, log, copy, unavail, fenced, role, ses, registry, ex, late, changes, touched, sent, db,
    made, mu, call, run, waiting, woken, stopped, unblock, hungup, merged, given, dropped, asked,
    in, topo, aof, frame, plan, job, acked, users, version, sess, aclLog, nextID, saver, file,
    saved, told, seen, up, steps, reg, holder, failed, mons, monitors, monitorCount, loop, open,
    buf, wire, due, published, clients, proto, tracking, trackingClients, cache, excused,
    flights, slots, idle, down, store, head, now, req, entries, current, pending, batch, usage,
    admin, revoked, outages, again, raced>>
MemAlone == mem = None /\ log = None /\ copy = None /\ unavail = None /\ fenced = None /\ role = None /\
    ses = None /\ registry = None /\ ex = None /\ late = None /\ changes = None /\
    touched = None /\ sent = None /\ db = None /\ made = None /\ mu = None /\ call = None /\
    run = None /\ waiting = None /\ woken = None /\ stopped = None /\ unblock = None /\
    hungup = None /\ merged = None /\ given = None /\ dropped = None /\ asked = None /\
    in = None /\ topo = None /\ aof = None /\ frame = None /\ plan = None /\ job = None /\
    acked = None /\ users = None /\ version = None /\ sess = None /\ aclLog = None /\
    nextID = None /\ saver = None /\ file = None /\ saved = None /\ told = None /\ seen = None /\
    up = None /\ steps = None /\ reg = None /\ holder = None /\ failed = None /\ mons = None /\
    monitors = None /\ monitorCount = None /\ loop = None /\ open = None /\ buf = None /\
    wire = None /\ due = None /\ published = None /\ clients = None /\ proto = None /\
    tracking = None /\ trackingClients = None /\ cache = None /\ excused = None /\
    flights = None /\ slots = None /\ idle = None /\ down = None /\ store = None /\
    head = None /\ now = None /\ req = None /\ entries = None /\ current = None /\
    pending = None /\ batch = None /\ usage = None /\ admin = None /\ revoked = None /\
    outages = None /\ again = None /\ raced = None

PlanOthers == <<conf, mem, log, copy, unavail, fenced, role, ses, registry, ex, late, changes, touched, sent,
    db, made, mu, call, run, waiting, woken, stopped, unblock, hungup, merged, given, dropped,
    asked, rec, co, retry, known, budget, prepared, topo, aof, frame, plan, job, acked, users,
    version, sess, aclLog, nextID, saver, file, saved, told, seen, up, steps, reg, holder,
    failed, mons, monitors, monitorCount, loop, open, buf, wire, due, published, clients, proto,
    tracking, trackingClients, cache, excused, flights, slots, idle, down, store, head, now, req,
    entries, current, pending, batch, usage, admin, revoked, outages, again, raced>>
PlanAlone == conf = None /\ mem = None /\ log = None /\ copy = None /\ unavail = None /\ fenced = None /\
    role = None /\ ses = None /\ registry = None /\ ex = None /\ late = None /\ changes = None /\
    touched = None /\ sent = None /\ db = None /\ made = None /\ mu = None /\ call = None /\
    run = None /\ waiting = None /\ woken = None /\ stopped = None /\ unblock = None /\
    hungup = None /\ merged = None /\ given = None /\ dropped = None /\ asked = None /\
    rec = None /\ co = None /\ retry = None /\ known = None /\ budget = None /\
    prepared = None /\ topo = None /\ aof = None /\ frame = None /\ plan = None /\ job = None /\
    acked = None /\ users = None /\ version = None /\ sess = None /\ aclLog = None /\
    nextID = None /\ saver = None /\ file = None /\ saved = None /\ told = None /\ seen = None /\
    up = None /\ steps = None /\ reg = None /\ holder = None /\ failed = None /\ mons = None /\
    monitors = None /\ monitorCount = None /\ loop = None /\ open = None /\ buf = None /\
    wire = None /\ due = None /\ published = None /\ clients = None /\ proto = None /\
    tracking = None /\ trackingClients = None /\ cache = None /\ excused = None /\
    flights = None /\ slots = None /\ idle = None /\ down = None /\ store = None /\
    head = None /\ now = None /\ req = None /\ entries = None /\ current = None /\
    pending = None /\ batch = None /\ usage = None /\ admin = None /\ revoked = None /\
    outages = None /\ again = None /\ raced = None

CluOthers == <<log, copy, unavail, fenced, role, ses, registry, ex, changes, touched, sent, db, made, mu,
    run, waiting, woken, stopped, unblock, hungup, merged, given, dropped, asked, rec, co, retry,
    known, prepared, in, users, version, sess, aclLog, nextID, saver, file, saved, told, seen,
    up, steps, reg, holder, failed, mons, monitors, monitorCount, loop, open, buf, wire, due,
    published, clients, proto, tracking, trackingClients, cache, excused, flights, slots, idle,
    down, store, head, now, req, entries, current, pending, batch, usage, admin, revoked,
    outages, again, raced>>
CluAlone == log = None /\ copy = None /\ unavail = None /\ fenced = None /\ role = None /\ ses = None /\
    registry = None /\ ex = None /\ changes = None /\ touched = None /\ sent = None /\
    db = None /\ made = None /\ mu = None /\ run = None /\ waiting = None /\ woken = None /\
    stopped = None /\ unblock = None /\ hungup = None /\ merged = None /\ given = None /\
    dropped = None /\ asked = None /\ rec = None /\ co = None /\ retry = None /\ known = None /\
    prepared = None /\ in = None /\ users = None /\ version = None /\ sess = None /\
    aclLog = None /\ nextID = None /\ saver = None /\ file = None /\ saved = None /\
    told = None /\ seen = None /\ up = None /\ steps = None /\ reg = None /\ holder = None /\
    failed = None /\ mons = None /\ monitors = None /\ monitorCount = None /\ loop = None /\
    open = None /\ buf = None /\ wire = None /\ due = None /\ published = None /\
    clients = None /\ proto = None /\ tracking = None /\ trackingClients = None /\
    cache = None /\ excused = None /\ flights = None /\ slots = None /\ idle = None /\
    down = None /\ store = None /\ head = None /\ now = None /\ req = None /\ entries = None /\
    current = None /\ pending = None /\ batch = None /\ usage = None /\ admin = None /\
    revoked = None /\ outages = None /\ again = None /\ raced = None

AcOthers == <<mem, log, copy, unavail, fenced, role, ses, registry, ex, late, changes, touched, sent, db,
    made, mu, call, run, waiting, woken, stopped, unblock, hungup, merged, given, dropped, asked,
    rec, co, retry, known, budget, prepared, in, topo, aof, frame, plan, job, acked, reg, holder,
    failed, mons, monitors, monitorCount, loop, open, buf, wire, due, published, clients, proto,
    tracking, trackingClients, cache, excused, flights, slots, idle, down, store, head, now, req,
    entries, current, pending, batch, usage, admin, revoked, outages, again, raced>>
AcAlone == mem = None /\ log = None /\ copy = None /\ unavail = None /\ fenced = None /\ role = None /\
    ses = None /\ registry = None /\ ex = None /\ late = None /\ changes = None /\
    touched = None /\ sent = None /\ db = None /\ made = None /\ mu = None /\ call = None /\
    run = None /\ waiting = None /\ woken = None /\ stopped = None /\ unblock = None /\
    hungup = None /\ merged = None /\ given = None /\ dropped = None /\ asked = None /\
    rec = None /\ co = None /\ retry = None /\ known = None /\ budget = None /\
    prepared = None /\ in = None /\ topo = None /\ aof = None /\ frame = None /\ plan = None /\
    job = None /\ acked = None /\ reg = None /\ holder = None /\ failed = None /\ mons = None /\
    monitors = None /\ monitorCount = None /\ loop = None /\ open = None /\ buf = None /\
    wire = None /\ due = None /\ published = None /\ clients = None /\ proto = None /\
    tracking = None /\ trackingClients = None /\ cache = None /\ excused = None /\
    flights = None /\ slots = None /\ idle = None /\ down = None /\ store = None /\
    head = None /\ now = None /\ req = None /\ entries = None /\ current = None /\
    pending = None /\ batch = None /\ usage = None /\ admin = None /\ revoked = None /\
    outages = None /\ again = None /\ raced = None

PuOthers == <<mem, log, copy, unavail, fenced, role, ses, registry, ex, late, changes, touched, sent, db,
    made, mu, call, run, waiting, woken, stopped, unblock, hungup, merged, given, dropped, asked,
    rec, co, retry, known, budget, prepared, in, topo, aof, frame, plan, acked, users, version,
    aclLog, nextID, saver, file, saved, told, seen, up, clients, proto, tracking,
    trackingClients, cache, excused, flights, slots, idle, down, store, head, now, req, entries,
    current, pending, batch, usage, admin, revoked, outages, again, raced>>
PuAlone == mem = None /\ log = None /\ copy = None /\ unavail = None /\ fenced = None /\ role = None /\
    ses = None /\ registry = None /\ ex = None /\ late = None /\ changes = None /\
    touched = None /\ sent = None /\ db = None /\ made = None /\ mu = None /\ call = None /\
    run = None /\ waiting = None /\ woken = None /\ stopped = None /\ unblock = None /\
    hungup = None /\ merged = None /\ given = None /\ dropped = None /\ asked = None /\
    rec = None /\ co = None /\ retry = None /\ known = None /\ budget = None /\
    prepared = None /\ in = None /\ topo = None /\ aof = None /\ frame = None /\ plan = None /\
    acked = None /\ users = None /\ version = None /\ aclLog = None /\ nextID = None /\
    saver = None /\ file = None /\ saved = None /\ told = None /\ seen = None /\ up = None /\
    clients = None /\ proto = None /\ tracking = None /\ trackingClients = None /\
    cache = None /\ excused = None /\ flights = None /\ slots = None /\ idle = None /\
    down = None /\ store = None /\ head = None /\ now = None /\ req = None /\ entries = None /\
    current = None /\ pending = None /\ batch = None /\ usage = None /\ admin = None /\
    revoked = None /\ outages = None /\ again = None /\ raced = None

TrkOthers == <<log, copy, unavail, fenced, role, ses, registry, ex, late, changes, touched, sent, db, made,
    mu, call, waiting, woken, stopped, unblock, hungup, merged, given, dropped, rec, co, retry,
    known, budget, prepared, in, topo, aof, frame, plan, job, acked, users, version, sess,
    aclLog, nextID, saver, file, saved, told, seen, up, reg, holder, failed, mons, monitors,
    monitorCount, loop, buf, wire, due, published, flights, slots, idle, down, store, head, now,
    req, entries, current, pending, batch, usage, admin, revoked, outages, again, raced>>
TrkAlone == log = None /\ copy = None /\ unavail = None /\ fenced = None /\ role = None /\ ses = None /\
    registry = None /\ ex = None /\ late = None /\ changes = None /\ touched = None /\
    sent = None /\ db = None /\ made = None /\ mu = None /\ call = None /\ waiting = None /\
    woken = None /\ stopped = None /\ unblock = None /\ hungup = None /\ merged = None /\
    given = None /\ dropped = None /\ rec = None /\ co = None /\ retry = None /\ known = None /\
    budget = None /\ prepared = None /\ in = None /\ topo = None /\ aof = None /\ frame = None /\
    plan = None /\ job = None /\ acked = None /\ users = None /\ version = None /\ sess = None /\
    aclLog = None /\ nextID = None /\ saver = None /\ file = None /\ saved = None /\
    told = None /\ seen = None /\ up = None /\ reg = None /\ holder = None /\ failed = None /\
    mons = None /\ monitors = None /\ monitorCount = None /\ loop = None /\ buf = None /\
    wire = None /\ due = None /\ published = None /\ flights = None /\ slots = None /\
    idle = None /\ down = None /\ store = None /\ head = None /\ now = None /\ req = None /\
    entries = None /\ current = None /\ pending = None /\ batch = None /\ usage = None /\
    admin = None /\ revoked = None /\ outages = None /\ again = None /\ raced = None

RpcOthers == <<mem, log, copy, unavail, fenced, role, ses, registry, ex, changes, touched, sent, db, made,
    mu, run, waiting, woken, stopped, unblock, hungup, merged, given, dropped, asked, rec, co,
    retry, known, budget, prepared, in, topo, aof, frame, plan, job, acked, users, version, sess,
    aclLog, nextID, saver, file, saved, told, seen, up, steps, reg, holder, failed, mons,
    monitors, monitorCount, loop, open, buf, wire, due, published, clients, proto, tracking,
    trackingClients, cache, excused, now, req, entries, current, pending, batch, usage, admin,
    revoked, outages, again, raced>>
RpcAlone == mem = None /\ log = None /\ copy = None /\ unavail = None /\ fenced = None /\ role = None /\
    ses = None /\ registry = None /\ ex = None /\ changes = None /\ touched = None /\
    sent = None /\ db = None /\ made = None /\ mu = None /\ run = None /\ waiting = None /\
    woken = None /\ stopped = None /\ unblock = None /\ hungup = None /\ merged = None /\
    given = None /\ dropped = None /\ asked = None /\ rec = None /\ co = None /\ retry = None /\
    known = None /\ budget = None /\ prepared = None /\ in = None /\ topo = None /\ aof = None /\
    frame = None /\ plan = None /\ job = None /\ acked = None /\ users = None /\
    version = None /\ sess = None /\ aclLog = None /\ nextID = None /\ saver = None /\
    file = None /\ saved = None /\ told = None /\ seen = None /\ up = None /\ steps = None /\
    reg = None /\ holder = None /\ failed = None /\ mons = None /\ monitors = None /\
    monitorCount = None /\ loop = None /\ open = None /\ buf = None /\ wire = None /\
    due = None /\ published = None /\ clients = None /\ proto = None /\ tracking = None /\
    trackingClients = None /\ cache = None /\ excused = None /\ now = None /\ req = None /\
    entries = None /\ current = None /\ pending = None /\ batch = None /\ usage = None /\
    admin = None /\ revoked = None /\ outages = None /\ again = None /\ raced = None

MetOthers == <<mem, log, copy, unavail, fenced, role, ses, registry, ex, late, changes, touched, sent, db,
    made, mu, call, run, waiting, woken, stopped, unblock, hungup, merged, given, dropped, asked,
    co, retry, known, budget, prepared, in, topo, aof, frame, plan, job, acked, users, version,
    sess, aclLog, nextID, saver, file, saved, told, seen, up, steps, reg, holder, failed, mons,
    monitors, monitorCount, loop, open, buf, wire, due, published, clients, proto, tracking,
    trackingClients, cache, excused, flights, slots, idle, down, store, head>>
MetAlone == mem = None /\ log = None /\ copy = None /\ unavail = None /\ fenced = None /\ role = None /\
    ses = None /\ registry = None /\ ex = None /\ late = None /\ changes = None /\
    touched = None /\ sent = None /\ db = None /\ made = None /\ mu = None /\ call = None /\
    run = None /\ waiting = None /\ woken = None /\ stopped = None /\ unblock = None /\
    hungup = None /\ merged = None /\ given = None /\ dropped = None /\ asked = None /\
    co = None /\ retry = None /\ known = None /\ budget = None /\ prepared = None /\ in = None /\
    topo = None /\ aof = None /\ frame = None /\ plan = None /\ job = None /\ acked = None /\
    users = None /\ version = None /\ sess = None /\ aclLog = None /\ nextID = None /\
    saver = None /\ file = None /\ saved = None /\ told = None /\ seen = None /\ up = None /\
    steps = None /\ reg = None /\ holder = None /\ failed = None /\ mons = None /\
    monitors = None /\ monitorCount = None /\ loop = None /\ open = None /\ buf = None /\
    wire = None /\ due = None /\ published = None /\ clients = None /\ proto = None /\
    tracking = None /\ trackingClients = None /\ cache = None /\ excused = None /\
    flights = None /\ slots = None /\ idle = None /\ down = None /\ store = None /\ head = None

MCInit ==
    /\ part \in Parts
    /\ \/ part = "tx" /\ Tx!Init /\ TxAlone
       \/ part = "blocking" /\ Blk!Init /\ BlkAlone
       \/ part = "membership" /\ Mem!Init /\ MemAlone
       \/ part = "plan" /\ in \in PlanInputs /\ PlanAlone
       \/ part = "slots" /\ Clu!Init /\ CluAlone
       \/ part = "acl" /\ Ac!Init /\ AcAlone
       \/ part = "pushes" /\ Pu!Init /\ PuAlone
       \/ part = "tracking" /\ Trk!Init /\ TrkAlone
       \/ part = "rpc" /\ Rpc!Init /\ RpcAlone
       \/ part = "keys" /\ Met!Init /\ MetAlone

MCNext ==
    \/ part = "tx" /\ Tx!Next /\ UNCHANGED <<part, TxOthers>>
    \/ part = "blocking" /\ Blk!Next /\ UNCHANGED <<part, BlkOthers>>
    \/ part = "membership" /\ Mem!Next /\ UNCHANGED <<part, MemOthers>>
    \/ part = "slots" /\ Clu!Next /\ UNCHANGED <<part, CluOthers>>
    \/ part = "acl" /\ Ac!Next /\ UNCHANGED <<part, AcOthers>>
    \/ part = "pushes" /\ Pu!Next /\ UNCHANGED <<part, PuOthers>>
    \/ part = "tracking" /\ Trk!Next /\ UNCHANGED <<part, TrkOthers>>
    \/ part = "rpc" /\ Rpc!Next /\ UNCHANGED <<part, RpcOthers>>
    \/ part = "keys" /\ Met!Next /\ UNCHANGED <<part, MetOthers>>

MCSpec == MCInit /\ [][MCNext]_mcVars

-----------------------------------------------------------------------------
(* Properties.                                                             *)

\* Every variable of a component has its type.
TypeOK ==
    /\ part = "tx" => Tx!TypeOK
    /\ part = "membership" => Mem!TypeOK
    /\ part = "slots" => Clu!TypeOK
    /\ part = "blocking" => Blk!TypeOK

\* EXEC runs only if no watched key has held anything else since its WATCH, and answers nil only if one
\* has (refreshWatchesLocked around every command, clearWatchLocked).
WatchCorrect ==
    /\ [](part = "tx" => Tx!WatchExact)
    /\ [][part = "tx" => Tx!WatchStep]_mcVars

\* EXEC runs all the commands sent since MULTI, in order, or none, and one that is undone leaves the
\* keyspace as it found it (queueCommand, rollback of MULTI ATOMIC, a failed append).
ExecAtomic == [][part = "tx" => Tx!RollbackStep /\ Tx!SentStep]_mcVars

\* Between commands the AOF replays to what memory holds, and so does a replica that applied what was
\* published, after evictions, scripts and undone appends too (executeDurableLocked, exec).
WritesKept ==
    part = "tx" =>
        /\ Tx!LogIsMem
        /\ Tx!CopyIsMem

\* While the lease is not valid no command writes, and on a replica no command of a client does, whenever
\* the command was queued (failoverWritesFenced, READONLY).
ReadOnlyKept == [][part = "tx" => Tx!FencedStep /\ Tx!ReplicaStep]_mcVars

\* Members that committed an epoch have the same member list, a majority of the old and of the new members
\* prepared it, and two candidates never have disjoint quorums meanwhile (ARM, COMMIT, failoverVoteMembers).
MembersAgree ==
    part = "membership" =>
        /\ Mem!EpochsAgree
        /\ Mem!DualMajority
        /\ Mem!QuorumsMeet

\* Removed members retire before anyone is at the new epoch and are in no configuration from then on; epochs
\* do not go back and an intent stays until every member has its epoch (retryFailoverMembershipCommit).
RetirementSafe ==
    /\ [](part = "membership" => Mem!RetiredFirst /\ Mem!RetiredStaysOut)
    /\ [][part = "membership" => Mem!ForwardStep]_mcVars

\* Keys with the same hash tag share a slot; the ranges CLUSTER SLOTS reports are the owner map; a rebalance
\* balances with the fewest moves; a removal moves exactly the slots of the node, to the emptiest nodes
\* (clusterHashKey, planClusterRebalance, planClusterNodeRemoval).
PlansExact ==
    part = "plan" =>
        IF in.about = "key" THEN Plan!TagRule(in.before, in.tag, in.after)
        ELSE /\ Plan!RangesExact(in.owners)
             /\ Plan!PlanBalances(in.owners, in.nodes)
             /\ Plan!RemovalEvacuates(in.owners, in.nodes, in.gone)

\* A node that would serve a key holds its last acknowledged value, and some log has it at every step,
\* whatever move failed, was resumed or was cut by a crash (routing under durableMu, MIGRATE, SETSLOT); no node
\* routes to a node it does not know, and who coordinates a JOIN, a REMOVE or a promotion changes its own view
\* last (executeClusterJoin, removeClusterKnownNode, convergeClusterFailoverOwnership).
SlotsKept ==
    part = "slots" =>
        /\ Clu!ServesLatest
        /\ Clu!KeyDurable
        /\ Clu!OwnersKnown
        /\ Clu!CoordinatorLast
        /\ Clu!FlipLast

\* A client that sleeps on a key with something for it has a signal on its way, the registries name exactly
\* the waiters, and CLIENT UNBLOCK ends the command it was meant for (register, signal, unregister).
WakeupsExact ==
    /\ [](part = "blocking" => Blk!NoLostWakeup /\ Blk!RegistryExact)
    /\ [][part = "blocking" => Blk!UnblockStep]_mcVars

\* An element goes to one client once, or stays, or was deleted, in memory and in what the AOF replays
\* (blocking pops and group reads).
ExactlyOnce ==
    part = "blocking" =>
        /\ Blk!ExactlyOnce
        /\ Blk!ReplayIsMemory

\* A command runs exactly when the rules its user has now cover it, though decisions are cached; DRYRUN, AUTH and
\* keys found later go by the same rules; ACL LIST and the ACL file give back the users; the log holds the latest refusals.
AclKept == part = "acl" => Ac!AclKept

\* Subscribers the hub keeps miss nothing, in order, after their confirmation; the registries are exact; monitors
\* see every command between +OK and +RESET; replies are neither lost nor reordered by what is pushed between them.
PushesKept == part = "pushes" => Pu!PushesKept

\* A client that tracks holds no stale value once the writers have ended, in every mode, except for races, transactions
\* and lost redirections; and the counter that lets everyone skip the work is exact.
TrackingKept == part = "tracking" => Trk!TrackingKept

\* Calls that share an upstream call and a bounded set of cache connections are answered with their own answers,
\* and a leader never replaces a stored result by an older one (handleOne, fetch, RESPCache); usage is counted
\* once, the quota holds when nothing overlaps and a revoked key is refused within the record's TTL (AuthHandler).
ProxyKept ==
    /\ part = "rpc" => Rpc!RpcKept
    /\ part = "keys" => Met!KeysKept

\* "Live replication propagates logical committed changes" (PROGRESS.md): between commands a replica that
\* applied what was published holds what memory holds.
CopyIsMem == part = "tx" => Tx!CopyIsMem

\* "Keep the source in MIGRATING until every reachable peer agrees, so incomplete convergence remains
\* observable and can be retried safely." (cluster.go): the target of a migrating slot would accept
\* IMPORTING, with which RESUME begins.
Resumable == part = "slots" => Clu!Resumable
=============================================================================
