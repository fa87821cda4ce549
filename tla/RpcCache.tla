------------------------------ MODULE RpcCache ------------------------------
(***************************************************************************)
(* The caching JSON-RPC proxy: requests that share one upstream call, the  *)
(* cache behind a bounded set of connections, and what happens when either *)
(* is slow or fails (src/internal/rpccache/proxy.go, cache.go, policy.go). *)
(*                                                                         *)
(* A call is one goroutine in handleOne.  The cache server and the node    *)
(* are external.  Instead of a clock, an entry may expire, and the second  *)
(* for which a failed cache is skipped may end, at any time.               *)
(***************************************************************************)
EXTENDS Integers, Sequences, FiniteSets

CONSTANTS
    None,
    Deployments  \* the calls, what is cached, the size of the pool, what the node and the cache server may do

VARIABLES
    conf,     \* the deployment
    call,     \* the goroutines
    flights,  \* p.flights: the call that leads the flight of a key
    slots,    \* c.slots: the calls that hold a token
    idle,     \* c.pool: the idle connections
    down,     \* p.cacheDownUntil is ahead
    store,    \* external: the cache server
    late,     \* external: SETs whose caller gave up and that the server may still run
    head      \* external: the version of the answer the node would give

vars == <<conf, call, flights, slots, idle, down, store, late, head>>

Keys == DOMAIN conf.kept
New == [pc |-> "new", op |-> None, conn |-> None, got |-> None, healthy |-> FALSE, on |-> None, reply |-> None]
Nil == [kind |-> "nil", key |-> None, v |-> 0]

\* -------------------------------------------------------------------------
\* What may be cached

\* A request by what the tables look at: the method's row, the commitment or block tag, and a minimum slot.
classifySolana(r) ==
    IF r.minContextSlot THEN "bypass"
    ELSE IF r.row # "history" THEN r.row
    ELSE IF r.at \in {"none", "finalized"} THEN "immutable" ELSE "state"

evmByBlockTag(r) ==
    IF r.at \in {"latest", "safe", "earliest"} THEN "state"
    ELSE IF r.at \in {"object", "finalized", "number"} THEN "recent" ELSE "bypass"

evmLogs(r) == IF r.at \in {"object", "number"} THEN "recent" ELSE "bypass"

classifyEVM(r) ==
    IF r.row = "tagged" THEN evmByBlockTag(r)
    ELSE IF r.row = "logs" THEN evmLogs(r)
    ELSE IF r.row = "hash" THEN "recent"
    ELSE r.row

Classify(r) == IF r.chain = "evm" THEN classifyEVM(r) ELSE classifySolana(r)

Key(g) == conf.calls[g].key
Bypassed(g) == Classify(conf.calls[g]) = "bypass"

\* -------------------------------------------------------------------------
\* A request arrives: alone, or as the next element of a batch, of which at most conf.parallel run at a time

handleBatch(g) ==
    \A i \in DOMAIN conf.batch :
        conf.batch[i] = g =>
            /\ \A j \in 1 .. i - 1 : call[conf.batch[j]].pc # "new"
            /\ Cardinality({j \in DOMAIN conf.batch : call[conf.batch[j]].pc \notin {"new", "done"}}) < conf.parallel

handleOne(g) ==
    /\ call[g].pc = "new" /\ handleBatch(g)
    /\ call' = [call EXCEPT ![g] = [New EXCEPT !.op = "GET", !.pc = IF Bypassed(g) THEN "post" ELSE IF down THEN "fetch" ELSE "acquire"]]
    /\ UNCHANGED <<conf, flights, slots, idle, down, store, late, head>>

\* The answers the node may give now for a key.
Answers(k) ==
    {[kind |-> a, key |-> k, v |-> head[k]] : a \in conf.answers}

Reply(label, answer) == [label |-> label, answer |-> answer]

passthrough(g) ==
    /\ call[g].pc = "post"
    /\ \E a \in Answers(Key(g)) : call' = [call EXCEPT ![g].pc = "done", ![g].reply = Reply("BYPASS", a)]
    /\ UNCHANGED <<conf, flights, slots, idle, down, store, late, head>>

\* -------------------------------------------------------------------------
\* RESPCache: a token, then an idle connection or a new one

Command(g) == [op |-> call[g].op, key |-> Key(g), val |-> call[g].got]
Sent(conn, g) == [sent |-> Append(conn.sent, Command(g)), replies |-> conn.replies]

\* What a call does once its cache operation has ended with r, or with None when it failed.
After(g, r) ==
    IF call[g].op = "SET" THEN [call[g] EXCEPT !.pc = "land", !.conn = None]
    ELSE IF r \in {None, Nil} THEN [call[g] EXCEPT !.pc = "fetch", !.conn = None, !.got = None]
    ELSE [call[g] EXCEPT !.pc = "done", !.conn = None, !.got = None, !.reply = Reply("HIT", r)]

TakeToken(g) ==
    /\ call[g].pc = "acquire" /\ Cardinality(slots) < conf.size
    /\ slots' = slots \cup {g}
    /\ call' = [call EXCEPT ![g].pc = "pick"]
    /\ UNCHANGED <<conf, flights, idle, down, store, late, head>>

\* ErrBusy does not mark the cache as down.
Busy(g) ==
    /\ call[g].pc = "acquire" /\ Cardinality(slots) = conf.size
    /\ call' = [call EXCEPT ![g] = After(g, None)]
    /\ UNCHANGED <<conf, flights, slots, idle, down, store, late, head>>

acquire(g) ==
    /\ call[g].pc = "pick"
    /\ IF idle # <<>>
       THEN /\ idle' = Tail(idle)
            /\ call' = [call EXCEPT ![g].pc = "io", ![g].conn = Sent(Head(idle), g)]
       ELSE /\ idle' = idle
            /\ call' = [call EXCEPT ![g].pc = "dial"]
    /\ UNCHANGED <<conf, flights, slots, down, store, late, head>>

Dialed(g) ==
    /\ call[g].pc = "dial"
    /\ call' = [call EXCEPT ![g].pc = "io", ![g].conn = Sent([sent |-> <<>>, replies |-> <<>>], g)]
    /\ UNCHANGED <<conf, flights, slots, idle, down, store, late, head>>

DialFails(g) ==
    /\ call[g].pc = "dial" /\ "dial" \in conf.faults
    /\ slots' = slots \ {g}
    /\ down' = TRUE
    /\ call' = [call EXCEPT ![g] = After(g, None)]
    /\ UNCHANGED <<conf, flights, idle, store, late, head>>

\* The cache server runs the next command of a connection, or answers it with an error.
Serve(g) ==
    LET conn == call[g].conn  cmd == Head(conn.sent) IN
    /\ call[g].pc = "io" /\ conn.sent # <<>>
    /\ \E r \in (IF "refuse" \in conf.faults THEN {"error"} ELSE {}) \cup {IF cmd.op = "SET" THEN "ok" ELSE "bulk"} :
        /\ store' = IF r = "ok" THEN [store EXCEPT ![cmd.key] = cmd.val] ELSE store
        /\ call' = [call EXCEPT ![g].conn = [sent |-> Tail(conn.sent),
                        replies |-> Append(conn.replies, IF r = "bulk" THEN store[cmd.key] ELSE [kind |-> r, key |-> cmd.key, v |-> 0])]]
    /\ UNCHANGED <<conf, flights, slots, idle, down, late, head>>

\* roundTrip reads one reply; a connection that answered with an error is not used again.
roundTrip(g) ==
    LET r == Head(call[g].conn.replies) IN
    /\ call[g].pc = "io" /\ call[g].conn.replies # <<>>
    /\ call' = [call EXCEPT ![g].pc = "release", ![g].healthy = r.kind # "error", ![g].reply = r,
                            ![g].conn = [sent |-> @.sent, replies |-> Tail(@.replies)]]
    /\ UNCHANGED <<conf, flights, slots, idle, down, store, late, head>>

GaveUp(g) == {cmd \in {call[g].conn.sent[i] : i \in DOMAIN call[g].conn.sent} : cmd.op = "SET"}

\* As Deadline, with the connection put back.
DeadlineKept(g) ==
    /\ call[g].pc = "io" /\ call[g].conn.replies = <<>> /\ "timeout" \in conf.faults
    /\ call' = [call EXCEPT ![g].pc = "release", ![g].healthy = TRUE, ![g].reply = None]
    /\ UNCHANGED <<conf, flights, slots, idle, down, store, late, head>>

Deadline(g) ==
    /\ call[g].pc = "io" /\ call[g].conn.replies = <<>> /\ "timeout" \in conf.faults
    /\ call' = [call EXCEPT ![g].pc = "release", ![g].healthy = FALSE, ![g].reply = None]
    /\ late' = late \cup GaveUp(g)
    /\ UNCHANGED <<conf, flights, slots, idle, down, store, head>>

\* The connection goes back to the pool before the token does.
release(g) ==
    /\ call[g].pc = "release"
    /\ idle' = IF call[g].healthy /\ Len(idle) < conf.size THEN Append(idle, call[g].conn) ELSE idle
    /\ call' = [call EXCEPT ![g].pc = "free", ![g].conn = None]
    /\ UNCHANGED <<conf, flights, slots, down, store, late, head>>

\* The token is returned, and cacheError skips the cache for a while.
Released(g) ==
    LET failed == call[g].reply = None \/ call[g].reply.kind = "error" IN
    /\ call[g].pc = "free"
    /\ slots' = slots \ {g}
    /\ down' = (down \/ failed)
    /\ call' = [call EXCEPT ![g] = After(g, IF failed THEN None ELSE call[g].reply)]
    /\ UNCHANGED <<conf, flights, idle, store, late, head>>

\* -------------------------------------------------------------------------
\* Flights

fetch(g) ==
    /\ call[g].pc = "fetch"
    /\ IF flights[Key(g)] # None
       THEN /\ call' = [call EXCEPT ![g].pc = "wait", ![g].on = flights[Key(g)], ![g].reply = None]
            /\ UNCHANGED flights
       ELSE /\ call' = [call EXCEPT ![g].pc = "upstream", ![g].on = g, ![g].reply = None]
            /\ flights' = [flights EXCEPT ![Key(g)] = g]
    /\ UNCHANGED <<conf, slots, idle, down, store, late, head>>

\* Only a result that is not null is kept, unless its class has no TTL or it is too large.
Storable(a) == a.kind = "result" /\ conf.kept[a.key]

callUpstream(g) ==
    /\ call[g].pc = "upstream"
    /\ \E a \in Answers(Key(g)) :
        call' = [call EXCEPT ![g].got = a, ![g].op = "SET", ![g].pc = IF Storable(a) /\ ~down THEN "acquire" ELSE "land"]
    /\ UNCHANGED <<conf, flights, slots, idle, down, store, late, head>>

\* The flight ends after the cache was written.
Land(g) ==
    /\ call[g].pc = "land"
    /\ flights' = [flights EXCEPT ![Key(g)] = None]
    /\ call' = [call EXCEPT ![g].pc = "done", ![g].reply = Reply("MISS", call[g].got)]
    /\ UNCHANGED <<conf, slots, idle, down, store, late, head>>

Coalesced(g) ==
    /\ call[g].pc = "wait" /\ call[call[g].on].pc = "done"
    /\ call' = [call EXCEPT ![g].pc = "done", ![g].reply = Reply("COALESCED", call[call[g].on].got)]
    /\ UNCHANGED <<conf, flights, slots, idle, down, store, late, head>>

\* -------------------------------------------------------------------------
\* The world

Advance(k) ==
    /\ head[k] < conf.heads
    /\ head' = [head EXCEPT ![k] = @ + 1]
    /\ UNCHANGED <<conf, call, flights, slots, idle, down, store, late>>

Expire(k) ==
    /\ store[k] # Nil
    /\ store' = [store EXCEPT ![k] = Nil]
    /\ UNCHANGED <<conf, call, flights, slots, idle, down, late, head>>

LateSet ==
    \E cmd \in late :
        /\ late' = late \ {cmd}
        /\ store' = [store EXCEPT ![cmd.key] = cmd.val]
        /\ UNCHANGED <<conf, call, flights, slots, idle, down, head>>

cacheUsable ==
    /\ down /\ down' = FALSE
    /\ UNCHANGED <<conf, call, flights, slots, idle, store, late, head>>

Init ==
    /\ conf \in Deployments
    /\ call = [g \in DOMAIN conf.calls |-> New]
    /\ flights = [k \in Keys |-> None]
    /\ slots = {} /\ idle = <<>> /\ down = FALSE /\ late = {}
    /\ store = [k \in Keys |-> Nil]
    /\ head = [k \in Keys |-> 1]

Next ==
    \/ \E g \in DOMAIN conf.calls :
        \/ handleOne(g) \/ passthrough(g) \/ TakeToken(g) \/ Busy(g) \/ acquire(g) \/ Dialed(g) \/ DialFails(g)
        \/ Serve(g) \/ roundTrip(g) \/ Deadline(g) \/ release(g) \/ Released(g)
        \/ fetch(g) \/ callUpstream(g) \/ Land(g) \/ Coalesced(g)
    \/ \E k \in Keys : Advance(k) \/ Expire(k)
    \/ LateSet \/ cacheUsable

Spec == Init /\ [][Next]_vars

\* -------------------------------------------------------------------------
\* Properties

\* Every call is answered with what the node said to its own question (handleOne, fetch, roundTrip): no shared flight and
\* no reused connection hands it another key's answer, and only a call whose request may be cached is answered without its own post.
AnswersOwn ==
    \A g \in DOMAIN conf.calls : call[g].pc = "done" =>
        /\ call[g].reply.answer.key = Key(g)
        /\ call[g].reply.label = "BYPASS" <=> Bypassed(g)
        /\ call[g].reply.label = "HIT" => call[g].reply.answer.kind = "result"

\* At most conf.size connections to the cache are open or being opened (RESPCache: "at most size are open at once"), and an
\* idle one owes no reply.
PoolBounded ==
    /\ Len(idle) + Cardinality({g \in DOMAIN conf.calls : call[g].conn # None \/ call[g].pc = "dial"}) <= conf.size
    /\ \A i \in DOMAIN idle : idle[i] = [sent |-> <<>>, replies |-> <<>>]

\* A key has a flight exactly while the call that leads it has not answered, so one upstream call per key is out; and a call
\* that waits, waits for a leader that runs or has answered its key (fetch).
FlightsExact ==
    /\ \A k \in Keys, g \in DOMAIN conf.calls :
        flights[k] = g <=> call[g].on = g /\ Key(g) = k /\ call[g].pc # "done"
    /\ \A g \in DOMAIN conf.calls : call[g].pc = "wait" =>
        LET l == call[g].on IN Key(l) = Key(g) /\ (call[l].pc = "done" \/ flights[Key(g)] = l)

\* The cache holds results only, and a leader never writes an answer older than the one it replaces: its flight keeps every
\* other writer of the key out until it has written, and a SET nobody waits for any more is of an earlier flight.
NewestStored ==
    /\ \A k \in Keys : store[k] = Nil \/ (store[k].kind = "result" /\ conf.kept[k])
    /\ \A g \in DOMAIN conf.calls : call[g].conn # None => \A i \in DOMAIN call[g].conn.sent :
        LET cmd == call[g].conn.sent[i] IN cmd.op = "SET" => cmd.val.v >= store[cmd.key].v

\* What the proxy keeps for the calls that share its cache connections and its upstream calls (handleOne, RESPCache).
RpcKept == AnswersOwn /\ PoolBounded /\ FlightsExact /\ NewestStored
=============================================================================
