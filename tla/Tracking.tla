------------------------------ MODULE Tracking ------------------------------
(***************************************************************************)
(* Client-side caching: CLIENT TRACKING and CLIENT CACHING, the keys a     *)
(* connection is remembered to have read, and the invalidations the        *)
(* writers send (src/internal/server/client_tracking.go, and where         *)
(* tcp_server.go calls it).                                                *)
(*                                                                         *)
(* A command runs, then its reply is written, then the keys it read are    *)
(* remembered, then every registered client is told of the keys it wrote;  *)
(* other connections run between these steps.  What the client caches is   *)
(* part of the model: the replies and the invalidations of a connection    *)
(* arrive in the order they are written.                                   *)
(***************************************************************************)
EXTENDS Integers, FiniteSets, TLC

CONSTANTS
    None,
    Deployments  \* clients, keys, protocols, commands, tracking options, what may fail, and the bounds

VARIABLES
    conf,             \* the deployment
    mem,              \* versions of the keys
    clients,          \* the registered clients
    open,             \* connections that are not closed
    proto,            \* protocol version of a client
    tracking,         \* clientTrackingState of a client
    trackingClients,  \* the counter that lets everyone skip the work
    run,              \* the command a connection is executing and how far it is
    cache,            \* external: what a client caches
    asked,            \* external: the CLIENT CACHING it sent before its next command
    excused,          \* keys a client may hold stale until it reads them again: see Race, Exec and Push
    steps             \* commands run so far

vars == <<conf, mem, clients, open, proto, tracking, trackingClients, run, cache, asked, excused, steps>>

Off == [enabled |-> FALSE, bcast |-> FALSE, noLoop |-> FALSE, mode |-> "default", prefixes |-> {},
        keys |-> {}, redirectID |-> None, cacheOverride |-> 0]
Idle == [pc |-> "idle", cmd |-> None, vals |-> <<>>, left |-> {}, to |-> None, hit |-> {}]

Asks(c) == run[c].pc = "idle" /\ c \in open /\ steps < conf.steps /\ steps' = steps + 1

\* A prefix is the set of keys that start with it.
Matches(t, k) == t.prefixes = {} \/ \E p \in t.prefixes : k \in p

\* -------------------------------------------------------------------------
\* CLIENT TRACKING and CLIENT CACHING

\* The options are refused together as executeClientTracking refuses them.
Accepted(o) ==
    /\ ~(o.optin /\ o.optout)
    /\ ~(o.bcast /\ (o.optin \/ o.optout))
    /\ o.prefixes # {} => o.bcast
    /\ o.redirect # None => o.redirect \in clients

Mode(o) == IF o.optin THEN "optin" ELSE IF o.optout THEN "optout" ELSE "default"

\* ON forgets the keys of an earlier ON; the client starts with an empty cache.
TrackingOn(c, o) ==
    /\ Asks(c)
    /\ IF Accepted(o)
       THEN /\ tracking' = [tracking EXCEPT ![c] =
                  [enabled |-> TRUE, bcast |-> o.bcast, noLoop |-> o.noloop, mode |-> Mode(o), prefixes |-> o.prefixes,
                   keys |-> {}, redirectID |-> o.redirect, cacheOverride |-> 0]]
            /\ trackingClients' = IF tracking[c].enabled THEN trackingClients ELSE trackingClients + 1
            /\ cache' = [cache EXCEPT ![c] = <<>>]
            /\ excused' = [excused EXCEPT ![c] = {}]
            /\ asked' = [asked EXCEPT ![c] = 0]
       ELSE UNCHANGED <<tracking, trackingClients, cache, excused, asked>>
    /\ UNCHANGED <<conf, mem, clients, open, proto, run>>

\* Without the counter: what OFF, RESET and the end of a connection have in common.
Ended(c) ==
    /\ tracking' = [tracking EXCEPT ![c] = Off]
    /\ trackingClients' = IF tracking[c].enabled THEN trackingClients - 1 ELSE trackingClients
    /\ cache' = [cache EXCEPT ![c] = <<>>]
    /\ asked' = [asked EXCEPT ![c] = 0]
    /\ excused' = [excused EXCEPT ![c] = {}]

TrackingOff(c) ==
    /\ Asks(c) /\ "off" \in conf.ends
    /\ Ended(c)
    /\ UNCHANGED <<conf, mem, clients, open, proto, run>>

\* RESET: tracking ends and the protocol is 2 again.
Reset(c) ==
    /\ Asks(c) /\ "reset" \in conf.ends
    /\ Ended(c)
    /\ proto' = [proto EXCEPT ![c] = 2]
    /\ UNCHANGED <<conf, mem, clients, open, run>>

\* YES in OPTIN mode, NO in OPTOUT mode, an error otherwise.
Caching(c, yes) ==
    /\ Asks(c) /\ conf.caching
    /\ LET t == tracking[c]
           ok == t.enabled /\ t.mode = IF yes THEN "optin" ELSE "optout"
           v == IF yes THEN 1 ELSE -1
       IN  /\ tracking' = IF ok THEN [tracking EXCEPT ![c].cacheOverride = v] ELSE tracking
           /\ asked' = IF ok THEN [asked EXCEPT ![c] = v] ELSE asked
    /\ UNCHANGED <<conf, mem, clients, open, proto, trackingClients, run, cache, excused>>

\* -------------------------------------------------------------------------
\* Commands: [reads, writes, fast]; a fast SET is not looked at for reads.

Keys == DOMAIN mem

\* A write that another connection applies between the read of a value and the end of its tracking is one
\* its invalidation can miss.
Race(writes) ==
    [c \in DOMAIN excused |->
        IF run[c].pc \in {"replying", "tracking"} THEN excused[c] \cup (writes \cap run[c].cmd.reads) ELSE excused[c]]

\* The keys of a reply the client caches: those its mode makes the server track, in a command that only reads.
Cacheable(c, cmd) ==
    LET t == tracking[c]
        wanted == CASE t.mode = "optin" -> asked[c] = 1
                    [] t.mode = "optout" -> asked[c] # -1
                    [] OTHER -> TRUE
    IN  {k \in cmd.reads : /\ t.enabled /\ cmd.writes = {}
                           /\ IF t.bcast THEN Matches(t, k) ELSE wanted}

Execute(c, cmd) ==
    /\ Asks(c) /\ cmd \in conf.commands
    /\ mem' = [k \in Keys |-> IF k \in cmd.writes THEN mem[k] + 1 ELSE mem[k]]
    /\ run' = [run EXCEPT ![c] = [pc |-> "replying", cmd |-> cmd, vals |-> [k \in cmd.reads |-> mem[k]],
                                  left |-> {}, to |-> None, hit |-> {}]]
    /\ excused' = [x \in DOMAIN excused |-> IF x = c THEN Race(cmd.writes)[x] \ Cacheable(c, cmd) ELSE Race(cmd.writes)[x]]
    /\ UNCHANGED <<conf, clients, open, proto, tracking, trackingClients, cache, asked>>

\* EXEC: the connection loop continues without looking at what the transaction read or wrote.
Exec(c, cmd) ==
    /\ Asks(c) /\ cmd \in conf.execs
    /\ mem' = [k \in Keys |-> IF k \in cmd.writes THEN mem[k] + 1 ELSE mem[k]]
    /\ excused' = [x \in DOMAIN excused |-> Race(cmd.writes)[x] \cup (cmd.writes \cap DOMAIN cache[x])]
    /\ asked' = [asked EXCEPT ![c] = 0]
    /\ UNCHANGED <<conf, clients, open, proto, tracking, trackingClients, run, cache>>

\* The reply is written.  With NOLOOP a client drops the keys it writes by itself.
Replies(c) ==
    /\ run[c].pc = "replying"
    /\ LET cmd == run[c].cmd
           own == IF tracking[c].noLoop THEN cmd.writes ELSE {}
           new == Cacheable(c, cmd)
       IN  /\ cache' = [cache EXCEPT ![c] = [k \in (DOMAIN @ \cup new) \ own |-> IF k \in new THEN run[c].vals[k] ELSE @[k]]]
           /\ asked' = [asked EXCEPT ![c] = 0]
           /\ run' = [run EXCEPT ![c].pc = "tracking"]
    /\ UNCHANGED <<conf, mem, clients, open, proto, tracking, trackingClients, excused, steps>>

\* consumeTrackingDecision: the override is consumed whatever is decided.
Decision(t) ==
    /\ t.enabled /\ ~t.bcast
    /\ CASE t.mode = "optin" -> t.cacheOverride = 1
         [] t.mode = "optout" -> t.cacheOverride # -1
         [] OTHER -> TRUE

rememberTrackedKeys(t, keys) ==
    [enabled |-> t.enabled, bcast |-> t.bcast, noLoop |-> t.noLoop, mode |-> t.mode, prefixes |-> t.prefixes,
     keys |-> IF Decision(t) THEN t.keys \cup keys ELSE t.keys, redirectID |-> t.redirectID, cacheOverride |-> 0]

\* trackCommandRead, then the start of invalidateTrackingKeys: the clients registered now will be told.
trackCommandRead(c) ==
    /\ run[c].pc = "tracking"
    /\ LET cmd == run[c].cmd
           tell == IF trackingClients = 0 \/ cmd.writes = {} THEN {} ELSE clients
       IN  /\ tracking' = IF cmd.fast \/ trackingClients = 0 THEN tracking
                          ELSE [tracking EXCEPT ![c] = rememberTrackedKeys(@, cmd.reads)]
           /\ run' = [run EXCEPT ![c] = IF tell = {} THEN Idle
                                        ELSE [pc |-> "telling", cmd |-> cmd, vals |-> <<>>, left |-> tell, to |-> None, hit |-> {}]]
    /\ UNCHANGED <<conf, mem, clients, open, proto, trackingClients, cache, asked, excused, steps>>

\* -------------------------------------------------------------------------
\* Invalidation

\* As DeliveredTo, for a client that is taken to know its own writes.
DeliveredToOthers(x, t, writer, keys) ==
    IF ~t.enabled \/ x = writer THEN {}
    ELSE IF t.bcast THEN {k \in keys : Matches(t, k)} ELSE keys \cap t.keys

\* The keys of a write that client x, whose state is t, is to be told of.
DeliveredTo(x, t, writer, keys) ==
    IF ~t.enabled \/ (t.noLoop /\ x = writer) THEN {}
    ELSE IF t.bcast THEN {k \in keys : Matches(t, k)} ELSE keys \cap t.keys

\* Of one client at a time, each key being consumed even when NOLOOP keeps it from being told.
consumeInvalidation(w, x) ==
    /\ run[w].pc = "telling" /\ x \in run[w].left
    /\ LET t == tracking[x]
           keys == run[w].cmd.writes
           hit == DeliveredTo(x, t, w, keys)
           left == run[w].left \ {x}
       IN  /\ tracking' = IF t.enabled /\ ~t.bcast THEN [tracking EXCEPT ![x].keys = @ \ keys] ELSE tracking
           /\ run' = [run EXCEPT ![w] = IF hit = {} /\ left = {} THEN Idle
                                        ELSE [pc |-> IF hit = {} THEN "telling" ELSE "pushing", cmd |-> run[w].cmd, vals |-> <<>>,
                                              left |-> left, to |-> x, hit |-> hit]]
    /\ UNCHANGED <<conf, mem, clients, open, proto, trackingClients, cache, asked, excused, steps>>

\* The push, to the client or to where it redirects; a redirect that is gone is reported to a RESP3 client,
\* which then drops what it caches.  The error of a push is not looked at.
Push(w) ==
    /\ run[w].pc = "pushing"
    /\ LET x == run[w].to
           r == tracking[x].redirectID
           broken == r # None /\ r \notin clients
           target == IF r = None THEN x ELSE r
           drop(keys) == [cache EXCEPT ![x] = [k \in DOMAIN @ \ keys |-> @[k]]]
           lost == [excused EXCEPT ![x] = @ \cup run[w].hit]
       IN  \/ broken /\ proto[x] = 3 /\ x \in open /\ cache' = drop(Keys) /\ UNCHANGED excused
           \/ broken /\ ~(proto[x] = 3 /\ x \in open) /\ excused' = lost /\ UNCHANGED cache
           \/ ~broken /\ proto[target] = 3 /\ target \in open /\ cache' = drop(run[w].hit) /\ UNCHANGED excused
           \/ ~broken /\ ~(proto[target] = 3 /\ target \in open) /\ excused' = lost /\ UNCHANGED cache
    /\ run' = [run EXCEPT ![w] = IF run[w].left = {} THEN Idle
                                 ELSE [pc |-> "telling", cmd |-> run[w].cmd, vals |-> <<>>, left |-> run[w].left, to |-> None, hit |-> {}]]
    /\ UNCHANGED <<conf, mem, clients, open, proto, tracking, trackingClients, asked, steps>>

\* -------------------------------------------------------------------------
\* The end of a connection

Hangup(c) ==
    /\ "hangup" \in conf.ends /\ c \in open
    /\ open' = open \ {c}
    /\ UNCHANGED <<conf, mem, clients, proto, tracking, trackingClients, run, cache, asked, excused, steps>>

\* The deferred calls of the loop: the counter, then the registry.  The state stays with the old pointer.
Exit(c) ==
    /\ c \in clients \ open /\ run[c].pc = "idle"
    /\ trackingClients' = IF tracking[c].enabled THEN trackingClients - 1 ELSE trackingClients
    /\ clients' = clients \ {c}
    /\ UNCHANGED <<conf, mem, open, proto, tracking, run, cache, asked, excused, steps>>

-----------------------------------------------------------------------------
Init ==
    /\ conf \in Deployments
    /\ mem = [k \in conf.keys |-> 0]
    /\ clients = DOMAIN conf.proto /\ open = clients /\ proto = conf.proto
    /\ tracking = [c \in clients |-> Off] /\ trackingClients = 0
    /\ run = [c \in clients |-> Idle]
    /\ cache = [c \in clients |-> <<>>] /\ asked = [c \in clients |-> 0] /\ excused = [c \in clients |-> {}]
    /\ steps = 0

Next ==
    \E c \in DOMAIN proto :
        \/ \E o \in conf.options : o.who = c /\ TrackingOn(c, o)
        \/ TrackingOff(c) \/ Reset(c)
        \/ \E yes \in BOOLEAN : Caching(c, yes)
        \/ \E cmd \in conf.commands : Execute(c, cmd)
        \/ \E cmd \in conf.execs : Exec(c, cmd)
        \/ Replies(c) \/ trackCommandRead(c)
        \/ \E x \in DOMAIN proto : consumeInvalidation(c, x)
        \/ Push(c)
        \/ Hangup(c) \/ Exit(c)

Spec == Init /\ [][Next]_vars

-----------------------------------------------------------------------------
\* The counter is the number of registered clients that track: at zero nothing is remembered and nobody is
\* told, so one too few would silence trackCommandRead and invalidateTrackingKeys.
CountExact == trackingClients = Cardinality({c \in clients : tracking[c].enabled})

\* Someone is still going to tell client c of key k.
Pending(c, k) ==
    \E w \in DOMAIN run :
        \/ run[w].pc \in {"replying", "tracking"} /\ k \in run[w].cmd.writes
        \/ run[w].pc \in {"telling", "pushing"} /\ k \in run[w].cmd.writes /\ c \in run[w].left
        \/ run[w].pc = "pushing" /\ run[w].to = c /\ k \in run[w].hit

\* A RESP3 client that tracks holds no stale value once the writers' commands have ended, whatever its mode,
\* prefixes and redirection (trackCommandRead, invalidateTrackingKeys): unless the write raced its read, was
\* part of a transaction, or the push was lost with the connection it was redirected to.
CacheSound ==
    \A c \in open \cap clients : \A k \in DOMAIN cache[c] :
        \/ cache[c][k] = mem[k]
        \/ Pending(c, k) \/ k \in excused[c]
        \/ run[c].pc = "replying"
        \/ proto[c] # 3

TrackingKept == CountExact /\ CacheSound
=============================================================================
