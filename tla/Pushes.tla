------------------------------- MODULE Pushes -------------------------------
(***************************************************************************)
(* What a connection is sent besides the replies to its commands: Pub/Sub  *)
(* messages and MONITOR lines (src/internal/server/pubsub_hub.go,          *)
(* pubsub_session.go, pubsub_push.go, pubsub_tcp.go, monitor.go).          *)
(*                                                                         *)
(* A connection has a command loop, one current Pub/Sub session and at     *)
(* most one monitor; RESET replaces both.  A session and a monitor each    *)
(* have a goroutine that drains a bounded queue into the connection.  The  *)
(* hub's mutex is held while a publish is handed out and while a           *)
(* confirmation is written.  serializedResponseWriter makes a write to a   *)
(* connection one step; a write that fails may leave a part behind.        *)
(***************************************************************************)
EXTENDS Integers, Sequences, FiniteSets, SequencesExt

CONSTANTS
    None,
    Deployments  \* connections, what they ask, what is published, the sizes of the queues, and the bounds

VARIABLES
    conf,          \* the deployment
    reg,           \* the hub: kind, then name, to the sessions that hold it
    holder,        \* who holds the hub's mutex: a connection, "publish" or None
    job,           \* the deliveries the publish in progress has still to make
    failed,        \* the sessions it could not deliver to
    sess,          \* sessions, <<connection, generation, "s">>
    mons,          \* monitors, <<connection, generation, "m">>
    monitors,      \* the monitors that are fed
    monitorCount,
    loop,          \* command loops
    open,          \* connections that are not closed
    buf,           \* replies buffered for a connection
    wire,          \* what each connection was sent
    due,           \* what each session and monitor should be sent
    steps,         \* commands run so far
    published      \* messages published so far

vars == <<conf, reg, holder, job, failed, sess, mons, monitors, monitorCount, loop, open, buf, wire, due, steps, published>>
hubVars == <<reg, holder, job, failed>>
monVars == <<mons, monitors, monitorCount>>

Kinds == {"channel", "pattern", "shard"}
Frame(k, kind, of, names, n) == [k |-> k, kind |-> kind, of |-> of, names |-> names, n |-> n]
Message(s, kind, name, n) == Frame("message", kind, s, {name}, n)
Reply(n) == Frame("reply", None, None, {}, n)
Line(m, n) == Frame("line", None, m, {}, n)
Partial == Frame("torn", None, None, {}, 0)

Of(c) == <<c, loop[c].gen, "s">>

\* -------------------------------------------------------------------------
\* Sessions and the registries

newPubSubSession ==
    [owns |-> [k \in Kinds |-> {}], closed |-> FALSE, active |-> FALSE, push |-> None,
     stop |-> FALSE, sender |-> "off", frame |-> None, dropping |-> FALSE]

Holders(k, n) == IF n \in DOMAIN reg[k] THEN reg[k][n] ELSE {}

Registered(s, k, names) ==
    [reg EXCEPT ![k] = [n \in DOMAIN @ \cup names |-> IF n \in names THEN Holders(k, n) \cup {s} ELSE @[n]]]

\* A name whose last session goes is deleted.
Unregistered(s, k, names) ==
    [reg EXCEPT ![k] = [n \in {m \in DOMAIN @ : m \notin names \/ @[m] # {s}} |->
                            IF n \in names THEN @[n] \ {s} ELSE @[n]]]

\* removeSessionLocked, of sessions whose own sets say where they are registered.
RemovedFrom(S) ==
    LET at(k, n) == {s \in S : n \in sess[s].owns[k]}
    IN  [k \in Kinds |-> [n \in {m \in DOMAIN reg[k] : reg[k][m] \ at(k, m) # {}} |-> reg[k][n] \ at(k, n)]]

Shut(r, drop) ==
    [owns |-> [k \in Kinds |-> {}], closed |-> TRUE, active |-> FALSE, push |-> r.push,
     stop |-> r.push # None, sender |-> r.sender, frame |-> r.frame, dropping |-> drop]

\* What a session owns after an operation, with refreshActiveLocked.
Owning(r, k, names) ==
    [owns |-> [r.owns EXCEPT ![k] = names], closed |-> r.closed,
     active |-> ~r.closed /\ (names # {} \/ \E j \in Kinds \ {k} : r.owns[j] # {}), push |-> r.push,
     stop |-> r.stop, sender |-> r.sender, frame |-> r.frame, dropping |-> r.dropping]

\* -------------------------------------------------------------------------
\* The connection's writer

Goes(c, pc) == [loop EXCEPT ![c].pc = pc]

\* write, writePush, flush: the buffered replies go first.
WriteOK(c, frames) ==
    /\ c \in open
    /\ wire' = [wire EXCEPT ![c] = @ \o buf[c] \o frames]
    /\ buf' = [buf EXCEPT ![c] = <<>>]

\* A failed write keeps the buffer.
WriteFails(c) ==
    /\ c \in open => conf.faults
    /\ wire' \in {wire} \cup (IF c \in open THEN {[wire EXCEPT ![c] = Append(@, Partial)]} ELSE {})
    /\ UNCHANGED buf

\* write makes two writes, of the buffer and of what it was given: the second may fail alone.
WriteAborts(c) ==
    \/ WriteFails(c)
    \/ /\ c \in open /\ conf.faults /\ buf[c] # <<>>
       /\ \E cut \in {<<>>, <<Partial>>} : wire' = [wire EXCEPT ![c] = @ \o buf[c] \o cut]
       /\ buf' = [buf EXCEPT ![c] = <<>>]

\* A reply that does not fit pushes out what is buffered.
writeBuffered(c) ==
    LET r == Reply(loop[c].replies)
        answered == [loop EXCEPT ![c].replies = @ + 1]
    IN  IF Len(buf[c]) < conf.buffer
        THEN buf' = [buf EXCEPT ![c] = Append(@, r)] /\ loop' = answered /\ UNCHANGED wire
        ELSE \/ /\ c \in open
                /\ wire' = [wire EXCEPT ![c] = @ \o buf[c]]
                /\ buf' = [buf EXCEPT ![c] = <<r>>] /\ loop' = answered
             \/ WriteFails(c) /\ loop' = Goes(c, "leaving")

\* The loop flushes when it has read every command that is buffered.
flush(c) ==
    /\ loop[c].pc = "idle" /\ buf[c] # <<>>
    /\ \/ WriteOK(c, <<>>) /\ UNCHANGED loop
       \/ WriteFails(c) /\ loop' = Goes(c, "leaving")
    /\ UNCHANGED <<conf, hubVars, sess, monVars, open, due, steps, published>>

\* -------------------------------------------------------------------------
\* Subscribing

Free == holder = None
Asks(c) == loop[c].pc = "idle" /\ c \in open /\ steps < conf.steps /\ steps' = steps + 1

\* The registry changes and the confirmation is still to be written, under the hub's mutex.
Confirming(c, what, k, names) ==
    /\ holder' = c
    /\ loop' = [loop EXCEPT ![c].pc = "confirm", ![c].say = <<Frame(what, k, Of(c), names, 0)>>]

\* A session the hub has dropped refuses: "ERR client connection is closed".
Refused(c) == sess[Of(c)].closed /\ writeBuffered(c) /\ UNCHANGED <<hubVars, sess>>

subscribe(c, k, names) ==
    /\ Asks(c) /\ Free /\ <<"subscribe", k, names>> \in conf.asks
    /\ LET s == Of(c) IN
       \/ Refused(c)
       \/ /\ ~sess[s].closed
          /\ reg' = Registered(s, k, names \ sess[s].owns[k])
          /\ sess' = [sess EXCEPT ![s] = Owning(@, k, @.owns[k] \cup names)]
          /\ Confirming(c, "subscribed", k, names)
          /\ UNCHANGED <<job, failed, buf, wire>>
    /\ UNCHANGED <<conf, monVars, open, due, published>>

\* Without names, every name of the kind.
unsubscribe(c, k, names) ==
    /\ Asks(c) /\ Free /\ <<"unsubscribe", k, names>> \in conf.asks
    /\ LET s == Of(c)
           gone == IF names = {} THEN sess[s].owns[k] ELSE names IN
       \/ Refused(c)
       \/ /\ ~sess[s].closed
          /\ reg' = Unregistered(s, k, gone \cap sess[s].owns[k])
          /\ sess' = [sess EXCEPT ![s] = Owning(@, k, @.owns[k] \ gone)]
          /\ Confirming(c, "unsubscribed", k, gone)
          /\ UNCHANGED <<job, failed, buf, wire>>
    /\ UNCHANGED <<conf, monVars, open, due, published>>

\* A write that fails closes the peer, and the error reply goes to the buffer.
Confirm(c) ==
    /\ loop[c].pc = "confirm"
    /\ holder' = None
    /\ \/ WriteOK(c, loop[c].say) /\ loop' = Goes(c, "idle") /\ UNCHANGED open
       \/ WriteAborts(c) /\ open' = open \ {c} /\ loop' = Goes(c, "leaving")
    /\ UNCHANGED <<conf, reg, job, failed, sess, monVars, due, steps, published>>

\* -------------------------------------------------------------------------
\* Publishing

\* The deliveries of a message: the channel's sessions, then the matching patterns in order.
Deliveries(k, name, n) ==
    LET to(kind, x) == [i \in 1..Cardinality(Holders(kind, x)) |->
                           LET s == SetToSeq(Holders(kind, x))[i] IN <<s, Message(s, kind, x, n)>>]
    IN  to(k, name) \o
        (IF k = "shard" THEN <<>>
         ELSE FlattenSeq([i \in DOMAIN conf.patterns |->
                  IF <<conf.patterns[i], name>> \in conf.globs THEN to("pattern", conf.patterns[i]) ELSE <<>>]))

\* What a subscriber expects of it, from what it subscribed to.
Expected(s, k, name, n) ==
    (IF name \in sess[s].owns[k] THEN <<Message(s, k, name, n)>> ELSE <<>>) \o
    (IF k = "shard" THEN <<>>
     ELSE LET p == SelectSeq(conf.patterns, LAMBDA x : x \in sess[s].owns["pattern"] /\ <<x, name>> \in conf.globs)
          IN  [i \in DOMAIN p |-> Message(s, "pattern", p[i], n)])

publish(k, name) ==
    /\ Free /\ published < conf.publishes
    /\ holder' = "publish"
    /\ job' = Deliveries(k, name, published)
    /\ due' = [x \in DOMAIN due |-> IF x[3] = "s" THEN due[x] \o Expected(x, k, name, published) ELSE due[x]]
    /\ published' = published + 1
    /\ UNCHANGED <<conf, reg, failed, sess, monVars, loop, open, buf, wire, steps>>

\* The first delivery starts the sender; a full queue fails.
deliverLocked ==
    /\ holder = "publish" /\ job # <<>>
    /\ LET s == Head(job)[1]
           f == Head(job)[2] IN
       IF sess[s].push = None
       THEN sess' = [sess EXCEPT ![s].push = <<f>>, ![s].sender = "idle"] /\ UNCHANGED failed
       ELSE IF Len(sess[s].push) < conf.queue
       THEN sess' = [sess EXCEPT ![s].push = Append(@, f)] /\ UNCHANGED failed
       ELSE failed' = failed \cup {s} /\ UNCHANGED sess
    /\ job' = Tail(job)
    /\ UNCHANGED <<conf, reg, holder, monVars, loop, open, buf, wire, due, steps, published>>

dropFailedLocked ==
    /\ holder = "publish" /\ job = <<>>
    /\ holder' = None /\ failed' = {}
    /\ LET S == {s \in failed : ~sess[s].closed} IN
       /\ reg' = RemovedFrom(S)
       /\ sess' = [s \in DOMAIN sess |-> IF s \in S THEN Shut(sess[s], TRUE) ELSE sess[s]]
    /\ UNCHANGED <<conf, job, monVars, loop, open, buf, wire, due, steps, published>>

\* go onDrop()
onDrop(s) ==
    /\ sess[s].dropping
    /\ sess' = [sess EXCEPT ![s].dropping = FALSE]
    /\ open' = open \ {s[1]}
    /\ UNCHANGED <<conf, hubVars, monVars, loop, buf, wire, due, steps, published>>

\* The select of runSender, which may take a frame although stop is closed.
SenderTakes(s) ==
    /\ sess[s].sender = "idle" /\ sess[s].push # <<>>
    /\ sess' = [sess EXCEPT ![s].sender = "taken", ![s].frame = Head(sess[s].push), ![s].push = Tail(@)]
    /\ UNCHANGED <<conf, hubVars, monVars, loop, open, buf, wire, due, steps, published>>

SenderStops(s) ==
    /\ sess[s].sender = "idle" /\ sess[s].stop
    /\ sess' = [sess EXCEPT ![s].sender = "end"]
    /\ UNCHANGED <<conf, hubVars, monVars, loop, open, buf, wire, due, steps, published>>

writePush(s) ==
    /\ sess[s].sender = "taken"
    /\ \/ WriteOK(s[1], <<sess[s].frame>>) /\ sess' = [sess EXCEPT ![s].sender = "idle", ![s].frame = None]
       \/ WriteFails(s[1]) /\ sess' = [sess EXCEPT ![s].sender = "failed"]
    /\ UNCHANGED <<conf, hubVars, monVars, loop, open, due, steps, published>>

\* The sender gives up: it removes the session and closes the connection, unless someone else did.
SenderFails(s) ==
    /\ sess[s].sender = "failed" /\ Free
    /\ IF sess[s].closed
       THEN sess' = [sess EXCEPT ![s].sender = "end"] /\ UNCHANGED <<reg, open>>
       ELSE /\ reg' = RemovedFrom({s})
            /\ sess' = [sess EXCEPT ![s] = Shut([sess[s] EXCEPT !.sender = "end"], FALSE)]
            /\ open' = open \ {s[1]}
    /\ UNCHANGED <<conf, holder, job, failed, monVars, loop, buf, wire, due, steps, published>>

\* -------------------------------------------------------------------------
\* Monitors

\* feedMonitorSource: an oversized command closes every monitor, a full queue its own.
feedMonitor(n, big) ==
    IF monitorCount = 0 THEN UNCHANGED <<mons, due, open>>
    ELSE IF big THEN open' = open \ {m[1] : m \in monitors} /\ UNCHANGED <<mons, due>>
    ELSE LET fits(m) == m \in monitors /\ Len(mons[m].queue) < conf.lines
         IN  /\ mons' = [m \in DOMAIN mons |->
                            IF fits(m) THEN [mons[m] EXCEPT !.queue = Append(@, Line(m, n))] ELSE mons[m]]
             /\ due' = [x \in DOMAIN due |-> IF x \in monitors THEN Append(due[x], Line(x, n)) ELSE due[x]]
             /\ open' = open \ {m[1] : m \in {x \in monitors : ~fits(x)}}

\* removeMonitor, once, up to the wait for deliveryMu.
removeMonitor(m) ==
    IF m \in monitors
    THEN /\ monitors' = monitors \ {m} /\ monitorCount' = monitorCount - 1
         /\ mons' = [mons EXCEPT ![m].done = TRUE]
    ELSE UNCHANGED monVars

\* removeMonitor returns when no event is in flight.
DeliveryOver(m) == m # None => mons[m].at # "writing"

\* MONITOR: the subscription is fed before its +OK is written; a second MONITOR says nothing.
addMonitor(c) ==
    /\ Asks(c) /\ <<"monitor", None, {}>> \in conf.asks
    /\ IF loop[c].monitor # None THEN UNCHANGED <<monVars, loop, due>>
       ELSE LET m == <<c, loop[c].gen, "m">>
            IN  /\ mons' = (m :> [queue |-> <<>>, done |-> FALSE, ready |-> FALSE, at |-> "idle", line |-> None]) @@ mons
                /\ due' = (m :> <<>>) @@ due
                /\ monitors' = monitors \cup {m} /\ monitorCount' = monitorCount + 1
                /\ loop' = [loop EXCEPT ![c].monitor = m, ![c].pc = "ack"]
    /\ UNCHANGED <<conf, hubVars, sess, open, buf, wire, published>>

\* The +OK, and ready is closed whether it could be written or not.
MonitorReady(c) ==
    /\ loop[c].pc = "ack"
    /\ mons' = [mons EXCEPT ![loop[c].monitor].ready = TRUE]
    /\ \/ WriteOK(c, <<Frame("ok", None, loop[c].monitor, {}, 0)>>) /\ loop' = Goes(c, "idle")
       \/ WriteAborts(c) /\ loop' = Goes(c, "leaving")
    /\ UNCHANGED <<conf, hubVars, sess, monitors, monitorCount, open, due, steps, published>>

\* The select of the goroutine, which may take a line although done is closed.
MonitorTakes(m) ==
    /\ mons[m].at = "idle" /\ mons[m].queue # <<>>
    /\ mons' = [mons EXCEPT ![m].at = "taken", ![m].line = Head(mons[m].queue), ![m].queue = Tail(@)]
    /\ UNCHANGED <<conf, hubVars, sess, monitors, monitorCount, loop, open, buf, wire, due, steps, published>>

MonitorStops(m) ==
    /\ mons[m].at = "idle" /\ mons[m].done
    /\ mons' = [mons EXCEPT ![m].at = "end"]
    /\ UNCHANGED <<conf, hubVars, sess, monitors, monitorCount, loop, open, buf, wire, due, steps, published>>

\* As MonitorLocks, without the second look at done.
MonitorLocksBlind(m) ==
    /\ mons[m].at = "taken"
    /\ mons' = [mons EXCEPT ![m].at = "writing"]
    /\ UNCHANGED <<conf, hubVars, sess, monitors, monitorCount, loop, open, buf, wire, due, steps, published>>

\* deliveryMu is taken and done is looked at again.
MonitorLocks(m) ==
    /\ mons[m].at = "taken"
    /\ mons' = [mons EXCEPT ![m].at = IF mons[m].done THEN "end" ELSE "writing"]
    /\ UNCHANGED <<conf, hubVars, sess, monitors, monitorCount, loop, open, buf, wire, due, steps, published>>

MonitorWrites(m) ==
    /\ mons[m].at = "writing" /\ mons[m].ready
    /\ \/ /\ WriteOK(m[1], <<mons[m].line>>)
          /\ mons' = [mons EXCEPT ![m].at = "idle", ![m].line = None]
          /\ UNCHANGED <<monitors, monitorCount, open>>
       \/ /\ WriteAborts(m[1])
          /\ mons' = [mons EXCEPT ![m].at = "end", ![m].done = TRUE]
          /\ monitors' = monitors \ {m}
          /\ monitorCount' = IF m \in monitors THEN monitorCount - 1 ELSE monitorCount
          /\ open' = open \ {m[1]}
    /\ UNCHANGED <<conf, hubVars, sess, loop, due, steps, published>>

\* -------------------------------------------------------------------------
\* The other commands of a connection

\* Any other command, refused or not: its reply is buffered and it is reported to the monitors.
Command(c, big) ==
    /\ Asks(c) /\ <<IF big THEN "big" ELSE "command", None, {}>> \in conf.asks
    /\ writeBuffered(c)
    /\ feedMonitor(steps, big)
    /\ UNCHANGED <<conf, hubVars, sess, monitors, monitorCount, published>>

\* RESET: the monitor goes, then the session, then the reply.
Reset(c) ==
    /\ Asks(c) /\ <<"reset", None, {}>> \in conf.asks /\ loop[c].gen < conf.resets
    /\ removeMonitor(loop[c].monitor)
    /\ loop' = Goes(c, "reset")
    /\ UNCHANGED <<conf, hubVars, sess, open, buf, wire, due, published>>

ResetSession(c) ==
    /\ loop[c].pc = "reset" /\ DeliveryOver(loop[c].monitor) /\ Free
    /\ LET s == Of(c)
           t == <<c, loop[c].gen + 1, "s">> IN
       /\ reg' = RemovedFrom({s})
       /\ sess' = (t :> newPubSubSession) @@ [sess EXCEPT ![s] = IF @.closed THEN @ ELSE Shut(@, FALSE)]
       /\ due' = (t :> <<>>) @@ due
    /\ loop' = [loop EXCEPT ![c].pc = "resetting", ![c].gen = @ + 1, ![c].monitor = None]
    /\ UNCHANGED <<conf, holder, job, failed, monVars, open, buf, wire, steps, published>>

ResetReply(c) ==
    /\ loop[c].pc = "resetting"
    /\ \/ /\ WriteOK(c, <<Frame("reset", None, None, {}, loop[c].gen)>>) /\ loop' = Goes(c, "idle")
          /\ feedMonitor(steps, FALSE)
       \/ WriteAborts(c) /\ loop' = Goes(c, "leaving") /\ UNCHANGED <<mons, due, open>>
    /\ UNCHANGED <<conf, hubVars, sess, monitors, monitorCount, steps, published>>

\* The client goes away.
Hangup(c) ==
    /\ conf.faults /\ c \in open /\ loop[c].pc # "gone"
    /\ open' = open \ {c}
    /\ UNCHANGED <<conf, hubVars, sess, monVars, loop, buf, wire, due, steps, published>>

\* The deferred calls of the loop: the session, a last flush, the monitor, the socket.
Exit(c) ==
    /\ loop[c].pc = "leaving" \/ (loop[c].pc = "idle" /\ c \notin open)
    /\ Free
    /\ LET s == Of(c) IN
       /\ reg' = RemovedFrom({s})
       /\ sess' = [sess EXCEPT ![s] = IF @.closed THEN @ ELSE Shut(@, FALSE)]
    /\ WriteOK(c, <<>>) \/ WriteFails(c)
    /\ removeMonitor(loop[c].monitor)
    /\ loop' = Goes(c, "gone") /\ open' = open \ {c}
    /\ UNCHANGED <<conf, holder, job, failed, due, steps, published>>

-----------------------------------------------------------------------------
Init ==
    /\ conf \in Deployments
    /\ reg = [k \in Kinds |-> <<>>]
    /\ holder = None /\ job = <<>> /\ failed = {}
    /\ sess = [s \in conf.conns \X {0} \X {"s"} |-> newPubSubSession]
    /\ mons = <<>> /\ monitors = {} /\ monitorCount = 0
    /\ loop = [c \in conf.conns |-> [pc |-> "idle", gen |-> 0, monitor |-> None, say |-> <<>>, replies |-> 0]]
    /\ open = conf.conns
    /\ buf = [c \in conf.conns |-> <<>>]
    /\ wire = [c \in conf.conns |-> <<>>]
    /\ due = [s \in conf.conns \X {0} \X {"s"} |-> <<>>]
    /\ steps = 0 /\ published = 0

Next ==
    \/ \E c \in conf.conns :
          \/ \E a \in conf.asks : subscribe(c, a[2], a[3]) \/ unsubscribe(c, a[2], a[3])
          \/ Confirm(c) \/ flush(c)
          \/ addMonitor(c) \/ MonitorReady(c)
          \/ \E big \in BOOLEAN : Command(c, big)
          \/ Reset(c) \/ ResetSession(c) \/ ResetReply(c)
          \/ Hangup(c) \/ Exit(c)
    \/ \E p \in conf.posts : publish(p[1], p[2])
    \/ deliverLocked \/ dropFailedLocked
    \/ \E s \in DOMAIN sess : onDrop(s) \/ SenderTakes(s) \/ SenderStops(s) \/ writePush(s) \/ SenderFails(s)
    \/ \E m \in DOMAIN mons : MonitorTakes(m) \/ MonitorStops(m) \/ MonitorLocks(m) \/ MonitorWrites(m)

Spec == Init /\ [][Next]_vars

-----------------------------------------------------------------------------
\* A connection's frames before a write that failed half way, and those of one session or monitor.
Whole(w) ==
    LET cut == {i \in DOMAIN w : w[i] = Partial}
    IN  IF cut = {} THEN w ELSE SubSeq(w, 1, (CHOOSE i \in cut : \A j \in cut : i <= j) - 1)

Got(x, k) == SelectSeq(wire[x[1]], LAMBDA f : f.k = k /\ f.of = x)

InOrder(q, all) ==
    \E at \in [DOMAIN q -> DOMAIN all] :
        \A i \in DOMAIN q : all[at[i]] = q[i] /\ \A j \in 1..(i - 1) : at[j] < at[i]

\* The registries hold exactly the open sessions that own a name, and no name without a session: what
\* removeSessionLocked, subscribe and unsubscribe keep on both sides, and active follows.
RegistryExact ==
    /\ \A k \in Kinds :
          /\ \A n \in DOMAIN reg[k] : reg[k][n] # {}
          /\ \A s \in DOMAIN sess, n \in UNION {sess[t].owns[k] : t \in DOMAIN sess} \cup DOMAIN reg[k] :
                s \in Holders(k, n) <=> n \in sess[s].owns[k]
    /\ \A s \in DOMAIN sess : sess[s].active <=> \E k \in Kinds : sess[s].owns[k] # {}

\* A session the hub keeps misses no message that matched its subscriptions when it was published, sees
\* each once per subscription and in order (deliverLocked, runSender, writePush); one it dropped never
\* sees them out of order.
MessagesExact ==
    \A s \in DOMAIN sess :
        LET hand == IF sess[s].frame = None THEN <<>> ELSE <<sess[s].frame>>
            left == [i \in DOMAIN job |-> job[i][2]]
            all == Got(s, "message") \o hand \o (IF sess[s].push = None THEN <<>> ELSE sess[s].push)
                       \o SelectSeq(left, LAMBDA f : f.of = s)
        IN  IF sess[s].closed \/ s \in failed THEN InOrder(all, due[s]) ELSE all = due[s]

\* No message of a subscription precedes its confirmation, which is written under the hub's mutex.
ConfirmedFirst ==
    \A c \in conf.conns : \A i \in DOMAIN wire[c] :
        wire[c][i].k = "message" =>
            \E j \in 1..(i - 1) : /\ wire[c][j].k = "subscribed" /\ wire[c][j].of = wire[c][i].of
                                  /\ wire[c][j].kind = wire[c][i].kind /\ wire[c][i].names \subseteq wire[c][j].names

\* A monitor sees every command reported since it was added, in order, until its connection is closed for
\* being slow (feedMonitorSource); all after its +OK, and none after the +RESET that ends it
\* ("Wait for any in-flight event before RESET writes its reply").
MonitorExact ==
    /\ monitorCount = Cardinality(monitors)
    /\ \A m \in DOMAIN mons :
          LET hand == IF mons[m].line = None THEN <<>> ELSE <<mons[m].line>>
              lines == Got(m, "line")
          IN  /\ IsPrefix(lines, due[m])
              /\ m[1] \in open /\ m \in monitors => lines \o hand \o mons[m].queue = due[m]
    /\ \A c \in conf.conns : \A i \in DOMAIN wire[c] :
          wire[c][i].k = "line" =>
              /\ \E j \in 1..(i - 1) : wire[c][j].k = "ok" /\ wire[c][j].of = wire[c][i].of
              /\ \A j \in 1..(i - 1) : wire[c][j].k = "reset" => wire[c][j].n <= wire[c][i].of[2]

\* Whatever is pushed between them, the replies of a connection are sent once each and in order, up to a
\* write that fails half way ("prevents a partial socket write from allowing an asynchronous Pub/Sub push
\* to interleave with an ordinary command response", pubsub_tcp.go).
RepliesExact ==
    \A c \in conf.conns :
        LET said == SelectSeq(Whole(wire[c]), LAMBDA f : f.k = "reply")
            kept == IF Whole(wire[c]) = wire[c] THEN said \o buf[c] ELSE said
        IN  /\ \A i \in DOMAIN kept : kept[i] = Reply(i - 1)
            /\ Whole(wire[c]) = wire[c] => Len(kept) = loop[c].replies

PushesKept == RegistryExact /\ MessagesExact /\ ConfirmedFirst /\ MonitorExact /\ RepliesExact
=============================================================================
