------------------------------ MODULE Blocking ------------------------------
(***************************************************************************)
(* The blocking commands (internal/server/list_blocking.go,                *)
(* zset_blocking.go, stream_blocking.go), the writes that wake them        *)
(* (durability.go, transactions.go, *_blocking_signal.go), CLIENT UNBLOCK, *)
(* the disconnect of a blocked client and the shutdown (tcp_server.go,     *)
(* client_commands.go).                                                    *)
(*                                                                         *)
(* A key holds a list, a sorted set or a stream, each as the set of its    *)
(* elements; an element is a number, given out in order, so that a stream  *)
(* position is a number as well.  A pop takes any element, which covers    *)
(* both ends of a list and of a sorted set.                                *)
(*                                                                         *)
(* A blocking command registers, looks without any lock, and runs the      *)
(* command that does not block under durableMu like every other write:     *)
(* call[c] is the blocking command of a client, run[c] what it executes.   *)
(***************************************************************************)
EXTENDS Integers, Sequences, FiniteSets

CONSTANTS Clients, Keys, None,
          Deployments   \* the configurations and workloads that are checked

Kinds == {"list", "zset", "stream"}

\* How a write runs: alone under the exclusive lock, on the fast path of RPUSH
\* and ZADD, as a pipelined batch of those, in MULTI, in MULTI ATOMIC.
Paths == {"locked", "fast", "batch", "multi", "atomic"}

VARIABLES
    conf,      \* the deployment
    db,        \* the keyspace
    log,       \* what the AOF replays to
    made,      \* how many elements have been written
    unavail,   \* durabilityFailed
    mu,        \* durableMu: who holds it, exclusively and shared
    call,      \* call[c]: the blocking command of the connection
    run,       \* run[c]: the write in execution
    waiting,   \* waiting[t][k]: byKey of the registry of kind t, a waiter named by its client
    woken,     \* the clients whose waiter's channel is closed
    stopped,   \* the registries that are stopped
    unblock,   \* unblock[c]: unblockMode, or "off" while the client is not blocked
    hungup,    \* the clients whose peer has gone
    merged,    \* the clients whose merged cancel channel is closed
    sent,      \* sent[c]: how many commands the client has sent
    given,     \* history: <<client, command, element>> for every element a reply consumed
    dropped,   \* history: the elements deleted or rolled back
    asked      \* history: asked[c], the command an accepted CLIENT UNBLOCK was for

data == <<db, log, made, unavail, dropped>>
registry == <<waiting, woken, stopped>>
session == <<unblock, hungup, merged, asked>>
state == <<data, mu, call, run, registry, session, sent, given>>
vars == <<conf, state>>

Journal == conf.journal       \* TRUE when the server has an AOF
AppendFails == conf.fails     \* TRUE when an append may fail
Requests(c) == conf.requests[c]
Jobs(c) == conf.jobs[c]
MaxSent(c) == conf.sent[c]    \* how many commands the client sends
Unblocks == conf.unblocks     \* the modes CLIENT UNBLOCK is sent with
Hangups == conf.hangups       \* the clients whose peer may go away
Closes == conf.closes         \* TRUE when the server may shut down

Absent == [t |-> "none", items |-> {}, grp |-> 0]
Elements(d) == UNION {d[k].items : k \in Keys}
Max0(S) == IF S = {} THEN 0 ELSE CHOOSE x \in S : \A y \in S : y <= x

NoCall == [pc |-> "idle", req |-> None, next |-> 0, at |-> None, out |-> {}, ret |-> None]
NoRun == [st |-> "none", path |-> None, cmd |-> None, todo |-> <<>>, sigs |-> <<>>, before |-> None,
          out |-> {}, ret |-> None]
Running(path, cmds) == [NoRun EXCEPT !.st = "enter", !.path = path, !.todo = cmds]

Init ==
    /\ conf \in Deployments
    /\ db = [k \in Keys |-> IF k \in conf.streams THEN [Absent EXCEPT !.t = "stream"] ELSE Absent]
    /\ log = db
    /\ made = 0 /\ unavail = FALSE
    /\ mu = [ex |-> None, sh |-> {}]
    /\ call = [c \in Clients |-> NoCall] /\ run = [c \in Clients |-> NoRun]
    /\ waiting = [t \in Kinds |-> [k \in Keys |-> {}]] /\ woken = {} /\ stopped = {}
    /\ unblock = [c \in Clients |-> "off"] /\ hungup = {} /\ merged = {}
    /\ sent = [c \in Clients |-> 0]
    /\ given = {} /\ dropped = {}
    /\ asked = [c \in Clients |-> 0]

-----------------------------------------------------------------------------
(* The commands that do not block: what each may do to the keyspace d.     *)

Outcome(d, ret, out) == [db |-> d, ret |-> ret, out |-> out]
Fails(d) == {Outcome(d, "err", {})}
Nil(d) == {Outcome(d, "nil", {})}

\* A list or a sorted set that loses its last element is deleted.
Without(e, S) == IF e.items \subseteq S THEN Absent ELSE [e EXCEPT !.items = @ \ S]

Push(a, d) ==
    IF d[a.k].t \in {"none", a.t}
      THEN {Outcome([d EXCEPT ![a.k] = [@ EXCEPT !.t = a.t, !.items = @ \cup {made + 1}]], "ok", {})}
      ELSE Fails(d)

Take(a, d, k, sizes) ==
    {Outcome([d EXCEPT ![k] = Without(@, S)], "ok", S) :
        S \in {T \in SUBSET d[k].items : Cardinality(T) \in sizes}}

Pop(a, d) ==
    IF d[a.k].t = "none" THEN Nil(d)
    ELSE IF d[a.k].t = a.t THEN Take(a, d, a.k, {1})
    ELSE Fails(d)

\* The first key in order that is not absent decides.
MPop(a, d) ==
    LET present == {i \in DOMAIN a.keys : d[a.keys[i]].t # "none"}
        first == a.keys[CHOOSE i \in present : \A j \in present : i <= j]
    IN  IF present = {} THEN Nil(d)
        ELSE IF d[first].t = a.t THEN Take(a, d, first, 1 .. Cardinality(d[first].items))
        ELSE Fails(d)

ListMove(a, d) ==
    IF d[a.k].t = "none" THEN Nil(d)
    ELSE IF d[a.k].t = "list" /\ d[a.dst].t \in {"none", "list"}
      THEN {Outcome([[d EXCEPT ![a.k] = Without(@, {x})]
                        EXCEPT ![a.dst] = [@ EXCEPT !.t = "list", !.items = @ \cup {x}]], "ok", {x}) :
              x \in d[a.k].items}
    ELSE Fails(d)

Rename(a, d) ==
    IF d[a.k].t = "none" THEN Fails(d)
    ELSE {Outcome([d EXCEPT ![a.dst] = d[a.k], ![a.k] = Absent], "ok", {})}

Copy(a, d) ==
    IF d[a.k].t = "none" THEN Nil(d)
    ELSE {Outcome([d EXCEPT ![a.dst] = d[a.k]], "ok", {})}
         \cup (IF d[a.dst].t = "none" THEN {} ELSE Nil(d))

\* A group whose cursor does not move.
StreamGroupReadStuck(a, d) ==
    LET out == UNION {{x \in d[k].items : x > d[k].grp} : k \in {a.keys[i] : i \in DOMAIN a.keys}}
    IN  IF out = {} THEN Nil(d) ELSE {Outcome(d, "ok", out)}

\* XREADGROUP with the cursor > on every key: what the group has not had.
StreamGroupRead(a, d) ==
    LET new(k) == {x \in d[k].items : x > d[k].grp}
        keys == {a.keys[i] : i \in DOMAIN a.keys}
        out == UNION {new(k) : k \in keys}
    IN  IF \E k \in keys : d[k].t # "stream" THEN Fails(d)
        ELSE IF out = {} THEN Nil(d)
        ELSE {Outcome([k \in Keys |->
                 IF k \in keys THEN [d[k] EXCEPT !.grp = Max0(new(k) \cup {@})] ELSE d[k]], "ok", out)}

Outcomes(a, d) ==
    CASE a.op = "push" -> Push(a, d)
      [] a.op = "pop" -> Pop(a, d)
      [] a.op = "mpop" -> MPop(a, d)
      [] a.op \in {"move", "bmove"} -> ListMove(a, d)
      [] a.op = "rename" -> Rename(a, d)
      [] a.op = "copy" -> Copy(a, d)
      [] a.op = "readgroup" -> StreamGroupRead(a, d)
      [] a.op = "del" -> {Outcome([d EXCEPT ![a.k] = Absent], "ok", {})}
      [] a.op = "bad" -> Fails(d)

\* Signals of the writers that were there first.
SignalsOfAdds(a, d) == IF a.op = "push" /\ a.t # "list" THEN <<<<a.t, a.k>>>> ELSE <<>>

\* The registries and keys that a command which left d signals.  A rename
\* signals the sorted sets only; BLMOVE inside MULTI runs as LMOVE and is
\* looked up under its own name, which signals nothing.
Signals(a, d) ==
    CASE a.op = "push" -> <<<<a.t, a.k>>>>
      [] a.op = "move" -> <<<<"list", a.dst>>>>
      [] a.op = "rename" -> <<<<"zset", a.dst>>>>
      [] a.op = "copy" /\ d[a.dst].t \in Kinds -> <<<<d[a.dst].t, a.dst>>>>
      [] OTHER -> <<>>

\* The keys a command names.
Affected(a) ==
    CASE a.op \in {"move", "rename"} -> {a.k, a.dst}
      [] a.op = "copy" -> {a.dst}
      [] a.op \in {"mpop", "readgroup"} -> {a.keys[i] : i \in DOMAIN a.keys}
      [] OTHER -> {a.k}

\* Deletions that are not appended.
ExportedLiving(a, d) == [k \in Keys |-> IF k \in Affected(a) /\ d[k].t # "none" THEN d[k] ELSE log[k]]

\* What the AOF replays to after one command that left d: the keys it names,
\* with their deletion.  LMPOP names none in commandTable, so every key that
\* exists is appended and no deletion.
Exported(a, d) ==
    [k \in Keys |->
        IF IF a.op = "mpop" /\ a.t = "list" THEN d[k].t # "none" ELSE k \in Affected(a)
          THEN d[k] ELSE log[k]]

-----------------------------------------------------------------------------
(* Running a write                                                         *)

Shared(path) == path \in {"fast", "batch"}
Consumes(a) == a.op \in {"pop", "mpop", "readgroup"}

\* A writer that does not wait for the readers of durableMu.
EnterBarging(c) ==
    /\ run[c].st = "enter" /\ mu.ex = None
    /\ mu' = IF Shared(run[c].path) THEN [mu EXCEPT !.sh = @ \cup {c}] ELSE [mu EXCEPT !.ex = c]
    /\ run' = [run EXCEPT ![c].st = "apply", ![c].before = db]
    /\ UNCHANGED <<conf, data, call, registry, session, sent, given>>

\* durableMu is taken; with a failed AOF no write runs.
Enter(c) ==
    /\ run[c].st = "enter"
    /\ mu.ex = None
    /\ IF Shared(run[c].path)
         THEN /\ mu' = [mu EXCEPT !.sh = @ \cup {c}]
              /\ run' = [run EXCEPT ![c].st = "apply"]
         ELSE /\ mu.sh = {}
              /\ mu' = [mu EXCEPT !.ex = c]
              /\ run' = [run EXCEPT ![c].st = IF Journal /\ unavail THEN "leave" ELSE "apply",
                                    ![c].ret = IF Journal /\ unavail THEN "err" ELSE @,
                                    ![c].before = db]
    /\ UNCHANGED <<conf, data, call, registry, session, sent, given>>

\* What follows the append, the last signal and the command, in each path.
AfterAppend(r) == IF r.path = "locked" /\ r.sigs # <<>> THEN "signal" ELSE "leave"

AfterSignals(r) ==
    IF r.path \in {"batch", "multi"} /\ r.todo # <<>> THEN "apply"
    ELSE IF r.path \in {"multi", "atomic"} /\ Journal THEN "append"
    ELSE "leave"

AfterApply(r) ==
    IF r.path = "locked" THEN IF Journal /\ r.ret # "err" THEN "append" ELSE AfterAppend(r)
    ELSE IF r.path = "atomic" /\ r.todo # <<>> THEN "apply"
    ELSE IF r.sigs # <<>> THEN "signal" ELSE AfterSignals(r)

\* One command reaches memory, where the checks of the blocking commands see
\* it at once.  An error ends a batch and undoes a MULTI ATOMIC.
Apply(c) ==
    LET r == run[c]
        a == Head(r.todo)
    IN  /\ r.st = "apply"
        /\ \E o \in Outcomes(a, db) :
              LET taken == IF Consumes(a) THEN o.out ELSE {}
                  s == [r EXCEPT !.cmd = a, !.ret = o.ret, !.out = @ \cup taken,
                                 !.todo = IF o.ret = "err" /\ r.path = "batch" THEN <<>> ELSE Tail(@),
                                 !.sigs = IF o.ret = "ok" THEN @ \o Signals(a, o.db) ELSE @]
              IN  IF o.ret = "err" /\ r.path = "atomic"
                    THEN /\ db' = r.before
                         /\ dropped' = dropped \cup ((Elements(db) \cup r.out) \ Elements(r.before))
                         /\ run' = [run EXCEPT ![c] = [NoRun EXCEPT !.st = "leave", !.ret = "err"]]
                    ELSE /\ db' = o.db
                         /\ dropped' = dropped \cup (Elements(db) \ (Elements(o.db) \cup taken))
                         /\ run' = [run EXCEPT ![c] = [s EXCEPT !.st = AfterApply(s)]]
        /\ made' = IF a.op = "push" /\ Elements(db') \ Elements(db) # {} THEN made + 1 ELSE made
        /\ mu' = IF r.path = "fast" THEN [mu EXCEPT !.sh = @ \ {c}] ELSE mu
        /\ UNCHANGED <<conf, log, unavail, call, registry, session, sent, given>>

\* The append to the AOF.  If it fails, memory is put back.
Append_(c) ==
    LET r == run[c]
    IN  /\ r.st = "append"
        /\ \/ /\ log' = IF r.path = "locked" THEN Exported(r.cmd, db) ELSE db
              /\ run' = [run EXCEPT ![c].st = AfterAppend(r)]
              /\ UNCHANGED <<db, unavail, dropped>>
           \/ /\ AppendFails
              /\ db' = r.before
              /\ dropped' = dropped \cup ((Elements(db) \cup r.out) \ Elements(r.before))
              /\ unavail' = TRUE
              /\ run' = [run EXCEPT ![c] = [NoRun EXCEPT !.st = "leave", !.ret = "err"]]
              /\ UNCHANGED log
        /\ UNCHANGED <<conf, made, mu, call, registry, session, sent, given>>

\* signalListKey, signalZSetKey, signalStreamKey: every waiter of the key is woken.
Signal(c) ==
    LET r == run[c]
        t == Head(r.sigs)[1]
        k == Head(r.sigs)[2]
        s == [r EXCEPT !.sigs = Tail(@)]
    IN  /\ r.st = "signal"
        /\ waiting' = [waiting EXCEPT ![t][k] = {}]
        /\ woken' = woken \cup waiting[t][k]
        /\ run' = [run EXCEPT ![c] = IF s.sigs # <<>> THEN s ELSE [s EXCEPT !.st = AfterSignals(s)]]
        /\ UNCHANGED <<conf, data, mu, call, stopped, session, sent, given>>

-----------------------------------------------------------------------------
(* A blocking command                                                      *)

KeysOf(r) == {r.keys[i] : i \in DOMAIN r.keys}
Unregistered(c) ==
    [waiting EXCEPT ![call[c].req.t] = [k \in Keys |-> @[k] \ {c}]]

\* A command that ends and leaves its waiter behind.
FinishLeaking(c, ret, out) ==
    /\ UNCHANGED waiting
    /\ call' = [call EXCEPT ![c].pc = "end", ![c].ret = ret, ![c].out = out]

\* The command ends: its waiter is taken out of the registry.
Finish(c, ret, out) ==
    /\ waiting' = Unregistered(c)
    /\ call' = [call EXCEPT ![c].pc = "end", ![c].ret = ret, ![c].out = out]

\* The command that does not block, for key k of the request.
Command(r, k) ==
    [op |-> r.op, t |-> r.t, k |-> k, keys |-> r.keys, dst |-> r.dst]

\* beginBlocking; XREAD fixes its cursors before it waits.
StartBlocking(c) ==
    /\ call[c].pc = "idle" /\ sent[c] < MaxSent(c)
    /\ \E r \in Requests(c) :
          call' = [call EXCEPT ![c] =
              [NoCall EXCEPT !.req = r,
                 !.pc = IF r.latest /\ \E k \in KeysOf(r) : db[k].t \notin {"none", "stream"}
                          THEN "end" ELSE "register",
                 !.ret = "err",
                 !.at = [k \in Keys |-> IF r.latest THEN Max0(db[k].items) ELSE 0]]]
    /\ sent' = [sent EXCEPT ![c] = @ + 1]
    /\ unblock' = [unblock EXCEPT ![c] = "none"]
    /\ UNCHANGED <<conf, data, mu, run, registry, hungup, merged, asked, given>>

\* A new waiter, unless the registry is stopped.
Register(c) ==
    LET r == call[c].req
    IN  /\ call[c].pc = "register"
        /\ IF r.t \in stopped
             THEN /\ call' = [call EXCEPT ![c].pc = "end", ![c].ret = "canceled"]
                  /\ UNCHANGED <<waiting, woken, run>>
             ELSE /\ waiting' = [waiting EXCEPT ![r.t] =
                        [k \in Keys |-> IF k \in KeysOf(r) THEN @[k] \cup {c} ELSE @[k]]]
                  /\ woken' = woken \ {c}
                  /\ call' = [call EXCEPT ![c].pc = IF r.op = "readgroup" THEN "exec" ELSE "check",
                                          ![c].next = 1]
                  /\ run' = IF r.op = "readgroup"
                              THEN [run EXCEPT ![c] = Running("locked", <<Command(r, r.keys[1])>>)]
                              ELSE run
        /\ UNCHANGED <<conf, data, mu, stopped, session, sent, given>>

\* The call after nothing was found at its key: the next key, or to sleep.
Onward(q) ==
    IF q.next < Len(q.req.keys) /\ q.pc # "tried"
      THEN [q EXCEPT !.pc = "check", !.next = @ + 1]
      ELSE [q EXCEPT !.pc = "wait"]

\* ListLen or ZSetCard of one key, without durableMu.
Check(c) ==
    LET q == call[c]
        k == q.req.keys[q.next]
    IN  /\ q.pc = "check" /\ q.req.op # "read"
        /\ IF db[k].t = "none"
             THEN call' = [call EXCEPT ![c] = Onward(q)] /\ UNCHANGED <<waiting, run>>
           ELSE IF db[k].t # q.req.t
             THEN Finish(c, "err", {}) /\ UNCHANGED run
             ELSE /\ call' = [call EXCEPT ![c].pc = "exec"]
                  /\ run' = [run EXCEPT ![c] = Running("locked", <<Command(q.req, k)>>)]
                  /\ UNCHANGED waiting
        /\ UNCHANGED <<conf, data, mu, woken, stopped, session, sent, given>>

\* StreamReadAfter: every stream of an XREAD at once, without durableMu.
ReadStreams(c) ==
    LET q == call[c]
    IN  /\ q.pc = "check" /\ q.req.op = "read"
        /\ IF \E k \in KeysOf(q.req) : db[k].t \notin {"none", "stream"} THEN Finish(c, "err", {})
           ELSE IF \E k \in KeysOf(q.req) : \E x \in db[k].items : x > q.at[k] THEN Finish(c, "ok", {})
           ELSE call' = [call EXCEPT ![c].pc = "wait"] /\ UNCHANGED waiting
        /\ UNCHANGED <<conf, data, mu, run, woken, stopped, session, sent, given>>

\* The three cases of the select.
Wake(c) ==
    /\ call[c].pc = "wait" /\ c \in woken
    /\ waiting' = Unregistered(c)
    /\ call' = [call EXCEPT ![c].pc = "register"]
    /\ UNCHANGED <<conf, data, mu, run, woken, stopped, session, sent, given>>

Timeout(c) ==
    /\ call[c].pc = "wait" /\ call[c].req.finite
    /\ Finish(c, "nil", {})
    /\ UNCHANGED <<conf, data, mu, run, woken, stopped, session, sent, given>>

Cancel(c) ==
    /\ call[c].pc = "wait" /\ c \in merged
    /\ Finish(c, "gone", {})
    /\ UNCHANGED <<conf, data, mu, run, woken, stopped, session, sent, given>>

\* durableMu is released; the result goes to the client, or to the blocking
\* command, which ends with it or looks further.
Leave(c) ==
    LET r == run[c]
        q == call[c]
    IN  /\ r.st = "leave"
        /\ mu' = [ex |-> IF mu.ex = c THEN None ELSE mu.ex, sh |-> mu.sh \ {c}]
        /\ run' = [run EXCEPT ![c] = NoRun]
        /\ IF q.pc = "job"
             THEN /\ given' = given \cup {<<c, sent[c], x>> : x \in r.out}
                  /\ call' = [call EXCEPT ![c] = NoCall]
                  /\ UNCHANGED waiting
             ELSE /\ IF r.ret = "nil"
                       THEN /\ call' = [call EXCEPT ![c] =
                                  Onward(IF q.req.op = "pop" THEN q ELSE [q EXCEPT !.pc = "tried"])]
                            /\ UNCHANGED waiting
                       ELSE Finish(c, r.ret, r.out)
                  /\ UNCHANGED given
        /\ UNCHANGED <<conf, data, woken, stopped, session, sent>>

\* The canceled mark of one command meets the next.
EndBlockingMarked(c) ==
    LET q == call[c]
    IN  /\ q.pc = "end"
        /\ given' = given \cup {<<c, sent[c], x>> : x \in q.out}
        /\ call' = [call EXCEPT ![c] =
              [NoCall EXCEPT !.pc = IF q.ret = "gone" /\ unblock[c] = "none" THEN "closed" ELSE "idle",
                             !.ret = IF q.ret = "gone" THEN unblock[c] ELSE q.ret]]
        /\ unblock' = [unblock EXCEPT ![c] = "off"]
        /\ UNCHANGED <<conf, data, mu, run, registry, hungup, merged, asked, sent>>

\* endBlocking and the reply.  A canceled command whose client was unblocked is
\* answered; otherwise its connection is closed.
EndBlocking(c) ==
    LET q == call[c]
    IN  /\ q.pc = "end"
        /\ given' = given \cup {<<c, sent[c], x>> : x \in q.out}
        /\ call' = [call EXCEPT ![c] =
              [NoCall EXCEPT !.pc = IF q.ret = "gone" /\ unblock[c] = "none" THEN "closed" ELSE "idle",
                             !.ret = IF q.ret = "gone" THEN unblock[c] ELSE q.ret]]
        /\ unblock' = [unblock EXCEPT ![c] = "off"]
        /\ merged' = merged \ {c}
        /\ UNCHANGED <<conf, data, mu, run, registry, hungup, asked, sent>>

-----------------------------------------------------------------------------
(* Writers, CLIENT UNBLOCK, disconnects and the shutdown                   *)

StartJob(c) ==
    /\ call[c].pc = "idle" /\ sent[c] < MaxSent(c)
    /\ \E j \in Jobs(c) : run' = [run EXCEPT ![c] = Running(j.path, j.cmds)]
    /\ call' = [call EXCEPT ![c].pc = "job"]
    /\ sent' = [sent EXCEPT ![c] = @ + 1]
    /\ UNCHANGED <<conf, data, mu, registry, session, given>>

\* CLIENT UNBLOCK of another connection finds c blocked.
RequestUnblock(c) ==
    /\ unblock[c] = "none"
    /\ \E m \in Unblocks : unblock' = [unblock EXCEPT ![c] = m]
    /\ asked' = [asked EXCEPT ![c] = sent[c]]
    /\ UNCHANGED <<conf, data, mu, call, run, registry, hungup, merged, sent, given>>

\* The monitor finds the peer of a blocked client gone.
Disconnect(c) ==
    /\ unblock[c] # "off" /\ c \in Hangups \ hungup
    /\ hungup' = hungup \cup {c}
    /\ UNCHANGED <<conf, data, mu, call, run, registry, unblock, merged, asked, sent, given>>

\* mergeClientCancel.
MergeCancel(c) ==
    /\ unblock[c] # "off" /\ c \notin merged
    /\ unblock[c] # "none" \/ c \in hungup
    /\ merged' = merged \cup {c}
    /\ UNCHANGED <<conf, data, mu, call, run, registry, unblock, hungup, asked, sent, given>>

\* A stop that only keeps new waiters out.
CancelBlockingSilent(t) ==
    /\ Closes /\ t \notin stopped
    /\ stopped' = stopped \cup {t}
    /\ UNCHANGED <<conf, data, mu, call, run, waiting, woken, session, sent, given>>

\* CancelBlocking, CancelBlockingZSets, CancelBlockingStreams, in the order of Close.
CancelBlocking(t) ==
    /\ Closes /\ t \notin stopped
    /\ t = "zset" => "list" \in stopped
    /\ t = "stream" => "zset" \in stopped
    /\ stopped' = stopped \cup {t}
    /\ woken' = woken \cup UNION {waiting[t][k] : k \in Keys}
    /\ waiting' = [waiting EXCEPT ![t] = [k \in Keys |-> {}]]
    /\ UNCHANGED <<conf, data, mu, call, run, session, sent, given>>

-----------------------------------------------------------------------------
Execute(c) == Enter(c) \/ Apply(c) \/ Append_(c) \/ Signal(c) \/ Leave(c)
Block(c) == Register(c) \/ Check(c) \/ ReadStreams(c) \/ Wake(c) \/ EndBlocking(c)

Next ==
    \/ \E c \in Clients :
          \/ Execute(c) \/ Block(c) \/ Timeout(c) \/ Cancel(c)
          \/ StartBlocking(c) \/ StartJob(c)
          \/ RequestUnblock(c) \/ Disconnect(c) \/ MergeCancel(c)
    \/ \E t \in Kinds : CancelBlocking(t)

Spec == Init /\ [][Next]_vars

\* Every goroutine runs on, a timer fires, the scheduler gives durableMu to who
\* waits for it (RWMutex keeps out new readers once a writer waits).
Fairness ==
    \A c \in Clients :
        WF_state(Execute(c)) /\ WF_state(Block(c)) /\ WF_state(Timeout(c))
        /\ WF_state(Cancel(c)) /\ WF_state(MergeCancel(c))

LiveSpec == Spec /\ Fairness

-----------------------------------------------------------------------------
(* Properties                                                              *)

Cells == {"none"} \cup Kinds
Entries == [t : Cells, items : SUBSET (1 .. made), grp : 0 .. made]

TypeOK ==
    /\ conf \in Deployments
    /\ db \in [Keys -> Entries] /\ log \in [Keys -> Entries]
    /\ unavail \in BOOLEAN
    /\ mu.ex \in Clients \cup {None} /\ mu.sh \subseteq Clients
    /\ mu.ex # None => mu.sh = {}
    /\ \A c \in Clients :
          /\ call[c].pc \in {"idle", "job", "register", "check", "exec", "wait", "end", "closed"}
          /\ call[c].out \subseteq 1 .. made
          /\ run[c].st \in {"none", "enter", "apply", "append", "signal", "leave"}
          /\ run[c].path \in Paths \cup {None}
          /\ run[c].st # "none" <=> call[c].pc \in {"job", "exec"}
    /\ waiting \in [Kinds -> [Keys -> SUBSET Clients]]
    /\ woken \subseteq Clients /\ stopped \subseteq Kinds
    /\ unblock \in [Clients -> {"off", "none", "timeout", "error"}]
    /\ hungup \subseteq Clients /\ merged \subseteq Clients
    /\ \A c \in Clients : sent[c] \in 0 .. MaxSent(c)

\* A key of c's request at which its next look would find something.
ReadyAt(c, k) ==
    LET r == call[c].req
    IN  /\ k \in KeysOf(r) /\ db[k].t = r.t
        /\ \E x \in db[k].items :
              /\ r.op = "read" => x > call[c].at[k]
              /\ r.op = "readgroup" => x > db[k].grp

Pending(t, k) == \E c \in Clients : \E i \in DOMAIN run[c].sigs : run[c].sigs[i] = <<t, k>>

\* Asleep: the select, with nothing on the waiter's channel.
Asleep(c) == call[c].pc = "wait" /\ c \notin woken

\* No wake-up is lost: while a client sleeps on a key that has something for it,
\* a signal of that key is on its way (the waiter registers before it looks, and
\* every write signals after it has reached memory).  Once the AOF has failed no
\* write can serve the client.
NoLostWakeup ==
    ~unavail => \A c \in Clients, k \in Keys :
                   Asleep(c) /\ ReadyAt(c, k) => Pending(call[c].req.t, k)

\* The registry names exactly the waiters that can be woken: a waiter stands at
\* each of its keys until a signal of one of them or a stop, and at none after
\* its command has ended.
RegistryExact ==
    \A c \in Clients, t \in Kinds, k \in Keys :
        LET q == call[c]
            registered == q.pc \in {"check", "exec", "wait"} /\ t = q.req.t /\ k \in KeysOf(q.req)
        IN  /\ c \in waiting[t][k] => registered /\ t \notin stopped
            /\ registered /\ c \notin woken => c \in waiting[t][k]

Held(c) == run[c].out \cup call[c].out
GivenTo == {g[3] : g \in given}
Copies == \E c \in Clients : \E j \in Jobs(c) : \E i \in DOMAIN j.cmds : j.cmds[i].op = "copy"

\* Every element written is in the keyspace, or on its way to one client, or
\* given to one client once, or was deleted or rolled back: whatever races, a
\* blocking pop neither loses an element nor hands it out twice, and a stream
\* entry goes to one consumer of the group.
ExactlyOnce ==
    Copies \/
    /\ \A g, h \in given : g[3] = h[3] => g = h
    /\ \A c, d \in Clients : c # d => Held(c) \cap Held(d) = {}
    /\ \A c \in Clients : Held(c) \cap GivenTo = {}
    /\ \A k \in Keys : db[k].t \in {"list", "zset"} =>
          db[k].items \cap (GivenTo \cup UNION {Held(c) : c \in Clients}) = {}
    /\ 1 .. made \subseteq Elements(db) \cup GivenTo \cup dropped \cup UNION {Held(c) : c \in Clients}

\* With an AOF, what it replays to is what memory holds whenever no write is in
\* progress: an element that a blocking command has handed out does not come back
\* with a restart.
ReplayIsMemory == Journal /\ mu.ex = None => log = db

\* A client is answered as unblocked only for the command that a CLIENT UNBLOCK
\* was accepted for, and its connection is closed only when its peer has gone: an
\* unblock or a cancel that comes too late does not hit the next command.
UnblockStep ==
    \A c \in Clients : call[c].pc = "end" /\ call'[c].pc # "end" =>
        /\ call'[c].ret \in {"timeout", "error"} => asked[c] = sent[c]
        /\ call'[c].pc = "closed" => c \in hungup
UnblockExact == [][UnblockStep]_vars

InLoop(c) == call[c].pc \in {"register", "check", "exec", "wait", "end"}
MustReturn(c) ==
    InLoop(c) /\ (stopped = Kinds \/ unblock[c] \in {"timeout", "error"} \/ c \in hungup \/ call[c].req.finite)
Due(c, k) == Asleep(c) /\ ReadyAt(c, k) /\ ~unavail

\* A blocking command returns when it has a timeout, when its client is unblocked
\* or gone, and when the server shuts down, however it is interleaved with writes.
Returns == \A c \in Clients : MustReturn(c) ~> ~InLoop(c)

\* A client that sleeps on a key with something for it leaves its sleep, or another
\* client takes the element.
Served == \A c \in Clients, k \in Keys : Due(c, k) ~> ~Due(c, k)
=============================================================================
