------------------------------ MODULE Webhooks ------------------------------
(***************************************************************************)
(* The webhook module (src/internal/webhook): inbound hooks append requests *)
(* to a topic, outbound workers deliver a topic to a URL through a          *)
(* consumer group, and a reconciler makes the running set follow the        *)
(* definitions stored in SnugKV, which the management API changes with      *)
(* several commands each.                                                   *)
(*                                                                         *)
(* Every command to the server is a step of its own and may fail, before    *)
(* or after the server has run it.  A topic is [len, low, group]: entries   *)
(* 1 .. len, those up to low trimmed away, and the consumer group or None.  *)
(* A worker is the goroutine reconcile starts; it is never removed, so that *)
(* its index stands for its channel done.  TLA+ has no names for secrets,   *)
(* headers and URLs: a definition is its topic, its version and what the    *)
(* control depends on.                                                      *)
(***************************************************************************)
EXTENDS Integers, Sequences, FiniteSets, SequencesExt, FiniteSetsExt

CONSTANTS
    None, Hooks, Topics, Callers,   \* Callers: the reconcile loop and API requests
    Loop,           \* the caller that is the reconcile loop
    Batch,          \* COUNT of XREADGROUP
    MaxWebhooks, DefaultRate,
    Deployments

VARIABLES
    conf,      \* edits, outcomes, attempts, faults, flips, crashes, messages, the definitions it starts with
    defs,      \* keyDef: hook -> definition or None
    ids,       \* keyIDs
    topics,    \* topic -> [len, low, group]
    mgr,       \* Manager: worker, retiring, inbound per hook; primary
    workers,   \* every worker started so far
    calls,     \* caller -> [pc, ...]
    role,      \* the server's role
    stats,     \* keyStats: hook -> accepted requests counted
    handled,   \* (history) entries that were accepted by the URL, dead-lettered or given up
    accepted,  \* (history) hook -> inbound requests answered 202
    sent,      \* (history) edits, role changes and crashes so far
    astray     \* (history) a worker was cancelled while it waited, or a command failed

store == <<defs, ids, topics, stats>>
vars == <<conf, defs, ids, topics, mgr, workers, calls, role, stats, handled, accepted, sent, astray>>

Idle == [pc |-> "idle"]
newInboundState(d) == [def |-> d, tokens |-> d.rate, pending |-> 0]
NoManager == [worker |-> [h \in Hooks |-> 0], retiring |-> [h \in Hooks |-> 0],
              inbound |-> [h \in Hooks |-> None], primary |-> TRUE]
Entries(t) == {<<t, i>> : i \in 1 .. topics[t].len}

\* A command over the loopback connection: it runs, or it fails and may have run.
Do(effect, then, failed) ==
    \/ effect /\ then
    \/ /\ conf.faults
       /\ astray' = TRUE
       /\ failed
       /\ effect \/ UNCHANGED store

Quiet == UNCHANGED astray

-----------------------------------------------------------------------------
(* The reconciler.                                                         *)

\* What the definitions just read make of the manager and its workers.
reconciled(m, ws, want) ==
    LET live(h) == h \in DOMAIN want /\ want[h].enabled
        out(h) == live(h) /\ want[h].kind = "outbound"
        keeps(h) == m.worker[h] # 0 /\ m.primary /\ out(h) /\ ws[m.worker[h]].def = want[h]
        stops == {h \in Hooks : m.worker[h] # 0 /\ ~keeps(h)}
        starts == SetToSeq({h \in Hooks : m.primary /\ out(h) /\ ~keeps(h)})
        retiring == [h \in Hooks |-> IF h \in stops THEN m.worker[h] ELSE m.retiring[h]]
        stopped == [i \in DOMAIN ws |-> IF \E h \in stops : m.worker[h] = i THEN [ws[i] EXCEPT !.off = TRUE] ELSE ws[i]]
        started == [j \in DOMAIN starts |->
            LET h == starts[j]
            IN  [h |-> h, def |-> want[h], off |-> FALSE, prior |-> IF want[h].opens THEN retiring[h] ELSE 0,
                 pc |-> IF want[h].opens THEN "wait" ELSE "done", first |-> TRUE, batch |-> <<>>, n |-> 1]]
        place(h) == Len(ws) + CHOOSE j \in DOMAIN starts : starts[j] = h
    IN  [m |-> [m EXCEPT
           !.inbound = [h \in Hooks |->
              CASE ~(live(h) /\ want[h].kind = "inbound") -> None
                [] OTHER -> IF @[h] # None /\ @[h].def = want[h] THEN @[h] ELSE newInboundState(want[h])],
           !.worker = [h \in Hooks |-> CASE h \in ToSet(starts) -> place(h)
                                         [] h \in stops \ ToSet(starts) -> 0
                                         [] OTHER -> @[h]],
           !.retiring = [h \in Hooks |-> IF h \in ToSet(starts) /\ want[h].opens THEN 0 ELSE retiring[h]]],
         ws |-> stopped \o started]

Running == {i \in DOMAIN workers : workers[i].pc # "done"}

At(c, label) == calls[c].pc = label
Goto(c, label) == calls' = [calls EXCEPT ![c].pc = label]
Finish(c) == calls' = [calls EXCEPT ![c] = Idle]

checkRole(c) ==
    /\ At(c, "role")
    /\ Do(UNCHANGED store, mgr' = [mgr EXCEPT !.primary = (role = "master")] /\ Quiet, UNCHANGED mgr)
    /\ Goto(c, "members")
    /\ UNCHANGED <<workers, handled, accepted>>

listMembers(c) ==
    /\ At(c, "members")
    /\ Do(UNCHANGED store,
          calls' = [calls EXCEPT ![c] = [pc |-> "get", todo |-> ids, want |-> <<>>]] /\ Quiet, Finish(c))
    /\ UNCHANGED <<mgr, workers, handled, accepted>>

listGet(c) ==
    /\ At(c, "get")
    /\ \E h \in calls[c].todo :
         Do(UNCHANGED store,
            /\ calls' = [calls EXCEPT ![c].todo = @ \ {h},
                 ![c].want = IF defs[h] = None THEN @ ELSE [g \in DOMAIN @ \cup {h} |-> IF g = h THEN defs[h] ELSE @[g]]]
            /\ Quiet,
            Finish(c))
    /\ UNCHANGED <<mgr, workers, handled, accepted>>

\* Not waiting for the worker before.
reconcileHasty(c) ==
    /\ At(c, "get") /\ calls[c].todo = {}
    /\ LET r == reconciled([mgr EXCEPT !.retiring = [h \in Hooks |-> 0]], workers, calls[c].want)
       IN  mgr' = r.m /\ workers' = [i \in DOMAIN r.ws |-> [r.ws[i] EXCEPT !.prior = 0]]
    /\ Finish(c)
    /\ UNCHANGED <<defs, ids, topics, stats, handled, accepted, astray>>

reconcile(c) ==
    /\ At(c, "get") /\ calls[c].todo = {}
    /\ LET r == reconciled(mgr, workers, calls[c].want)
       IN  /\ mgr' = r.m
           /\ workers' = r.ws
           /\ astray' = (astray \/ \E i \in DOMAIN workers : r.ws[i].off /\ ~workers[i].off /\ workers[i].pc = "wait")
    /\ Finish(c)
    /\ UNCHANGED <<defs, ids, topics, stats, handled, accepted>>

Tick ==
    /\ At(Loop, "idle") /\ Goto(Loop, "role")
    /\ UNCHANGED <<defs, ids, topics, stats, mgr, workers, handled, accepted, astray>>

flushCounters ==
    \E h \in Hooks :
        /\ At(Loop, "idle")
        /\ mgr.inbound[h] # None /\ mgr.inbound[h].pending > 0
        /\ Do(stats' = [stats EXCEPT ![h] = @ + mgr.inbound[h].pending] /\ UNCHANGED <<defs, ids, topics>>, Quiet, TRUE)
        /\ mgr' = [mgr EXCEPT !.inbound[h].pending = 0]
        /\ UNCHANGED <<workers, calls, handled, accepted>>

-----------------------------------------------------------------------------
(* The management API.                                                     *)

\* Defaults are filled in; valid stands for the names, headers and addresses.
normalize(d) ==
    IF ~d.valid \/ d.rate < 0 \/ d.maxLen < 0 THEN None
    ELSE [d EXCEPT !.rate = IF @ = 0 THEN DefaultRate ELSE @, !.from = IF @ = "" THEN "$" ELSE @]

\* A secret that is not given again is the one before. An inbound hook without
\* authentication forgets it; a hook that needs one is refused without it.
sealSecrets(d, prev) ==
    LET secret == IF d.secret = "" /\ prev # None THEN prev.secret ELSE d.secret
    IN  CASE d.mode = "none" -> [d EXCEPT !.secret = IF d.kind = "inbound" THEN "" ELSE secret]
          [] d.mode # "none" /\ secret = "" -> None
          [] OTHER -> [d EXCEPT !.secret = secret]

Sealed(d, prev) == IF normalize(d) = None THEN None ELSE sealSecrets(normalize(d), prev)

\* The list, or the definition before, is read first.
apiCreate(c, e) ==
    /\ At(c, "idle") /\ e.op = "create"
    /\ \E d \in {Sealed(e.def, None)} :
         calls' = [calls EXCEPT ![c] = IF Cardinality(ids) >= MaxWebhooks \/ d = None THEN Idle
                                       ELSE [pc |-> "set", h |-> e.h, prev |-> None, def |-> d]]

apiUpdate(c, e) ==
    /\ At(c, "idle") /\ e.op = "update"
    /\ \E d \in {Sealed(e.def, defs[e.h])} :
         calls' = [calls EXCEPT ![c] = IF defs[e.h] = None \/ d = None THEN Idle
                                       ELSE IF defs[e.h].kind # d.kind THEN Idle
                                       ELSE [pc |-> "set", h |-> e.h, prev |-> defs[e.h], def |-> d]]

apiDelete(c, e) ==
    /\ At(c, "idle") /\ e.op = "delete"
    /\ calls' = [calls EXCEPT ![c] = IF defs[e.h] = None THEN Idle
                                     ELSE [pc |-> "srem", h |-> e.h, prev |-> defs[e.h], def |-> None]]

Edit(c, e) ==
    /\ c # Loop
    /\ apiCreate(c, e) \/ apiUpdate(c, e) \/ apiDelete(c, e)
    /\ UNCHANGED <<defs, ids, topics, stats, mgr, workers, handled, accepted, astray>>

\* put: SET, then SADD.
putSet(c) ==
    /\ At(c, "set")
    /\ Do(defs' = [defs EXCEPT ![calls[c].h] = calls[c].def] /\ UNCHANGED <<ids, topics, stats>>,
          Goto(c, "sadd") /\ Quiet, Finish(c))
    /\ UNCHANGED <<mgr, workers, handled, accepted>>

putAdd(c) ==
    /\ At(c, "sadd")
    /\ LET prev == calls[c].prev
           moved == prev # None /\ prev.kind = "outbound" /\ prev.topic # calls[c].def.topic
       IN  Do(ids' = ids \cup {calls[c].h} /\ UNCHANGED <<defs, topics, stats>>,
              Goto(c, IF moved THEN "drop" ELSE "role") /\ Quiet, Finish(c))
    /\ UNCHANGED <<mgr, workers, handled, accepted>>

\* remove: SREM, then DEL of the definition and of the counters.
removeMember(c) ==
    /\ At(c, "srem")
    /\ Do(ids' = ids \ {calls[c].h} /\ UNCHANGED <<defs, topics, stats>>, Goto(c, "del") /\ Quiet, Finish(c))
    /\ UNCHANGED <<mgr, workers, handled, accepted>>

removeKeys(c) ==
    /\ At(c, "del")
    /\ Do(/\ defs' = [defs EXCEPT ![calls[c].h] = None] /\ stats' = [stats EXCEPT ![calls[c].h] = 0]
          /\ UNCHANGED <<ids, topics>>,
          Goto(c, IF calls[c].prev.kind = "outbound" THEN "drop" ELSE "role") /\ Quiet, Finish(c))
    /\ UNCHANGED <<mgr, workers, handled, accepted>>

\* The worker is told to stop and awaited; it is not among the retiring ones meanwhile.
dropGroup(c) ==
    /\ At(c, "drop")
    /\ LET w == mgr.worker[calls[c].h]
       IN  /\ mgr' = [mgr EXCEPT !.worker[calls[c].h] = 0]
           /\ workers' = [i \in DOMAIN workers |-> IF i = w THEN [workers[i] EXCEPT !.off = TRUE] ELSE workers[i]]
           /\ calls' = [calls EXCEPT ![c] = [pc |-> "destroy", prev |-> @.prev, await |-> w]]
           /\ astray' = (astray \/ w # 0)
    /\ UNCHANGED <<defs, ids, topics, stats, handled, accepted>>

destroyGroup(c) ==
    /\ At(c, "destroy")
    /\ calls[c].await \notin Running
    /\ Do(topics' = [topics EXCEPT ![calls[c].prev.topic].group = None] /\ UNCHANGED <<defs, ids, stats>>, Quiet, TRUE)
    /\ Goto(c, "role")
    /\ UNCHANGED <<mgr, workers, handled, accepted>>

Step(c) ==
    \/ checkRole(c) \/ listMembers(c) \/ listGet(c) \/ reconcile(c)
    \/ putSet(c) \/ putAdd(c) \/ removeMember(c) \/ removeKeys(c) \/ dropGroup(c) \/ destroyGroup(c)

-----------------------------------------------------------------------------
(* Inbound hooks.                                                          *)

allow(st) == st.tokens >= 1

verify(st, secret) == st.def.opens /\ (st.def.mode = "none" \/ secret = st.def.secret)

\* The limit is paid before the sender is known. XADD trims to about maxLen: all
\* that is too much, or none of it.
handleHook(h, secret) ==
    LET st == mgr.inbound[h]
        t == topics[st.def.topic]
        excess == IF st.def.maxLen = 0 THEN 0 ELSE t.len + 1 - st.def.maxLen
    IN  /\ st # None /\ mgr.primary /\ allow(st)
        /\ \/ /\ ~verify(st, secret)
              /\ mgr' = [mgr EXCEPT !.inbound[h].tokens = @ - 1]
              /\ UNCHANGED <<store, accepted, astray>>
           \/ /\ verify(st, secret) /\ t.len < conf.messages
              /\ \E low \in {t.low, Max({t.low, excess})} :
                   Do(topics' = [topics EXCEPT ![st.def.topic] = [@ EXCEPT !.len = @ + 1, !.low = low]] /\ UNCHANGED <<defs, ids, stats>>,
                      /\ mgr' = [mgr EXCEPT !.inbound[h].tokens = @ - 1, !.inbound[h].pending = @ + 1]
                      /\ accepted' = [accepted EXCEPT ![h] = @ + 1] /\ Quiet,
                      mgr' = [mgr EXCEPT !.inbound[h].tokens = @ - 1] /\ UNCHANGED accepted)
        /\ UNCHANGED <<workers, calls, handled>>

\* A second passes.
Refill(h) ==
    /\ mgr.inbound[h] # None /\ ~allow(mgr.inbound[h])
    /\ mgr' = [mgr EXCEPT !.inbound[h].tokens = Min({2 * mgr.inbound[h].def.rate, @ + mgr.inbound[h].def.rate})]
    /\ UNCHANGED <<defs, ids, topics, stats, workers, calls, handled, accepted, astray>>

\* A producer of the application.
Produce(t) ==
    /\ topics[t].len < conf.messages
    /\ topics' = [topics EXCEPT ![t].len = @ + 1]
    /\ UNCHANGED <<defs, ids, stats, mgr, workers, calls, handled, accepted, astray>>

-----------------------------------------------------------------------------
(* Outbound workers.                                                       *)

W(i) == workers[i]
Topic(i) == topics[W(i).def.topic]
Becomes(i, w) == workers' = [workers EXCEPT ![i] = w]
Stays == UNCHANGED <<mgr, calls, accepted>>

\* It waits for the worker before it, or gives up.
awaitPrior(i) ==
    /\ W(i).pc = "wait"
    /\ \/ W(i).prior \notin Running /\ Becomes(i, [W(i) EXCEPT !.pc = "create"])
       \/ W(i).prior # 0 /\ W(i).off /\ Becomes(i, [W(i) EXCEPT !.pc = "done"])
    /\ UNCHANGED <<defs, ids, topics, stats, handled, astray>> /\ Stays

\* XGROUP CREATE ... MKSTREAM; a group that is there already is as good.
runOutbound(i) ==
    /\ W(i).pc = "create"
    /\ \/ W(i).off /\ Becomes(i, [W(i) EXCEPT !.pc = "done"]) /\ UNCHANGED <<store, astray>>
       \/ /\ ~W(i).off
          /\ LET from == IF W(i).def.from = "$" THEN Topic(i).len ELSE 0
             IN  Do(/\ topics' = [topics EXCEPT ![W(i).def.topic].group =
                                    IF @ = None THEN [start |-> from, last |-> from, pend |-> {}] ELSE @]
                    /\ UNCHANGED <<defs, ids, stats>>,
                    Becomes(i, [W(i) EXCEPT !.pc = "read"]) /\ Quiet, UNCHANGED workers)
    /\ UNCHANGED handled /\ Stays

\* XREADGROUP: what is pending first, then what is new.
Readable(i) ==
    LET g == Topic(i).group
        want == IF W(i).first THEN g.pend ELSE Max({g.last, Topic(i).low}) + 1 .. Topic(i).len
    IN  SubSeq(SetToSortSeq(want, <), 1, Min({Batch, Cardinality(want)}))

consumeLoop(i) ==
    /\ W(i).pc = "read"
    /\ \/ W(i).off /\ Becomes(i, [W(i) EXCEPT !.pc = "done"]) /\ UNCHANGED <<store, astray>>
       \/ /\ ~W(i).off /\ Topic(i).group = None
          /\ Becomes(i, [W(i) EXCEPT !.pc = "create"]) /\ UNCHANGED <<store, astray>>
       \/ /\ ~W(i).off /\ Topic(i).group # None
          /\ W(i).first \/ Readable(i) # <<>>
          /\ LET b == Readable(i)
             IN  Do(/\ topics' = [topics EXCEPT ![W(i).def.topic].group.last = Max({@} \cup ToSet(b)),
                                                ![W(i).def.topic].group.pend = @ \cup ToSet(b)]
                    /\ UNCHANGED <<defs, ids, stats>>,
                    Becomes(i, IF b = <<>> THEN [W(i) EXCEPT !.first = FALSE]
                               ELSE [W(i) EXCEPT !.pc = "deliver", !.n = 1,
                                       !.batch = [j \in DOMAIN b |-> [id |-> b[j], gone |-> b[j] <= Topic(i).low]]]) /\ Quiet,
                    Becomes(i, [W(i) EXCEPT !.pc = "create"]))
    /\ UNCHANGED handled /\ Stays

Current(i) == <<W(i).def.topic, W(i).batch[1].id>>

attempt(i) ==
    /\ W(i).pc = "deliver" /\ ~W(i).batch[1].gone /\ ~W(i).off
    /\ Becomes(i, [W(i) EXCEPT !.pc = "sending"])
    /\ UNCHANGED <<defs, ids, topics, stats, handled, astray>> /\ Stays

\* What the URL answers; a worker told to stop meanwhile may not learn it.
outcome(i) ==
    /\ W(i).pc = "sending"
    /\ \E o \in conf.outcomes :
         /\ handled' = IF o = "ok" THEN handled \cup {Current(i)} ELSE handled
         /\ \/ o = "ok" /\ Becomes(i, [W(i) EXCEPT !.pc = "ack"])
            \/ o = "retry" /\ W(i).n < conf.attempts /\ Becomes(i, [W(i) EXCEPT !.pc = "deliver", !.n = @ + 1])
            \/ (o = "refused" \/ (o = "retry" /\ W(i).n = conf.attempts)) /\ Becomes(i, [W(i) EXCEPT !.pc = "giveup"])
            \/ W(i).off /\ Becomes(i, [W(i) EXCEPT !.pc = "done"])
    /\ UNCHANGED <<defs, ids, topics, stats, astray>> /\ Stays

\* deliverEntry returns without an outcome, consumeLoop and runOutbound end.
cancelled(i) ==
    /\ (W(i).pc = "deliver" /\ ~W(i).batch[1].gone) \/ W(i).pc = "giveup"
    /\ W(i).off
    /\ Becomes(i, [W(i) EXCEPT !.pc = "done"])
    /\ UNCHANGED <<defs, ids, topics, stats, handled, astray>> /\ Stays

\* The last attempt failed: the dead-letter topic gets the entry, if the hook has
\* one; when that fails the entry stays pending and the rest of the batch with it.
deliverEntry(i) ==
    /\ W(i).pc = "giveup" /\ ~W(i).off
    /\ \/ handled' = handled \cup {Current(i)} /\ Becomes(i, [W(i) EXCEPT !.pc = "ack"]) /\ Quiet
       \/ /\ conf.faults /\ W(i).def.deadLetter
          /\ handled' \in {handled, handled \cup {Current(i)}}
          /\ Becomes(i, [W(i) EXCEPT !.pc = "create", !.batch = <<>>]) /\ astray' = TRUE
    /\ UNCHANGED store /\ Stays

\* XACK, of an entry that is gone as well.
ack(i) ==
    /\ W(i).pc = "ack" \/ (W(i).pc = "deliver" /\ W(i).batch[1].gone)
    /\ Do(/\ topics' = [topics EXCEPT ![W(i).def.topic].group =
                          IF @ = None THEN None ELSE [@ EXCEPT !.pend = @ \ {W(i).batch[1].id}]]
          /\ UNCHANGED <<defs, ids, stats>>,
          /\ Becomes(i, [W(i) EXCEPT !.batch = Tail(@), !.n = 1, !.pc = IF Len(W(i).batch) = 1 THEN "read" ELSE "deliver"])
          /\ Quiet,
          Becomes(i, [W(i) EXCEPT !.pc = "create", !.batch = <<>>]))
    /\ UNCHANGED handled /\ Stays

Work(i) == awaitPrior(i) \/ runOutbound(i) \/ consumeLoop(i) \/ attempt(i) \/ outcome(i) \/ cancelled(i) \/ deliverEntry(i) \/ ack(i)

-----------------------------------------------------------------------------
(* The server and the process.                                             *)

Flip ==
    /\ conf.flips
    /\ role' = IF role = "master" THEN "slave" ELSE "master"
    /\ UNCHANGED <<conf, defs, ids, topics, stats, mgr, workers, calls, handled, accepted, astray>>

\* The process ends and starts again; the store keeps what it was told.
Start ==
    /\ conf.crashes
    /\ mgr' = NoManager
    /\ workers' = [i \in DOMAIN workers |-> [workers[i] EXCEPT !.off = TRUE, !.pc = "done"]]
    /\ calls' = [c \in Callers |-> Idle]
    /\ UNCHANGED <<conf, defs, ids, topics, stats, role, handled, accepted, astray>>

Init ==
    /\ conf \in Deployments
    /\ defs = conf.defs
    /\ ids = {h \in Hooks : conf.defs[h] # None}
    /\ topics = [t \in Topics |-> [len |-> 0, low |-> 0, group |-> None]]
    /\ mgr = NoManager
    /\ workers = <<>>
    /\ calls = [c \in Callers |-> Idle]
    /\ role = "master"
    /\ stats = [h \in Hooks |-> 0]
    /\ handled = {}
    /\ accepted = [h \in Hooks |-> 0]
    /\ sent = 0
    /\ astray = FALSE

Runs ==
    /\ Tick \/ flushCounters \/ (\E c \in Callers : Step(c)) \/ (\E i \in DOMAIN workers : Work(i))
            \/ (\E h \in Hooks : Refill(h) \/ \E secret \in conf.secrets : handleHook(h, secret))
    /\ UNCHANGED <<conf, role, sent>>

Disturbed ==
    /\ sent < conf.disturbances
    /\ sent' = sent + 1
    /\ \/ (\E c \in Callers, e \in conf.edits : Edit(c, e)) /\ UNCHANGED <<conf, role>>
       \/ Flip
       \/ Start

Produces == (\E t \in conf.producers : Produce(t)) /\ UNCHANGED <<conf, role, sent>>

Next == Runs \/ Disturbed \/ Produces

Spec == Init /\ [][Next]_vars

-----------------------------------------------------------------------------
(* Properties.                                                             *)

\* An entry the group has passed is pending, or it was accepted by the URL,
\* dead-lettered or given up, or trimmed from the topic: however commands fail,
\* workers are replaced and the process restarts, XACK loses nothing (deliverEntry,
\* consumeLoop).
NoLoss ==
    \A t \in Topics : topics[t].group # None =>
        \A e \in topics[t].group.start + 1 .. topics[t].group.last :
            e \in topics[t].group.pend \/ <<t, e>> \in handled \/ e <= topics[t].low

Consuming(h) == {i \in DOMAIN workers : workers[i].h = h /\ workers[i].pc \notin {"wait", "done"}}

\* Of the workers of a hook that consume at the same time only one was not told
\* to stop, and only one consumes unless a worker was stopped while it waited or
\* by dropGroup (reconcile).
OneConsumer ==
    \A h \in Hooks :
        /\ Cardinality({i \in Consuming(h) : ~workers[i].off}) <= 1
        /\ ~astray => Cardinality(Consuming(h)) <= 1

\* While no command failed and no worker was stopped early, entries are handled in
\* order: what a worker has in hand comes after everything handled (consumeLoop).
InOrder ==
    ~astray =>
        \A t \in Topics : topics[t].group # None =>
            \A e \in {x[2] : x \in {y \in handled : y[1] = t}} : \A d \in topics[t].group.start + 1 .. e - 1 :
                <<t, d>> \in handled \/ d <= topics[t].low

\* Accepted requests are counted at most once (flushCounters).
CountedOnce ==
    \A h \in Hooks : stats[h] + (IF mgr.inbound[h] = None THEN 0 ELSE mgr.inbound[h].pending) <= accepted[h]

\* A stored hook that asks for a secret has one, whatever its mode was before
\* and whether or not the secret was sent again (sealSecrets).
SecretsKept == \A h \in Hooks : defs[h] # None /\ defs[h].mode # "none" => defs[h].secret # ""

WebhooksKept == NoLoss /\ OneConsumer /\ InOrder /\ CountedOnce /\ SecretsKept
=============================================================================
