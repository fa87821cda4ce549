------------------------------ MODULE RpcKeys ------------------------------
(***************************************************************************)
(* API keys of the JSON-RPC proxy: the cached record of a key, its daily   *)
(* quota, the usage that is buffered and flushed, and the operator's       *)
(* commands (src/internal/rpccache/auth.go, keys.go, client.go).           *)
(*                                                                         *)
(* One key, one UTC day and one proxy process.  The store is external; a   *)
(* pipeline reaches it at one moment and its answer may be lost.  The rate *)
(* limit is a function of the store, so here it may allow or deny.         *)
(***************************************************************************)
EXTENDS Integers, Sequences, FiniteSets, FiniteSetsExt

CONSTANTS
    None,
    Deployments  \* requests and their sizes, plans, the operator's commands, the record TTL, what may fail, the clock's bound

VARIABLES
    conf,      \* the deployment
    now,       \* a.now(), in seconds
    req,       \* the goroutines in ServeHTTP
    entries,   \* the keyEntry objects made for the key, the last one in a.entries if current
    current,   \* a.entries holds the last entry
    pending,   \* a.pending: usage not flushed
    batch,     \* the usage a Flush has taken, and whether the store has it
    rec,       \* external: the stored key record
    usage,     \* external: the stored counters
    admin,     \* the operator's commands
    revoked,   \* when the stored record was revoked
    outages,   \* bounds the store calls that fail
    again,     \* calls the store counted although their Flush failed
    raced      \* requests, loads and flushes overlapped: see Overlap

vars == <<conf, now, req, entries, current, pending, batch, rec, usage, admin, revoked, outages, again, raced>>

Handlers == DOMAIN conf.requests
Zero == [calls |-> 0, denied |-> 0]
Plus(a, b) == [calls |-> a.calls + b.calls, denied |-> a.denied + b.denied]
Calls(n) == [calls |-> n, denied |-> 0]
Denied(n) == [calls |-> 0, denied |-> n]

NewEntry == [snap |-> None, ver |-> 0, local |-> 0, load |-> None]
NewRequest == [pc |-> "new", e |-> 0, seen |-> 0, snap |-> None, at |-> 0, began |-> 0, excused |-> FALSE, status |-> None]

\* conf.plans are the plans the store holds and validate accepts.
Snapshot(r, loaded, base, planRead) ==
    [found |-> r # None, rec |-> r, planOK |-> r # None /\ planRead /\ r.plan \in DOMAIN conf.plans, loaded |-> loaded, base |-> base,
     failure |-> ~planRead]

\* -------------------------------------------------------------------------
\* lookup

\* As ServeHTTP, with the snapshot in use: refuse, or read the body and go on.
Decided(i, e, at, refreshing) ==
    LET s == e.snap
        status == IF s.failure /\ ~s.found THEN 503
                  ELSE IF ~s.found \/ s.rec.revoked THEN 401
                  ELSE IF ~s.planOK THEN 403 ELSE None
    IN [pc |-> IF status = None THEN "body" ELSE "done", e |-> i, seen |-> e.ver, snap |-> s,
        at |-> at, began |-> 0, excused |-> refreshing, status |-> status]

\* A stand-in for a failed load is trusted for a second.
Trusted(s) == s # None /\ now - s.loaded < (IF s.failure /\ conf.ttl > 1 THEN 1 ELSE conf.ttl)

lookup(h) ==
    LET es == IF current THEN entries ELSE Append(entries, NewEntry)
        e == es[Len(es)]
    IN
    /\ req[h].pc = "new"
    /\ entries' = es /\ current' = TRUE
    /\ req' = [req EXCEPT ![h] = IF Trusted(e.snap) THEN Decided(Len(es), e, now, FALSE)
                                 ELSE [NewRequest EXCEPT !.pc = "refresh", !.e = Len(es), !.seen = e.ver, !.at = now, !.excused = e.load # None]]
    /\ UNCHANGED <<conf, now, pending, batch, rec, usage, admin, revoked, outages, again>>

\* The first load is waited for; a later one is left to whoever holds the lock.  A snapshot that came meanwhile is used.
Refresh(h) ==
    LET e == entries[req[h].e] IN
    /\ req[h].pc = "refresh"
    /\ e.load # None => e.snap # None /\ req[h].seen # 0
    /\ IF e.load # None \/ e.ver # req[h].seen
       THEN /\ req' = [req EXCEPT ![h] = Decided(req[h].e, e, req[h].at, req[h].excused \/ e.load # None)]
            /\ UNCHANGED entries
       ELSE /\ req' = [req EXCEPT ![h].pc = "load", ![h].began = now]
            /\ entries' = [entries EXCEPT ![req[h].e].load = h]
    /\ UNCHANGED <<conf, now, current, pending, batch, rec, usage, admin, revoked, outages, again>>

\* load reads the record and today's calls, then the plan; either may fail.
load(h) ==
    LET t == req[h].began IN
    /\ req[h].pc = "load"
    /\ \/ /\ req' = [req EXCEPT ![h].pc = "loaded", ![h].snap = Snapshot(rec, t, IF rec = None THEN 0 ELSE usage.calls, TRUE)]
          /\ UNCHANGED outages
       \/ /\ outages > 0 /\ outages' = outages - 1
          /\ \E r \in {None, rec} :
              req' = [req EXCEPT ![h].pc = "loaded", ![h].snap = Snapshot(r, t, IF r = None THEN 0 ELSE usage.calls, FALSE)]
    /\ UNCHANGED <<conf, now, entries, current, pending, batch, rec, usage, admin, revoked, again>>

\* A load that fails keeps a good record; one that works adds the calls not flushed and starts counting anew.
Loaded(h) ==
    LET ns == req[h].snap  e == entries[req[h].e]  s == e.snap
        kept == IF ~ns.failure THEN [ns EXCEPT !.base = @ + pending.calls]
                ELSE IF s # None /\ s.found THEN [s EXCEPT !.loaded = now, !.failure = TRUE] ELSE ns
        new == [snap |-> kept, ver |-> e.ver + 1, local |-> IF ns.failure THEN e.local ELSE 0, load |-> None]
    IN
    /\ req[h].pc = "loaded"
    /\ entries' = [entries EXCEPT ![req[h].e] = new]
    /\ req' = [req EXCEPT ![h] = Decided(req[h].e, new, req[h].at, req[h].excused)]
    /\ UNCHANGED <<conf, now, current, pending, batch, rec, usage, admin, revoked, outages, again>>

\* More than maxEntries keys were seen: the map starts again.
Flood ==
    /\ current /\ conf.flood /\ Len(entries) = 1
    /\ current' = FALSE
    /\ UNCHANGED <<conf, now, req, entries, pending, batch, rec, usage, admin, revoked, outages, again>>

\* -------------------------------------------------------------------------
\* Admission

N(h) == conf.requests[h]
Burst(s) == conf.plans[s.rec.plan].burst
Daily(s) == conf.plans[s.rec.plan].daily
Known(h) == req[h].snap.base + entries[req[h].e].local

WithinLimits(h) == N(h) <= Burst(req[h].snap) /\ (Daily(req[h].snap) = 0 \/ Known(h) + N(h) <= Daily(req[h].snap))

Limits(h) ==
    /\ req[h].pc = "body"
    /\ IF WithinLimits(h)
       THEN /\ req' = [req EXCEPT ![h].pc = "tokens"]
            /\ UNCHANGED pending
       ELSE /\ req' = [req EXCEPT ![h].pc = "done", ![h].status = 429]
            /\ pending' = Plus(pending, Denied(N(h)))
    /\ UNCHANGED <<conf, now, entries, current, batch, rec, usage, admin, revoked, outages, again>>

\* A store that fails allows the request.
takeTokens(h) ==
    /\ req[h].pc = "tokens"
    /\ \/ /\ req' = [req EXCEPT ![h].pc = "admit"]
          /\ UNCHANGED pending
       \/ /\ conf.limited
          /\ req' = [req EXCEPT ![h].pc = "done", ![h].status = 429]
          /\ pending' = Plus(pending, Denied(N(h)))
    /\ UNCHANGED <<conf, now, entries, current, batch, rec, usage, admin, revoked, outages, again>>

Admit(h) ==
    /\ req[h].pc = "admit"
    /\ entries' = [entries EXCEPT ![req[h].e].local = @ + N(h)]
    /\ req' = [req EXCEPT ![h].pc = "record"]
    /\ UNCHANGED <<conf, now, current, pending, batch, rec, usage, admin, revoked, outages, again>>

record(h) ==
    /\ req[h].pc = "record"
    /\ pending' = Plus(pending, Calls(N(h)))
    /\ req' = [req EXCEPT ![h].pc = "done", ![h].status = 200]
    /\ UNCHANGED <<conf, now, entries, current, batch, rec, usage, admin, revoked, outages, again>>

\* -------------------------------------------------------------------------
\* Flush

Flush ==
    /\ batch = None /\ pending # Zero
    /\ batch' = [n |-> pending, stored |-> FALSE]
    /\ pending' = Zero
    /\ UNCHANGED <<conf, now, req, entries, current, rec, usage, admin, revoked, outages, again>>

Pipeline ==
    /\ batch # None /\ ~batch.stored
    /\ usage' = Plus(usage, batch.n)
    /\ batch' = [n |-> batch.n, stored |-> TRUE]
    /\ UNCHANGED <<conf, now, req, entries, current, pending, rec, admin, revoked, outages, again>>

Flushed ==
    /\ batch # None /\ batch.stored
    /\ batch' = None
    /\ UNCHANGED <<conf, now, req, entries, current, pending, rec, usage, admin, revoked, outages, again>>

\* The pipeline failed, before or after the store ran it: the counts are kept for the next attempt.
FlushFails ==
    /\ batch # None /\ outages > 0
    /\ outages' = outages - 1
    /\ pending' = Plus(pending, batch.n)
    /\ again' = again + (IF batch.stored THEN batch.n.calls ELSE 0)
    /\ batch' = None
    /\ UNCHANGED <<conf, now, req, entries, current, rec, usage, admin, revoked>>

\* -------------------------------------------------------------------------
\* The operator: each command reads, then writes what it read with one field changed

\* There is no such key, or no such plan.
Refused(c) == (c.op # "create" /\ rec = None) \/ (c.op # "revoke" /\ c.plan \notin DOMAIN conf.plans)

AdminReads(i) ==
    /\ admin[i].pc = "new"
    /\ admin' = [admin EXCEPT ![i].pc = IF Refused(conf.admin[i]) THEN "refused" ELSE "read", ![i].read = rec]
    /\ UNCHANGED <<conf, now, req, entries, current, pending, batch, rec, usage, revoked, outages, again>>

Written(c, read) ==
    IF c.op = "create" THEN [plan |-> c.plan, revoked |-> FALSE]
    ELSE IF c.op = "revoke" THEN [plan |-> read.plan, revoked |-> TRUE]
    ELSE [plan |-> c.plan, revoked |-> read.revoked]

AdminWrites(i) ==
    LET r == Written(conf.admin[i], admin[i].read) IN
    /\ admin[i].pc = "read"
    /\ rec' = r
    /\ revoked' = IF ~r.revoked THEN None ELSE IF revoked = None THEN now ELSE revoked
    /\ admin' = [admin EXCEPT ![i].pc = "done"]
    /\ UNCHANGED <<conf, now, req, entries, current, pending, batch, usage, outages, again>>

Tick ==
    /\ now < conf.clock /\ now' = now + 1
    /\ UNCHANGED <<conf, req, entries, current, pending, batch, rec, usage, admin, revoked, outages, again>>

Init ==
    /\ conf \in Deployments
    /\ now = 0
    /\ req = [h \in DOMAIN conf.requests |-> NewRequest]
    /\ entries = <<NewEntry>> /\ current = TRUE
    /\ pending = Zero /\ batch = None
    /\ rec = conf.rec /\ usage = Zero
    /\ admin = [i \in DOMAIN conf.admin |-> [pc |-> "new", read |-> None]]
    /\ revoked = None /\ outages = conf.outages /\ again = 0 /\ raced = FALSE

Step ==
    \/ \E h \in Handlers :
        lookup(h) \/ Refresh(h) \/ load(h) \/ Loaded(h) \/ Limits(h) \/ takeTokens(h) \/ Admit(h) \/ record(h)
    \/ Flush \/ Pipeline \/ Flushed \/ FlushFails \/ Flood \/ Tick
    \/ \E i \in DOMAIN conf.admin : AdminReads(i) \/ AdminWrites(i)

\* A request between its snapshot and its count, while another is, or while a load or a Flush is under way.
Overlap ==
    LET admitting == {h \in Handlers : req[h].pc \in {"body", "tokens", "admit", "record"}}
        loading == {h \in Handlers : req[h].pc \in {"load", "loaded"}}
    IN Cardinality(admitting) > 1 \/ (loading # {} /\ (admitting # {} \/ batch # None))

Next == Step /\ raced' = (raced \/ Overlap')

Spec == Init /\ [][Next]_vars

\* -------------------------------------------------------------------------
\* Properties

Total(S) == MapThenSumSet(N, S)
Admitted == {h \in Handlers : req[h].pc = "done" /\ req[h].status = 200}

\* Every admitted call is counted once, in the store, in the buffer or in a Flush under way (record, Flush), save for the
\* calls of a Flush that failed after the store had run it, which are counted again.
UsageKept ==
    usage.calls + pending.calls + (IF batch # None /\ ~batch.stored THEN batch.n.calls ELSE 0) = Total(Admitted) + again

\* A plan's daily quota is not exceeded by one process (ServeHTTP, lookup), whatever expires, fails or is flushed between
\* its requests, as long as no request, load or Flush overlapped another.  The plan is that of the last request admitted.
QuotaKept ==
    ~raced /\ Admitted # {} => \E h \in Admitted : Daily(req[h].snap) = 0 \/ Total(Admitted) <= Daily(req[h].snap)

\* "Running proxies notice within their record-cache TTL" (Revoke): a request that passes on a record that is revoked in the
\* store came less than the TTL after the revocation, or while another was reading the record again, or in an outage.
RevocationNoticed ==
    \A h \in Handlers : req[h].pc = "body" /\ revoked # None /\ req[h].at >= revoked =>
        req[h].excused \/ req[h].snap.failure \/ req[h].at - revoked < conf.ttl

\* A revocation is undone only by a command that had read the record before it (Revoke, SetKeyPlan).
RevocationStays ==
    \A i \in DOMAIN conf.admin : admin[i].pc = "done" /\ conf.admin[i].op = "revoke" =>
        rec.revoked \/ \E j \in DOMAIN conf.admin : j # i /\ admin[j].pc = "done" /\ (admin[j].read = None \/ ~admin[j].read.revoked)

\* What is kept of one API key, whatever loads, flushes and changes of it overlap (AuthHandler, KeyStore).
KeysKept == UsageKept /\ QuotaKept /\ RevocationNoticed /\ RevocationStays
=============================================================================
