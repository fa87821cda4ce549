--------------------------------- MODULE Acl ---------------------------------
(***************************************************************************)
(* Access control: the users and their rules (acl.go, acl_selectors.go),   *)
(* what a connection may run (acl_commands.go), the ACL file               *)
(* (acl_persistence.go) and the log of refusals (acl_log.go).              *)
(*                                                                         *)
(* A rule is <<kind, argument, inner rules>>; only a selector, whose kind  *)
(* is "(", has inner rules.  A key, a channel, a pattern and a password    *)
(* are sequences of characters.  SHA-256 is taken to be injective, so a    *)
(* password stands for its hash.  A command is <<name, subcommand>>.       *)
(***************************************************************************)
EXTENDS Integers, Sequences, FiniteSets, SequencesExt, FiniteSetsExt

CONSTANTS
    Conns,            \* the client connections
    None,
    Categories,       \* redisACLCategoryCommands: category -> commands
    aclLogMaxEntries, \* 128
    Deployments       \* the workloads considered

VARIABLES
    conf,     \* the workload
    users,    \* ACL.users
    version,  \* ACL.version
    sess,     \* the authSession of each connection, and the refusal it has yet to log
    aclLog,   \* ACLLog.entries
    nextID,   \* ACLLog.nextID
    saver,    \* SaveFile of each connection: the users to write, the lines, what they stand for
    file,     \* the ACL file
    saved,    \* history: the users as they were when the file's lines were written
    told,     \* history: the rules each user has been given since its last reset
    seen,     \* history: what was logged since the last ACL LOG RESET
    up,       \* the server runs
    steps     \* bound: operations so far

vars == <<conf, users, version, sess, aclLog, nextID, saver, file, saved, told, seen, up, steps>>

Rule(kind, arg) == <<kind, arg, <<>>>>
Selector(rules) == <<"(", <<>>, rules>>
Star == <<"*">>

-----------------------------------------------------------------------------
(* Patterns.                                                               *)

RECURSIVE match(_, _, _, _)
match(p, v, pi, vi) ==
    IF pi > Len(p) THEN vi = Len(v) + 1
    ELSE IF p[pi] = "*"
         THEN LET last == Max({i \in pi .. Len(p) : \A j \in pi .. i : p[j] = "*"})
              IN \/ last = Len(p)
                 \/ \E i \in vi .. Len(v) + 1 : match(p, v, last + 1, i)
    ELSE /\ vi <= Len(v)
         /\ p[pi] \in {"?", v[vi]}
         /\ match(p, v, pi + 1, vi + 1)

aclGlobMatch(p, v) == match(p, v, 1, 1)

-----------------------------------------------------------------------------
(* Rule sets: the root rules of a user, and each selector.                 *)

Commands(all, rules, yes, no) == [all |-> all, rules |-> rules, yes |-> yes, no |-> no]
Scope(all, patterns) == [all |-> all, patterns |-> patterns]
RuleSet(commands, keys, channels) == [commands |-> commands, keys |-> keys, channels |-> channels]
User(on, nopass, hashes, sanitize, root, selectors) ==
    [on |-> on, nopass |-> nopass, hashes |-> hashes, sanitize |-> sanitize,
     root |-> root, selectors |-> selectors]

newACLSelector ==
    RuleSet(Commands(FALSE, <<Rule("-@", <<"all">>)>>, {}, {}), Scope(FALSE, <<>>), Scope(FALSE, <<>>))

newACLUser == User(FALSE, FALSE, <<>>, TRUE, newACLSelector, <<>>)

\* NewACL: the default user may do everything without a password.
NewACL ==
    [n \in {"default"} |->
        User(TRUE, TRUE, <<>>, TRUE,
             RuleSet(Commands(TRUE, <<Rule("+@", <<"all">>)>>, {}, {}), Scope(TRUE, <<Star>>), Scope(TRUE, <<Star>>)),
             <<>>)]

\* Only ACL is granted by subcommand; of other families the category names the parent.
aclCanonicalCommand(c) == IF c[1] = "acl" THEN c ELSE <<c[1], "">>
aclCommandsForCategory(category) == {aclCanonicalCommand(c) : c \in Categories[category]}

\* The commands a rule names ("+@all" and "-@all" apart).
Named(r) == IF r[1] \in {"+@", "-@"} THEN aclCommandsForCategory(r[2][1]) ELSE {r[2]}
OnAll(r) == r[1] \in {"+@", "-@"} /\ r[2] = <<"all">>
UnknownCategory(r) == r[1] \in {"+@", "-@"} /\ r[2][1] \notin DOMAIN Categories \cup {"all"}

CommandsAfter(c, r) ==
    CASE OnAll(r) -> Commands(r[1] = "+@", <<r>>, {}, {})
      [] r[1] \in {"+", "+@"} /\ ~OnAll(r) -> Commands(c.all, Append(c.rules, r), c.yes \cup Named(r), c.no \ Named(r))
      [] r[1] \in {"-", "-@"} /\ ~OnAll(r) -> Commands(c.all, Append(c.rules, r), c.yes \ Named(r), c.no \cup Named(r))
      [] OTHER -> c

KeysAfter(k, r) ==
    CASE r \in {Rule("allkeys", <<>>), Rule("~", Star)} -> Scope(TRUE, <<Star>>)
      [] r[1] = "resetkeys" -> Scope(FALSE, <<>>)
      [] r[1] = "~" /\ r[2] # Star -> Scope(FALSE, Append(k.patterns, r[2]))
      [] OTHER -> k

\* The root rules keep a channel pattern once, a selector as often as it is given.
ChannelsAfter(h, r, once) ==
    CASE r \in {Rule("allchannels", <<>>), Rule("&", Star)} -> Scope(TRUE, <<Star>>)
      [] r[1] = "resetchannels" -> Scope(FALSE, <<>>)
      [] r[1] = "&" /\ r[2] # Star /\ ~h.all /\ ~(once /\ Contains(h.patterns, r[2])) -> Scope(FALSE, Append(h.patterns, r[2]))
      [] OTHER -> h

RuleSetAfter(s, r, once) ==
    RuleSet(CommandsAfter(s.commands, r), KeysAfter(s.keys, r), ChannelsAfter(s.channels, r, once))

applyACLSelectorRule(s, r) == RuleSetAfter(s, r, FALSE)
OfSelector ==
    {"allkeys", "resetkeys", "~", "allchannels", "resetchannels", "&", "+", "-", "+@", "-@"}
SelectorRefused(r) == r[1] \notin OfSelector \/ UnknownCategory(r)

parseACLSelector(rules) == FoldLeft(applyACLSelectorRule, newACLSelector, rules)

-----------------------------------------------------------------------------
(* ACL SETUSER.                                                            *)

PasswordsAfter(hashes, r) ==
    CASE r[1] \in {"nopass", "resetpass"} -> <<>>
      [] r[1] \in {">", "#"} /\ ~Contains(hashes, r[2]) -> Append(hashes, r[2])
      [] r[1] \in {"<", "!"} -> SelectSeq(hashes, LAMBDA x : x # r[2])
      [] OTHER -> hashes

\* A rule that ends SETUSER with an error: an unknown word, half a selector,
\* a wrong selector, an empty key pattern, a password the user does not have.
RuleRefused(u, r) ==
    \/ r[1] \in {"unknown", "half"}
    \/ r[1] = "(" /\ \E i \in DOMAIN r[3] : SelectorRefused(r[3][i])
    \/ r = Rule("~", <<>>)
    \/ r[1] \in {"<", "!"} /\ ~Contains(u.hashes, r[2])

UserAfter(u, r) ==
    CASE r[1] = "reset" -> newACLUser
      [] r[1] = "(" -> User(u.on, u.nopass, u.hashes, u.sanitize, u.root, Append(u.selectors, parseACLSelector(r[3])))
      [] OTHER ->
            User((u.on \/ r[1] = "on") /\ r[1] # "off",
                 (u.nopass \/ r[1] = "nopass") /\ r[1] \notin {"resetpass", ">", "#"},
                 PasswordsAfter(u.hashes, r),
                 (u.sanitize \/ r[1] = "sanitize-payload") /\ r[1] # "skip-sanitize-payload",
                 RuleSetAfter(u.root, r, TRUE), u.selectors)

\* The rules before the first one that is refused take effect, the others do not.
ApplyRule(done, r) ==
    IF done.failed \/ RuleRefused(done.user, r)
    THEN [user |-> done.user, failed |-> TRUE, told |-> done.told]
    ELSE [user |-> UserAfter(done.user, r), failed |-> FALSE,
          told |-> IF r[1] = "reset" THEN <<>> ELSE Append(done.told, r)]

\* Unknown categories are looked for first, and then nothing is changed.
Invalid(rules) == \E i \in DOMAIN rules : UnknownCategory(rules[i])
RulesApplied(u, before, rules) ==
    FoldLeft(ApplyRule, [user |-> u, failed |-> FALSE, told |-> before], rules)

Known(name) == name \in DOMAIN users
Extended(f, name, value) == [n \in DOMAIN f \cup {name} |-> IF n = name THEN value ELSE f[n]]

-----------------------------------------------------------------------------
(* What a user may run.  A request is a command with its keys, its channels *)
(* and whether its arguments read as SORT's BY or GET with a pattern.      *)

aclRuleCommandAllowed(s, c) == c \in s.commands.yes \/ (s.commands.all /\ c \notin s.commands.no)
aclRuleKeyAllowed(s, key) ==
    s.keys.all \/ \E i \in DOMAIN s.keys.patterns : aclGlobMatch(s.keys.patterns[i], key)
aclRuleChannelAllowed(s, channel) ==
    s.channels.all \/ \E i \in DOMAIN s.channels.patterns : aclGlobMatch(s.channels.patterns[i], channel)
aclRuleChannelPatternAllowed(s, pattern) == s.channels.all \/ Contains(s.channels.patterns, pattern)

ChannelOK(s, q, channel) ==
    IF q.cmd[1] = "psubscribe" THEN aclRuleChannelPatternAllowed(s, channel)
                               ELSE aclRuleChannelAllowed(s, channel)

aclRuleSetAllows(s, q) ==
    /\ aclRuleCommandAllowed(s, aclCanonicalCommand(q.cmd))
    /\ q.external => s.keys.all
    /\ \A k \in ToSet(q.keys) : aclRuleKeyAllowed(s, k)
    /\ \A h \in ToSet(q.channels) : ChannelOK(s, q, h)

RuleSets(u) == {u.root} \cup {u.selectors[i] : i \in DOMAIN u.selectors}
aclUserAllowsCommand(u, q) == \E s \in RuleSets(u) : aclRuleSetAllows(s, q)
aclRuleSetAllowsAdditionalKey(s, q, key) == aclRuleSetAllows(s, q) /\ aclRuleKeyAllowed(s, key)
aclUserAllowsAdditionalKey(u, q, key) == \E s \in RuleSets(u) : aclRuleSetAllowsAdditionalKey(s, q, key)

\* Why a refused request is refused: the command, then SORT's patterns, the keys and the channels,
\* each of which some rule set may allow when none allows them together.
CommandPossible(u, q) == \E s \in RuleSets(u) : aclRuleCommandAllowed(s, aclCanonicalCommand(q.cmd))
SortPossible(u, q) ==
    q.external => \E s \in RuleSets(u) : aclRuleCommandAllowed(s, aclCanonicalCommand(q.cmd)) /\ s.keys.all
KeysPossible(u, q) == \A k \in ToSet(q.keys) : \E s \in RuleSets(u) : aclRuleKeyAllowed(s, k)
firstDeniedACLChannelAcrossUser(u, q) == \E h \in ToSet(q.channels) : \A s \in RuleSets(u) : ~ChannelOK(s, q, h)
Reason(u, q) ==
    IF ~CommandPossible(u, q) THEN "command"
    ELSE IF ~SortPossible(u, q) THEN "sort"
    ELSE IF ~KeysPossible(u, q) THEN "key"
    ELSE IF firstDeniedACLChannelAcrossUser(u, q) \/ q.keys = <<>> THEN "channel" ELSE "key"

executeACLDryRun(u, q) ==
    IF aclUserAllowsCommand(u, q) THEN "ok"
    ELSE IF ~CommandPossible(u, q) THEN "command"
    ELSE IF ~KeysPossible(u, q) THEN "key"
    ELSE IF firstDeniedACLChannelAcrossUser(u, q) THEN "channel"
    ELSE IF q.keys # <<>> THEN "key" ELSE "command"

Unrestricted(u) ==
    /\ u.root.commands.all /\ u.root.commands.yes \cup u.root.commands.no = {}
    /\ u.root.keys.all /\ u.root.channels.all /\ u.selectors = <<>>

-----------------------------------------------------------------------------
(* Connections.                                                            *)

Session(user, authenticated, ver, free) ==
    [user |-> user, authenticated |-> authenticated, ver |-> ver, free |-> free, refusal |-> None]

DefaultUserNoPass(us) == "default" \in DOMAIN us /\ us["default"].on /\ us["default"].nopass
newAuthSession(us) == Session("default", DefaultUserNoPass(us), 0, FALSE)

Authenticate(us, name, password) ==
    /\ name \in DOMAIN us /\ us[name].on
    /\ us[name].nopass \/ Contains(us[name].hashes, password)

Trusted(s) == s.free /\ s.ver = version

authorizeConnectionCommand(s, q) ==
    IF ~s.authenticated THEN "noauth"
    ELSE IF Trusted(s) THEN "ok"
    ELSE IF ~Known(s.user) \/ ~users[s.user].on THEN "noauth"
    ELSE IF Unrestricted(users[s.user]) \/ aclUserAllowsCommand(users[s.user], q) THEN "ok"
    ELSE Reason(users[s.user], q)

\* A command that a script or a transaction runs, and a key found while a command runs, are checked
\* for the user whose connection sent it, and nothing is remembered.
authorizeExecutionNestedCommand(name, q) == authorizeConnectionCommand(Session(name, TRUE, 0, FALSE), q)
authorizeExecutionDynamicKey(name, q, key) ==
    Known(name) /\ users[name].on /\ aclUserAllowsAdditionalKey(users[name], q, key)

\* The decision is remembered with the version it was made at.
Remembers(s) ==
    /\ s.authenticated /\ ~Trusted(s)
    /\ Known(s.user) /\ users[s.user].on /\ Unrestricted(users[s.user])

Ready(c) == up /\ sess[c].refusal = None /\ saver[c] = None
Does(op) == up /\ op \in conf.ops /\ steps < conf.steps /\ steps' = steps + 1 /\ UNCHANGED <<conf, up>>

Command(c) ==
    /\ Does("command") /\ Ready(c)
    /\ \E q \in conf.requests :
          LET verdict == authorizeConnectionCommand(sess[c], q)
          IN sess' = [sess EXCEPT ![c] =
                 IF Remembers(@) THEN Session(@.user, TRUE, version, TRUE)
                 ELSE [@ EXCEPT !.refusal = IF verdict \in {"command", "key", "channel"} THEN <<verdict, q>> ELSE None]]
    /\ UNCHANGED <<users, version, aclLog, nextID, saver, file, saved, told, seen>>

\* ACLLog.Add: an equal entry is counted and moves to the front, an older one falls off.
Add(reason, object, name) ==
    LET same(e) == e.what = <<reason, object, name>>
        old == SelectSeq(aclLog, same)
        entry == IF old = <<>> THEN [what |-> <<reason, object, name>>, count |-> 1, id |-> nextID + 1]
                 ELSE [what |-> old[1].what, count |-> old[1].count + 1, id |-> old[1].id]
        all == <<entry>> \o SelectSeq(aclLog, LAMBDA e : ~same(e))
    IN /\ aclLog' = SubSeq(all, 1, IF Len(all) > aclLogMaxEntries THEN aclLogMaxEntries ELSE Len(all))
       /\ nextID' = IF old = <<>> THEN nextID + 1 ELSE nextID
       /\ seen' = Append(seen, <<reason, object, name>>)

\* What is logged of a refusal is looked up afterwards, and in the root rules only.
FirstOr(s) == IF s = <<>> THEN <<>> ELSE s[1]
RootAllows(name, q, x, isKey) ==
    /\ Known(name) /\ users[name].on
    /\ IF isKey THEN aclRuleKeyAllowed(users[name].root, x) ELSE ChannelOK(users[name].root, q, x)
Object(reason, q, name) ==
    CASE reason = "command" -> aclCanonicalCommand(q.cmd)
      [] reason = "key" -> FirstOr(SelectSeq(q.keys, LAMBDA k : ~RootAllows(name, q, k, TRUE)))
      [] reason = "channel" -> FirstOr(SelectSeq(q.channels, LAMBDA h : ~RootAllows(name, q, h, FALSE)))

Refuse(c) ==
    /\ up /\ sess[c].refusal # None
    /\ Add(sess[c].refusal[1], Object(sess[c].refusal[1], sess[c].refusal[2], sess[c].user), sess[c].user)
    /\ sess' = [sess EXCEPT ![c].refusal = None]
    /\ UNCHANGED <<conf, users, version, saver, file, saved, told, up, steps>>

\* AUTH [user] password, and HELLO AUTH; of these only AUTH logs a wrong password.
executeAUTH(c) ==
    /\ Does("auth") /\ Ready(c)
    /\ \E login \in conf.logins :
          LET name == IF login[1] = "" THEN "default" ELSE login[1]
          IN IF login[1] = "" /\ DefaultUserNoPass(users) THEN UNCHANGED <<sess, aclLog, nextID, seen>>
             ELSE IF Authenticate(users, name, login[2])
             THEN sess' = [sess EXCEPT ![c] = Session(name, TRUE, 0, FALSE)] /\ UNCHANGED <<aclLog, nextID, seen>>
             ELSE IF login[3] = "AUTH" THEN Add("auth", <<"AUTH">>, name) /\ UNCHANGED sess
             ELSE UNCHANGED <<sess, aclLog, nextID, seen>>
    /\ UNCHANGED <<users, version, saver, file, saved, told>>

\* RESET and a new connection.
Reset(c) ==
    /\ Does("reset") /\ Ready(c)
    /\ sess' = [sess EXCEPT ![c] = newAuthSession(users)]
    /\ UNCHANGED <<users, version, aclLog, nextID, saver, file, saved, told, seen>>

-----------------------------------------------------------------------------
(* Changes of the users.  An operation counts whichever connection sends it. *)

\* The users change and cached decisions do not.
SetUserQuietly ==
    /\ Does("setuser")
    /\ \E name \in conf.names, rules \in conf.rules :
          LET done == RulesApplied(IF Known(name) THEN users[name] ELSE newACLUser,
                                   IF Known(name) THEN told[name] ELSE <<>>, rules)
          IN ~Invalid(rules) /\ users' = Extended(users, name, done.user) /\ told' = Extended(told, name, done.told)
    /\ UNCHANGED <<version, sess, aclLog, nextID, saver, file, saved, seen>>

SetUser ==
    /\ Does("setuser")
    /\ \E name \in conf.names, rules \in conf.rules :
          \/ Invalid(rules) /\ UNCHANGED <<users, told, version>>
          \/ /\ ~Invalid(rules)
             /\ LET done == RulesApplied(IF Known(name) THEN users[name] ELSE newACLUser,
                                         IF Known(name) THEN told[name] ELSE <<>>, rules)
                IN users' = Extended(users, name, done.user) /\ told' = Extended(told, name, done.told)
             /\ version' = version + 1
    /\ UNCHANGED <<sess, aclLog, nextID, saver, file, saved, seen>>

DeleteUsers ==
    /\ Does("deluser")
    /\ \E name \in conf.names :
          LET left == DOMAIN users \ ({name} \ {"default"})
          IN users' = [n \in left |-> users[n]] /\ told' = [n \in left |-> told[n]]
    /\ version' = version + 1
    /\ UNCHANGED <<sess, aclLog, nextID, saver, file, saved, seen>>

LogReset ==
    /\ Does("log")
    /\ aclLog' = <<>> /\ seen' = <<>>
    /\ UNCHANGED <<users, version, sess, nextID, saver, file, saved, told>>

-----------------------------------------------------------------------------
(* ACL LIST and the ACL file.                                              *)

Patterned(kind, patterns) == [i \in DOMAIN patterns |-> Rule(kind, patterns[i])]
ScopeRules(s) ==
    Patterned("~", s.keys.patterns)
      \o (IF s.channels.all THEN <<Rule("&", Star)>>
          ELSE <<Rule("resetchannels", <<>>)>> \o Patterned("&", s.channels.patterns))

aclSelectorListFragment(s) == Selector(ScopeRules(s) \o s.commands.rules)

aclUserListLine(u) ==
    <<Rule(IF u.on THEN "on" ELSE "off", <<>>)>>
      \o (IF u.nopass THEN <<Rule("nopass", <<>>)>> ELSE <<>>)
      \o <<Rule(IF u.sanitize THEN "sanitize-payload" ELSE "skip-sanitize-payload", <<>>)>>
      \o Patterned("#", u.hashes)
      \o ScopeRules(u.root)
      \o u.root.commands.rules
      \o [i \in DOMAIN u.selectors |-> aclSelectorListFragment(u.selectors[i])]

\* The file is read back word by word, and a selector is written as several words.
Fields(r) ==
    IF r[1] # "(" THEN <<r>>
    ELSE <<Rule("half", <<>>)>> \o SubSeq(r[3], 2, Len(r[3]) - 1) \o <<Rule("half", <<>>)>>
aclUserFileLine(u) == FlattenSeq([i \in DOMAIN aclUserListLine(u) |-> Fields(aclUserListLine(u)[i])])

Loaded(us, ts, failed) == [users |-> us, told |-> ts, failed |-> failed]
LoadLine(l, line) ==
    LET known == line[1] \in DOMAIN l.users
        done == RulesApplied(IF known THEN l.users[line[1]] ELSE newACLUser,
                             IF known THEN l.told[line[1]] ELSE <<>>, line[2])
    IN IF l.failed \/ Invalid(line[2]) \/ done.failed THEN Loaded(l.users, l.told, TRUE)
       ELSE Loaded(Extended(l.users, line[1], done.user), Extended(l.told, line[1], done.told), FALSE)

\* A missing file and a line that is refused fail the whole load.
loadACLFile(lines) ==
    IF lines = None THEN Loaded(<<>>, <<>>, TRUE) ELSE FoldLeft(LoadLine, Loaded(<<>>, <<>>, FALSE), lines)

SaveFile(c) ==
    /\ Does("save") /\ Ready(c)
    /\ saver' = [saver EXCEPT ![c] = [todo |-> SetToSeq(DOMAIN users), lines |-> <<>>, users |-> <<>>]]
    /\ UNCHANGED <<users, version, sess, aclLog, nextID, file, saved, told, seen>>

\* Each user is read under a lock of its own; one deleted in between is skipped.
SaveUser(c) ==
    /\ up /\ saver[c] # None /\ saver[c].todo # <<>>
    /\ LET name == Head(saver[c].todo)
           s == saver[c]
       IN saver' = [saver EXCEPT ![c] =
              IF Known(name)
              THEN [todo |-> Tail(s.todo), lines |-> Append(s.lines, <<name, aclUserFileLine(users[name])>>),
                    users |-> Extended(s.users, name, users[name])]
              ELSE [todo |-> Tail(s.todo), lines |-> s.lines, users |-> s.users]]
    /\ UNCHANGED <<conf, users, version, sess, aclLog, nextID, file, saved, told, seen, up, steps>>

\* The temporary file replaces the old one, or an error leaves the old one.
SaveEnds(c) ==
    /\ up /\ saver[c] # None /\ saver[c].todo = <<>>
    /\ saver' = [saver EXCEPT ![c] = None]
    /\ \/ file' = saver[c].lines /\ saved' = saver[c].users
       \/ conf.fails /\ UNCHANGED <<file, saved>>
    /\ UNCHANGED <<conf, users, version, sess, aclLog, nextID, told, seen, up, steps>>

\* The operator edits the file.
Edit ==
    /\ Does("edit")
    /\ file' \in conf.edits /\ saved' = None
    /\ UNCHANGED <<users, version, sess, aclLog, nextID, saver, told, seen>>

LoadFile ==
    /\ Does("load")
    /\ LET l == loadACLFile(file)
       IN IF l.failed THEN UNCHANGED <<users, told, version>>
          ELSE users' = l.users /\ told' = l.told /\ version' = version + 1
    /\ UNCHANGED <<sess, aclLog, nextID, saver, file, saved, seen>>

-----------------------------------------------------------------------------
(* The start of the server, and the specification.                         *)

FirstRules == <<Rule("on", <<>>), Rule("nopass", <<>>), Rule("~", Star), Rule("&", Star), Rule("+@", <<"all">>)>>
Started == Loaded(NewACL, [n \in {"default"} |-> FirstRules], FALSE)

\* The configured file must load; requirepass then gives the default user a password.
Boot(lines) ==
    LET l == IF conf.configured THEN loadACLFile(lines) ELSE Started
        pass == <<Rule("resetpass", <<>>), Rule(">", conf.requirepass)>>
    IN IF conf.requirepass = <<>> \/ l.failed THEN l ELSE LoadLine(l, <<"default", pass>>)

Init ==
    /\ conf \in Deployments  \* conf.given are earlier SETUSERs
    /\ file = conf.file /\ saved = None
    /\ LET l == FoldLeft(LoadLine, Boot(conf.file), conf.given)
       IN users = l.users /\ told = l.told /\ up = ~l.failed
    /\ sess = [c \in Conns |-> newAuthSession(users)]
    /\ version = 0 /\ aclLog = <<>> /\ nextID = 0 /\ seen = <<>> /\ steps = 0
    /\ saver = [c \in Conns |-> None]

\* The process ends at any moment and is started again on the file it left.
Restart ==
    /\ "restart" \in conf.ops /\ up /\ steps < conf.steps
    /\ LET l == Boot(file)
       IN /\ up' = ~l.failed /\ users' = l.users /\ told' = l.told
          /\ sess' = [c \in Conns |-> newAuthSession(l.users)]
    /\ version' = 0 /\ aclLog' = <<>> /\ nextID' = 0 /\ seen' = <<>> /\ steps' = steps + 1
    /\ saver' = [c \in Conns |-> None]
    /\ UNCHANGED <<conf, file, saved>>

Next ==
    \/ \E c \in conf.conns : Command(c) \/ Refuse(c) \/ executeAUTH(c) \/ Reset(c) \/ SaveFile(c) \/ SaveUser(c) \/ SaveEnds(c)
    \/ SetUser \/ DeleteUsers \/ LogReset \/ Edit \/ LoadFile \/ Restart

Spec == Init /\ [][Next]_vars

-----------------------------------------------------------------------------
(* What the rules mean, read off the list of rules a user was given.       *)

LatestOf(I) == IF I = {} THEN 0 ELSE Max(I)

\* The positions of v a prefix of the pattern may end at.
Spread(positions, p, v) ==
    CASE p = "*" -> UNION {i .. Len(v) : i \in positions}
      [] p = "?" -> {i + 1 : i \in positions \ {Len(v)}}
      [] OTHER -> {i + 1 : i \in {j \in positions \ {Len(v)} : v[j + 1] = p}}
Matches(p, v) == Len(v) \in FoldLeft(LAMBDA P, x : Spread(P, x, v), {0}, p)

\* The last rule that mentions a command decides.
Mentions(r, c) ==
    \/ OnAll(r)
    \/ r[1] \in {"+", "-"} /\ r[2] = c
    \/ r[1] \in {"+@", "-@"} /\ ~OnAll(r)
         /\ \E e \in Categories[r[2][1]] : e[1] = c[1] /\ (c[1] = "acl" => e = c)
Grants(h, c) ==
    LET last == LatestOf({i \in DOMAIN h : Mentions(h[i], c)})
    IN last > 0 /\ h[last][1] \in {"+", "+@"}

\* The patterns given since the last rule that cleared or opened the scope.
InScope(h, kind, all, none) ==
    LET from == LatestOf({i \in DOMAIN h : h[i][1] \in {all, none} \/ h[i] = Rule(kind, Star)})
    IN {h[i][2] : i \in {j \in DOMAIN h : j >= from /\ h[j][1] = kind}}
         \cup (IF from > 0 /\ h[from][1] = all THEN {Star} ELSE {})

Covers(h, q) ==
    LET keys == InScope(h, "~", "allkeys", "resetkeys")
        channels == InScope(h, "&", "allchannels", "resetchannels")
    IN /\ Grants(h, aclCanonicalCommand(q.cmd))
       /\ \A k \in ToSet(q.keys) : \E p \in keys : Matches(p, k)
       /\ \A x \in ToSet(q.channels) :
             IF q.cmd[1] = "psubscribe" THEN {x, Star} \cap channels # {} ELSE \E p \in channels : Matches(p, x)
       /\ q.external => Star \in keys

\* One list of rules, the user's own or a selector's, covers the whole request.
Entitled(h, q) == Covers(h, q) \/ \E i \in DOMAIN h : h[i][1] = "(" /\ Covers(h[i][3], q)

Enabled(h) == LET last == LatestOf({i \in DOMAIN h : h[i][1] \in {"on", "off"}}) IN last > 0 /\ h[last][1] = "on"

Admits(h, password) ==
    LET open == LatestOf({i \in DOMAIN h : h[i][1] \in {"nopass", "resetpass", ">", "#"}})
        own == LatestOf({i \in DOMAIN h : \/ h[i][1] \in {"nopass", "resetpass"}
                                          \/ h[i][1] \in {">", "#", "<", "!"} /\ h[i][2] = password})
    IN Enabled(h) /\ \/ open > 0 /\ h[open][1] = "nopass"
                     \/ own > 0 /\ h[own][1] \in {">", "#"}

-----------------------------------------------------------------------------
(* Properties.                                                             *)

\* authorizeConnectionCommand, whose answer may come from the decision a connection remembered, lets
\* a command through exactly when the user as it is now is on and was given rules that cover it.
DecisionsFresh ==
    up => \A c \in Conns, q \in conf.requests :
        authorizeConnectionCommand(sess[c], q) = "ok"
          <=> /\ sess[c].authenticated /\ Known(sess[c].user)
              /\ Enabled(told[sess[c].user]) /\ Entitled(told[sess[c].user], q)

\* ACL DRYRUN, the checks of nested commands and of keys found while a command runs, and AUTH go by the same rules.
RulesExact ==
    up => \A n \in DOMAIN users :
        /\ \A q \in conf.requests :
              /\ executeACLDryRun(users[n], q) = "ok" <=> Entitled(told[n], q)
              /\ authorizeExecutionNestedCommand(n, q) = "ok" <=> Enabled(told[n]) /\ Entitled(told[n], q)
              /\ \A k \in conf.found :
                    authorizeExecutionDynamicKey(n, q, k)
                      <=> Enabled(told[n]) /\ Entitled(told[n], [q EXCEPT !.keys = Append(@, k)])
        /\ \A login \in conf.logins : Authenticate(users, n, login[2]) <=> Admits(told[n], login[2])

\* The line ACL LIST shows for a user, given to SETUSER, makes the same user.
ListReplays ==
    \A n \in DOMAIN users :
        LET done == RulesApplied(newACLUser, <<>>, aclUserListLine(users[n]))
        IN ~done.failed /\ done.user = users[n]

\* A file that ACL SAVE wrote loads, and gives back the users its lines were written from.
FileLoads == saved # None => ~loadACLFile(file).failed /\ loadACLFile(file).users = saved

\* The log holds the most recent distinct refusals, the latest first, each under an ID of its own.
LatestAt(x) == LatestOf({i \in DOMAIN seen : seen[i] = x})
LogExact ==
    /\ Len(aclLog) = LET n == Cardinality(ToSet(seen)) IN IF n > aclLogMaxEntries THEN aclLogMaxEntries ELSE n
    /\ \A i \in DOMAIN aclLog :
          /\ LatestAt(aclLog[i].what) > 0
          /\ \A x \in ToSet(seen) : LatestAt(x) > LatestAt(aclLog[i].what) => \E j \in 1 .. i - 1 : aclLog[j].what = x
          /\ aclLog[i].count \in 1 .. Cardinality({j \in DOMAIN seen : seen[j] = aclLog[i].what})
          /\ \A j \in DOMAIN aclLog : aclLog[j].id = aclLog[i].id => i = j

AclKept == DecisionsFresh /\ RulesExact /\ ListReplays /\ FileLoads /\ LogExact
=============================================================================
