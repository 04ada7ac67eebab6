------------------------------- MODULE WsSite -------------------------------
(***************************************************************************)
(* A site with several filesystems: which of them ws_allocate, ws_release, *)
(* ws_find, ws_list and ws_register look at, in which order, under which   *)
(* identity, and what they conclude.  What a creation or a release does in *)
(* one filesystem is the subject of WsAllocate and WsRelease; here it is   *)
(* the steps that other sessions of the site can see.                      *)
(***************************************************************************)
EXTENDS WsConfig, WsCaps, WsGlob

CONSTANTS
    Sessions,      \* shells in which tools run, one at a time each
    UserOf,        \* [Sessions -> Users]
    ToolsOf,       \* [Sessions -> set of tools run there]
    Users,         \* user names, as strings of WsGlob
    MemberOf,      \* [Users -> set of groups]
    WsNames,       \* names of workspaces, as strings of WsGlob
    Patterns,      \* patterns given to ws_find and ws_list
    FsArgs,        \* filesystems given with -F, NoFs for none
    GroupArgs,     \* groups given with -G, NoGroup for none
    Sites,         \* [files |-> configuration files, mode |-> installation,
                   \*  flaky |-> filesystems whose database may become unreadable]
    Seeded,        \* workspaces there from the start: <<fs, user, name, group>>
    MaxTools,      \* bound on the tools started
    MaxRunning,    \* bound on the tools running at the same time
    MaxOutages     \* bound on the databases that become unreadable

VARIABLES
    site,      \* the element of Sites that is installed
    conf,      \* the configuration its files are read as, by every tool
    order,     \* [Users -> [Intents -> their valid filesystems]], which follow from conf
    db,        \* [Fs -> [Ids -> entry or NoWs]]: the databases
    dirs,      \* [Fs -> [Ids -> owner of the directory or Nobody]]
    up,        \* filesystems whose database shows its magic
    links,     \* [Users -> set of <<fs, id>>]: what ws_register made
    sess,      \* [Sessions -> state of the tool running there]
    started,   \* tools started so far
    outages,   \* outages so far
    steady     \* history: sessions during whose tool nobody else changed db or up, nor,
               \* in ws_register, the links of its user

siteVars == <<site, conf, order, db, dirs, up, links, sess, started, outages, steady>>

WsId(u, n) == u \o <<"-">> \o n
WsIds == {WsId(u, n) : u \in Users, n \in WsNames}

Groups == UNION {MemberOf[u] : u \in Users}
NoGroup == ""
NoWs == [group |-> NoGroup, owner |-> <<>>]
Nobody == <<>>

\* A user name holds no dash (an id has one owner) and nothing the matcher would read as a
\* wildcard, and is no system user; groups have names; the workspaces there from the start
\* are those of users, with a group of theirs.
ASSUME NamesAssumption ==
    /\ Users \subseteq Seq(Alphabet) /\ WsNames \subseteq Seq(Alphabet)
    /\ Patterns \subseteq Seq(Alphabet)
    /\ \A u \in Users : \A ch \in {"-", "*", "?", "[", "\\"} : ~Contains(u, ch)
    /\ Users \cap {Db, Root, Nobody} = {}
    /\ NoGroup \notin Groups
    /\ Seeded \subseteq Fs \X Users \X WsNames \X (Groups \cup {NoGroup})
    /\ \A w \in Seeded : w[4] \in MemberOf[w[2]] \cup {NoGroup}

ASSUME SiteAssumption ==
    /\ IsFiniteSet(Sessions) /\ IsFiniteSet(Users) /\ IsFiniteSet(WsNames)
    /\ UserOf \in [Sessions -> Users]
    /\ DOMAIN MemberOf = Users
    /\ \A x \in Sites : x.mode \in Modes
    /\ MaxTools \in Nat /\ MaxOutages \in Nat

\* The files are a sequence, name filesystems, give lists for the ACLs and for the limit a
\* number.
ASSUME FilesAssumption ==
    \A x \in Sites :
        /\ Len(x.files) \in Nat
        /\ \A k \in 1 .. Len(x.files) :
            LET file == x.files[k]
            IN  /\ DOMAIN file.fs \subseteq Fs
                /\ "maxuserworkspaces" \in DOMAIN file.global =>
                        file.global.maxuserworkspaces \in Int
                /\ \A f \in DOMAIN file.fs :
                    \A a \in {"user_acl", "group_acl"} \cap DOMAIN file.fs[f] :
                        file.fs[f][a] \in Seq(ToSet(file.fs[f][a]))

Outcomes == {"", "invalid", "denied", "limit", "ambiguous", "closed", "down", "absent",
             "reused", "created", "released", "found", "listed", "registered", "died"}

Idle == [pc |-> "idle", tool |-> "", word |-> <<>>, on |-> NoFs, byGroup |-> FALSE,
         grp |-> NoGroup, todo |-> <<>>, hits |-> {}, to |-> NoFs,
         proc |-> Started("user", <<>>, {}), out |-> ""]

\* The type invariant.
SiteTypeOK ==
    /\ site \in Sites
    /\ db \in [Fs -> [WsIds -> [group : Groups \cup {NoGroup},
                                owner : Users \cup {Nobody, Db, Root}]]]
    /\ dirs \in [Fs -> [WsIds -> Users \cup {Nobody, Db, Root}]]
    /\ up \subseteq Fs /\ links \in [Users -> SUBSET (Fs \X WsIds)]
    /\ \A s \in Sessions :
        /\ sess[s].hits \subseteq Fs \X WsIds /\ sess[s].out \in Outcomes
        /\ sess[s].to \in Fs \cup {NoFs} /\ sess[s].todo \in Seq(Fs)
    /\ started \in 0 .. MaxTools /\ outages \in 0 .. MaxOutages
    /\ steady \subseteq Sessions

\* The workspace seeded with id i in f, if any.
Seed(f, i) == {w \in Seeded : w[1] = f /\ WsId(w[2], w[3]) = i}

SiteInit ==
    /\ site \in Sites
    /\ conf = LoadConfig(site.files)
    /\ order = [u \in Users |-> [intent \in Intents |->
                    ValidFilesystems(conf, u, MemberOf[u], intent)]]
    /\ db = [f \in Fs |-> [i \in WsIds |->
                IF Seed(f, i) = {} THEN NoWs
                ELSE [group |-> (CHOOSE w \in Seed(f, i) : TRUE)[4],
                      owner |-> IF site.mode = "user" THEN (CHOOSE w \in Seed(f, i) : TRUE)[2]
                                ELSE Db]]]
    /\ dirs = [f \in Fs |-> [i \in WsIds |->
                IF Seed(f, i) = {} THEN Nobody ELSE (CHOOSE w \in Seed(f, i) : TRUE)[2]]]
    /\ up = Fs
    /\ links = [u \in Users |-> {}]
    /\ sess = [s \in Sessions |-> Idle]
    /\ started = 0 /\ outages = 0 /\ steady = {}

-----------------------------------------------------------------------------
(* Starting and ending a tool.                                             *)

Me(s) == UserOf[s]
Store == <<db, dirs, up, links>>

\* The tool goes on as r, having changed nothing but its own state.
Goes(s, r) ==
    /\ sess' = [sess EXCEPT ![s] = r]
    /\ UNCHANGED <<site, conf, order, Store, started, outages, steady>>

Ends(s, out) == Goes(s, [sess[s] EXCEPT !.pc = "done", !.out = out])

\* The databases or what is up changed under the feet of the other sessions.
Disturbs(S) == steady' = steady \cap S

\* The links changed under the feet of the user's other ws_register.
Interferes(s) ==
    steady' = steady \ {t \in Sessions \ {s} : Me(t) = Me(s) /\ sess[t].tool = "register"}

\* main() of the privileged tools: drop what is not needed, read the configuration.
Privileged(s, caps) ==
    SetDbIdentity(DropCaps(Started(site.mode, Me(s), MemberOf[Me(s)]), caps))

\* main() of the others: they are not installed with privileges.
Plain(s) == Started("user", Me(s), MemberOf[Me(s)])

\* A tool starts in session s as r, if the configuration is valid.
Starts(s, tool, r) ==
    /\ sess[s].pc = "idle" /\ tool \in ToolsOf[s]
    /\ started < MaxTools
    /\ Cardinality({t \in Sessions : sess[t].pc # "idle"}) < MaxRunning
    /\ sess' = [sess EXCEPT ![s] =
                IF Valid(conf) THEN [r EXCEPT !.tool = tool]
                ELSE [r EXCEPT !.tool = tool, !.pc = "done", !.out = "invalid"]]
    /\ started' = started + 1
    /\ steady' = steady \cup {s}
    /\ UNCHANGED <<site, conf, order, Store, outages>>

\* As Search, but the option is used even when it is not given.
SearchGiven(valid, on) == <<on>>

\* The filesystems to search: the one given, or all the user may use, in order.
Search(valid, on) == IF on = NoFs THEN valid ELSE <<on>>

\* allocate() up to the limit: the caller needs a filesystem to create in; the one
\* given, and the group given, must be among those of the caller.
AllocStart(s, n, on, g) ==
    LET p == Privileged(s, {"DAC_OVERRIDE", "CHOWN", "FOWNER"})
        valid == order[Me(s)]["create"]
        refused == \/ valid = <<>>
                   \/ on # NoFs /\ ~Contains(valid, on)
                   \/ g # NoGroup /\ g \notin p.groups
    IN  Starts(s, "allocate",
               [Idle EXCEPT !.pc = IF refused THEN "done" ELSE "count",
                            !.out = IF refused THEN "denied" ELSE "",
                            !.word = n, !.on = on, !.grp = g, !.proc = p,
                            !.todo = IF refused THEN <<>> ELSE Search(valid, on)])

\* release() up to the search.
ReleaseStart(s, n, on) ==
    LET p == Privileged(s, {"DAC_OVERRIDE", "CHOWN", "FOWNER"})
        valid == order[Me(s)]["release"]
        refused == valid = <<>> \/ (on # NoFs /\ ~Contains(valid, on))
    IN  Starts(s, "release",
               [Idle EXCEPT !.pc = IF refused THEN "done" ELSE "search",
                            !.out = IF refused THEN "denied" ELSE "",
                            !.word = n, !.on = on, !.proc = p,
                            !.todo = IF refused THEN <<>> ELSE Search(valid, on)])

\* ws_find stops when the filesystem given is not valid, ws_list lists nothing.
FindStart(s, pat, on, byGroup) ==
    LET valid == order[Me(s)]["use"]
        refused == on # NoFs /\ ~Contains(valid, on)
    IN  Starts(s, "find",
               [Idle EXCEPT !.pc = IF refused THEN "done" ELSE "look",
                            !.out = IF refused THEN "denied" ELSE "",
                            !.word = pat, !.on = on, !.byGroup = byGroup,
                            !.proc = Plain(s),
                            !.todo = IF refused THEN <<>> ELSE Search(valid, on)])

ListStart(s, pat, on, byGroup) ==
    LET valid == order[Me(s)]["list"]
    IN  Starts(s, "list",
               [Idle EXCEPT !.pc = "look", !.word = pat, !.on = on, !.byGroup = byGroup,
                            !.proc = Plain(s),
                            !.todo = IF on # NoFs /\ ~Contains(valid, on) THEN <<>>
                                     ELSE Search(valid, on)])

RegisterStart(s) ==
    Starts(s, "register",
           [Idle EXCEPT !.pc = "link", !.proc = Plain(s),
                        !.todo = order[Me(s)]["list"]])

\* The tool has ended; the shell may start another.
Finish(s) == sess[s].pc = "done" /\ Goes(s, Idle)

-----------------------------------------------------------------------------
(* Looking into the databases.                                             *)

\* The database is opened if the file .ws_db_magic is there and names the filesystem.
OpenDB(f) == f \in up

Exists(f, i) == db[f][i] # NoWs

\* With -g an entry is not even read when its owner, the part before the only dash,
\* is known to share no group with the caller.
Unrelated(i, u) ==
    \E v \in Users :
        /\ \E n \in WsNames : i = WsId(v, n) /\ ~Contains(n, "-")
        /\ MemberOf[v] # {} /\ MemberOf[v] \cap MemberOf[u] = {}

\* As MatchPattern, but -g also shows the workspaces without a group.
MatchPatternAnyGroup(f, pat, owner, p, byGroup) ==
    {i \in WsIds :
        /\ Exists(f, i)
        /\ GlobMatch(WsId(IF byGroup THEN <<"*">> ELSE owner, pat), i)
        /\ byGroup => db[f][i].group \in p.groups \cup {NoGroup}}

MatchPattern(f, pat, owner, p, byGroup) ==
    {i \in WsIds :
        /\ Exists(f, i)
        /\ GlobMatch(WsId(IF byGroup THEN <<"*">> ELSE owner, pat), i)
        /\ byGroup => ~Unrelated(i, p.caller) /\ db[f][i].group \in p.groups}

\* Admins look for the workspaces of everybody.
UserPattern(s) == IF IsAdmin(conf, Me(s)) THEN <<"*">> ELSE Me(s)

\* The workspaces of the caller in the databases that can be opened.
CountWorkspaces(s) ==
    LET p == sess[s].proc
        seen == ToSet(order[Me(s)]["list"]) \cap up
    IN  Cardinality({x \in seen \X WsIds :
                        x[2] \in MatchPattern(x[1], <<"*">>, Me(s), p, FALSE)})

\* As TooMany, but off by one more.
TooManyLate(count) ==
    conf.global.maxuserworkspaces > 0 /\ count > conf.global.maxuserworkspaces + 1

TooMany(count) == conf.global.maxuserworkspaces > 0 /\ count > conf.global.maxuserworkspaces

\* The limit is tested before anything is searched.  The databases are read one after
\* the other; what another session adds in between is an addition after the test.
AllocCount(s) ==
    /\ sess[s].pc = "count"
    /\ IF TooMany(CountWorkspaces(s)) THEN Ends(s, "limit")
       ELSE Goes(s, [sess[s] EXCEPT !.pc = "search"])

\* As SearchOne, but the search ends with the first filesystem that has no such entry.
SearchOneBreaks(s) ==
    LET f == Head(sess[s].todo)
        i == WsId(Me(s), sess[s].word)
        hit == OpenDB(f) /\ Exists(f, i)
    IN  /\ sess[s].pc = "search" /\ sess[s].todo # <<>>
        /\ Goes(s, [sess[s] EXCEPT !.todo = IF hit THEN Tail(@) ELSE <<>>,
                                   !.hits = IF hit THEN @ \cup {<<f, i>>} ELSE @])

\* One filesystem of the search of ws_allocate and ws_release: a database that cannot
\* be opened is passed over.
SearchOne(s) ==
    LET f == Head(sess[s].todo)
        i == WsId(Me(s), sess[s].word)
    IN  /\ sess[s].pc = "search" /\ sess[s].todo # <<>>
        /\ Goes(s, [sess[s] EXCEPT
                    !.todo = Tail(@),
                    !.hits = IF OpenDB(f) /\ Exists(f, i) THEN @ \cup {<<f, i>>} ELSE @])

\* Nothing found: create in the filesystem given or the first of the list, if it is
\* open for allocations and its database can be opened.
AllocDecide(s) ==
    LET valid == order[Me(s)]["create"]
        new == Head(Search(valid, sess[s].on))
    IN  /\ sess[s].pc = "search" /\ sess[s].todo = <<>> /\ sess[s].tool = "allocate"
        /\ IF Cardinality(sess[s].hits) > 1 THEN Ends(s, "ambiguous")
           ELSE IF sess[s].hits # {} THEN Ends(s, "reused")
           ELSE IF ~conf.fs[new].allocatable THEN Ends(s, "closed")
           ELSE IF ~OpenDB(new) THEN Ends(s, "down")
           ELSE Goes(s, [sess[s] EXCEPT !.pc = "mkdir", !.to = new])

\* createWorkspace(): the directory is made, opened, given to the user and its mode set.
\* Every privileged call stands between a raise and a lower; the process is left lowered.
AllocMkdir(s) ==
    LET f == sess[s].to
        i == WsId(Me(s), sess[s].word)
        made == RaiseCap(sess[s].proc, {"DAC_OVERRIDE"})
        owner == IF dirs[f][i] = Nobody THEN made.euid ELSE dirs[f][i]
        opened == RaiseCap(LowerCap(made, {"DAC_OVERRIDE"}), {"DAC_OVERRIDE"})
        given == RaiseCap(LowerCap(opened, {"DAC_OVERRIDE"}), {"CHOWN"})
        set == RaiseCap(LowerCap(given, {"CHOWN"}), {"FOWNER"})
        ok == May(made, "DAC_OVERRIDE") /\ May(given, "CHOWN") /\ May(set, "FOWNER")
    IN  /\ sess[s].pc = "mkdir"
        /\ dirs' = [dirs EXCEPT ![f][i] =
                    IF ~May(made, "DAC_OVERRIDE") THEN @
                    ELSE IF May(given, "CHOWN") THEN Me(s) ELSE owner]
        /\ sess' = [sess EXCEPT ![s] = [sess[s] EXCEPT
                    !.pc = IF ok THEN "write" ELSE "done",
                    !.out = IF ok THEN @ ELSE "died", !.proc = LowerCap(set, {"FOWNER"})]]
        /\ UNCHANGED <<site, conf, order, db, up, links, started, outages, steady>>

\* createEntry(): written as the database user; with capabilities the file is the
\* caller's until it is given to the database user.  An entry of that name is replaced.
AllocEntry(s) ==
    LET i == WsId(Me(s), sess[s].word)
        w == BecomeDb(RaiseCap(sess[s].proc, {"DAC_OVERRIDE"}))
        m == LowerCap(RaiseCap(w, {"FOWNER"}), {"FOWNER", "DAC_OVERRIDE"})
        o == IF m.mode = "caps" THEN RaiseCap(m, {"CHOWN"}) ELSE m
        owner == IF Exists(sess[s].to, i) THEN db[sess[s].to][i].owner ELSE w.euid
    IN  /\ sess[s].pc = "write"
        /\ db' = [db EXCEPT ![sess[s].to][i] =
                    IF ~w.alive THEN @
                    ELSE [group |-> sess[s].grp,
                          owner |-> IF m.mode = "caps" /\ o.alive THEN Db ELSE owner]]
        /\ sess' = [sess EXCEPT ![s] = [sess[s] EXCEPT
                    !.pc = "done", !.out = IF o.alive THEN "created" ELSE "died",
                    !.proc = IF m.mode = "caps" THEN LowerCap(o, {"CHOWN"}) ELSE o]]
        /\ Disturbs({s})
        /\ UNCHANGED <<site, conf, order, dirs, up, links, started, outages>>

\* As ReleaseDecide, but of several workspaces of that name one is taken.
ReleaseDecideAny(s) ==
    /\ sess[s].pc = "search" /\ sess[s].todo = <<>> /\ sess[s].tool = "release"
    /\ IF sess[s].hits = {} THEN Ends(s, "absent")
       ELSE Goes(s, [sess[s] EXCEPT !.pc = "take"])

\* A name that is found in several filesystems is not released.
ReleaseDecide(s) ==
    /\ sess[s].pc = "search" /\ sess[s].todo = <<>> /\ sess[s].tool = "release"
    /\ IF Cardinality(sess[s].hits) > 1 THEN Ends(s, "ambiguous")
       ELSE IF sess[s].hits = {} THEN Ends(s, "absent")
       ELSE Goes(s, [sess[s] EXCEPT !.pc = "take"])

\* The entry, wherever it is by now, and the directory are moved away.
ReleaseTake(s) ==
    LET x == CHOOSE x \in sess[s].hits : TRUE
    IN  /\ sess[s].pc = "take"
        /\ db' = [db EXCEPT ![x[1]][x[2]] = NoWs]
        /\ dirs' = [dirs EXCEPT ![x[1]][x[2]] = Nobody]
        /\ sess' = [sess EXCEPT ![s] = [sess[s] EXCEPT
                    !.pc = "done", !.out = "released",
                    !.proc = LowerCap(BecomeDb(RaiseCap(@, {"FOWNER", "DAC_OVERRIDE"})),
                                      {"FOWNER", "DAC_OVERRIDE"})]]
        /\ Disturbs({s})
        /\ UNCHANGED <<site, conf, order, up, links, started, outages>>

\* ws_find prints the first workspace it meets, in no order within a filesystem.
FindNext(s) ==
    LET f == Head(sess[s].todo)
        found == IF OpenDB(f) THEN MatchPattern(f, sess[s].word, UserPattern(s), sess[s].proc,
                                              sess[s].byGroup) ELSE {}
    IN  /\ sess[s].pc = "look" /\ sess[s].tool = "find"
        /\ IF sess[s].todo = <<>> THEN Ends(s, "absent")
           ELSE IF found = {} THEN Goes(s, [sess[s] EXCEPT !.todo = Tail(@)])
           ELSE \E i \in found : Goes(s, [sess[s] EXCEPT !.pc = "done", !.out = "found",
                                                         !.hits = {<<f, i>>}])

\* As ListNext, but a database that cannot be opened ends the listing.
ListNextStops(s) ==
    LET f == Head(sess[s].todo)
    IN  /\ sess[s].pc = "look" /\ sess[s].tool = "list"
        /\ IF sess[s].todo = <<>> THEN Ends(s, "listed")
           ELSE Goes(s, [sess[s] EXCEPT
                    !.todo = IF OpenDB(f) THEN Tail(@) ELSE <<>>,
                    !.hits = @ \cup (IF OpenDB(f)
                                     THEN {f} \X MatchPattern(f, sess[s].word, UserPattern(s),
                                                    sess[s].proc, sess[s].byGroup)
                                     ELSE {})])

\* ws_list: the entries of one more filesystem, in no order.
ListNext(s) ==
    LET f == Head(sess[s].todo)
    IN  /\ sess[s].pc = "look" /\ sess[s].tool = "list"
        /\ IF sess[s].todo = <<>> THEN Ends(s, "listed")
           ELSE Goes(s, [sess[s] EXCEPT
                    !.todo = Tail(@),
                    !.hits = @ \cup (IF OpenDB(f)
                                     THEN {f} \X MatchPattern(f, sess[s].word, UserPattern(s),
                                                    sess[s].proc, sess[s].byGroup)
                                     ELSE {})])

\* ws_register: a link for each workspace of one more filesystem ...
RegisterLink(s) ==
    LET f == Head(sess[s].todo)
        mine == {f} \X MatchPattern(f, <<"*">>, Me(s), sess[s].proc, FALSE)
    IN  /\ sess[s].pc = "link"
        /\ \/ sess[s].todo = <<>> /\ Ends(s, "registered")
           \/ /\ sess[s].todo # <<>> /\ ~OpenDB(f)
              /\ Goes(s, [sess[s] EXCEPT !.todo = Tail(@)])
           \/ /\ sess[s].todo # <<>> /\ OpenDB(f)
              /\ links' = [links EXCEPT ![Me(s)] = @ \cup mine]
              /\ sess' = [sess EXCEPT ![s] = [sess[s] EXCEPT !.pc = "prune", !.hits = mine]]
              /\ Interferes(s)
              /\ UNCHANGED <<site, conf, order, db, dirs, up, started, outages>>

\* As RegisterPrune, but the links of the other filesystems go too.
RegisterPruneAll(s) ==
    /\ sess[s].pc = "prune"
    /\ links' = [links EXCEPT ![Me(s)] = @ \cap sess[s].hits]
    /\ sess' = [sess EXCEPT ![s] = [sess[s] EXCEPT !.pc = "link", !.hits = {}, !.todo = Tail(@)]]
    /\ Interferes(s)
    /\ UNCHANGED <<site, conf, order, db, dirs, up, started, outages>>

\* ... and the links of that filesystem that are not among them are removed.
RegisterPrune(s) ==
    /\ sess[s].pc = "prune"
    /\ links' = [links EXCEPT ![Me(s)] =
                    {l \in @ : l[1] = Head(sess[s].todo) => l \in sess[s].hits}]
    /\ sess' = [sess EXCEPT ![s] = [sess[s] EXCEPT !.pc = "link", !.hits = {}, !.todo = Tail(@)]]
    /\ Interferes(s)
    /\ UNCHANGED <<site, conf, order, db, dirs, up, started, outages>>

\* A database becomes unreadable (not mounted), and readable again.
Outage(f) ==
    /\ f \in up \cap site.flaky /\ outages < MaxOutages
    /\ up' = up \ {f} /\ outages' = outages + 1
    /\ Disturbs({})
    /\ UNCHANGED <<site, conf, order, db, dirs, links, sess, started>>

Repair(f) ==
    /\ f \in Fs \ up
    /\ up' = up \cup {f}
    /\ Disturbs({})
    /\ UNCHANGED <<site, conf, order, db, dirs, links, sess, started, outages>>

-----------------------------------------------------------------------------

Starting(s) ==
    \/ \E on \in FsArgs :
        \/ \E n \in WsNames, g \in GroupArgs : AllocStart(s, n, on, g)
        \/ \E n \in WsNames : ReleaseStart(s, n, on)
        \/ \E pat \in Patterns, byGroup \in BOOLEAN : FindStart(s, pat, on, byGroup)
        \/ \E pat \in Patterns, byGroup \in BOOLEAN : ListStart(s, pat, on, byGroup)
    \/ RegisterStart(s)

Running(s) ==
    \/ AllocCount(s) \/ SearchOne(s) \/ AllocDecide(s) \/ AllocMkdir(s) \/ AllocEntry(s)
    \/ ReleaseDecide(s) \/ ReleaseTake(s)
    \/ FindNext(s) \/ ListNext(s) \/ RegisterLink(s) \/ RegisterPrune(s)
    \/ Finish(s)

SiteNext ==
    \/ \E s \in Sessions : Starting(s) \/ Running(s)
    \/ \E f \in Fs : Outage(f) \/ Repair(f)

SiteSpec == SiteInit /\ [][SiteNext]_siteVars

-----------------------------------------------------------------------------
(* Properties of the configuration, stated of the one that was read.       *)

\* The rule of the admin guide: whoever an ACL concerns, the user's own entries or else
\* those of his groups, is let in when every one of them allows it; admins always; an ACL
\* that concerns nobody still shuts the filesystem.  The order of entries is irrelevant.
AccessRule ==
    started = 0 =>
    \A u \in Users, f \in DOMAIN conf.fs, intent \in Intents :
        LET Concerning(acl, who) ==
                {e \in ToSet(acl) : /\ e.ok /\ e.id \in who
                                    /\ e.perms = {} \/ e.perms \cap Intents # {}}
            Allows(e) == CASE e.sign = "-" -> e.perms # {} /\ intent \notin e.perms
                           [] OTHER -> e.perms = {} \/ intent \in e.perms
            own == Concerning(conf.fs[f].user_acl, {u})
            of == Concerning(conf.fs[f].group_acl, MemberOf[u])
            decisive == IF own # {} THEN own ELSE of
        IN  HasAccess(conf, u, MemberOf[u], f, intent)
            <=> \/ Contains(conf.global.admins, u)
                \/ conf.fs[f].user_acl \o conf.fs[f].group_acl = <<>>
                \/ decisive # {} /\ \A e \in decisive : Allows(e)

\* validFilesystems names every filesystem the user may use exactly once, and where the
\* defaults are unambiguous it is sorted as its specification says: user default, group
\* default, global default, others.
Preferred ==
    started = 0 =>
    \A u \in Users, intent \in Intents :
        LET v == order[u][intent]
            User(f) == Contains(conf.fs[f].userdefault, u)
            Group(f) == \E g \in MemberOf[u] : Contains(conf.fs[f].groupdefault, g)
            Rank(f) == IF User(f) THEN 1 ELSE IF Group(f) THEN 2
                       ELSE IF f = conf.global.default THEN 3 ELSE 4
            Unique(P(_)) == Cardinality({f \in DOMAIN conf.fs : P(f)}) <= 1
        IN  /\ IsInjective(v)
            /\ ToSet(v) = {f \in DOMAIN conf.fs : HasAccess(conf, u, MemberOf[u], f, intent)}
            /\ Unique(User) /\ Unique(Group) =>
                \A j, k \in 1 .. Len(v) : j < k => Rank(v[j]) <= Rank(v[k])

\* The extensions of a filesystem that sets none are those the files up to and including
\* its own say, and those of the program if they say nothing: a later file comes too late.
ConfigMerged ==
    started = 0 =>
    \A f \in DOMAIN conf.fs :
        LET defs == {k \in 1 .. Len(site.files) : f \in DOMAIN site.files[k].fs}
            last == CHOOSE k \in defs : \A j \in defs : j <= k
            says == {k \in 1 .. last : "maxextensions" \in DOMAIN site.files[k].global}
            given == site.files[last].fs[f]
        IN  conf.fs[f].maxextensions =
                IF "maxextensions" \in DOMAIN given THEN given.maxextensions
                ELSE IF says = {} THEN 10
                ELSE site.files[CHOOSE k \in says : \A j \in says : j <= k].global.maxextensions

\* The loop of glob_match, which only ever goes back to the last *, decides what its
\* pattern language means, for every pattern and string within the bounds.
GlobExact ==
    started = 0 =>
    \A pat \in SeqOf({"a", "b", "*", "?", "[", "]", "!", "-", "\\"}, 3),
       str \in SeqOf({"a", "b", "]"}, 3) : GlobMatch(pat, str) <=> Matches(pat, str)

-----------------------------------------------------------------------------
(* Properties of the tools.                                                *)

\* The workspaces of u in the filesystems F.
Owns(u, F) == {x \in F \X WsIds : Exists(x[1], x[2]) /\ \E n \in WsNames : x[2] = WsId(u, n)}

\* The workspaces of u in F that were there from the start.
OwnedFirst(u, F) ==
    {x \in F \X WsIds : Seed(x[1], x[2]) # {} /\ \E n \in WsNames : x[2] = WsId(u, n)}

\* maxuserworkspaces, "the maximum number of workspaces a user can create in total across
\* all filesystem locations": nobody has more, unless he had them before there was a limit.
\* allocate() does not keep this: it tests count > limit before it creates.
UserLimit ==
    \A u \in Users :
        conf.global.maxuserworkspaces > 0 =>
            \/ Cardinality(Owns(u, Fs)) <= conf.global.maxuserworkspaces
            \/ Cardinality(Owns(u, Fs)) <= Cardinality(OwnedFirst(u, Fs))

\* By how much allocate() may exceed the limit: in the filesystems a user may list, none of
\* them ever unreadable, by one workspace for each ws_allocate that can run at the same
\* time, since the test lets the one through that exceeds the limit and does not see
\* those that other sessions are about to create.
OverrunBounded ==
    \A u \in Users :
        LET seen == ToSet(order[u]["list"])
            shells == {s \in Sessions : UserOf[s] = u /\ "allocate" \in ToolsOf[s]}
        IN  outages = 0 /\ conf.global.maxuserworkspaces > 0 =>
            \/ Cardinality(Owns(u, seen)) <= conf.global.maxuserworkspaces + Cardinality(shells)
            \/ Cardinality(Owns(u, seen)) <= Cardinality(OwnedFirst(u, seen))

\* A workspace that ws_allocate creates without -F shadows no other of that name in a
\* filesystem it could look into, unless another session interfered.
NoShadow ==
    \A s \in steady :
        sess[s].out = "created" /\ sess[s].on = NoFs =>
            \A f \in ToSet(order[Me(s)]["create"]) \cap up :
                f # sess[s].to => ~Exists(f, WsId(Me(s), sess[s].word))

\* The filesystems ws_release looks into, and those of them that hold the workspace.
Releasable(s) == ToSet(Search(order[Me(s)]["release"], sess[s].on))

Holders(s) == {f \in Releasable(s) \cap up : Exists(f, WsId(Me(s), sess[s].word))}

\* A name may come to stand for several workspaces, when a database cannot be opened while
\* ws_allocate searches, or when two sessions create it.  ws_release then takes none of
\* them: after it has released one none of that name is left where it looked, and it calls
\* a name ambiguous or absent only if it is, unless another session interfered.
ReleaseExact ==
    \A s \in steady :
        sess[s].tool = "release" =>
            /\ sess[s].out \in {"released", "absent"} => Holders(s) = {}
            /\ sess[s].out = "ambiguous" => Cardinality(Holders(s)) > 1

\* What a search by pattern, with or without -g, is meant to show of a filesystem.
Shown(s, f) ==
    {i \in WsIds :
        /\ f \in up /\ Exists(f, i)
        /\ Matches(WsId(IF sess[s].byGroup \/ IsAdmin(conf, Me(s)) THEN <<"*">> ELSE Me(s),
                        sess[s].word), i)
        /\ sess[s].byGroup => db[f][i].group \in MemberOf[Me(s)]}

\* The filesystems ws_find goes through, those ws_list lists, and what they show.
Findable(s) == Search(order[Me(s)]["use"], sess[s].on)

Listable(s) ==
    LET may == ToSet(order[Me(s)]["list"])
    IN  IF sess[s].on = NoFs THEN may ELSE may \cap {sess[s].on}

ShownIn(s, F) == {x \in F \X WsIds : x[2] \in Shown(s, x[1])}

\* ws_find prints a workspace of the most preferred filesystem that shows one, and finds
\* none only if none shows any, unless another session interfered.
FindExact ==
    \A s \in steady :
        sess[s].tool = "find" /\ sess[s].out \in {"found", "absent"} =>
            LET among == Findable(s)
                shows == {k \in 1 .. Len(among) : Shown(s, among[k]) # {}}
            IN  IF shows = {} THEN sess[s].hits = {}
                ELSE \E k \in shows : \E i \in Shown(s, among[k]) :
                        /\ \A j \in shows : k <= j
                        /\ sess[s].hits = {<<among[k], i>>}

\* ws_list shows exactly the workspaces of the filesystems it may list and can open.
ListExact ==
    \A s \in steady :
        sess[s].tool = "list" /\ sess[s].out = "listed" =>
            sess[s].hits = ShownIn(s, Listable(s))

\* The links of u into f are exactly his workspaces there.
LinkedRight(u, f) == {l \in links[u] : l[1] = f} = Owns(u, {f})

\* After ws_register the links into the filesystems it could read are exactly the user's
\* workspaces there, whatever was linked before.
LinksExact ==
    \A s \in steady :
        sess[s].out = "registered" =>
            \A f \in up \cap ToSet(order[Me(s)]["list"]) : LinkedRight(Me(s), f)

\* Between its steps a privileged tool is wholly the caller or wholly the database user,
\* with no capability left raised and never root.
Paired ==
    \A s \in Sessions :
        sess[s].tool \in {"allocate", "release"} =>
            LET p == sess[s].proc
            IN  /\ p.eff = {}
                /\ <<p.euid, p.egid, p.groups>> \in
                        {<<p.caller, p.caller, p.callerGroups>>, <<Db, Db, {}>>}

\* However the tools are installed, a database entry belongs to the database user (in user
\* mode to the caller) and the directory of a listed workspace to its owner.
Owned ==
    \A f \in Fs, u \in Users, n \in WsNames :
        Exists(f, WsId(u, n)) =>
            /\ db[f][WsId(u, n)].owner = IF site.mode = "user" THEN u ELSE Db
            /\ dirs[f][WsId(u, n)] \in {u, Nobody}
=============================================================================
