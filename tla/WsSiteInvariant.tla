--------------------------- MODULE WsSiteInvariant ---------------------------
(***************************************************************************)
(* The inductive invariant of WsSite: what is read from the configuration  *)
(* stays, every entry and directory has the owner its id names, and what   *)
(* a tool has seen so far is what is there, for as long as nobody else     *)
(* changes it.                                                             *)
(***************************************************************************)
EXTENDS WsSite

\* What is read once and never changes.
Settled ==
    /\ site \in Sites
    /\ conf = LoadConfig(site.files)
    /\ order = [u \in Users |-> [intent \in Intents |->
                    ValidFilesystems(conf, u, MemberOf[u], intent)]]

\* The id the tool of s works on.
Target(s) == WsId(Me(s), sess[s].word)

\* The process of a privileged tool of s between two steps: the caller until it is first
\* lowered, then, installed setuid, the database user; with nothing raised.
Lowered(s, p) ==
    /\ DOMAIN p = DOMAIN Idle.proc
    /\ p.mode = site.mode /\ p.caller = Me(s) /\ p.callerGroups = MemberOf[Me(s)]
    /\ p.eff = {} /\ p.dbset = TRUE /\ p.alive = TRUE
    /\ p.mode = "caps" => p.perm = {"DAC_OVERRIDE", "CHOWN", "FOWNER"}
    /\ \/ p.euid = Me(s) /\ p.egid = Me(s) /\ p.groups = MemberOf[Me(s)]
       \/ site.mode = "setuid" /\ p.euid = Db /\ p.egid = Db /\ p.groups = {}

\* The process of the tool of s that is in state r.
Process(s, r) ==
    CASE r.tool \in {"allocate", "release"} -> Lowered(s, r.proc)
      [] r.tool \in {"find", "list", "register"} -> r.proc = Plain(s)
      [] OTHER -> r = Idle

\* Which tool is at which point of its program, and what it then knows.
Shape(s, r) ==
    /\ DOMAIN r = DOMAIN Idle
    /\ r.todo \in Seq(Fs) /\ r.hits \subseteq Fs \X WsIds
    /\ r.to \in Fs \cup {NoFs} /\ r.out \in Outcomes
    /\ \/ r = Idle
       \/ r.pc = "done"
       \/ r.tool = "allocate" /\ r.pc \in {"count", "search", "mkdir", "write"}
       \/ r.tool = "release" /\ r.pc \in {"search", "take"}
       \/ r.tool \in {"find", "list"} /\ r.pc = "look"
       \/ r.tool = "register" /\ r.pc \in {"link", "prune"}
    /\ r = Idle \/ r.tool \in ToolsOf[s]
    /\ r.out # "" => r.pc = "done"
    /\ r.out = "created" => r.tool = "allocate"
    /\ r.out = "registered" => r.tool = "register"
    /\ r.tool \in {"find", "list"} => r.word \in Patterns
    /\ r.tool \in {"allocate", "release"} =>
        /\ r.word \in WsNames
        /\ r.hits \subseteq Fs \X {WsId(Me(s), r.word)}
    /\ r.pc = "take" => r.hits # {}
    /\ r.pc = "prune" => r.todo # <<>>
    /\ r.pc \in {"count", "search"} /\ r.tool = "allocate" =>
        Search(order[Me(s)]["create"], r.on) \in Seq(Fs) \ {<<>>}
    /\ r.pc \in {"count", "search", "mkdir", "write"} /\ r.tool = "allocate" =>
        r.grp \in MemberOf[Me(s)] \cup {NoGroup}
    /\ r.pc \in {"mkdir", "write"} => r.to \in Fs

\* Entries and directories belong to whom their id says, and their group is his.
OwnedBy(f, u, n) ==
    LET i == WsId(u, n)
    IN  /\ dirs[f][i] \in {u, Nobody}
        /\ Exists(f, i) => /\ db[f][i].owner = IF site.mode = "user" THEN u ELSE Db
                           /\ db[f][i].group \in MemberOf[u] \cup {NoGroup}

Tables ==
    /\ db \in [Fs -> [WsIds -> [group : Groups \cup {NoGroup},
                                owner : Users \cup {Nobody, Db, Root}]]]
    /\ dirs \in [Fs -> [WsIds -> Users \cup {Nobody, Db, Root}]]
    /\ up \subseteq Fs /\ (outages = 0 => up = Fs)
    /\ links \in [Users -> SUBSET (Fs \X WsIds)]
    /\ started \in 0 .. MaxTools /\ outages \in 0 .. MaxOutages
    /\ steady \subseteq Sessions
    /\ DOMAIN sess = Sessions
    /\ \A f \in Fs : \A u \in Users : \A n \in WsNames : OwnedBy(f, u, n)

\* The filesystems a search of ws_allocate would find the workspace in.
Holding(s) == {f \in ToSet(order[Me(s)]["create"]) \cap up : Exists(f, Target(s))}

\* ws_allocate without -F, in state q, when E hold workspace i: they are found or still
\* to be looked for; at the end there is none but the new one.
Searching(q, i, E) ==
    q.tool = "allocate" /\ q.on = NoFs =>
    \A f \in E :
        /\ q.pc \in {"count", "search"} => f \in ToSet(q.todo) \/ <<f, i>> \in q.hits
        /\ q.pc \notin {"mkdir", "write"}
        /\ q.out = "created" => f = q.to

Searched(s) == Searching(sess[s], Target(s), Holding(s))

\* ws_release, in state q, for workspace i, which of the filesystems S are held by E: it has
\* met those in E but for the ones still to come, and takes one only when it is alone.
Releasing(q, i, S, E) ==
    q.tool = "release" =>
        /\ q.pc = "search" => /\ ToSet(q.todo) \subseteq S
                              /\ \A f \in E : f \in ToSet(q.todo) \/ <<f, i>> \in q.hits
                              /\ q.hits \subseteq E \X {i}
        /\ q.pc = "take" => \E f \in E : E = {f} /\ q.hits = {<<f, i>>}
        /\ q.out \in {"released", "absent"} => E = {}
        /\ q.out = "ambiguous" => \E f, g \in E : f # g

Freed(s) == Releasing(sess[s], Target(s), Releasable(s), Holders(s))

\* What each filesystem shows.
Shows(s) == [f \in Fs |-> Shown(s, f)]

\* ws_find, in state q, where the filesystems `among' show V, has seen nothing in those
\* before the ones still to come; at the end it has found the first that is shown.
Finding(q, among, V) ==
    q.tool = "find" =>
        /\ q.pc = "look" \/ q.out \in {"absent", "found"} => among \in Seq(Fs)
        /\ q.pc = "look" =>
            /\ q.hits = {}
            /\ \E k \in 0 .. Len(among) :
                /\ Len(q.todo) = Len(among) - k
                /\ \A j \in 1 .. Len(q.todo) : q.todo[j] = among[k + j]
                /\ \A j \in 1 .. k : V[among[j]] = {}
        /\ q.out = "absent" => q.hits = {} /\ \A j \in 1 .. Len(among) : V[among[j]] = {}
        /\ q.out = "found" =>
            \E k \in 1 .. Len(among) : \E i \in V[among[k]] :
                /\ \A j \in 1 .. k - 1 : V[among[j]] = {}
                /\ q.hits = {<<among[k], i>>}

Looked(s) == Finding(sess[s], Findable(s), Shows(s))

In(F, V) == {x \in F \X WsIds : x[2] \in V[x[1]]}

\* ws_list, in state q, has listed what `on' show but for the filesystems still to come.
Listing(q, on, V) ==
    q.tool = "list" =>
        /\ q.pc = "look" => /\ on \subseteq Fs
                            /\ q.hits \cup In(ToSet(q.todo), V) = In(on, V)
        /\ q.out = "listed" => on \subseteq Fs /\ q.hits = In(on, V)

Listed(s) == Listing(sess[s], Listable(s), Shows(s))

\* ws_register, in state q, where L are the links and O[f] the workspaces, is right about
\* the filesystems S but those still to come; in the one it is at no link is missing.
Linking(q, S, L, O) ==
    q.tool = "register" =>
        /\ q.pc \in {"link", "prune"} =>
            \A f \in S \ ToSet(q.todo) : {l \in L : l[1] = f} = O[f]
        /\ q.pc = "prune" => q.hits = O[Head(q.todo)] /\ q.hits \subseteq L
        /\ q.out = "registered" => \A f \in S : {l \in L : l[1] = f} = O[f]

Readable(s) == up \cap ToSet(order[Me(s)]["list"])

Owning(u) == [f \in Fs |-> Owns(u, {f})]

Linked(s) == Linking(sess[s], Readable(s), links[Me(s)], Owning(Me(s)))

\* The runs of ws_allocate of u that have passed the test of the limit.
Past(u) == {s \in Sessions : Me(s) = u /\ sess[s].tool = "allocate"
                             /\ sess[s].pc \in {"search", "mkdir", "write"}}

Shells(u) == {s \in Sessions : Me(s) = u /\ "allocate" \in ToolsOf[s]}

\* Each run past the test may add one workspace.
Limited(u) ==
    LET seen == ToSet(order[u]["list"])
        n == Cardinality(Owns(u, seen)) + Cardinality(Past(u))
    IN  outages = 0 /\ conf.global.maxuserworkspaces > 0 =>
        \/ n <= conf.global.maxuserworkspaces + Cardinality(Shells(u))
        \/ n <= Cardinality(OwnedFirst(u, seen))

SiteBase ==
    /\ Settled /\ Tables
    /\ \A s \in Sessions : Process(s, sess[s]) /\ Shape(s, sess[s])

SiteSafe ==
    /\ SiteBase
    /\ \A s \in steady : Searched(s) /\ Freed(s) /\ Looked(s) /\ Listed(s) /\ Linked(s)
    /\ \A u \in Users : Limited(u)
=============================================================================
