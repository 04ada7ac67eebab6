------------------------------ MODULE MCWsSite ------------------------------
(* A site with two filesystems, two users and three shells, for TLC.        *)
EXTENDS WsSiteInvariant

CONSTANTS w1, w2, rd

\* In ASCII order.
MCChars == <<"!", "*", "-", "?", "[", "\\", "]", "a", "b", "c", "u", "v">>

MCFsOrder == <<"f1", "f2">>
U == <<"u">>
V == <<"v">>
MCUsers == {U, V}
MCUserOf == [s \in Sessions |-> U]
MCToolsOf == [s \in Sessions |-> CASE s = w1 -> {"allocate", "release"}
                                   [] s = w2 -> {"allocate"}
                                   [] OTHER -> {"find", "list", "register"}]
MCMemberOf == [u \in MCUsers |-> IF u = U THEN {"g", "h"} ELSE {"g"}]
MCNames == {<<"a">>, <<"a", "b">>}
MCPatterns == {<<"*", "b">>}
MCSeeded == {<<"f2", U, <<"a">>, "">>, <<"f2", V, <<"a", "b">>, "g">>}

\* Access control lists.
E(sign, id, perms) == [ok |-> TRUE, sign |-> sign, id |-> id, perms |-> perms]
Broken == [ok |-> FALSE, sign |-> "", id |-> "", perms |-> {}]

G == [clustername |-> "c", dbuid |-> 1, dbgid |-> 1, default |-> "f1",
      maxuserworkspaces |-> 1]
Base == [spaces |-> <<"s">>, database |-> "d", deleted |-> "x"]
Merge(r, t) == [k \in DOMAIN r \cup DOMAIN t |-> IF k \in DOMAIN t THEN t[k] ELSE r[k]]
File(glob, r1, r2) == [global |-> glob, fs |-> [f1 |-> Merge(Base, r1), f2 |-> Merge(Base, r2)]]
None == [comment |-> ""]

\* Open filesystems, one of them flaky; f1 closed for creation by a group, f2 preferred by
\* another; an admin and an ACL without a valid entry; files read in an order that
\* matters, the last of which takes the database user away, so that no tool starts.
MCSites ==
    { [files |-> <<File(Merge(G, [default |-> "f2"]), None, None)>>, mode |-> "setuid",
       flaky |-> {"f2"}],
      [files |-> <<File(G, [group_acl |-> <<E("+", "g", {}), E("-", "g", {"create"}),
                                            E("+", "h", {})>>],
                        [groupdefault |-> <<"h">>, user_acl |-> <<E("", U, {"list", "use",
                            "create", "fin"}), E("+", U, {})>>])>>, mode |-> "caps",
       flaky |-> {}],
      [files |-> <<File(Merge(G, [admins |-> <<U>>]), [user_acl |-> <<Broken>>],
                        [userdefault |-> <<U>>, allocatable |-> FALSE])>>, mode |-> "user",
       flaky |-> {}],
      [files |-> <<File(None, [maxextensions |-> 3], None),
                   [global |-> Merge(G, [maxextensions |-> 5]),
                    fs |-> [f2 |-> Merge(Base, [user_acl |-> <<E("+", V, {"fin"})>>])]],
                   [global |-> [maxextensions |-> 7, dbuid |-> 0], fs |-> <<>>]>>,
       mode |-> "setuid", flaky |-> {}] }
=============================================================================
