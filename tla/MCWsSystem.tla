----------------------------- MODULE MCWsSystem -----------------------------
(* Instances of WsSystem for TLC.                                           *)
EXTENDS WsInvariant, TLC

CONSTANTS p1, i1, i2, u1

\* One user owns every id.
MCOwner == [i \in Ids |-> u1]

\* The overlaps under which the store is safe.
SafePairs == {{"allocate", "stray"}, {"extend", "stray"}}

NoPairs == {}

\* The sessions are interchangeable.
SessionSymmetry == Permutations(Procs)

\* The overlaps under which killed processes do no harm.
CrashPairs == {{"allocate"}, {"extend"}, {"allocate", "extend"}, {"extend", "stray"},
               {"release", "stray"}}

\* ws_release may also run while strays are cleaned.
ReleaseDuringScan == SafePairs \cup {{"release", "stray"}}

\* Every command may overlap with both phases of the expirer.
ExpirerPairs == {{t, x} : t \in {"allocate", "extend", "release"}, x \in {"stray", "expire"}}

AllFaults == {"crash", "purge"}
PurgeFaults == {"purge"}
CrashFaults == {"crash"}

\* root runs "ws_allocate -u user": the directory is i2, the entry is i1.
RootForUser == {<<i1, i2>>}
=============================================================================
