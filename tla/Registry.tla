------------------------------ MODULE Registry ------------------------------
(***************************************************************************)
(* The list of this machine's projects (src/ops/registry.ts): one small    *)
(* file that every command reads, changes and writes back without a lock,  *)
(* through a temporary file of its own and a rename.  A caller is the      *)
(* command a project's person or agent is running there.                   *)
(***************************************************************************)
EXTENDS Integers

CONSTANTS
  Project,        \* roots of projects on this machine
  None            \* "nothing of the kind"

VARIABLES
  listed,         \* the roots in the registry file
  live,           \* projects whose directory and memory exist: entryIsLive
  rewriting       \* caller -> the rewrite it is in the middle of, or None

registryVars == <<listed, live, rewriting>>

Rewrite ==
  [read : SUBSET Project,      \* the list as it was read
   text : SUBSET Project,      \* the list it will become
   forgets : SUBSET Project,   \* whom the caller was asked to drop
   step : {"computed", "written"}]

RegistryTypeOK ==
  /\ listed \subseteq Project
  /\ live \subseteq Project
  /\ rewriting \in [Project -> Rewrite \cup {None}]

RegistryInit == listed = {} /\ live = {} /\ rewriting = [p \in Project |-> None]

\* A rewrite is begun only when it changes the list.
Rewrites(p, text, forgets) ==
  /\ rewriting[p] = None
  /\ rewriting' = IF text = listed THEN rewriting
                  ELSE [rewriting EXCEPT ![p] = [read |-> listed, text |-> text, forgets |-> forgets,
                                                 step |-> "computed"]]
  /\ UNCHANGED <<listed, live>>

registerProject(p) == Rewrites(p, listed \cup {p}, {})
unregisterProject(p) == Rewrites(p, listed \ {p}, {p})

\* projects remove, prune and clear.
filterRegistry(p, keep) == Rewrites(p, listed \cap keep, Project \ keep)
Removes(p, q) == q \in listed /\ filterRegistry(p, Project \ {q})
Prunes(p) == filterRegistry(p, live)
Clears(p) == filterRegistry(p, {})

\* writeFileAtomic: the new list goes to a file that bears the writer's process
\* id, and then takes the old one's place.
\* mutant: it is written over the old one, which is empty for a while.
WritesInPlace(p) ==
  /\ rewriting[p] # None
  /\ rewriting[p].step = "computed"
  /\ listed' = {}
  /\ rewriting' = [rewriting EXCEPT ![p].step = "written"]
  /\ UNCHANGED live
WritesAside(p) ==
  /\ rewriting[p] # None
  /\ rewriting[p].step = "computed"
  /\ rewriting' = [rewriting EXCEPT ![p].step = "written"]
  /\ UNCHANGED <<listed, live>>

Renames(p) ==
  /\ rewriting[p] # None
  /\ rewriting[p].step = "written"
  /\ listed' = rewriting[p].text
  /\ rewriting' = [rewriting EXCEPT ![p] = None]
  /\ UNCHANGED live

\* The caller is killed; its temporary file stays behind, unread.
DiesRewriting(p) ==
  /\ rewriting[p] # None
  /\ rewriting' = [rewriting EXCEPT ![p] = None]
  /\ UNCHANGED <<listed, live>>

\* A project's memory appears with its first command, or somebody deletes it.
MemoryComesOrGoes(p) ==
  /\ live' = IF p \in live THEN live \ {p} ELSE live \cup {p}
  /\ UNCHANGED <<listed, rewriting>>

\* Commands of a project that is in use note it; `projects` may be run anywhere.
RegistryNext ==
  \E p \in Project :
    \/ p \in live /\ registerProject(p)
    \/ \E q \in Project : Removes(p, q)
    \/ Prunes(p)
    \/ Clears(p)
    \/ WritesAside(p)
    \/ Renames(p)
    \/ DiesRewriting(p)
    \/ MemoryComesOrGoes(p)

\* A project leaves the list only with a whole rewrite of it: one that was asked
\* to drop it, or one that had read the list before the project was in it (two
\* commands at once; the project's next command lists it again).
OthersStayListed ==
  [][\A q \in listed \ listed' : \E p \in Project :
       Renames(p) /\ (q \in rewriting[p].forgets \/ q \notin rewriting[p].read)]_registryVars

=============================================================================
