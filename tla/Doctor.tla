------------------------------- MODULE Doctor -------------------------------
(***************************************************************************)
(* What `contextd doctor` (daemon/doctor.ts) makes of the wiring: it reads *)
(* the same files as everybody else, at any moment, and changes none.  The *)
(* rest of the machine is taken as it may be at that moment: which builds  *)
(* are still where they were, and how old they are.                        *)
(***************************************************************************)
EXTENDS Wiring, Health

CONSTANTS
  Machine,        \* [stands, checkout, version, transcript] of a moment: the builds that
                  \* are there, each build's checkout (see Health), the version of the
                  \* contextd that asks, whether the agent left a transcript
  Named           \* builds whose path says "contextd"

ASSUME DoctorAssumption == Named \subseteq Build /\ \A m \in Machine : m.stands \subseteq Build

-----------------------------------------------------------------------------
(* What is wired where; a file that does not parse reads as empty. *)

installedHooks == {c \in Command : \E p \in Place \ broken, e \in Event : c \in hooks[p][e]}

\* A hook written by hand counts, whatever project it names.
looksWired(c) == c.by = "contextd" /\ c.build \in Named
inspectHooks == {c \in installedHooks : isOurHookCommand(c, recorded) \/ looksWired(c)}

Serving == {s \in Scope : servesProject(get(s))}
Elsewhere == {s \in Scope \ Serving : get(s) # Nothing}

\* Hooks or a transcript are proof of use.
agentInUse(m) == inspectHooks # {} \/ m.transcript

\* A command can start as long as what it names is there.
resolveCommand(c, m) == c.build \in m.stands

-----------------------------------------------------------------------------
(* The checks *)

\* mutant: the first of the commands stands for all of them
FirstHook(m) ==
  IF inspectHooks = {} THEN {Checked("hooks", "warn")}
  ELSE {Checked("hooks", "ok"),
        Checked("hook command",
          IF resolveCommand(CHOOSE c \in inspectHooks : TRUE, m) THEN "ok" ELSE "fail")}
hookChecks(m) ==
  IF inspectHooks = {} THEN {Checked("hooks", "warn")}
  ELSE {Checked("hooks", "ok")} \cup
       {Checked("hook command", IF resolveCommand(c, m) THEN "ok" ELSE "fail") : c \in inspectHooks}

transcriptCheck(m) == Checked("transcript", IF m.transcript THEN "ok" ELSE "skip")
adapterChecks(m) == hookChecks(m) \cup {transcriptCheck(m)}

\* An entry under our name that is another project's, or nobody of ours wrote.
mcpChecks(m) ==
  IF Serving # {}
  THEN {Checked("mcp", IF resolveCommand(get(s), m) THEN "ok" ELSE "fail") : s \in Serving}
  ELSE {Checked("mcp", IF Elsewhere # {} \/ agentInUse(m) THEN "warn" ELSE "skip")}

\* The builds the hooks and the servers run (the registrar takes every entry it can read
\* for its own); one that is missing is their failure.
Running == {c.build : c \in {x \in inspectHooks : x.by = "contextd"}} \cup {get(s).build : s \in Serving}
buildChecks(m) ==
  {Checked("build", IF buildDrift(m.checkout[b], m.version) THEN "warn" ELSE "ok") : b \in Running \cap m.stands}

\* What doctor says of the wiring.
diagnose(m) == adapterChecks(m) \cup mcpChecks(m) \cup buildChecks(m)

-----------------------------------------------------------------------------
(* Properties *)

\* Ours in what the agent can read: this project's hooks and servers.
OurCommands ==
  {c \in installedHooks : IsOurs(c)} \cup
  {mcp[s] : s \in {t \in Scope : fileFor(t) \notin broken /\ IsOurs(mcp[t])}}

\* Whatever was wired, taken out, moved, broken or left half done: doctor fails when a
\* hook or a server of this project cannot start, whichever file it is in; it is content
\* only with a build that is the one its sources would give; and it does not fail while
\* everything of contextd's can start.
DoctorSeesTheWiring ==
  \A m \in Machine : build \in m.stands =>
    LET status == worstStatus(diagnose(m)) IN
    /\ (\E c \in OurCommands : c.build \notin m.stands) => status = "fail"
    /\ status = "ok" => \A c \in OurCommands : ~ newerSource(m.checkout[c.build])
    /\ status = "fail" =>
         \E c \in installedHooks \cup {get(s) : s \in Scope} : c.by = "contextd" /\ c.build \notin m.stands

=============================================================================
