------------------------------- MODULE Wiring -------------------------------
(***************************************************************************)
(* What contextd writes into files it does not own: the agent's hooks, MCP *)
(* servers and status line (src/adapters/claude/), and the mirror block    *)
(* (src/ops/mirror.ts), with the commands that put them there and take     *)
(* them out again (src/cli/index.ts, src/ops/install.ts), a person who     *)
(* edits the same files between any two steps, another project that is     *)
(* wired into the same user-level files, and a contextd that is rebuilt    *)
(* somewhere else.  A command reads and rewrites one file at a step and may *)
(* be killed between two; hooks and mirrors are written over the old text, *)
(* and a kill then leaves the file empty.  `mirror` and the maintenance    *)
(* that refreshes its blocks also read at one step and write at another,   *)
(* beside any command.  Commands are run in the project's root.            *)
(***************************************************************************)
EXTENDS Markers, Registry

CONSTANTS
  Here,           \* the root of this project
  Build,          \* places contextd may be built in
  Event,          \* hook events
  File,           \* files the mirror may be written to
  Declared,       \* those of them some agent declares: always looked at
  RuleFile,       \* those of them that are created with a frontmatter
  Memory,         \* what the bootstrap may say
  Passage,        \* passages of text a person may write
  Writer,         \* processes that may write the mirror: `mirror`, maintenance
  Scene,          \* what one behaviour is about: parts of the wiring, files the
                  \* mirror is written to, their writers, whether people edit them
                  \* ("text") and the memory changes ("memory")
  Rechains,       \* whether --chain is ever asked over a status line of ours
  CutsMarkers     \* whether the person ever loses an end marker

ASSUME WiringAssumption ==
  /\ Here \in Project
  /\ None \notin Project \cup Build \cup {"project", "user"}
  /\ Build # {} /\ Memory # {}
  /\ Declared \subseteq File /\ RuleFile \subseteq File
  /\ {Start, End, Frontmatter} \cap (Memory \cup Passage) = {} /\ Memory \cap Passage = {}
  /\ \A s \in Scene :
       s \subseteq {"hooks", "mcp", "line", "registry", "text", "memory"} \cup File \cup Writer

\* Settings files, the project's and the user's, and the files that hold servers.
Place == {"project", "user"}
Scope == {"local", "project", "user"}
fileFor(s) == IF s = "project" THEN ".mcp.json" ELSE ".claude.json"
Config == Place \cup {fileFor(s) : s \in Scope}

\* A command somebody had the agent run.
Command == [by : {"contextd", "person"}, build : Build \cup {None}, root : Project \cup {None}]
Nothing == [by |-> "nobody", build |-> None, root |-> None]
Persons == [by |-> "person", build |-> None, root |-> None]
Runs(b, root) == [by |-> "contextd", build |-> b, root |-> root]

\* What a mirrored text is made of.
Piece == {Start, End, Frontmatter} \cup Memory \cup Passage

VARIABLES
  scene,          \* which parts this behaviour is about; never changes
  hooks,          \* settings file -> event -> commands
  broken,         \* config files that do not parse at the moment
  recorded,       \* the hook command `init` recorded
  mcp,            \* scope -> the server under our name
  line,           \* settings file -> its status line
  chain,          \* the status line --chain took over: where it was, and what
  file,           \* file -> whether it exists, and its text
  targets,        \* files the mirror was written to (mirror_targets)
  made,           \* files it created (mirror_created)
  memory,         \* what the bootstrap says now
  build,          \* where contextd is built now
  cli,            \* the command that is running
  writing,        \* writer -> the mirror it is writing, or None
  stray           \* files with a block no list names yet, or written since an uninstall
                  \* read the lists: a history

wires == <<hooks, mcp, line, file>>
notes == <<recorded, chain, targets, made>>
world == <<scene, broken, memory, build>>
mirrors == <<writing, stray>>
vars == <<wires, notes, world, cli, mirrors, registryVars>>

NoChain == [at |-> None, was |-> Nothing]
Idle ==
  [does |-> "nothing", step |-> "done", build |-> None, at |-> None, recorded |-> Nothing,
   files |-> {}, made |-> {}, left |-> {}, replaced |-> NoChain, skipped |-> {}]

\* A mirror being written: the file, the other files to refresh, the file as it was read
\* and whether it was there, the list its name goes into, and whether the store it opened
\* is still there.
Mirroring ==
  [on : File \cup {None}, todo : SUBSET File, before : [there : BOOLEAN, text : Seq(Piece)],
   created : BOOLEAN, listing : SUBSET File, stored : BOOLEAN,
   at : {"checking", "reading", "writing", "noting", "targets", "creating", "made"}]

TypeOK ==
  /\ RegistryTypeOK
  /\ scene \in Scene
  /\ hooks \in [Place -> [Event -> SUBSET Command]]
  /\ broken \subseteq Config
  /\ recorded \in Command \cup {Nothing}
  /\ mcp \in [Scope -> Command \cup {Nothing}]
  /\ line \in [Place -> Command \cup {Nothing}]
  /\ chain \in [at : Place \cup {None}, was : Command \cup {Nothing}]
  /\ DOMAIN file = File /\ \A f \in File : file[f].there \in BOOLEAN
  /\ targets \subseteq File /\ made \subseteq File
  /\ memory \in Memory /\ build \in Build
  /\ cli.does \in {"nothing", "init", "uninstall", "purge", "line", "unline"}
  /\ cli.step \in {"note", "stale", "install", "record", "hooks", "servers", "mirrors", "line",
                   "chain", "forget", "purge", "unregister", "done"}
  /\ cli.skipped \subseteq Config
  /\ writing \in [Writer -> Mirroring \cup {None}]
  /\ stray \subseteq File

Init ==
  /\ scene \in Scene
  /\ hooks = [p \in Place |-> [e \in Event |-> {}]]
  /\ broken = {} /\ recorded = Nothing
  /\ mcp = [s \in Scope |-> Nothing] /\ line = [p \in Place |-> Nothing] /\ chain = NoChain
  /\ file = [f \in File |-> [there |-> FALSE, text |-> <<>>]]
  /\ targets = {} /\ made = {}
  /\ memory = (CHOOSE m \in Memory : TRUE)
  /\ build = (CHOOSE b \in Build : TRUE)
  /\ cli = Idle
  /\ writing = [w \in Writer |-> None] /\ stray = {}
  /\ RegistryInit

-----------------------------------------------------------------------------
(* Whose is it? *)

\* self.ts: the recorded command, or the shape `init` writes for this root, of
\* whatever build.
\* mutant: only the recorded command is ours.
OnlyRecorded(c, known) == c = known
\* mutant: any contextd command is.
AnyContextd(c, known) == c = known \/ c.by = "contextd"
isOurHookCommand(c, known) == c = known \/ (c.by = "contextd" /\ c.root = Here)

\* install.ts: a server started for this root.
servesProject(entry) == entry.root = Here

\* cli: a status line runs contextd's `statusline`, of any build; it names no root.
isOurStatusline(c) == c.by = "contextd"

-----------------------------------------------------------------------------
(* Steps of a command *)

Uninstalling == cli.does \in {"uninstall", "purge"}

\* The files a step goes through, one after the other.
Left(step) ==
  IF step \in {"stale", "hooks", "line"} THEN Place
  ELSE IF step = "servers" THEN Scope ELSE IF step = "mirrors" THEN cli.files ELSE {}

\* The command's next step, once the registry is written.
Steps(step, next) ==
  /\ cli.step = step
  /\ rewriting[Here] = None
  /\ cli' = [cli EXCEPT !.step = next, !.left = Left(next)]

\* The files of one directory, or the scopes, in the order the code names them.
Precedes == {<<"local", "project">>, <<"local", "user">>, <<"project", "user">>}

\* One file of the step; `unread` is what could not be read of it.
Handles(step, x, unread) ==
  /\ cli.step = step /\ x \in cli.left /\ \A y \in cli.left : <<y, x>> \notin Precedes
  /\ rewriting[Here] = None
  /\ cli' = [cli EXCEPT !.left = cli.left \ {x}, !.skipped = cli.skipped \cup unread]

Following(step) ==
  IF step = "stale" THEN "install" ELSE IF step = "hooks" THEN "servers"
  ELSE IF step = "servers" THEN "mirrors" ELSE IF step = "mirrors" THEN "line"
  ELSE IF cli.does = "purge" THEN "purge" ELSE "forget"

MovesOn ==
  /\ cli.step \in {"stale", "hooks", "servers", "mirrors", "line"} /\ cli.left = {}
  /\ Steps(cli.step, Following(cli.step))
  /\ UNCHANGED <<wires, notes, world, mirrors, registryVars>>

-----------------------------------------------------------------------------
(* Hooks *)

\* What is left of a file's hooks when those `ours` are taken out; a file that does
\* not parse is left as it is.
Without(p, ours) ==
  IF p \in broken THEN hooks ELSE [hooks EXCEPT ![p] = [e \in Event |-> hooks[p][e] \ ours]]
Ours(known) == {c \in Command : isOurHookCommand(c, known)}

\* installHooks adds ours to an event that has no hook yet.
installHooks(p, command) ==
  [hooks EXCEPT ![p] = [e \in Event |-> IF hooks[p][e] = {} THEN {command} ELSE hooks[p][e]]]

HookCommand == Runs(cli.build, Here)

BeginsInit(p) ==
  /\ cli = Idle /\ scene \cap {"hooks", "registry"} # {}
  /\ cli' = [Idle EXCEPT !.does = "init", !.step = "note", !.build = build, !.at = p,
                         !.recorded = recorded]
  /\ live' = live \cup {Here}
  /\ UNCHANGED <<wires, notes, world, mirrors, listed, rewriting>>

Notes ==
  /\ Steps("note", "stale")
  /\ IF "registry" \in scene THEN registerProject(Here) ELSE UNCHANGED registryVars
  /\ UNCHANGED <<wires, notes, world, mirrors>>

\* init first takes out what an earlier build left.
\* mutant: it does not.
LeavesStale(p) ==
  /\ Handles("stale", p, {})
  /\ UNCHANGED <<wires, notes, world, mirrors, registryVars>>
RemovesStale(p) ==
  /\ Handles("stale", p, {p} \cap broken)
  /\ hooks' = Without(p, Ours(cli.recorded) \ {HookCommand})
  /\ UNCHANGED <<mcp, line, file, notes, world, mirrors, registryVars>>

\* A settings file that does not parse makes init throw before it records.
Installs ==
  /\ cli.step = "install"
  /\ rewriting[Here] = None
  /\ IF cli.at \in broken
     THEN cli' = Idle /\ hooks' = hooks
     ELSE /\ cli' = [cli EXCEPT !.step = "record"]
          /\ hooks' = IF "hooks" \in scene THEN installHooks(cli.at, HookCommand) ELSE hooks
  /\ UNCHANGED <<mcp, line, file, notes, world, mirrors, registryVars>>

\* installHooks empties the file and writes it again: a kill between leaves nothing of
\* what was in it, and an empty file does not parse.  Another project's init does the
\* same to the user's file.
TearsHooks(p) ==
  /\ "hooks" \in scene /\ p \notin broken
  /\ \/ cli.step = "install" /\ cli.at = p /\ cli' = Idle
     \/ p = "user" /\ Project # {Here}
        /\ cli' = IF cli = Idle THEN cli ELSE [cli EXCEPT !.skipped = cli.skipped \cup {p}]
  /\ broken' = broken \cup {p}
  /\ hooks' = [hooks EXCEPT ![p] = [e \in Event |-> {}]]
  /\ line' = IF p = "user" THEN [line EXCEPT ![p] = Nothing] ELSE line
  /\ UNCHANGED <<mcp, file, notes, scene, memory, build, mirrors, registryVars>>

Records ==
  /\ Steps("record", "done")
  /\ recorded' = HookCommand
  /\ UNCHANGED <<wires, chain, targets, made, world, mirrors, registryVars>>

-----------------------------------------------------------------------------
(* MCP servers; a file that does not parse reads as empty. *)

get(s) == IF fileFor(s) \in broken THEN Nothing ELSE mcp[s]

\* register: nothing when it is the wanted one, a conflict when it is another one
\* and --force was not given, no write into a file that does not parse.  With --force
\* the other one is unregistered first, and the command may be killed then.
mcpInstall(s, force) ==
  LET wanted == Runs(build, Here) IN
  /\ cli = Idle /\ "mcp" \in scene
  /\ fileFor(s) \notin broken
  /\ get(s) # wanted
  /\ get(s) = Nothing \/ force
  /\ \/ mcp' = [mcp EXCEPT ![s] = wanted]
     \/ mcp' = [mcp EXCEPT ![s] = Nothing]
  /\ UNCHANGED <<hooks, line, file, notes, world, cli, mirrors, registryVars>>

\* mcpUninstall: what serves this project goes, whichever build it runs.
Unregistered(s) == IF servesProject(get(s)) THEN [mcp EXCEPT ![s] = Nothing] ELSE mcp

mcpUninstall(s) ==
  /\ cli = Idle
  /\ mcp' = Unregistered(s)
  /\ UNCHANGED <<hooks, line, file, notes, world, cli, mirrors, registryVars>>

-----------------------------------------------------------------------------
(* Status line: the project's file wins over the user's.  It is in a settings *)
(* file of its own in the project, and in the hooks' file in the user's.      *)

Unread(p) == p = "user" /\ "user" \in broken
installed ==
  IF line["project"] # Nothing THEN [at |-> "project", was |-> line["project"]]
  ELSE IF line["user"] # Nothing /\ ~ Unread("user") THEN [at |-> "user", was |-> line["user"]]
  ELSE NoChain

\* With --chain the line that was in effect is remembered, once ours is written, and
\* run first.
StatuslineInstall(chained) ==
  LET ours == Runs(build, None) IN
  /\ cli = Idle /\ "line" \in scene
  /\ installed.was # ours
  /\ installed = NoChain \/ chained
  /\ Rechains \/ ~ isOurStatusline(installed.was)
  /\ line' = [line EXCEPT !["project"] = ours]
  /\ cli' = IF installed = NoChain THEN cli
            ELSE [Idle EXCEPT !.does = "line", !.step = "chain", !.replaced = installed]
  /\ UNCHANGED <<hooks, mcp, file, notes, world, mirrors, registryVars>>

\* setStatuslineChain
NotesChain ==
  /\ Steps("chain", "done")
  /\ chain' = cli.replaced
  /\ UNCHANGED <<wires, recorded, targets, made, world, mirrors, registryVars>>

BeginsUnline ==
  /\ cli = Idle /\ "line" \in scene
  /\ cli' = [Idle EXCEPT !.does = "unline", !.step = "line", !.left = Place]
  /\ UNCHANGED <<wires, notes, world, mirrors, registryVars>>

\* Ours goes, and the line it took over comes back where it was.
Restored(p) ==
  IF ~ isOurStatusline(line[p]) \/ Unread(p) THEN line[p]
  ELSE IF chain.at = p THEN chain.was ELSE Nothing

RemovesLine(p) ==
  /\ Handles("line", p, {})
  /\ line' = [line EXCEPT ![p] = Restored(p)]
  /\ UNCHANGED <<hooks, mcp, file, notes, world, mirrors, registryVars>>

ForgetsChain ==
  /\ Steps("forget", "done")
  /\ chain' = NoChain
  /\ UNCHANGED <<wires, recorded, targets, made, world, mirrors, registryVars>>

-----------------------------------------------------------------------------
(* Mirror *)

Absent == [there |-> FALSE, text |-> <<>>]

\* writeMirror reads the file; a block that is as it should be is not written again.
Read(f, todo, stored) ==
  LET stale == isStale(file[f].text, memory) IN
  [on |-> f, todo |-> todo, before |-> IF stale THEN file[f] ELSE Absent, created |-> ~ file[f].there,
   listing |-> {}, stored |-> stored, at |-> IF stale THEN "writing" ELSE "noting"]

\* A refresh between two of its files; one that has none left is over.
Checking(todo, stored) ==
  IF todo = {} THEN None
  ELSE [on |-> None, todo |-> todo, before |-> Absent, created |-> FALSE, listing |-> {}, stored |-> stored,
        at |-> "checking"]

\* `contextd mirror`
Mirrors(w, f) ==
  /\ {w, f} \subseteq scene /\ writing[w] = None
  /\ writing' = [writing EXCEPT ![w] = Read(f, {}, TRUE)]
  /\ UNCHANGED <<wires, notes, world, cli, stray, registryVars>>

\* refreshMirrors, of maintenance: the files the mirror was written to, one by one.
Refreshes(w) ==
  /\ {w, "memory"} \subseteq scene /\ writing[w] = None
  /\ writing' = [writing EXCEPT ![w] = Checking(targets, TRUE)]
  /\ UNCHANGED <<wires, notes, world, cli, stray, registryVars>>

At(w, step) == writing[w] # None /\ writing[w].at = step

\* checkMirror: a file without a block, or with one as it should be, is passed over.
Checks(w, f) ==
  /\ At(w, "checking") /\ f \in writing[w].todo
  /\ LET todo == writing[w].todo \ {f} IN
     writing' = [writing EXCEPT ![w] =
       IF hasBlock(file[f].text) /\ isStale(file[f].text, memory)
       THEN [on |-> f, todo |-> todo, before |-> Absent, created |-> FALSE, listing |-> {},
             stored |-> writing[w].stored, at |-> "reading"]
       ELSE Checking(todo, writing[w].stored)]
  /\ UNCHANGED <<wires, notes, world, cli, stray, registryVars>>

\* It is read again to be written.
ReadsAgain(w) ==
  /\ At(w, "reading")
  /\ writing' = [writing EXCEPT ![w] = Read(writing[w].on, writing[w].todo, writing[w].stored)]
  /\ UNCHANGED <<wires, notes, world, cli, stray, registryVars>>

\* Whatever the file holds by now.
Writes(w) ==
  /\ At(w, "writing")
  /\ LET f == writing[w].on
         before == writing[w].before IN
     /\ file' = [file EXCEPT ![f] =
          [there |-> TRUE, text |-> mirrored(~ writing[w].created, before.text, f \in RuleFile, memory)]]
     /\ stray' = IF Uninstalling \/ f \notin targets THEN stray \cup {f} ELSE stray
  /\ writing' = [writing EXCEPT ![w].at = "noting", ![w].before = Absent]
  /\ UNCHANGED <<hooks, mcp, line, notes, world, cli, registryVars>>

\* remember reads the list (of targets, then of files created) ...
Lists(w) ==
  /\ At(w, "noting") \/ At(w, "creating")
  /\ writing' = [writing EXCEPT ![w].listing = IF At(w, "noting") THEN targets ELSE made,
                                ![w].at = IF At(w, "noting") THEN "targets" ELSE "made"]
  /\ UNCHANGED <<wires, notes, world, cli, stray, registryVars>>

\* ... and writes it with the file in it, to a store that may be gone; what another
\* writer noted meanwhile is lost.
Noted(w, list) ==
  IF writing[w].stored /\ writing[w].on \notin writing[w].listing
  THEN writing[w].listing \cup {writing[w].on} ELSE list

Done(w) == Checking(writing[w].todo, writing[w].stored)

NotesTarget(w) ==
  /\ At(w, "targets")
  /\ targets' = Noted(w, targets)
  /\ stray' = IF Uninstalling THEN stray \cup (targets \ targets') ELSE (stray \cup targets) \ targets'
  /\ writing' = [writing EXCEPT ![w] =
       IF writing[w].created THEN [writing[w] EXCEPT !.at = "creating", !.listing = {}] ELSE Done(w)]
  /\ UNCHANGED <<wires, recorded, chain, made, world, cli, registryVars>>

NotesCreated(w) ==
  /\ At(w, "made")
  /\ made' = Noted(w, made)
  /\ writing' = [writing EXCEPT ![w] = Done(w)]
  /\ UNCHANGED <<wires, recorded, chain, targets, world, cli, stray, registryVars>>

\* A writer is killed: between two steps, or while it writes, when the file has been
\* emptied and not yet filled.
Dies(w) ==
  /\ writing[w] # None
  /\ writing' = [writing EXCEPT ![w] = None]
  /\ UNCHANGED <<wires, notes, world, cli, stray, registryVars>>
TearsMirror(w) ==
  /\ At(w, "writing")
  /\ file' = [file EXCEPT ![writing[w].on] = [there |-> TRUE, text |-> <<>>]]
  /\ writing' = [writing EXCEPT ![w] = None]
  /\ UNCHANGED <<hooks, mcp, line, notes, world, cli, stray, registryVars>>

\* removeMirror: a file the mirror created goes when nobody else wrote in it.
Removed(f, created) ==
  LET rest == removeBlock(file[f].text) IN
  IF ~ hasBlock(file[f].text) THEN file[f]
  ELSE IF created /\ isBare(rest) THEN Absent
  ELSE [there |-> TRUE, text |-> rest]

-----------------------------------------------------------------------------
(* contextd uninstall, with --purge or without *)

\* What the store knows is read first; then every adapter's files are cleaned.
BeginsUninstall(does) ==
  /\ cli = Idle
  /\ cli' = [Idle EXCEPT !.does = does, !.step = "hooks", !.recorded = recorded,
                         !.files = targets \cup Declared, !.made = made, !.left = Place]
  /\ live' = live \cup {Here}
  /\ UNCHANGED <<wires, notes, world, mirrors, listed, rewriting>>

RemovesHooks(p) ==
  /\ Handles("hooks", p, {p} \cap broken)
  /\ hooks' = Without(p, Ours(cli.recorded))
  /\ UNCHANGED <<mcp, line, file, notes, world, mirrors, registryVars>>

RemovesServers(s) ==
  /\ Handles("servers", s, {fileFor(s)} \cap broken)
  /\ mcp' = Unregistered(s)
  /\ UNCHANGED <<hooks, line, file, notes, world, mirrors, registryVars>>

RemovesMirror(f) ==
  /\ Handles("mirrors", f, {})
  /\ file' = [file EXCEPT ![f] = Removed(f, f \in cli.made)]
  /\ stray' = stray \ {f}
  /\ UNCHANGED <<hooks, mcp, line, notes, world, writing, registryVars>>

\* A file that stays is written over as the mirror writes it.
TearsRemoval(f) ==
  /\ cli.step = "mirrors" /\ f \in cli.left /\ rewriting[Here] = None
  /\ hasBlock(file[f].text) /\ Removed(f, f \in cli.made).there
  /\ file' = [file EXCEPT ![f] = [there |-> TRUE, text |-> <<>>]]
  /\ cli' = Idle
  /\ UNCHANGED <<hooks, mcp, line, notes, world, mirrors, registryVars>>

\* What a writer still has to note goes to the store that was deleted.
Purges ==
  /\ Steps("purge", "unregister")
  /\ recorded' = Nothing /\ chain' = NoChain /\ targets' = {} /\ made' = {}
  /\ writing' = [w \in Writer |->
       IF writing[w] = None THEN None ELSE [writing[w] EXCEPT !.stored = FALSE]]
  /\ live' = live \ {Here}
  /\ UNCHANGED <<wires, world, stray, listed, rewriting>>

Unregisters ==
  /\ Steps("unregister", "done")
  /\ IF "registry" \in scene THEN unregisterProject(Here) ELSE UNCHANGED registryVars
  /\ UNCHANGED <<wires, notes, world, mirrors>>

\* A command ends, or is killed between two of its steps.
Ends ==
  /\ cli # Idle
  /\ cli' = Idle
  /\ UNCHANGED <<wires, notes, world, mirrors, registryVars>>

-----------------------------------------------------------------------------
(* The person, other projects, the memory, the build *)

WritesHook(p, e) ==
  /\ "hooks" \in scene /\ p \notin broken /\ Persons \notin hooks[p][e]
  /\ hooks' = [hooks EXCEPT ![p][e] = @ \cup {Persons}]
  /\ UNCHANGED <<mcp, line, file, notes, world, cli, mirrors, registryVars>>

\* Another project's `init --global` meets the same user-level file.
OtherInit(q) ==
  /\ "hooks" \in scene /\ "user" \notin broken
  /\ hooks' = installHooks("user", Runs(build, q))
  /\ hooks' # hooks
  /\ UNCHANGED <<mcp, line, file, notes, world, cli, mirrors, registryVars>>

WritesServer(s, entry) ==
  /\ "mcp" \in scene /\ fileFor(s) \notin broken /\ mcp[s] = Nothing
  /\ mcp' = [mcp EXCEPT ![s] = entry]
  /\ UNCHANGED <<hooks, line, file, notes, world, cli, mirrors, registryVars>>

WritesLine(p) ==
  /\ "line" \in scene /\ ~ Unread(p) /\ line[p] = Nothing
  /\ line' = [line EXCEPT ![p] = Persons]
  /\ UNCHANGED <<hooks, mcp, file, notes, world, cli, mirrors, registryVars>>

\* A file the person breaks stays as it is until the person mends it.
BreaksOrMends(c) ==
  /\ (IF c \in Place THEN "hooks" ELSE "mcp") \in scene
  /\ broken' = IF c \in broken THEN broken \ {c} ELSE broken \cup {c}
  /\ UNCHANGED <<scene, memory, build, wires, notes, cli, mirrors, registryVars>>

WritesText(f, text) ==
  /\ {"text", f} \subseteq scene
  /\ file' = [file EXCEPT ![f] = [there |-> TRUE, text |-> text]]
  /\ UNCHANGED <<hooks, mcp, line, notes, world, cli, mirrors, registryVars>>
\* A passage is written once and one end marker cut at a time: the bounds on texts.
Edits(f) ==
  LET text == file[f].text IN
  \/ \E t \in Passage : (\A i \in DOMAIN text : text[i] # t)
                        /\ (WritesText(f, text \o <<t>>) \/ WritesText(f, <<t>> \o text))
  \/ CutsMarkers /\ ~ Unterminated(text) /\ \E i \in DOMAIN text : text[i] = End
       /\ WritesText(f, SubSeq(text, 1, i - 1) \o SubSeq(text, i + 1, Len(text)))

DeletesFile(f) ==
  /\ {"text", f} \subseteq scene /\ file[f].there
  /\ file' = [file EXCEPT ![f] = Absent]
  /\ UNCHANGED <<hooks, mcp, line, notes, world, cli, mirrors, registryVars>>

MemoryChanges ==
  /\ "memory" \in scene
  /\ memory' \in Memory \ {memory}
  /\ UNCHANGED <<scene, broken, build, wires, notes, cli, mirrors, registryVars>>

\* The checkout moves or is built elsewhere: what was installed names the old one.
BuildMoves ==
  /\ scene \cap {"hooks", "mcp", "line"} # {}
  /\ build' \in Build \ {build}
  /\ UNCHANGED <<scene, broken, memory, wires, notes, cli, mirrors, registryVars>>

PersonActs ==
  \/ \E p \in Place : WritesLine(p) \/ \E e \in Event : WritesHook(p, e)
  \/ \E s \in Scope : \E entry \in {Persons} \cup {Runs(build, q) : q \in Project \ {Here}} :
       WritesServer(s, entry)
  \/ \E f \in File : Edits(f) \/ DeletesFile(f)

InitSteps ==
  \/ \E p \in Place : BeginsInit(p) \/ RemovesStale(p)
  \/ Notes \/ Installs \/ Records

UninstallSteps ==
  \/ \E does \in {"uninstall", "purge"} : BeginsUninstall(does)
  \/ \E p \in Place : RemovesHooks(p) \/ RemovesLine(p)
  \/ \E s \in Scope : RemovesServers(s)
  \/ \E f \in File : RemovesMirror(f) \/ TearsRemoval(f)
  \/ ForgetsChain \/ Purges \/ Unregisters

OtherCommands ==
  \/ \E s \in Scope : mcpUninstall(s) \/ \E force \in BOOLEAN : mcpInstall(s, force)
  \/ \E chained \in BOOLEAN : StatuslineInstall(chained)
  \/ NotesChain \/ BeginsUnline

MirrorSteps ==
  \E w \in Writer :
    \/ \E f \in File : Mirrors(w, f) \/ Checks(w, f)
    \/ Refreshes(w) \/ ReadsAgain(w) \/ Writes(w) \/ TearsMirror(w)
    \/ Lists(w) \/ NotesTarget(w) \/ NotesCreated(w) \/ Dies(w)

RegistrySteps ==
  /\ "registry" \in scene
  /\ RegistryNext
  /\ UNCHANGED <<wires, notes, world, cli, mirrors>>

Next ==
  \/ PersonActs
  \/ \E q \in Project \ {Here} : OtherInit(q)
  \/ \E p \in Place : TearsHooks(p)
  \/ \E c \in Config : BreaksOrMends(c)
  \/ MemoryChanges \/ BuildMoves
  \/ InitSteps \/ UninstallSteps \/ MovesOn \/ Ends
  \/ OtherCommands \/ MirrorSteps
  \/ RegistrySteps

Spec == Init /\ [][Next]_vars

-----------------------------------------------------------------------------
(* Properties *)

IsOurs(c) == c.by = "contextd" /\ c.root = Here
\* The person's passages in two texts are the same, in the same order.
PassagesAt(text) == {i \in 1 .. Len(text) : text[i] \in Passage}
SamePassages(old, new) ==
  \E at \in [PassagesAt(old) -> PassagesAt(new)] :
    /\ \A i, j \in PassagesAt(old) : i < j => at[i] < at[j]
    /\ \A i \in PassagesAt(old) : new[at[i]] = old[i]
    /\ \A n \in PassagesAt(new) : \E i \in PassagesAt(old) : at[i] = n
Forced == \E s \in Scope : mcpInstall(s, TRUE)

\* The text a writer starts from is the one it read, whatever the file holds by now.
Starts(f) == {writing[w].before.text : w \in {v \in Writer : Writes(v) /\ writing[v].on = f}}
\* What a kill leaves of a file that is written over.
Emptied(f) == (\E w \in Writer : TearsMirror(w) /\ writing[w].on = f) \/ TearsRemoval(f)
TextKept ==
  \A f \in File : Emptied(f) \/ \E old \in {file[f].text} \cup Starts(f) : SamePassages(old, file'[f].text)

HooksStay ==
  \A p \in Place, e \in Event : TearsHooks(p) \/ {c \in hooks[p][e] : ~ IsOurs(c)} \subseteq hooks'[p][e]
ServersStay == Forced \/ \A s \in Scope : mcp[s] # Nothing /\ ~ IsOurs(mcp[s]) => mcp'[s] = mcp[s]
\* A person's line is where it was, or ours stands there and the person's is noted, or
\* about to be.
Remembers(p) ==
  \/ line[p] = Persons
  \/ line[p] # Nothing /\ [at |-> p, was |-> Persons] \in {chain} \cup {c \in {cli.replaced} : cli.step = "chain"}
LinesStay ==
  Rechains \/ \A p \in Place :
    TearsHooks(p) \/ (Ends /\ cli.step = "chain" /\ cli.replaced.at = p) \/ (Remembers(p) => Remembers(p)')
TextStays ==
  \A f \in File :
    Emptied(f) \/ \E old \in {file[f].text} \cup Starts(f) : Unterminated(old) \/ SamePassages(old, file'[f].text)

\* Whatever we do, other people's hooks and servers stay where they are, the person's
\* status line stays or is remembered until it is back, and the text around a block is
\* as it was when it was read.  --force may replace a server under our name; a block
\* whose end marker was cut off may take the text below it along; and a kill may empty
\* the one file of hooks or text that is being written over, or fall between the status
\* line and the note of the one it took over.
TheirsIsKept == [][PersonActs \/ (HooksStay /\ ServersStay /\ LinesStay /\ TextStays)]_vars

\* The same of a text whose end marker was cut: "without reading or touching a single byte
\* outside" the markers, and "an unterminated start marker is treated as absent".
OutsideIsKept == [][PersonActs \/ TextKept]_vars

\* An uninstall that came to its end left nothing of ours in the files it could read,
\* whichever build had put it there: no hook, no server, no status line, and no block in
\* any file but one whose writer had not noted it when the lists were read (it was
\* killed, or another writer's note overwrote its own), or wrote it after that.
UninstallLeavesNothing ==
  Uninstalling /\ cli.step = "done" =>
    /\ \A p \in Place \ cli.skipped, e \in Event : \A c \in hooks[p][e] : ~ IsOurs(c)
    /\ \A s \in Scope : fileFor(s) \in cli.skipped \/ ~ IsOurs(mcp[s])
    /\ Rechains \/ \A p \in Place : ~ isOurStatusline(line[p])
    /\ \A f \in File : hasBlock(file[f].text) => f \in stray

\* An init that came to its end left no hook of another build in the files it
\* could read, and ours on every event nobody else has a hook on.
InitFollowsTheBuild ==
  cli.does = "init" /\ cli.step = "done" /\ "hooks" \in scene =>
    /\ \A p \in Place \ cli.skipped, e \in Event :
         \A c \in hooks[p][e] : IsOurs(c) => c = HookCommand
    /\ cli.at \in cli.skipped
       \/ \A e \in Event : HookCommand \in hooks[cli.at][e] \/ \E c \in hooks[cli.at][e] : ~ IsOurs(c)

=============================================================================
