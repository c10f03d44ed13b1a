---------------------------- MODULE WiringProofs ----------------------------
(***************************************************************************)
(* Theorems of Wiring and Doctor, for any projects, builds, hook events,   *)
(* files, writers and texts.                                               *)
(* Which steps touch what comes first; the rest cites it.                  *)
(* The registry: a rewrite holds what it read, what it was to drop and     *)
(* what it will write, and the three agree, however many are under way.    *)
(* A command in progress: the files it has gone past, and that it takes    *)
(* nothing back of them.                                                   *)
(* Texts: what a block is in a text, and that TextOK is kept by every      *)
(* writer, person and command.                                             *)
(* `init`: what it has done so far, at each of its steps, whatever others  *)
(* write into the settings files meanwhile.                                *)
(* Uninstall: what it has taken out so far, and that nobody puts it back   *)
(* before the command ends.                                                *)
(* The doctor: what it reports is read off the same invariant.             *)
(* What is theirs: no step but a person's own touches it, but for the      *)
(* exceptions TheirsIsKept names.                                          *)
(***************************************************************************)
EXTENDS Doctor, TLAPS

-----------------------------------------------------------------------------
(* Which steps touch what. *)

OthersSteps ==
  \/ \E q \in Project \ {Here} : OtherInit(q)
  \/ \E p \in Place : TearsHooks(p)
  \/ \E c \in Config : BreaksOrMends(c)
QuietSteps == MemoryChanges \/ BuildMoves \/ MovesOn \/ Ends \/ RegistrySteps \/ UNCHANGED vars

\* The steps that touch hooks.
LEMMA HooksMove ==
  ASSUME [Next]_vars
  PROVE  \/ hooks' = hooks
         \/ Installs
         \/ \E p \in Place : RemovesStale(p)
         \/ \E p \in Place : RemovesHooks(p)
         \/ \E p \in Place, e \in Event : WritesHook(p, e)
         \/ \E q \in Project \ {Here} : OtherInit(q)
         \/ \E p \in Place : TearsHooks(p)
<1>1. PersonActs => hooks' = hooks \/ (\E p \in Place, e \in Event : WritesHook(p, e))
  BY DEF PersonActs, WritesLine, WritesServer, Edits, WritesText, DeletesFile, wires
<1>2. InitSteps => hooks' = hooks \/ (Installs) \/ (\E p \in Place : RemovesStale(p))
  BY DEF InitSteps, BeginsInit, Notes, Records, wires
<1>3. UninstallSteps => hooks' = hooks \/ (\E p \in Place : RemovesHooks(p))
  BY DEF UninstallSteps, BeginsUninstall, RemovesServers, RemovesMirror, TearsRemoval, RemovesLine,
     ForgetsChain, Purges, Unregisters, wires
<1>4. OtherCommands => hooks' = hooks
  BY DEF OtherCommands, mcpInstall, mcpUninstall, StatuslineInstall, NotesChain, BeginsUnline, wires
<1>5. MirrorSteps => hooks' = hooks
  BY DEF MirrorSteps, Mirrors, Checks, Refreshes, ReadsAgain, Writes, TearsMirror, Lists, NotesTarget,
     NotesCreated, Dies, wires
<1>6. OthersSteps => hooks' = hooks \/ (\E q \in Project \ {Here} : OtherInit(q)) \/ (\E p \in Place : TearsHooks(p))
  BY DEF OthersSteps, BreaksOrMends, wires
<1>7. QuietSteps => hooks' = hooks
  BY DEF QuietSteps, MemoryChanges, BuildMoves, MovesOn, Ends, RegistrySteps, vars, wires
<1>. QED BY <1>1, <1>2, <1>3, <1>4, <1>5, <1>6, <1>7 DEF Next, OthersSteps, QuietSteps

\* The steps that touch servers.
LEMMA ServersMove ==
  ASSUME [Next]_vars
  PROVE  \/ mcp' = mcp
         \/ \E s \in Scope : \E entry \in {Persons} \cup {Runs(build, q) : q \in Project \ {Here}} : WritesServer(s, entry)
         \/ \E s \in Scope : RemovesServers(s)
         \/ \E s \in Scope : mcpUninstall(s) \/ \E force \in BOOLEAN : mcpInstall(s, force)
<1>1. PersonActs => mcp' = mcp \/ (\E s \in Scope : \E entry \in {Persons} \cup {Runs(build, q) : q \in Project \ {Here}} : WritesServer(s, entry))
  BY DEF PersonActs, WritesLine, WritesHook, Edits, WritesText, DeletesFile, wires
<1>2. InitSteps => mcp' = mcp
  BY DEF InitSteps, BeginsInit, Notes, RemovesStale, Installs, Records, wires
<1>3. UninstallSteps => mcp' = mcp \/ (\E s \in Scope : RemovesServers(s))
  BY DEF UninstallSteps, BeginsUninstall, RemovesHooks, RemovesMirror, TearsRemoval, RemovesLine, ForgetsChain,
     Purges, Unregisters, wires
<1>4. OtherCommands => mcp' = mcp \/ (\E s \in Scope : mcpUninstall(s) \/ \E force \in BOOLEAN : mcpInstall(s, force))
  BY DEF OtherCommands, StatuslineInstall, NotesChain, BeginsUnline, wires
<1>5. MirrorSteps => mcp' = mcp
  BY DEF MirrorSteps, Mirrors, Checks, Refreshes, ReadsAgain, Writes, TearsMirror, Lists, NotesTarget,
     NotesCreated, Dies, wires
<1>6. OthersSteps => mcp' = mcp
  BY DEF OthersSteps, OtherInit, TearsHooks, BreaksOrMends, wires
<1>7. QuietSteps => mcp' = mcp
  BY DEF QuietSteps, MemoryChanges, BuildMoves, MovesOn, Ends, RegistrySteps, vars, wires
<1>. QED BY <1>1, <1>2, <1>3, <1>4, <1>5, <1>6, <1>7 DEF Next, OthersSteps, QuietSteps

\* The steps that touch status lines.
LEMMA LinesMove ==
  ASSUME [Next]_vars
  PROVE  \/ line' = line
         \/ \E p \in Place : WritesLine(p)
         \/ \E p \in Place : RemovesLine(p)
         \/ \E chained \in BOOLEAN : StatuslineInstall(chained)
         \/ \E p \in Place : TearsHooks(p)
<1>1. PersonActs => line' = line \/ (\E p \in Place : WritesLine(p))
  BY DEF PersonActs, WritesHook, WritesServer, Edits, WritesText, DeletesFile, wires
<1>2. InitSteps => line' = line
  BY DEF InitSteps, BeginsInit, Notes, RemovesStale, Installs, Records, wires
<1>3. UninstallSteps => line' = line \/ (\E p \in Place : RemovesLine(p))
  BY DEF UninstallSteps, BeginsUninstall, RemovesHooks, RemovesServers, RemovesMirror, TearsRemoval,
     ForgetsChain, Purges, Unregisters, wires
<1>4. OtherCommands => line' = line \/ (\E chained \in BOOLEAN : StatuslineInstall(chained))
  BY DEF OtherCommands, mcpInstall, mcpUninstall, NotesChain, BeginsUnline, wires
<1>5. MirrorSteps => line' = line
  BY DEF MirrorSteps, Mirrors, Checks, Refreshes, ReadsAgain, Writes, TearsMirror, Lists, NotesTarget,
     NotesCreated, Dies, wires
<1>6. OthersSteps => line' = line \/ (\E p \in Place : TearsHooks(p))
  BY DEF OthersSteps, OtherInit, BreaksOrMends, wires
<1>7. QuietSteps => line' = line
  BY DEF QuietSteps, MemoryChanges, BuildMoves, MovesOn, Ends, RegistrySteps, vars, wires
<1>. QED BY <1>1, <1>2, <1>3, <1>4, <1>5, <1>6, <1>7 DEF Next, OthersSteps, QuietSteps

\* The steps that touch the line --chain took over.
LEMMA ChainMoves ==
  ASSUME [Next]_vars
  PROVE  \/ chain' = chain
         \/ ForgetsChain \/ Purges
         \/ NotesChain
<1>1. PersonActs => chain' = chain
  BY DEF PersonActs, WritesLine, WritesHook, WritesServer, Edits, WritesText, DeletesFile, notes
<1>2. InitSteps => chain' = chain
  BY DEF InitSteps, BeginsInit, Notes, RemovesStale, Installs, Records, notes
<1>3. UninstallSteps => chain' = chain \/ (ForgetsChain \/ Purges)
  BY DEF UninstallSteps, BeginsUninstall, RemovesHooks, RemovesServers, RemovesMirror, TearsRemoval,
     RemovesLine, Unregisters, notes
<1>4. OtherCommands => chain' = chain \/ (NotesChain)
  BY DEF OtherCommands, mcpInstall, mcpUninstall, StatuslineInstall, BeginsUnline, notes
<1>5. MirrorSteps => chain' = chain
  BY DEF MirrorSteps, Mirrors, Checks, Refreshes, ReadsAgain, Writes, TearsMirror, Lists, NotesTarget,
     NotesCreated, Dies, notes
<1>6. OthersSteps => chain' = chain
  BY DEF OthersSteps, OtherInit, TearsHooks, BreaksOrMends, notes
<1>7. QuietSteps => chain' = chain
  BY DEF QuietSteps, MemoryChanges, BuildMoves, MovesOn, Ends, RegistrySteps, vars, notes
<1>. QED BY <1>1, <1>2, <1>3, <1>4, <1>5, <1>6, <1>7 DEF Next, OthersSteps, QuietSteps

\* The steps that touch the command that is recorded.
LEMMA RecordMoves ==
  ASSUME [Next]_vars
  PROVE  \/ recorded' = recorded
         \/ Records
         \/ Purges
<1>1. PersonActs => recorded' = recorded
  BY DEF PersonActs, WritesLine, WritesHook, WritesServer, Edits, WritesText, DeletesFile, notes
<1>2. InitSteps => recorded' = recorded \/ (Records)
  BY DEF InitSteps, BeginsInit, Notes, RemovesStale, Installs, notes
<1>3. UninstallSteps => recorded' = recorded \/ (Purges)
  BY DEF UninstallSteps, BeginsUninstall, RemovesHooks, RemovesServers, RemovesMirror, TearsRemoval,
     RemovesLine, ForgetsChain, Unregisters, notes
<1>4. OtherCommands => recorded' = recorded
  BY DEF OtherCommands, mcpInstall, mcpUninstall, StatuslineInstall, NotesChain, BeginsUnline, notes
<1>5. MirrorSteps => recorded' = recorded
  BY DEF MirrorSteps, Mirrors, Checks, Refreshes, ReadsAgain, Writes, TearsMirror, Lists, NotesTarget,
     NotesCreated, Dies, notes
<1>6. OthersSteps => recorded' = recorded
  BY DEF OthersSteps, OtherInit, TearsHooks, BreaksOrMends, notes
<1>7. QuietSteps => recorded' = recorded
  BY DEF QuietSteps, MemoryChanges, BuildMoves, MovesOn, Ends, RegistrySteps, vars, notes
<1>. QED BY <1>1, <1>2, <1>3, <1>4, <1>5, <1>6, <1>7 DEF Next, OthersSteps, QuietSteps

\* The steps that touch the text of a file.
LEMMA FilesMove ==
  ASSUME [Next]_vars
  PROVE  \/ file' = file
         \/ \E f \in File : Edits(f) \/ DeletesFile(f)
         \/ \E f \in File : RemovesMirror(f) \/ TearsRemoval(f)
         \/ \E w \in Writer : Writes(w) \/ TearsMirror(w)
<1>1. PersonActs => file' = file \/ (\E f \in File : Edits(f) \/ DeletesFile(f))
  BY DEF PersonActs, WritesLine, WritesHook, WritesServer, WritesText, wires
<1>2. InitSteps => file' = file
  BY DEF InitSteps, BeginsInit, Notes, RemovesStale, Installs, Records, wires
<1>3. UninstallSteps => file' = file \/ (\E f \in File : RemovesMirror(f) \/ TearsRemoval(f))
  BY DEF UninstallSteps, BeginsUninstall, RemovesHooks, RemovesServers, RemovesLine, ForgetsChain, Purges,
     Unregisters, wires
<1>4. OtherCommands => file' = file
  BY DEF OtherCommands, mcpInstall, mcpUninstall, StatuslineInstall, NotesChain, BeginsUnline, wires
<1>5. MirrorSteps => file' = file \/ (\E w \in Writer : Writes(w) \/ TearsMirror(w))
  BY DEF MirrorSteps, Mirrors, Checks, Refreshes, ReadsAgain, Lists, NotesTarget, NotesCreated, Dies, wires
<1>6. OthersSteps => file' = file
  BY DEF OthersSteps, OtherInit, TearsHooks, BreaksOrMends, wires
<1>7. QuietSteps => file' = file
  BY DEF QuietSteps, MemoryChanges, BuildMoves, MovesOn, Ends, RegistrySteps, vars, wires
<1>. QED BY <1>1, <1>2, <1>3, <1>4, <1>5, <1>6, <1>7 DEF Next, OthersSteps, QuietSteps

\* The steps that touch what is noted of the mirror.
LEMMA ListsMove ==
  ASSUME [Next]_vars
  PROVE  \/ UNCHANGED <<targets, made, stray>>
         \/ Purges \/ \E f \in File : RemovesMirror(f)
         \/ \E w \in Writer : Writes(w) \/ NotesTarget(w) \/ NotesCreated(w)
<1>1. PersonActs => UNCHANGED <<targets, made, stray>>
  BY DEF PersonActs, WritesLine, WritesHook, WritesServer, Edits, WritesText, DeletesFile, notes, mirrors
<1>2. InitSteps => UNCHANGED <<targets, made, stray>>
  BY DEF InitSteps, BeginsInit, Notes, RemovesStale, Installs, Records, notes, mirrors
<1>3. UninstallSteps => UNCHANGED <<targets, made, stray>> \/ (Purges \/ \E f \in File : RemovesMirror(f))
  BY DEF UninstallSteps, BeginsUninstall, RemovesHooks, RemovesServers, TearsRemoval, RemovesLine, ForgetsChain,
     Unregisters, notes, mirrors
<1>4. OtherCommands => UNCHANGED <<targets, made, stray>>
  BY DEF OtherCommands, mcpInstall, mcpUninstall, StatuslineInstall, NotesChain, BeginsUnline, notes, mirrors
<1>5. MirrorSteps => UNCHANGED <<targets, made, stray>> \/ (\E w \in Writer : Writes(w) \/ NotesTarget(w) \/ NotesCreated(w))
  BY DEF MirrorSteps, Mirrors, Checks, Refreshes, ReadsAgain, TearsMirror, Lists, Dies, notes, mirrors
<1>6. OthersSteps => UNCHANGED <<targets, made, stray>>
  BY DEF OthersSteps, OtherInit, TearsHooks, BreaksOrMends, notes, mirrors
<1>7. QuietSteps => UNCHANGED <<targets, made, stray>>
  BY DEF QuietSteps, MemoryChanges, BuildMoves, MovesOn, Ends, RegistrySteps, vars, notes, mirrors
<1>. QED BY <1>1, <1>2, <1>3, <1>4, <1>5, <1>6, <1>7 DEF Next, OthersSteps, QuietSteps

\* The steps that touch the mirrors being written.
LEMMA WritersMove ==
  ASSUME [Next]_vars
  PROVE  \/ writing' = writing
         \/ Purges
         \/ MirrorSteps
<1>1. PersonActs => writing' = writing
  BY DEF PersonActs, WritesLine, WritesHook, WritesServer, Edits, WritesText, DeletesFile, mirrors
<1>2. InitSteps => writing' = writing
  BY DEF InitSteps, BeginsInit, Notes, RemovesStale, Installs, Records, mirrors
<1>3. UninstallSteps => writing' = writing \/ (Purges)
  BY DEF UninstallSteps, BeginsUninstall, RemovesHooks, RemovesServers, RemovesMirror, TearsRemoval,
     RemovesLine, ForgetsChain, Unregisters, mirrors
<1>4. OtherCommands => writing' = writing
  BY DEF OtherCommands, mcpInstall, mcpUninstall, StatuslineInstall, NotesChain, BeginsUnline, mirrors
<1>6. OthersSteps => writing' = writing
  BY DEF OthersSteps, OtherInit, TearsHooks, BreaksOrMends, mirrors
<1>7. QuietSteps => writing' = writing
  BY DEF QuietSteps, MemoryChanges, BuildMoves, MovesOn, Ends, RegistrySteps, vars, mirrors
<1>. QED BY <1>1, <1>2, <1>3, <1>4, <1>6, <1>7 DEF Next, OthersSteps, QuietSteps

\* The memory and the build change by themselves.
LEMMA WorldMoves ==
  ASSUME [Next]_vars
  PROVE  \/ UNCHANGED <<scene, memory, build>>
         \/ MemoryChanges \/ BuildMoves
<1>1. PersonActs => UNCHANGED <<scene, memory, build>>
  BY DEF PersonActs, WritesLine, WritesHook, WritesServer, Edits, WritesText, DeletesFile, world
<1>2. InitSteps => UNCHANGED <<scene, memory, build>>
  BY DEF InitSteps, BeginsInit, Notes, RemovesStale, Installs, Records, world
<1>3. UninstallSteps => UNCHANGED <<scene, memory, build>>
  BY DEF UninstallSteps, BeginsUninstall, RemovesHooks, RemovesServers, RemovesMirror, TearsRemoval,
     RemovesLine, ForgetsChain, Purges, Unregisters, world
<1>4. OtherCommands => UNCHANGED <<scene, memory, build>>
  BY DEF OtherCommands, mcpInstall, mcpUninstall, StatuslineInstall, NotesChain, BeginsUnline, world
<1>5. MirrorSteps => UNCHANGED <<scene, memory, build>>
  BY DEF MirrorSteps, Mirrors, Checks, Refreshes, ReadsAgain, Writes, TearsMirror, Lists, NotesTarget,
     NotesCreated, Dies, world
<1>6. OthersSteps => UNCHANGED <<scene, memory, build>>
  BY DEF OthersSteps, OtherInit, TearsHooks, BreaksOrMends, world
<1>7. QuietSteps => UNCHANGED <<scene, memory, build>> \/ (MemoryChanges \/ BuildMoves)
  BY DEF QuietSteps, MovesOn, Ends, RegistrySteps, vars, world
<1>. QED BY <1>1, <1>2, <1>3, <1>4, <1>5, <1>6, <1>7 DEF Next, OthersSteps, QuietSteps

\* The steps that touch the list of projects.
LEMMA RegistryMoves ==
  ASSUME [Next]_vars
  PROVE  \/ UNCHANGED <<listed, rewriting>>
         \/ Notes
         \/ Unregisters
         \/ RegistrySteps
<1>1. PersonActs => UNCHANGED <<listed, rewriting>>
  BY DEF PersonActs, WritesLine, WritesHook, WritesServer, Edits, WritesText, DeletesFile, registryVars
<1>2. InitSteps => UNCHANGED <<listed, rewriting>> \/ (Notes)
  BY DEF InitSteps, BeginsInit, RemovesStale, Installs, Records, registryVars
<1>3. UninstallSteps => UNCHANGED <<listed, rewriting>> \/ (Unregisters)
  BY DEF UninstallSteps, BeginsUninstall, RemovesHooks, RemovesServers, RemovesMirror, TearsRemoval,
     RemovesLine, ForgetsChain, Purges, registryVars
<1>4. OtherCommands => UNCHANGED <<listed, rewriting>>
  BY DEF OtherCommands, mcpInstall, mcpUninstall, StatuslineInstall, NotesChain, BeginsUnline, registryVars
<1>5. MirrorSteps => UNCHANGED <<listed, rewriting>>
  BY DEF MirrorSteps, Mirrors, Checks, Refreshes, ReadsAgain, Writes, TearsMirror, Lists, NotesTarget,
     NotesCreated, Dies, registryVars
<1>6. OthersSteps => UNCHANGED <<listed, rewriting>>
  BY DEF OthersSteps, OtherInit, TearsHooks, BreaksOrMends, registryVars
<1>7. QuietSteps => UNCHANGED <<listed, rewriting>> \/ (RegistrySteps)
  BY DEF QuietSteps, MemoryChanges, BuildMoves, MovesOn, Ends, vars, registryVars
<1>. QED BY <1>1, <1>2, <1>3, <1>4, <1>5, <1>6, <1>7 DEF Next, OthersSteps, QuietSteps

\* The steps of a command.
LEMMA CommandsMove ==
  ASSUME [Next]_vars
  PROVE  \/ cli' = cli
         \/ InitSteps
         \/ UninstallSteps
         \/ MovesOn \/ Ends
         \/ NotesChain \/ BeginsUnline \/ \E chained \in BOOLEAN : StatuslineInstall(chained)
         \/ \E p \in Place : TearsHooks(p)
<1>1. PersonActs => cli' = cli
  BY DEF PersonActs, WritesLine, WritesHook, WritesServer, Edits, WritesText, DeletesFile
<1>4. OtherCommands => cli' = cli \/ (NotesChain \/ BeginsUnline \/ \E chained \in BOOLEAN : StatuslineInstall(chained))
  BY DEF OtherCommands, mcpInstall, mcpUninstall
<1>5. MirrorSteps => cli' = cli
  BY DEF MirrorSteps, Mirrors, Checks, Refreshes, ReadsAgain, Writes, TearsMirror, Lists, NotesTarget,
     NotesCreated, Dies
<1>6. OthersSteps => cli' = cli \/ (\E p \in Place : TearsHooks(p))
  BY DEF OthersSteps, OtherInit, BreaksOrMends
<1>7. QuietSteps => cli' = cli \/ (MovesOn \/ Ends)
  BY DEF QuietSteps, MemoryChanges, BuildMoves, RegistrySteps, vars
<1>. QED BY <1>1, <1>4, <1>5, <1>6, <1>7 DEF Next, OthersSteps, QuietSteps

-----------------------------------------------------------------------------
(* The registry. *)

\* A rewrite loses nobody it read but those it was asked to drop.
RegistryInv ==
  /\ listed \subseteq Project
  /\ rewriting \in [Project -> Rewrite \cup {None}]
  /\ \A p \in Project : rewriting[p] # None => rewriting[p].read \ rewriting[p].forgets \subseteq rewriting[p].text

\* The only step that touches the list is the rename of a rewrite.
LosesOnlyWhatItDrops ==
  \A q \in listed \ listed' : \E p \in Project :
    Renames(p) /\ (q \in rewriting[p].forgets \/ q \notin rewriting[p].read)

\* Nothing is listed and nobody rewrites at first.
LEMMA RegistryInvInit == Init => RegistryInv
BY DEF Init, RegistryInit, RegistryInv

\* A rewrite that begins has read the list as it is.
LEMMA RewriteBegins ==
  ASSUME RegistryInv, NEW p \in Project, NEW text \in SUBSET Project, NEW forgets \in SUBSET Project,
         Rewrites(p, text, forgets), listed \ forgets \subseteq text
  PROVE  RegistryInv' /\ listed' = listed
<1> DEFINE begun == [read |-> listed, text |-> text, forgets |-> forgets, step |-> "computed"]
<1>1. begun \in Rewrite
  BY DEF Rewrite, RegistryInv
<1>2. listed' = listed /\ (rewriting' = rewriting \/ rewriting' = [rewriting EXCEPT ![p] = begun])
  BY DEF Rewrites
<1>3. begun.read \ begun.forgets \subseteq begun.text
  OBVIOUS
<1>. HIDE DEF begun
<1>. QED BY <1>1, <1>2, <1>3 DEF RegistryInv

\* A project noted or dropped by its own command, or by a `projects` command.
LEMMA RegistryCommands ==
  ASSUME RegistryInv, NEW p \in Project,
         \/ registerProject(p) \/ unregisterProject(p)
         \/ \E keep \in SUBSET Project : filterRegistry(p, keep)
         \/ Prunes(p)
  PROVE  RegistryInv' /\ listed' = listed
<1>1. CASE registerProject(p)
  <2>1. PICK text, forgets : text = listed \cup {p} /\ forgets = {}
    OBVIOUS
  <2>2. text \in SUBSET Project /\ forgets \in SUBSET Project /\ listed \ forgets \subseteq text
    BY <2>1 DEF RegistryInv
  <2>. QED BY <1>1, <2>1, <2>2, RewriteBegins DEF registerProject
<1>2. CASE unregisterProject(p)
  BY <1>2, RewriteBegins DEF unregisterProject, RegistryInv
<1>3. ASSUME NEW keep, filterRegistry(p, keep)
      PROVE  RegistryInv' /\ listed' = listed
  <2>1. PICK text, forgets : text = listed \cap keep /\ forgets = Project \ keep
    OBVIOUS
  <2>2. text \in SUBSET Project /\ forgets \in SUBSET Project /\ listed \ forgets \subseteq text
    BY <2>1 DEF RegistryInv
  <2>. QED BY <1>3, <2>1, <2>2, RewriteBegins DEF filterRegistry
<1>. QED BY <1>1, <1>2, <1>3 DEF Prunes

\* One step of the registry, of any process.
LEMMA RegistryStep ==
  ASSUME RegistryInv, RegistryNext
  PROVE  RegistryInv' /\ LosesOnlyWhatItDrops
<1>1. PICK p \in Project :
        \/ registerProject(p) \/ (\E q \in Project : Removes(p, q)) \/ Prunes(p) \/ Clears(p)
        \/ WritesAside(p) \/ Renames(p) \/ DiesRewriting(p) \/ MemoryComesOrGoes(p)
  BY DEF RegistryNext
<1>2. CASE registerProject(p) \/ (\E q \in Project : Removes(p, q)) \/ Prunes(p) \/ Clears(p)
  BY <1>2, RegistryCommands DEF Removes, Clears, LosesOnlyWhatItDrops
<1>3. CASE WritesAside(p)
  <2>1. rewriting[p] \in Rewrite
    BY <1>3 DEF RegistryInv, WritesAside
  <2>2. PICK aside : aside = [rewriting[p] EXCEPT !.step = "written"]
    OBVIOUS
  <2>3. /\ aside \in Rewrite /\ aside.read = rewriting[p].read /\ aside.text = rewriting[p].text
        /\ aside.forgets = rewriting[p].forgets
    BY <2>1, <2>2 DEF Rewrite
  <2>4. rewriting' = [rewriting EXCEPT ![p] = aside] /\ listed' = listed
    BY <1>3, <2>2 DEF WritesAside
  <2>. QED BY <1>3, <2>3, <2>4 DEF RegistryInv, LosesOnlyWhatItDrops, WritesAside
<1>4. CASE Renames(p)
  <2>1. rewriting[p] \in Rewrite /\ rewriting[p].read \ rewriting[p].forgets \subseteq rewriting[p].text
    BY <1>4 DEF RegistryInv, Renames
  <2>2. listed' = rewriting[p].text /\ rewriting' = [rewriting EXCEPT ![p] = None]
    BY <1>4 DEF Renames
  <2>3. RegistryInv'
    BY <2>1, <2>2 DEF RegistryInv, Rewrite
  <2>4. \A q \in listed \ listed' : q \in rewriting[p].forgets \/ q \notin rewriting[p].read
    BY <2>1, <2>2
  <2>. QED BY <1>4, <2>3, <2>4 DEF LosesOnlyWhatItDrops
<1>5. CASE DiesRewriting(p)
  BY <1>5 DEF DiesRewriting, RegistryInv, LosesOnlyWhatItDrops
<1>6. CASE MemoryComesOrGoes(p)
  BY <1>6 DEF MemoryComesOrGoes, RegistryInv, LosesOnlyWhatItDrops
<1>. QED BY <1>1, <1>2, <1>3, <1>4, <1>5, <1>6

\* A step that leaves the list alone loses nobody.
LEMMA ListStep ==
  ASSUME RegistryInv, [Next]_vars
  PROVE  RegistryInv' /\ LosesOnlyWhatItDrops
<1>1. CASE RegistrySteps
  BY <1>1, RegistryStep DEF RegistrySteps
<1>2. CASE Notes \/ Unregisters
  <2>1. registerProject(Here) \/ unregisterProject(Here) \/ UNCHANGED <<listed, rewriting>>
    BY <1>2 DEF Notes, Unregisters, registryVars
  <2>2. CASE registerProject(Here) \/ unregisterProject(Here)
    BY <2>2, RegistryCommands, WiringAssumption DEF LosesOnlyWhatItDrops
  <2>. QED BY <2>1, <2>2 DEF RegistryInv, LosesOnlyWhatItDrops
<1>3. CASE UNCHANGED <<listed, rewriting>>
  BY <1>3 DEF RegistryInv, LosesOnlyWhatItDrops
<1>. QED BY <1>1, <1>2, <1>3, RegistryMoves

\* However many projects' commands read, change and write the list back at once and
\* whichever of them die, a project leaves it only by a whole rewrite that was asked
\* to drop it or had read the list before it was in it.
THEOREM NobodyIsUnlisted == Spec => OthersStayListed
<1>1. RegistryInv /\ [Next]_vars => RegistryInv'
  BY ListStep
<1>2. RegistryInv /\ [Next]_vars => [LosesOnlyWhatItDrops]_registryVars
  BY ListStep
<1>3. Spec => [][LosesOnlyWhatItDrops]_registryVars
  BY <1>1, <1>2, RegistryInvInit, PTL DEF Spec
<1>. QED BY <1>3 DEF OthersStayListed, LosesOnlyWhatItDrops

-----------------------------------------------------------------------------
(* A command in progress. *)

\* What it remembers, and the steps it goes through.
CommandStep ==
  {"note", "stale", "install", "record", "hooks", "servers", "mirrors", "line", "chain",
   "forget", "purge", "unregister", "done"}
Remembering ==
  [does : {"nothing", "init", "uninstall", "purge", "line", "unline"}, step : CommandStep,
   build : Build \cup {None}, at : Place \cup {None}, recorded : Command \cup {Nothing},
   files : SUBSET File, made : SUBSET File, left : SUBSET (Place \cup Scope \cup File),
   replaced : [at : Place \cup {None}, was : Command \cup {Nothing}], skipped : SUBSET Config]

InitStep == {"note", "stale", "install", "record", "done"}
UninstallingStep == {"hooks", "servers", "mirrors", "line", "forget", "purge", "unregister", "done"}
StepsOf(does) ==
  IF does = "nothing" THEN {"done"} ELSE IF does = "init" THEN InitStep
  ELSE IF does = "line" THEN {"chain", "done"} ELSE IF does = "unline" THEN {"line", "forget", "done"}
  ELSE UninstallingStep

CommandTyped ==
  /\ cli \in Remembering
  /\ cli.step \in StepsOf(cli.does)
  /\ cli.does = "init" => cli.at \in Place

\* What is installed and noted.
Typed ==
  /\ hooks \in [Place -> [Event -> SUBSET Command]]
  /\ line \in [Place -> Command \cup {Nothing}]
  /\ chain \in [at : Place \cup {None}, was : Command \cup {Nothing}]
  /\ recorded \in Command \cup {Nothing}
  /\ targets \subseteq File /\ made \subseteq File
  /\ build \in Build /\ memory \in Memory
  /\ CommandTyped

\* The files a command has gone past, of those a step of it goes through.
Past(whose, step, later, all) ==
  IF cli.does \notin whose THEN {}
  ELSE IF cli.step = step THEN all \ cli.left ELSE IF cli.step \in later THEN all ELSE {}
AfterLines == {"forget", "purge", "unregister", "done"}
PastStale == Past({"init"}, "stale", {"install", "record", "done"}, Place)
PastHooks == Past({"uninstall", "purge"}, "hooks", {"servers", "mirrors", "line"} \cup AfterLines, Place)
PastServers == Past({"uninstall", "purge"}, "servers", {"mirrors", "line"} \cup AfterLines, Scope)
PastLines == Past({"uninstall", "purge", "unline"}, "line", AfterLines, Place)
\* Files with a block an uninstall has yet to go to.
Pending ==
  IF cli.step \in {"hooks", "servers"} THEN cli.files ELSE IF cli.step = "mirrors" THEN cli.left ELSE {}

SameCommand ==
  /\ cli'.does = cli.does /\ cli'.build = cli.build /\ cli'.at = cli.at /\ cli'.recorded = cli.recorded
  /\ cli'.files = cli.files /\ cli'.made = cli.made /\ cli'.replaced = cli.replaced
  /\ cli.skipped \subseteq cli'.skipped

\* A step that hands over to the next one.
LEMMA StepsTo ==
  ASSUME CommandTyped, NEW step, NEW next \in CommandStep, Steps(step, next)
  PROVE  /\ cli' \in Remembering /\ SameCommand
         /\ cli.step = step /\ cli'.step = next /\ cli'.left = Left(next) /\ cli'.skipped = cli.skipped
<1>1. Left(next) \in SUBSET (Place \cup Scope \cup File)
  BY DEF Left, CommandTyped, Remembering
<1>2. cli' = [cli EXCEPT !.step = next, !.left = Left(next)] /\ cli.step = step
  BY DEF Steps
<1>. QED BY <1>1, <1>2 DEF CommandTyped, Remembering, SameCommand

\* One file of a step.
LEMMA HandlesOne ==
  ASSUME CommandTyped, NEW step, NEW x, NEW unread \in SUBSET Config, Handles(step, x, unread)
  PROVE  /\ cli' \in Remembering /\ SameCommand
         /\ cli.step = step /\ cli'.step = step /\ x \in cli.left /\ cli'.left = cli.left \ {x}
         /\ cli'.skipped = cli.skipped \cup unread
<1>1. cli' = [cli EXCEPT !.left = cli.left \ {x}, !.skipped = cli.skipped \cup unread] /\ cli.step = step /\ x \in cli.left
  BY DEF Handles
<1>. QED BY <1>1 DEF CommandTyped, Remembering, SameCommand

\* A settings file that is emptied: the command may have been the one that did it, or
\* has not looked at it since.
LEMMA TearsOne ==
  ASSUME CommandTyped, NEW p \in Place, TearsHooks(p)
  PROVE  \/ cli' = Idle
         \/ /\ cli' \in Remembering /\ SameCommand
            /\ cli'.step = cli.step /\ cli'.left = cli.left
            /\ cli'.skipped = cli.skipped \cup {p}
<1>1. \/ cli' = Idle
      \/ cli' = [cli EXCEPT !.skipped = cli.skipped \cup {p}]
  BY DEF TearsHooks
<1>2. p \in Config
  BY DEF Config
<1>. QED BY <1>1, <1>2 DEF CommandTyped, Remembering, SameCommand

\* No command in progress, and the commands that begin.
LEMMA IdleIs ==
  /\ Idle \in Remembering /\ Idle.does = "nothing" /\ Idle.step = "done" /\ Idle.recorded = Nothing
  /\ Idle.skipped = {}
BY DEF Idle, Remembering, Nothing, NoChain, CommandStep

\* A command that begins remembers what it has read, and is before its first file.
LEMMA Begin ==
  ASSUME Typed
  PROVE  /\ \A p \in Place : BeginsInit(p) =>
              /\ cli' \in Remembering /\ cli'.does = "init" /\ cli'.step = "note" /\ cli'.at = p
              /\ cli'.recorded = recorded /\ cli'.skipped = {}
         /\ \A does \in {"uninstall", "purge"} : BeginsUninstall(does) =>
              /\ cli' \in Remembering /\ cli'.does = does /\ cli'.step = "hooks" /\ cli'.left = Place
              /\ cli'.recorded = recorded /\ cli'.files = targets \cup Declared
         /\ BeginsUnline =>
              /\ cli' \in Remembering /\ cli'.does = "unline" /\ cli'.step = "line" /\ cli'.left = Place
              /\ cli'.recorded = Nothing
<1>1. ASSUME NEW p \in Place, BeginsInit(p)
      PROVE  /\ cli' \in Remembering /\ cli'.does = "init" /\ cli'.step = "note" /\ cli'.at = p
             /\ cli'.recorded = recorded /\ cli'.skipped = {}
  <2>1. cli' = [Idle EXCEPT !.does = "init", !.step = "note", !.build = build, !.at = p, !.recorded = recorded]
    BY <1>1 DEF BeginsInit
  <2>. QED BY <2>1, IdleIs DEF Remembering, Typed, CommandStep
<1>2. ASSUME NEW does \in {"uninstall", "purge"}, BeginsUninstall(does)
      PROVE  /\ cli' \in Remembering /\ cli'.does = does /\ cli'.step = "hooks" /\ cli'.left = Place
             /\ cli'.recorded = recorded /\ cli'.files = targets \cup Declared
  <2>1. cli' = [Idle EXCEPT !.does = does, !.step = "hooks", !.recorded = recorded,
                            !.files = targets \cup Declared, !.made = made, !.left = Place]
    BY <1>2 DEF BeginsUninstall
  <2>2. targets \cup Declared \in SUBSET File /\ made \in SUBSET File /\ Place \in SUBSET (Place \cup Scope \cup File)
    BY WiringAssumption DEF Typed
  <2>. QED BY <2>1, <2>2, IdleIs DEF Remembering, Typed, CommandStep
<1>3. ASSUME BeginsUnline
      PROVE  /\ cli' \in Remembering /\ cli'.does = "unline" /\ cli'.step = "line" /\ cli'.left = Place
             /\ cli'.recorded = Nothing
  <2>1. cli' = [Idle EXCEPT !.does = "unline", !.step = "line", !.left = Place]
    BY <1>3 DEF BeginsUnline
  <2>. QED BY <2>1, IdleIs DEF Remembering, CommandStep
<1>. QED BY <1>1, <1>2, <1>3

\* `statusline install`, once it has written a line of ours.
LEMMA Lines ==
  ASSUME Typed, NEW chained, StatuslineInstall(chained)
  PROVE  /\ cli = Idle
         /\ \/ installed = NoChain /\ cli' = Idle
            \/ /\ installed # NoChain /\ cli' \in Remembering
               /\ cli'.does = "line" /\ cli'.step = "chain" /\ cli'.recorded = Nothing /\ cli'.replaced = installed
<1>1. \/ installed = NoChain /\ cli' = Idle
      \/ /\ installed # NoChain
         /\ cli' = [Idle EXCEPT !.does = "line", !.step = "chain", !.replaced = installed]
  BY DEF StatuslineInstall
<1>2. installed \in [at : Place \cup {None}, was : Command \cup {Nothing}]
  BY DEF installed, NoChain, Typed, Place
<1>. QED BY <1>1, <1>2, IdleIs DEF StatuslineInstall, Remembering, CommandStep

\* A command in progress goes past a file by the step that handles it, and puts nothing
\* off it has gone past.
GoesOn ==
  /\ cli' \in Remembering /\ SameCommand
  /\ cli'.step \in StepsOf(cli.does)
  /\ PastStale' \subseteq PastStale \/ \E p \in Place : RemovesStale(p) /\ PastStale' \subseteq PastStale \cup {p}
  /\ PastHooks' \subseteq PastHooks \/ \E p \in Place : RemovesHooks(p) /\ PastHooks' \subseteq PastHooks \cup {p}
  /\ PastServers' \subseteq PastServers
     \/ \E s \in Scope : RemovesServers(s) /\ PastServers' \subseteq PastServers \cup {s}
  /\ PastLines' \subseteq PastLines \/ \E p \in Place : RemovesLine(p) /\ PastLines' \subseteq PastLines \cup {p}
  /\ Pending \subseteq Pending' \/ \E f \in File : RemovesMirror(f) /\ Pending \subseteq Pending' \cup {f}
  /\ cli'.step = "chain" => cli.step = "chain"
  /\ cli.does = "init" /\ cli'.step \in {"record", "done"} => cli.step \in {"record", "done"} \/ Installs

\* A step that hands over to the next goes past no file on the way.
LEMMA StepsGoOn ==
  ASSUME CommandTyped, NEW step, NEW next \in CommandStep, Steps(step, next),
         \/ <<step, next>> \in {<<"note", "stale">>, <<"record", "done">>, <<"forget", "done">>,
                                <<"purge", "unregister">>, <<"unregister", "done">>, <<"chain", "done">>}
         \/ /\ cli.left = {}
            /\ \/ <<step, next>> \in {<<"stale", "install">>, <<"hooks", "servers">>, <<"servers", "mirrors">>,
                                      <<"mirrors", "line">>}
               \/ step = "line" /\ next = IF cli.does = "purge" THEN "purge" ELSE "forget"
  PROVE  GoesOn
<1>1. /\ cli' \in Remembering /\ SameCommand
      /\ cli.step = step /\ cli'.step = next /\ cli'.left = Left(next)
  BY StepsTo
<1>2. cli.does \in {"nothing", "init", "uninstall", "purge", "line", "unline"} /\ step \in StepsOf(cli.does)
  BY <1>1 DEF CommandTyped, Remembering
<1>3. next \in StepsOf(cli.does) /\ (next = "chain" => step = "chain")
  BY <1>2 DEF StepsOf, InitStep, UninstallingStep
<1>4. PastStale' \subseteq PastStale
  BY <1>1, <1>2 DEF PastStale, Past, SameCommand, StepsOf, InitStep, UninstallingStep, Left
<1>5. PastHooks' \subseteq PastHooks
  BY <1>1, <1>2 DEF PastHooks, Past, AfterLines, SameCommand, StepsOf, InitStep, UninstallingStep, Left
<1>6. PastServers' \subseteq PastServers
  BY <1>1, <1>2 DEF PastServers, Past, AfterLines, SameCommand, StepsOf, InitStep, UninstallingStep, Left
<1>7. PastLines' \subseteq PastLines
  BY <1>1, <1>2 DEF PastLines, Past, AfterLines, SameCommand, StepsOf, InitStep, UninstallingStep, Left
<1>8. Pending \subseteq Pending'
  BY <1>1 DEF Pending, SameCommand, Left
<1>9. cli.does = "init" /\ next \in {"record", "done"} => step \in {"record", "done"}
  BY <1>2 DEF StepsOf, InitStep, UninstallingStep
<1>. QED BY <1>1, <1>3, <1>4, <1>5, <1>6, <1>7, <1>8, <1>9 DEF GoesOn

\* A file that is handled is the one the command goes past.
LEMMA FilesGoOn ==
  ASSUME CommandTyped, NEW x,
         \/ x \in Place /\ (RemovesStale(x) \/ RemovesHooks(x) \/ RemovesLine(x))
         \/ x \in Scope /\ RemovesServers(x)
         \/ x \in File /\ RemovesMirror(x)
  PROVE  GoesOn
<1>1. PICK step \in {"stale", "hooks", "servers", "mirrors", "line"}, unread \in SUBSET Config :
        /\ Handles(step, x, unread)
        /\ step = "stale" => x \in Place /\ RemovesStale(x)
        /\ step = "hooks" => x \in Place /\ RemovesHooks(x)
        /\ step = "servers" => x \in Scope /\ RemovesServers(x)
        /\ step = "mirrors" => x \in File /\ RemovesMirror(x)
        /\ step = "line" => x \in Place /\ RemovesLine(x)
  <2>1. CASE x \in Place /\ RemovesStale(x)
    <3>1. Handles("stale", x, {x} \cap broken) /\ {x} \cap broken \in SUBSET Config
      BY <2>1 DEF RemovesStale, Config
    <3>. QED BY <2>1, <3>1
  <2>2. CASE x \in Place /\ RemovesHooks(x)
    <3>1. Handles("hooks", x, {x} \cap broken) /\ {x} \cap broken \in SUBSET Config
      BY <2>2 DEF RemovesHooks, Config
    <3>. QED BY <2>2, <3>1
  <2>3. CASE x \in Place /\ RemovesLine(x)
    <3>1. Handles("line", x, {}) /\ {} \in SUBSET Config
      BY <2>3 DEF RemovesLine
    <3>. QED BY <2>3, <3>1
  <2>4. CASE x \in Scope /\ RemovesServers(x)
    <3>1. Handles("servers", x, {fileFor(x)} \cap broken) /\ {fileFor(x)} \cap broken \in SUBSET Config
      BY <2>4 DEF RemovesServers, Config
    <3>. QED BY <2>4, <3>1
  <2>5. CASE x \in File /\ RemovesMirror(x)
    <3>1. Handles("mirrors", x, {}) /\ {} \in SUBSET Config
      BY <2>5 DEF RemovesMirror
    <3>. QED BY <2>5, <3>1
  <2>. QED BY <2>1, <2>2, <2>3, <2>4, <2>5
<1>2. /\ cli' \in Remembering /\ SameCommand
      /\ cli.step = step /\ cli'.step = step /\ x \in cli.left /\ cli'.left = cli.left \ {x}
  BY <1>1, HandlesOne
<1>3. step \in StepsOf(cli.does)
  BY <1>2 DEF CommandTyped
<1>4. PastStale' \subseteq PastStale \/ (step = "stale" /\ PastStale' \subseteq PastStale \cup {x})
  BY <1>2 DEF PastStale, Past, SameCommand
<1>5. PastHooks' \subseteq PastHooks \/ (step = "hooks" /\ PastHooks' \subseteq PastHooks \cup {x})
  BY <1>2 DEF PastHooks, Past, AfterLines, SameCommand
<1>6. PastServers' \subseteq PastServers \/ (step = "servers" /\ PastServers' \subseteq PastServers \cup {x})
  BY <1>2 DEF PastServers, Past, AfterLines, SameCommand
<1>7. PastLines' \subseteq PastLines \/ (step = "line" /\ PastLines' \subseteq PastLines \cup {x})
  BY <1>2 DEF PastLines, Past, AfterLines, SameCommand
<1>8. Pending \subseteq Pending' \/ (step = "mirrors" /\ Pending \subseteq Pending' \cup {x})
  BY <1>2 DEF Pending, SameCommand
<1>9. step \notin {"chain", "record", "done"}
  OBVIOUS
<1>. QED BY <1>1, <1>2, <1>3, <1>4, <1>5, <1>6, <1>7, <1>8, <1>9 DEF GoesOn

\* A command that is where it was.
LEMMA StaysGoOn ==
  ASSUME CommandTyped, cli' \in Remembering, SameCommand, cli'.step = cli.step, cli'.left = cli.left
  PROVE  GoesOn
<1>1. PastStale' = PastStale /\ PastHooks' = PastHooks /\ PastServers' = PastServers /\ PastLines' = PastLines
  BY DEF PastStale, PastHooks, PastServers, PastLines, Past, SameCommand
<1>2. Pending' = Pending
  BY DEF Pending, SameCommand
<1>. QED BY <1>1, <1>2 DEF GoesOn, CommandTyped

\* Whatever happens, the command goes on, or it is over, or another one begins.
LEMMA CommandGoes ==
  ASSUME Typed, [Next]_vars
  PROVE  \/ GoesOn
         \/ cli' = Idle
         \/ \E p \in Place : BeginsInit(p)
         \/ \E does \in {"uninstall", "purge"} : BeginsUninstall(does)
         \/ BeginsUnline
         \/ \E chained \in BOOLEAN : StatuslineInstall(chained)
<1>0. CommandTyped
  BY DEF Typed
<1>1. CASE cli' = cli
  <2>1. cli' \in Remembering /\ SameCommand /\ cli'.step = cli.step /\ cli'.left = cli.left
    BY <1>0, <1>1 DEF SameCommand, CommandTyped
  <2>. QED BY <1>0, <2>1, StaysGoOn
<1>2. ASSUME NEW p \in Place, TearsHooks(p)
      PROVE  GoesOn \/ cli' = Idle
  BY <1>0, <1>2, TearsOne, StaysGoOn
<1>3. CASE Notes \/ Records \/ ForgetsChain \/ Purges \/ Unregisters \/ NotesChain
  <2>1. PICK step, next \in CommandStep :
          /\ Steps(step, next)
          /\ <<step, next>> \in {<<"note", "stale">>, <<"record", "done">>, <<"forget", "done">>,
                                 <<"purge", "unregister">>, <<"unregister", "done">>, <<"chain", "done">>}
    <3>1. {"note", "stale", "record", "done", "forget", "purge", "unregister", "chain"} \subseteq CommandStep
      BY DEF CommandStep
    <3>2. \/ Steps("note", "stale") \/ Steps("record", "done") \/ Steps("forget", "done")
          \/ Steps("purge", "unregister") \/ Steps("unregister", "done") \/ Steps("chain", "done")
      BY <1>3 DEF Notes, Records, ForgetsChain, Purges, Unregisters, NotesChain
    <3>. QED BY <3>1, <3>2
  <2>. QED BY <1>0, <2>1, StepsGoOn
<1>4. CASE MovesOn
  <2>1. PICK step, next :
          /\ step = cli.step /\ next = Following(step) /\ Steps(step, next) /\ cli.left = {}
          /\ step \in {"stale", "hooks", "servers", "mirrors", "line"}
    BY <1>4 DEF MovesOn
  <2>2. /\ next \in CommandStep
        /\ \/ <<step, next>> \in {<<"stale", "install">>, <<"hooks", "servers">>, <<"servers", "mirrors">>,
                                  <<"mirrors", "line">>}
           \/ step = "line" /\ next = IF cli.does = "purge" THEN "purge" ELSE "forget"
    BY <2>1 DEF Following, CommandStep
  <2>. QED BY <1>0, <2>1, <2>2, StepsGoOn
<1>5. CASE Installs
  <2>1. cli' = Idle \/ (cli.step = "install" /\ cli' = [cli EXCEPT !.step = "record"])
    BY <1>5 DEF Installs
  <2>2. CASE cli.step = "install" /\ cli' = [cli EXCEPT !.step = "record"]
    <3>1. cli' \in Remembering /\ SameCommand /\ cli'.step = "record" /\ cli.step = "install"
      BY <1>0, <2>2 DEF CommandTyped, Remembering, SameCommand, CommandStep
    <3>2. cli.does = "init" /\ cli'.does = "init" /\ "record" \in StepsOf(cli.does)
      BY <1>0, <3>1 DEF CommandTyped, Remembering, StepsOf, InitStep, UninstallingStep, SameCommand
    <3>3. PastStale' \subseteq PastStale /\ PastHooks' = {} /\ PastServers' = {} /\ PastLines' = {} /\ Pending = {}
      BY <3>1, <3>2 DEF PastStale, PastHooks, PastServers, PastLines, Past, Pending
    <3>. QED BY <1>5, <3>1, <3>2, <3>3 DEF GoesOn
  <2>. QED BY <2>1, <2>2
<1>6. ASSUME NEW f \in File, TearsRemoval(f)
      PROVE  cli' = Idle
  BY <1>6 DEF TearsRemoval
<1>7. CASE Ends
  BY <1>7 DEF Ends
<1>8. CASE InitSteps
  BY <1>0, <1>3, <1>5, <1>8, FilesGoOn DEF InitSteps
<1>9. CASE UninstallSteps
  <2>1. \/ \E does \in {"uninstall", "purge"} : BeginsUninstall(does)
        \/ \E p \in Place : RemovesHooks(p) \/ RemovesLine(p)
        \/ \E s \in Scope : RemovesServers(s)
        \/ \E f \in File : RemovesMirror(f) \/ TearsRemoval(f)
        \/ ForgetsChain \/ Purges \/ Unregisters
    BY <1>9 DEF UninstallSteps
  <2>. QED BY <1>0, <1>3, <1>6, <2>1, FilesGoOn
<1>. QED BY <1>1, <1>2, <1>3, <1>4, <1>7, <1>8, <1>9, CommandsMove

\* What it remembers keeps its type.
LEMMA CommandStays ==
  ASSUME Typed, [Next]_vars
  PROVE  CommandTyped'
<1>1. CASE GoesOn
  BY <1>1 DEF GoesOn, SameCommand, CommandTyped, Typed
<1>2. CASE cli' = Idle
  BY <1>2, IdleIs DEF CommandTyped, StepsOf
<1>3. ASSUME NEW p \in Place, BeginsInit(p)
      PROVE  CommandTyped'
  BY <1>3, Begin DEF CommandTyped, StepsOf, InitStep
<1>4. ASSUME NEW does \in {"uninstall", "purge"}, BeginsUninstall(does)
      PROVE  CommandTyped'
  BY <1>4, Begin DEF CommandTyped, StepsOf, UninstallingStep
<1>5. CASE BeginsUnline
  BY <1>5, Begin DEF CommandTyped, StepsOf
<1>6. ASSUME NEW chained, StatuslineInstall(chained)
      PROVE  CommandTyped'
  BY <1>2, <1>6, Lines DEF CommandTyped, StepsOf
<1>. QED BY <1>1, <1>2, <1>3, <1>4, <1>5, <1>6, CommandGoes

-----------------------------------------------------------------------------
(* Texts with a block of ours. *)

\* What the mirror and people make of a text: a start marker begins a body, the one end
\* marker there may be ends one, and no marker comes after it.  Where there is a start
\* marker, one of them is the first.
Begun(text) == \A i \in 1 .. Len(text) : text[i] = Start => i < Len(text) /\ text[i + 1] \in Memory
Closed(text) ==
  \A j \in 1 .. Len(text) : text[j] = End =>
    /\ j > 2 /\ text[j - 2] = Start
    /\ \A i \in 1 .. Len(text) : text[i] \in {Start, End} => i <= j
HasFirst(text) ==
  \A i \in 1 .. Len(text) : text[i] = Start =>
    \E k \in 1 .. Len(text) : text[k] = Start /\ \A m \in 1 .. Len(text) : text[m] = Start => m >= k
TextOK(text) == text \in Seq(Piece) /\ Begun(text) /\ Closed(text) /\ HasFirst(text)
Unmarked(text) == \A i \in 1 .. Len(text) : text[i] \notin {Start, End}

\* The kinds of pieces are told apart.
LEMMA Pieces ==
  /\ Start # End /\ Start # Frontmatter /\ End # Frontmatter
  /\ Memory \cap {Start, End, Frontmatter} = {} /\ Passage \cap {Start, End, Frontmatter} = {}
  /\ Memory \cap Passage = {}
  /\ Memory \subseteq Piece /\ Passage \subseteq Piece /\ {Start, End, Frontmatter} \subseteq Piece
BY WiringAssumption DEF Start, End, Frontmatter, Piece

\* Two texts one after the other, piece by piece.
LEMMA Joined ==
  ASSUME NEW a \in Seq(Piece), NEW b \in Seq(Piece)
  PROVE  /\ a \o b \in Seq(Piece) /\ Len(a \o b) = Len(a) + Len(b)
         /\ \A m \in 1 .. Len(a) : (a \o b)[m] = a[m]
         /\ \A m \in 1 .. Len(b) : (a \o b)[Len(a) + m] = b[m]
OBVIOUS

\* A text has a block exactly when it has an end marker, and only one.
LEMMA BlockAt ==
  ASSUME NEW text, TextOK(text), NEW j \in 1 .. Len(text), text[j] = End
  PROVE  \E i \in 1 .. Len(text) :
           /\ find(text) = {<<i, j>>} /\ i < j - 1 /\ text[i] = Start
           /\ \A m \in 1 .. Len(text) : text[m] = Start => i <= m /\ m <= j
           /\ \A m \in 1 .. Len(text) : text[m] = End => m = j
<1>0. text \in Seq(Piece) /\ Len(text) \in Nat /\ DOMAIN text = 1 .. Len(text)
  BY DEF TextOK
<1>1. j > 2 /\ text[j - 2] = Start /\ \A i \in 1 .. Len(text) : text[i] \in {Start, End} => i <= j
  BY DEF TextOK, Closed
<1>2. j - 2 \in 1 .. Len(text)
  BY <1>0, <1>1
<1>3. PICK i \in 1 .. Len(text) : text[i] = Start /\ \A m \in 1 .. Len(text) : text[m] = Start => m >= i
  BY <1>1, <1>2 DEF TextOK, HasFirst
<1>4. i <= j - 2
  BY <1>1, <1>2, <1>3
<1>5. \A m \in 1 .. Len(text) : text[m] = End => m = j
  <2>1. SUFFICES ASSUME NEW m \in 1 .. Len(text), text[m] = End
                 PROVE  m = j
    OBVIOUS
  <2>2. j <= m
    BY <2>1 DEF TextOK, Closed
  <2>3. m <= j
    BY <1>1, <2>1
  <2>. QED BY <1>0, <2>2, <2>3
<1>6. find(text) = {<<i, j>>}
  <2>1. <<i, j>> \in find(text)
    BY <1>0, <1>1, <1>3, <1>4, <1>5 DEF find
  <2>2. ASSUME NEW span \in find(text)
        PROVE  span = <<i, j>>
    <3>1. /\ span \in (1 .. Len(text)) \X (1 .. Len(text)) /\ text[span[1]] = Start /\ text[span[2]] = End
          /\ \A m \in 1 .. Len(text) : text[m] = Start => m >= span[1]
      BY <1>0 DEF find
    <3>2. span[1] \in 1 .. Len(text) /\ span[2] \in 1 .. Len(text) /\ span = <<span[1], span[2]>>
      BY <3>1
    <3>3. span[2] = j
      BY <1>5, <3>1, <3>2
    <3>4. span[1] = i
      BY <1>0, <1>3, <3>1, <3>2
    <3>. QED BY <3>2, <3>3, <3>4
  <2>. QED BY <2>1, <2>2
<1>7. \A m \in 1 .. Len(text) : text[m] = Start => i <= m /\ m <= j
  BY <1>1, <1>3
<1>. QED BY <1>0, <1>1, <1>3, <1>4, <1>5, <1>6, <1>7

\* A text without an end marker has no block.
LEMMA BlockHasEnd ==
  ASSUME NEW text, TextOK(text)
  PROVE  hasBlock(text) <=> \E j \in 1 .. Len(text) : text[j] = End
<1>0. text \in Seq(Piece) /\ DOMAIN text = 1 .. Len(text)
  BY DEF TextOK
<1>1. ASSUME hasBlock(text)
      PROVE  \E j \in 1 .. Len(text) : text[j] = End
  <2>1. PICK span \in find(text) : TRUE
    BY <1>1 DEF hasBlock
  <2>2. span \in (1 .. Len(text)) \X (1 .. Len(text)) /\ text[span[2]] = End
    BY <1>0 DEF find
  <2>. QED BY <2>2
<1>2. ASSUME NEW j \in 1 .. Len(text), text[j] = End
          PROVE  hasBlock(text)
  <2>1. PICK i \in 1 .. Len(text) : find(text) = {<<i, j>>}
    BY <1>2, BlockAt
  <2>. QED BY <2>1 DEF hasBlock
<1>. QED BY <1>1, <1>2

\* Before and after the block, piece by piece.
LEMMA Around ==
  ASSUME NEW text, TextOK(text), NEW i \in 1 .. Len(text), NEW j \in 1 .. Len(text), i < j,
         find(text) = {<<i, j>>}
  PROVE  /\ Before(text) \in Seq(Piece) /\ After(text) \in Seq(Piece)
         /\ Len(Before(text)) = i - 1 /\ \A m \in 1 .. i - 1 : Before(text)[m] = text[m]
         /\ Len(After(text)) = Len(text) - j /\ \A m \in 1 .. Len(text) - j : After(text)[m] = text[m + j]
<1>0. text \in Seq(Piece) /\ Len(text) \in Nat
  BY DEF TextOK
<1>1. (CHOOSE s \in find(text) : TRUE) = <<i, j>>
  OBVIOUS
<1>2. Before(text) = SubSeq(text, 1, i - 1) /\ After(text) = SubSeq(text, j + 1, Len(text))
  BY <1>1 DEF Before, After
<1>. QED BY <1>0, <1>2

\* Around the block there is no marker.
LEMMA AroundUnmarked ==
  ASSUME NEW text, TextOK(text), hasBlock(text)
  PROVE  /\ Before(text) \in Seq(Piece) /\ After(text) \in Seq(Piece)
         /\ Unmarked(Before(text)) /\ Unmarked(After(text))
<1>0. text \in Seq(Piece) /\ Len(text) \in Nat
  BY DEF TextOK
<1>1. PICK j \in 1 .. Len(text) : text[j] = End
  BY BlockHasEnd
<1>2. PICK i \in 1 .. Len(text) :
        /\ find(text) = {<<i, j>>} /\ i < j - 1 /\ text[i] = Start
        /\ \A m \in 1 .. Len(text) : text[m] = Start => i <= m /\ m <= j
        /\ \A m \in 1 .. Len(text) : text[m] = End => m = j
  BY <1>1, BlockAt
<1>3. PICK b, a : b = Before(text) /\ a = After(text)
  OBVIOUS
<1>4. /\ b \in Seq(Piece) /\ a \in Seq(Piece)
      /\ Len(b) = i - 1 /\ \A m \in 1 .. i - 1 : b[m] = text[m]
      /\ Len(a) = Len(text) - j /\ \A m \in 1 .. Len(text) - j : a[m] = text[m + j]
  BY <1>0, <1>2, <1>3, Around
<1>5. \A m \in 1 .. Len(b) : b[m] \notin {Start, End}
  <2>1. SUFFICES ASSUME NEW m \in 1 .. Len(b)
                 PROVE  b[m] \notin {Start, End}
    OBVIOUS
  <2>2. b[m] = text[m] /\ m \in 1 .. Len(text) /\ m < i /\ m < j
    BY <1>0, <1>2, <1>4
  <2>. QED BY <1>2, <2>2
<1>6. \A m \in 1 .. Len(a) : a[m] \notin {Start, End}
  <2>1. SUFFICES ASSUME NEW m \in 1 .. Len(a)
                 PROVE  a[m] \notin {Start, End}
    OBVIOUS
  <2>2. a[m] = text[m + j] /\ m + j \in 1 .. Len(text) /\ m + j > j
    BY <1>0, <1>4
  <2>. QED BY <1>2, <2>2
<1>. QED BY <1>3, <1>4, <1>5, <1>6 DEF Unmarked

\* Without its block a text has no marker left.
LEMMA RemoveLeavesNone ==
  ASSUME NEW text, TextOK(text), hasBlock(text)
  PROVE  removeBlock(text) \in Seq(Piece) /\ Unmarked(removeBlock(text))
<1>1. PICK b, a : b = Before(text) /\ a = After(text)
  OBVIOUS
<1>2. b \in Seq(Piece) /\ a \in Seq(Piece) /\ Unmarked(b) /\ Unmarked(a)
  BY <1>1, AroundUnmarked
<1>3. removeBlock(text) = b \o a
  BY <1>1 DEF removeBlock
<1>4. \A m \in 1 .. Len(b \o a) : (b \o a)[m] \notin {Start, End}
  <2>1. SUFFICES ASSUME NEW m \in 1 .. Len(b \o a)
                 PROVE  (b \o a)[m] \notin {Start, End}
    OBVIOUS
  <2>2. CASE m <= Len(b)
    BY <1>2, <2>2 DEF Unmarked
  <2>3. CASE m > Len(b)
    <3>1. (b \o a)[m] = a[m - Len(b)] /\ m - Len(b) \in 1 .. Len(a)
      BY <1>2, <2>3
    <3>. QED BY <1>2, <3>1 DEF Unmarked
  <2>. QED BY <1>2, <2>2, <2>3
<1>. QED BY <1>2, <1>3, <1>4 DEF Unmarked

\* A text with no marker is in order.
LEMMA UnmarkedIsOK ==
  ASSUME NEW text \in Seq(Piece), Unmarked(text)
  PROVE  TextOK(text) /\ ~ hasBlock(text)
<1>1. TextOK(text)
  BY DEF Unmarked, TextOK, Begun, Closed, HasFirst
<1>. QED BY <1>1, BlockHasEnd DEF Unmarked

\* A block, piece by piece.
LEMMA BlockIs ==
  ASSUME NEW body \in Memory
  PROVE  /\ Block(<<body>>) \in Seq(Piece) /\ Len(Block(<<body>>)) = 3
         /\ Block(<<body>>)[1] = Start /\ Block(<<body>>)[2] = body /\ Block(<<body>>)[3] = End
<1>1. PICK x, y, z : x = <<Start>> /\ y = <<body>> /\ z = <<End>>
  OBVIOUS
<1>2. x \in Seq(Piece) /\ y \in Seq(Piece) /\ z \in Seq(Piece)
  BY <1>1, Pieces
<1>3. Len(x) = 1 /\ Len(y) = 1 /\ Len(z) = 1 /\ x[1] = Start /\ y[1] = body /\ z[1] = End
  BY <1>1
<1>4. PICK u : u = x \o y
  OBVIOUS
<1>5. /\ u \in Seq(Piece) /\ Len(u) = Len(x) + Len(y)
      /\ \A m \in 1 .. Len(x) : u[m] = x[m]
      /\ \A m \in 1 .. Len(y) : u[Len(x) + m] = y[m]
  BY <1>2, <1>4, Joined
<1>6. Len(u) = 2 /\ u[1] = Start /\ u[1 + 1] = body
  BY <1>3, <1>5
<1>7. PICK k : k = u \o z
  OBVIOUS
<1>8. u \in Seq(Piece)
  BY <1>5
<1>9. /\ k \in Seq(Piece) /\ Len(k) = Len(u) + Len(z)
      /\ \A m \in 1 .. Len(u) : k[m] = u[m]
      /\ \A m \in 1 .. Len(z) : k[Len(u) + m] = z[m]
  BY <1>2, <1>7, <1>8, Joined
<1>10. k[1] = u[1] /\ k[2] = u[2] /\ k[2 + 1] = z[1]
  BY <1>3, <1>6, <1>9
<1>11. k = Block(<<body>>)
  BY <1>1, <1>4, <1>7 DEF Block
<1>. QED BY <1>3, <1>6, <1>9, <1>10, <1>11

\* A block after a text that has no end marker, and before one that has no marker.
LEMMA BlockBetween ==
  ASSUME NEW b \in Seq(Piece), NEW a \in Seq(Piece), NEW body \in Memory,
         Begun(b), HasFirst(b), \A m \in 1 .. Len(b) : b[m] # End, Unmarked(a)
  PROVE  TextOK(b \o Block(<<body>>) \o a)
<1> DEFINE w == b \o Block(<<body>>) \o a
<1>. HIDE DEF w
<1>1. body \in Piece /\ Start \in Piece /\ End \in Piece
  BY Pieces
<1>2. body \notin {Start, End} /\ Start # End
  BY Pieces
<1>3. /\ w \in Seq(Piece) /\ Len(w) = Len(b) + 3 + Len(a)
      /\ \A m \in 1 .. Len(b) : w[m] = b[m]
      /\ w[Len(b) + 1] = Start /\ w[Len(b) + 2] = body /\ w[Len(b) + 3] = End
      /\ \A m \in 1 .. Len(a) : w[Len(b) + 3 + m] = a[m]
  <2>1. PICK k : k = Block(<<body>>)
    OBVIOUS
  <2>2. k \in Seq(Piece) /\ Len(k) = 3 /\ k[1] = Start /\ k[2] = body /\ k[3] = End
    BY <2>1, BlockIs
  <2>3. PICK v : v = b \o k
    OBVIOUS
  <2>4. /\ v \in Seq(Piece) /\ Len(v) = Len(b) + 3 /\ \A m \in 1 .. Len(b) : v[m] = b[m]
        /\ v[Len(b) + 1] = Start /\ v[Len(b) + 2] = body /\ v[Len(b) + 3] = End
    <3>1. /\ v \in Seq(Piece) /\ Len(v) = Len(b) + Len(k)
          /\ \A m \in 1 .. Len(b) : v[m] = b[m]
          /\ \A m \in 1 .. Len(k) : v[Len(b) + m] = k[m]
      BY <2>2, <2>3, Joined
    <3>2. 1 \in 1 .. Len(k) /\ 2 \in 1 .. Len(k) /\ 3 \in 1 .. Len(k)
      BY <2>2
    <3>. QED BY <2>2, <3>1, <3>2
  <2>5. Len(b) \in Nat
    OBVIOUS
  <2>6. w = v \o a
    BY <2>1, <2>3 DEF w
  <2>7. /\ w \in Seq(Piece) /\ Len(w) = Len(v) + Len(a)
        /\ \A m \in 1 .. Len(v) : w[m] = v[m]
        /\ \A m \in 1 .. Len(a) : w[Len(v) + m] = a[m]
    BY <2>4, <2>6, Joined
  <2>. QED BY <2>4, <2>5, <2>7
<1>4. Len(b) \in Nat /\ Len(a) \in Nat
  OBVIOUS
<1>5. \A m \in 1 .. Len(w) : m > Len(b) + 3 => w[m] \notin {Start, End}
  <2>1. SUFFICES ASSUME NEW m \in 1 .. Len(w), m > Len(b) + 3
                 PROVE  w[m] \notin {Start, End}
    OBVIOUS
  <2>2. m - (Len(b) + 3) \in 1 .. Len(a) /\ m = Len(b) + 3 + (m - (Len(b) + 3))
    BY <1>3, <1>4, <2>1
  <2>3. w[m] = a[m - (Len(b) + 3)]
    BY <1>3, <2>2
  <2>. QED BY <2>2, <2>3 DEF Unmarked
<1>6. \A m \in 1 .. Len(w) : w[m] = Start => m <= Len(b) + 1
  <2>1. SUFFICES ASSUME NEW m \in 1 .. Len(w), m > Len(b) + 1
                 PROVE  w[m] # Start
    BY <1>4
  <2>2. m = Len(b) + 2 \/ m = Len(b) + 3 \/ m > Len(b) + 3
    BY <1>4, <2>1
  <2>. QED BY <1>2, <1>3, <1>5, <2>2
<1>7. \A m \in 1 .. Len(w) : w[m] = End => m = Len(b) + 3
  <2>1. SUFFICES ASSUME NEW m \in 1 .. Len(w), w[m] = End
                 PROVE  m = Len(b) + 3
    OBVIOUS
  <2>2. m \in 1 .. Len(b) \/ m = Len(b) + 1 \/ m = Len(b) + 2 \/ m = Len(b) + 3 \/ m > Len(b) + 3
    BY <1>4, <2>1
  <2>. QED BY <1>2, <1>3, <1>5, <2>1, <2>2
<1>8. Begun(w)
  <2>1. SUFFICES ASSUME NEW m \in 1 .. Len(w), w[m] = Start
                 PROVE  m < Len(w) /\ w[m + 1] \in Memory
    BY DEF Begun
  <2>2. CASE m = Len(b) + 1
    BY <1>3, <1>4, <2>2
  <2>3. CASE m \in 1 .. Len(b)
    <3>1. m < Len(b) /\ b[m + 1] \in Memory
      BY <1>3, <2>1, <2>3 DEF Begun
    <3>2. m + 1 \in 1 .. Len(b)
      BY <1>4, <2>3, <3>1
    <3>3. w[m + 1] = b[m + 1]
      BY <1>3, <3>2
    <3>. QED BY <1>3, <1>4, <2>3, <3>1, <3>3
  <2>. QED BY <1>4, <1>6, <2>1, <2>2, <2>3
<1>9. Closed(w)
  <2>1. SUFFICES ASSUME NEW j \in 1 .. Len(w), w[j] = End
                 PROVE  /\ j > 2 /\ w[j - 2] = Start
                        /\ \A i \in 1 .. Len(w) : w[i] \in {Start, End} => i <= j
    BY DEF Closed
  <2>2. j = Len(b) + 3
    BY <1>7, <2>1
  <2>3. j > 2 /\ j - 2 = Len(b) + 1
    BY <1>4, <2>2
  <2>4. \A i \in 1 .. Len(w) : w[i] \in {Start, End} => i <= j
    BY <1>4, <1>5, <2>2
  <2>. QED BY <1>3, <2>3, <2>4
<1>10. HasFirst(w)
  <2>1. CASE \E i \in 1 .. Len(b) : b[i] = Start
    <3>1. PICK k \in 1 .. Len(b) : b[k] = Start /\ \A m \in 1 .. Len(b) : b[m] = Start => m >= k
      BY <2>1 DEF HasFirst
    <3>2. k \in 1 .. Len(w) /\ w[k] = Start
      BY <1>3, <1>4, <3>1
    <3>3. \A m \in 1 .. Len(w) : w[m] = Start => m >= k
      BY <1>3, <1>4, <3>1
    <3>. QED BY <3>2, <3>3 DEF HasFirst
  <2>2. CASE \A i \in 1 .. Len(b) : b[i] # Start
    <3>1. Len(b) + 1 \in 1 .. Len(w) /\ w[Len(b) + 1] = Start
      BY <1>3, <1>4
    <3>2. \A m \in 1 .. Len(w) : w[m] = Start => m >= Len(b) + 1
      <4>1. SUFFICES ASSUME NEW m \in 1 .. Len(w), m < Len(b) + 1
                     PROVE  w[m] # Start
        BY <1>4
      <4>2. m \in 1 .. Len(b)
        BY <1>4, <4>1
      <4>. QED BY <1>3, <2>2, <4>2
    <3>. QED BY <3>1, <3>2 DEF HasFirst
  <2>. QED BY <2>1, <2>2
<1>11. TextOK(w)
  BY <1>3, <1>8, <1>9, <1>10 DEF TextOK
<1>. QED BY <1>11 DEF w

\* Writing a block keeps a text in order.
LEMMA UpsertKeeps ==
  ASSUME NEW text, TextOK(text), NEW body \in Memory
  PROVE  TextOK(upsertBlock(text, <<body>>))
<1>0. text \in Seq(Piece) /\ Len(text) \in Nat
  BY DEF TextOK
<1>1. CASE hasBlock(text)
  <2>4. /\ Before(text) \in Seq(Piece) /\ After(text) \in Seq(Piece)
        /\ Unmarked(Before(text)) /\ Unmarked(After(text))
    BY <1>1, AroundUnmarked
  <2>5. TextOK(Before(text)) /\ ~ hasBlock(Before(text))
    BY <2>4, UnmarkedIsOK
  <2>6. TextOK(Before(text) \o Block(<<body>>) \o After(text))
    BY <2>4, <2>5, BlockBetween DEF TextOK, Unmarked
  <2>. QED BY <1>1, <2>6 DEF upsertBlock
<1>2. CASE ~ hasBlock(text)
  <2>1. \A m \in 1 .. Len(text) : text[m] # End
    BY <1>2, BlockHasEnd
  <2>2. <<>> \in Seq(Piece) /\ Unmarked(<<>>)
    BY DEF Unmarked
  <2>3. TextOK(text \o Block(<<body>>) \o <<>>)
    BY <1>0, <2>1, <2>2, BlockBetween DEF TextOK
  <2>4. text \o Block(<<body>>) \o <<>> = text \o Block(<<body>>)
    <3>1. Block(<<body>>) \in Seq(Piece)
      BY Pieces DEF Block
    <3>2. text \o Block(<<body>>) \in Seq(Piece)
      BY <1>0, <3>1
    <3>. QED BY <3>2
  <2>. QED BY <1>2, <2>3, <2>4 DEF upsertBlock
<1>. QED BY <1>1, <1>2

\* A passage at either end of a text.
LEMMA PassageKeeps ==
  ASSUME NEW text, TextOK(text), NEW t \in Passage
  PROVE  /\ TextOK(text \o <<t>>) /\ TextOK(<<t>> \o text)
         /\ ~ hasBlock(text) => ~ hasBlock(text \o <<t>>) /\ ~ hasBlock(<<t>> \o text)
<1>0. text \in Seq(Piece) /\ Len(text) \in Nat /\ t \in Piece /\ t \notin {Start, End}
  BY Pieces DEF TextOK
<1>1. ASSUME NEW w \in Seq(Piece), NEW d \in {0, 1}, Len(w) = Len(text) + 1,
             \A m \in 1 .. Len(text) : w[m + d] = text[m],
             \A m \in 1 .. Len(w) : m - d \notin 1 .. Len(text) => w[m] = t
      PROVE  TextOK(w) /\ (~ hasBlock(text) => ~ hasBlock(w))
  <2>0. d \in Int
    OBVIOUS
  <2>1. \A m \in 1 .. Len(w) : w[m] \in {Start, End} =>
          m - d \in 1 .. Len(text) /\ w[m] = text[m - d]
    <3>1. SUFFICES ASSUME NEW m \in 1 .. Len(w), w[m] \in {Start, End}
                   PROVE  m - d \in 1 .. Len(text) /\ w[m] = text[m - d]
      OBVIOUS
    <3>2. m - d \in 1 .. Len(text)
      BY <1>0, <1>1, <3>1
    <3>3. w[(m - d) + d] = text[m - d]
      BY <1>1, <3>2
    <3>. QED BY <2>0, <3>2, <3>3
  <2>2. Begun(w)
    <3>1. SUFFICES ASSUME NEW m \in 1 .. Len(w), w[m] = Start
                   PROVE  m < Len(w) /\ w[m + 1] \in Memory
      BY DEF Begun
    <3>2. PICK n \in 1 .. Len(text) : n = m - d /\ text[n] = Start
      BY <2>1, <3>1
    <3>3. n < Len(text) /\ text[n + 1] \in Memory
      BY <3>2 DEF TextOK, Begun
    <3>4. n + 1 \in 1 .. Len(text) /\ w[(n + 1) + d] = text[n + 1]
      BY <1>0, <1>1, <3>3
    <3>. QED BY <1>0, <1>1, <2>0, <3>2, <3>3, <3>4
  <2>3. Closed(w)
    <3>1. SUFFICES ASSUME NEW j \in 1 .. Len(w), w[j] = End
                   PROVE  /\ j > 2 /\ w[j - 2] = Start
                          /\ \A i \in 1 .. Len(w) : w[i] \in {Start, End} => i <= j
      BY DEF Closed
    <3>2. PICK n \in 1 .. Len(text) : n = j - d /\ text[n] = End
      BY <2>1, <3>1
    <3>3. n > 2 /\ text[n - 2] = Start /\ \A i \in 1 .. Len(text) : text[i] \in {Start, End} => i <= n
      BY <3>2 DEF TextOK, Closed
    <3>4. n - 2 \in 1 .. Len(text) /\ w[(n - 2) + d] = text[n - 2]
      BY <1>0, <1>1, <3>3
    <3>5. j > 2 /\ w[j - 2] = Start
      BY <1>0, <2>0, <3>2, <3>3, <3>4
    <3>6. ASSUME NEW i \in 1 .. Len(w), w[i] \in {Start, End}
          PROVE  i <= j
      <4>1. i - d \in 1 .. Len(text) /\ text[i - d] \in {Start, End}
        BY <2>1, <3>6
      <4>2. i - d <= n
        BY <3>3, <4>1
      <4>. QED BY <2>0, <3>2, <4>2
    <3>. QED BY <3>5, <3>6
  <2>4. HasFirst(w)
    <3>1. SUFFICES ASSUME NEW i \in 1 .. Len(w), w[i] = Start
                   PROVE  \E k \in 1 .. Len(w) : w[k] = Start /\ \A m \in 1 .. Len(w) : w[m] = Start => m >= k
      BY DEF HasFirst
    <3>2. i - d \in 1 .. Len(text) /\ text[i - d] = Start
      BY <2>1, <3>1
    <3>3. PICK n \in 1 .. Len(text) : text[n] = Start /\ \A m \in 1 .. Len(text) : text[m] = Start => m >= n
      BY <3>2 DEF TextOK, HasFirst
    <3>4. n + d \in 1 .. Len(w) /\ w[n + d] = Start
      BY <1>0, <1>1, <3>3
    <3>5. ASSUME NEW m \in 1 .. Len(w), w[m] = Start
          PROVE  m >= n + d
      <4>1. m - d \in 1 .. Len(text) /\ text[m - d] = Start
        BY <2>1, <3>5
      <4>2. m - d >= n
        BY <3>3, <4>1
      <4>. QED BY <2>0, <4>2
    <3>. QED BY <3>4, <3>5
  <2>5. TextOK(w)
    BY <2>2, <2>3, <2>4 DEF TextOK
  <2>6. ~ hasBlock(text) => ~ hasBlock(w)
    <3>1. SUFFICES ASSUME ~ hasBlock(text), NEW j \in 1 .. Len(w), w[j] = End
                   PROVE  FALSE
      BY <2>5, BlockHasEnd
    <3>2. j - d \in 1 .. Len(text) /\ text[j - d] = End
      BY <2>1, <3>1
    <3>. QED BY <3>1, <3>2, BlockHasEnd
  <2>. QED BY <2>5, <2>6
<1>2. PICK x : x = text \o <<t>>
  OBVIOUS
<1>3. PICK y : y = <<t>> \o text
  OBVIOUS
<1>4. /\ x \in Seq(Piece) /\ Len(x) = Len(text) + 1 /\ \A m \in 1 .. Len(text) : x[m] = text[m]
      /\ x[Len(text) + 1] = t
  BY <1>0, <1>2
<1>5. /\ y \in Seq(Piece) /\ Len(y) = Len(text) + 1 /\ \A m \in 1 .. Len(text) : y[m + 1] = text[m]
      /\ y[1] = t
  BY <1>0, <1>3
<1>6. TextOK(x) /\ (~ hasBlock(text) => ~ hasBlock(x))
  <2>1. \A m \in 1 .. Len(text) : x[m + 0] = text[m]
    BY <1>4
  <2>2. \A m \in 1 .. Len(x) : m - 0 \notin 1 .. Len(text) => x[m] = t
    BY <1>0, <1>4
  <2>. QED BY <1>1, <1>4, <2>1, <2>2
<1>7. TextOK(y) /\ (~ hasBlock(text) => ~ hasBlock(y))
  <2>1. \A m \in 1 .. Len(y) : m - 1 \notin 1 .. Len(text) => y[m] = t
    BY <1>0, <1>5
  <2>. QED BY <1>1, <1>5, <2>1
<1>. QED BY <1>2, <1>3, <1>6, <1>7

\* An end marker is cut: no other is left.
LEMMA CutKeeps ==
  ASSUME NEW text, TextOK(text), NEW j \in 1 .. Len(text), text[j] = End
  PROVE  /\ TextOK(SubSeq(text, 1, j - 1) \o SubSeq(text, j + 1, Len(text)))
         /\ ~ hasBlock(SubSeq(text, 1, j - 1) \o SubSeq(text, j + 1, Len(text)))
<1>0. text \in Seq(Piece) /\ Len(text) \in Nat
  BY DEF TextOK
<1>1. PICK w : w = SubSeq(text, 1, j - 1) \o SubSeq(text, j + 1, Len(text))
  OBVIOUS
<1>2. PICK i \in 1 .. Len(text) :
        /\ i < j - 1 /\ text[i] = Start
        /\ \A m \in 1 .. Len(text) : text[m] = Start => i <= m /\ m <= j
        /\ \A m \in 1 .. Len(text) : text[m] = End => m = j
  BY BlockAt
<1>3. PICK b, a : b = SubSeq(text, 1, j - 1) /\ a = SubSeq(text, j + 1, Len(text))
  OBVIOUS
<1>4. /\ b \in Seq(Piece) /\ Len(b) = j - 1 /\ \A m \in 1 .. j - 1 : b[m] = text[m]
      /\ a \in Seq(Piece) /\ Len(a) = Len(text) - j /\ \A m \in 1 .. Len(text) - j : a[m] = text[m + j]
  BY <1>0, <1>3
<1>5. /\ w \in Seq(Piece) /\ Len(w) = Len(text) - 1 /\ \A m \in 1 .. j - 1 : w[m] = text[m]
      /\ \A m \in 1 .. Len(text) - j : w[(j - 1) + m] = text[m + j]
  <2>1. w = b \o a
    BY <1>1, <1>3
  <2>2. /\ w \in Seq(Piece) /\ Len(w) = Len(b) + Len(a) /\ \A m \in 1 .. Len(b) : w[m] = b[m]
        /\ \A m \in 1 .. Len(a) : w[Len(b) + m] = a[m]
    BY <1>4, <2>1, Joined
  <2>3. \A m \in 1 .. Len(text) - j : w[(j - 1) + m] = text[m + j]
    BY <1>4, <2>2
  <2>4. Len(b) = j - 1 /\ Len(a) = Len(text) - j /\ j \in Int
    BY <1>4
  <2>5. Len(w) = Len(text) - 1
    BY <1>0, <2>2, <2>4
  <2>6. \A m \in 1 .. j - 1 : w[m] = text[m]
    BY <1>4, <2>2, <2>4
  <2>. QED BY <2>2, <2>3, <2>5, <2>6
<1>6. \A m \in 1 .. Len(w) : m >= j => w[m] = text[m + 1] /\ m + 1 \in 1 .. Len(text)
  <2>1. SUFFICES ASSUME NEW m \in 1 .. Len(w), m >= j
                 PROVE  w[m] = text[m + 1] /\ m + 1 \in 1 .. Len(text)
    OBVIOUS
  <2>2. m - (j - 1) \in 1 .. Len(text) - j
    BY <1>0, <1>5, <2>1
  <2>3. w[(j - 1) + (m - (j - 1))] = text[(m - (j - 1)) + j]
    BY <1>5, <2>2
  <2>. QED BY <1>0, <1>5, <2>1, <2>3
<1>7. \A m \in 1 .. Len(w) : w[m] # End
  <2>1. SUFFICES ASSUME NEW m \in 1 .. Len(w), w[m] = End
                 PROVE  FALSE
    OBVIOUS
  <2>2. CASE m >= j
    <3>1. text[m + 1] = End /\ m + 1 \in 1 .. Len(text)
      BY <1>6, <2>1, <2>2
    <3>. QED BY <1>2, <2>2, <3>1
  <2>3. CASE m < j
    <3>1. m \in 1 .. j - 1 /\ m \in 1 .. Len(text)
      BY <1>0, <1>5, <2>3
    <3>2. text[m] = End
      BY <1>5, <2>1, <3>1
    <3>. QED BY <1>2, <2>3, <3>1, <3>2
  <2>. QED BY <1>0, <1>5, <2>2, <2>3
<1>8. \A m \in 1 .. Len(w) : w[m] = Start => m < j - 1 /\ m \in 1 .. Len(text) /\ text[m] = Start
  <2>1. SUFFICES ASSUME NEW m \in 1 .. Len(w), w[m] = Start
                 PROVE  m < j - 1 /\ m \in 1 .. Len(text) /\ text[m] = Start
    OBVIOUS
  <2>2. CASE m >= j
    <3>1. text[m + 1] = Start /\ m + 1 \in 1 .. Len(text)
      BY <1>6, <2>1, <2>2
    <3>. QED BY <1>2, <2>2, <3>1
  <2>3. CASE m < j
    <3>1. m \in 1 .. j - 1 /\ m \in 1 .. Len(text)
      BY <1>0, <1>5, <2>3
    <3>2. text[m] = Start
      BY <1>5, <2>1, <3>1
    <3>3. m < Len(text) /\ text[m + 1] \in Memory
      BY <3>1, <3>2 DEF TextOK, Begun
    <3>4. m + 1 # j
      BY <3>3, Pieces
    <3>. QED BY <2>3, <3>1, <3>2, <3>4
  <2>. QED BY <1>0, <1>5, <2>2, <2>3
<1>9. Begun(w)
  <2>1. SUFFICES ASSUME NEW m \in 1 .. Len(w), w[m] = Start
                 PROVE  m < Len(w) /\ w[m + 1] \in Memory
    BY DEF Begun
  <2>2. m < j - 1 /\ m \in 1 .. Len(text) /\ text[m] = Start
    BY <1>8, <2>1
  <2>3. text[m + 1] \in Memory
    BY <2>2 DEF TextOK, Begun
  <2>4. m + 1 \in 1 .. j - 1
    BY <2>2
  <2>. QED BY <1>0, <1>5, <2>2, <2>3, <2>4
<1>10. HasFirst(w)
  <2>1. i \in 1 .. j - 1 /\ i \in 1 .. Len(w) /\ w[i] = Start
    BY <1>0, <1>2, <1>5
  <2>2. \A m \in 1 .. Len(w) : w[m] = Start => m >= i
    BY <1>2, <1>8
  <2>. QED BY <2>1, <2>2 DEF HasFirst
<1>11. TextOK(w)
  BY <1>5, <1>7, <1>9, <1>10 DEF TextOK, Closed
<1>12. ~ hasBlock(w)
  BY <1>7, <1>11, BlockHasEnd
<1>. QED BY <1>1, <1>11, <1>12
-----------------------------------------------------------------------------
(* What is installed, noted and written. *)

\* Files are in order.
FilesOK ==
  /\ file \in [File -> [there : BOOLEAN, text : Seq(Piece)]]
  /\ \A f \in File : TextOK(file[f].text) /\ (~ file[f].there => file[f].text = <<>>)

\* What a writer read was in order, and nothing when the file was not there.
WriterOK(y) ==
  /\ y \in Mirroring
  /\ y.at # "checking" => y.on \in File
  /\ TextOK(y.before.text) /\ (~ y.before.there => y.before.text = <<>>)
  /\ y.at = "writing" /\ y.created => y.before.text = <<>>
WritersOK ==
  /\ writing \in [Writer -> Mirroring \cup {None}]
  /\ \A w \in Writer : writing[w] # None => WriterOK(writing[w])

\* The settings files and the lists hold what they may hold.
LEMMA TypedInit == Init => Typed
<1> SUFFICES ASSUME Init PROVE Typed
  OBVIOUS
<1>1. build \in Build /\ memory \in Memory
  BY WiringAssumption DEF Init
<1>2. CommandTyped
  BY IdleIs DEF Init, CommandTyped, StepsOf
<1>3. chain \in [at : Place \cup {None}, was : Command \cup {Nothing}]
  BY DEF Init, NoChain
<1>4. hooks \in [Place -> [Event -> SUBSET Command]] /\ line \in [Place -> Command \cup {Nothing}]
  BY DEF Init
<1>. QED BY <1>1, <1>2, <1>3, <1>4 DEF Init, Typed

\* Hooks others have are none of ours.
LEMMA OthersHooks ==
  /\ ~ IsOurs(Persons) /\ Persons \in Command
  /\ \A q \in Project \ {Here}, b \in Build : Runs(b, q) \in Command /\ ~ IsOurs(Runs(b, q))
BY DEF IsOurs, Persons, Runs, Command

\* What a step may make of the hooks.
LEMMA HooksAre ==
  ASSUME Typed, [Next]_vars
  PROVE  /\ hooks' \in [Place -> [Event -> SUBSET Command]]
         /\ \/ hooks' = hooks
            \/ Installs
            \/ \E p \in Place :
                 \/ RemovesStale(p) \/ RemovesHooks(p)
                 \/ /\ TearsHooks(p) /\ \A e \in Event : hooks'[p][e] = {}
                    /\ \A o \in Place \ {p} : hooks'[o] = hooks[o]
            \/ \A p \in Place, e \in Event :
                 hooks[p][e] \subseteq hooks'[p][e] /\ \A c \in hooks'[p][e] \ hooks[p][e] : ~ IsOurs(c)
<1>0. hooks \in [Place -> [Event -> SUBSET Command]] /\ build \in Build
  BY DEF Typed
<1>1. ASSUME NEW p \in Place, NEW e \in Event, WritesHook(p, e)
      PROVE  /\ hooks' \in [Place -> [Event -> SUBSET Command]]
             /\ \A o \in Place, v \in Event :
                  hooks[o][v] \subseteq hooks'[o][v] /\ \A c \in hooks'[o][v] \ hooks[o][v] : ~ IsOurs(c)
  <2>1. hooks' = [hooks EXCEPT ![p][e] = hooks[p][e] \cup {Persons}]
    BY <1>1 DEF WritesHook
  <2>. QED BY <1>0, <2>1, OthersHooks
<1>2. ASSUME NEW q \in Project \ {Here}, OtherInit(q)
      PROVE  /\ hooks' \in [Place -> [Event -> SUBSET Command]]
             /\ \A o \in Place, v \in Event :
                  hooks[o][v] \subseteq hooks'[o][v] /\ \A c \in hooks'[o][v] \ hooks[o][v] : ~ IsOurs(c)
  <2>1. PICK theirs : theirs = Runs(build, q)
    OBVIOUS
  <2>2. theirs \in Command /\ ~ IsOurs(theirs)
    BY <1>0, <2>1, OthersHooks
  <2>3. hooks' = [hooks EXCEPT !["user"] = [e \in Event |-> IF hooks["user"][e] = {} THEN {theirs} ELSE hooks["user"][e]]]
    BY <1>2, <2>1 DEF OtherInit, installHooks
  <2>4. hooks' \in [Place -> [Event -> SUBSET Command]]
    BY <1>0, <2>2, <2>3
  <2>. QED BY <1>0, <2>2, <2>3, <2>4 DEF Place
<1>3. ASSUME NEW p \in Place, TearsHooks(p)
      PROVE  /\ hooks' \in [Place -> [Event -> SUBSET Command]]
             /\ \A e \in Event : hooks'[p][e] = {}
             /\ \A o \in Place \ {p} : hooks'[o] = hooks[o]
  BY <1>0, <1>3 DEF TearsHooks
<1>4. ASSUME NEW p \in Place, RemovesStale(p) \/ RemovesHooks(p)
      PROVE  hooks' \in [Place -> [Event -> SUBSET Command]]
  <2>1. PICK ours : hooks' = Without(p, ours)
    BY <1>4 DEF RemovesStale, RemovesHooks
  <2>. QED BY <1>0, <2>1 DEF Without
<1>5. CASE Installs
  <2>1. HookCommand \in Command
    BY WiringAssumption DEF Typed, CommandTyped, Remembering, HookCommand, Runs, Command
  <2>2. hooks' = hooks \/ hooks' = installHooks(cli.at, HookCommand)
    BY <1>5 DEF Installs
  <2>. QED BY <1>0, <1>5, <2>1, <2>2 DEF installHooks
<1>. QED BY <1>0, <1>1, <1>2, <1>3, <1>4, <1>5, HooksMove

\* Types, of every step.
LEMMA TypedStep ==
  ASSUME Typed, WritersOK, [Next]_vars
  PROVE  Typed'
<1>1. line' \in [Place -> Command \cup {Nothing}]
  <2>1. ASSUME NEW p \in Place, WritesLine(p) \/ RemovesLine(p) \/ TearsHooks(p)
        PROVE  line' \in [Place -> Command \cup {Nothing}]
    <3>1. Restored(p) \in Command \cup {Nothing}
      BY DEF Restored, Typed
    <3>. QED BY <2>1, <3>1, OthersHooks DEF WritesLine, RemovesLine, TearsHooks, Typed
  <2>2. ASSUME NEW chained, StatuslineInstall(chained)
        PROVE  line' \in [Place -> Command \cup {Nothing}]
    <3>1. Runs(build, None) \in Command
      BY DEF Runs, Command, Typed
    <3>. QED BY <2>2, <3>1 DEF StatuslineInstall, Typed
  <2>. QED BY <2>1, <2>2, LinesMove DEF Typed
<1>2. chain' \in [at : Place \cup {None}, was : Command \cup {Nothing}]
  BY ChainMoves DEF ForgetsChain, Purges, NotesChain, NoChain, Typed, CommandTyped, Remembering
<1>3. recorded' \in Command \cup {Nothing}
  <2>1. Records => recorded' \in Command
    BY WiringAssumption DEF Records, HookCommand, Runs, Command, Typed, CommandTyped, Remembering
  <2>. QED BY <2>1, RecordMoves DEF Purges, Typed
<1>4. targets' \subseteq File /\ made' \subseteq File
  <2>1. ASSUME NEW w \in Writer, NotesTarget(w) \/ NotesCreated(w)
        PROVE  targets' \subseteq File /\ made' \subseteq File
    <3>1. writing[w] # None /\ writing[w].at # "checking"
      BY <2>1 DEF NotesTarget, NotesCreated, At
    <3>2. writing[w].on \in File /\ writing[w].listing \subseteq File
      BY <3>1 DEF WritersOK, WriterOK, Mirroring
    <3>3. Noted(w, targets) \subseteq File /\ Noted(w, made) \subseteq File
      BY <3>2 DEF Noted, Typed
    <3>. QED BY <2>1, <3>3 DEF NotesTarget, NotesCreated, notes, Typed
  <2>2. ASSUME NEW w \in Writer, Writes(w)
        PROVE  UNCHANGED <<targets, made>>
    BY <2>2 DEF Writes, notes
  <2>3. ASSUME NEW f \in File, RemovesMirror(f)
        PROVE  UNCHANGED <<targets, made>>
    BY <2>3 DEF RemovesMirror, notes
  <2>. QED BY <2>1, <2>2, <2>3, ListsMove DEF Purges, Typed
<1>5. build' \in Build /\ memory' \in Memory
  BY WorldMoves DEF MemoryChanges, BuildMoves, Typed
<1>. QED BY <1>1, <1>2, <1>3, <1>4, <1>5, HooksAre, CommandStays DEF Typed

\* An empty text is in order.
LEMMA Empty == <<>> \in Seq(Piece) /\ TextOK(<<>>) /\ ~ hasBlock(<<>>)
<1>1. <<>> \in Seq(Piece) /\ Unmarked(<<>>)
  BY DEF Unmarked
<1>. QED BY <1>1, UnmarkedIsOK

\* A file with a text in order in it.
LEMMA FileWritten ==
  ASSUME FilesOK, NEW f \in File, NEW there \in BOOLEAN, NEW text, TextOK(text), ~ there => text = <<>>,
         file' = [file EXCEPT ![f] = [there |-> there, text |-> text]]
  PROVE  FilesOK'
<1>1. PICK new : new = [there |-> there, text |-> text]
  OBVIOUS
<1>2. new \in [there : BOOLEAN, text : Seq(Piece)] /\ new.text = text /\ new.there = there
  BY <1>1 DEF TextOK
<1>3. file' = [file EXCEPT ![f] = new]
  BY <1>1
<1>. QED BY <1>2, <1>3 DEF FilesOK

\* What a person does to a text.
LEMMA EditsKeep ==
  ASSUME FilesOK, NEW f \in File, Edits(f) \/ DeletesFile(f)
  PROVE  /\ FilesOK'
         /\ \A g \in File : ~ hasBlock(file[g].text) => ~ hasBlock(file'[g].text)
<1>1. PICK text : text = file[f].text
  OBVIOUS
<1>2. TextOK(text) /\ text \in Seq(Piece) /\ DOMAIN text = 1 .. Len(text)
  BY <1>1 DEF FilesOK, TextOK
<1>3. ASSUME NEW new, TextOK(new), ~ hasBlock(text) => ~ hasBlock(new), NEW there \in BOOLEAN, ~ there => new = <<>>,
             file' = [file EXCEPT ![f] = [there |-> there, text |-> new]]
      PROVE  /\ FilesOK'
             /\ \A g \in File : ~ hasBlock(file[g].text) => ~ hasBlock(file'[g].text)
  <2>1. FilesOK'
    BY <1>3, FileWritten
  <2>. QED BY <1>1, <1>3, <2>1 DEF FilesOK
<1>4. ASSUME NEW new, TextOK(new), ~ hasBlock(text) => ~ hasBlock(new), WritesText(f, new)
      PROVE  /\ FilesOK'
             /\ \A g \in File : ~ hasBlock(file[g].text) => ~ hasBlock(file'[g].text)
  BY <1>3, <1>4 DEF WritesText
<1>5. CASE \E t \in Passage : WritesText(f, text \o <<t>>) \/ WritesText(f, <<t>> \o text)
  BY <1>2, <1>4, <1>5, PassageKeeps
<1>6. CASE \E i \in DOMAIN text : text[i] = End
             /\ WritesText(f, SubSeq(text, 1, i - 1) \o SubSeq(text, i + 1, Len(text)))
  BY <1>2, <1>4, <1>6, CutKeeps
<1>7. CASE DeletesFile(f)
  <2>1. file' = [file EXCEPT ![f] = [there |-> FALSE, text |-> <<>>]]
    BY <1>7 DEF DeletesFile, Absent
  <2>. QED BY <1>3, <2>1, Empty
<1>. QED BY <1>1, <1>5, <1>6, <1>7 DEF Edits

\* A block goes, or the file with it.
LEMMA RemovedIs ==
  ASSUME FilesOK, NEW f \in File, NEW created \in BOOLEAN
  PROVE  /\ Removed(f, created) \in [there : BOOLEAN, text : Seq(Piece)]
         /\ TextOK(Removed(f, created).text) /\ ~ hasBlock(Removed(f, created).text)
         /\ ~ Removed(f, created).there => Removed(f, created).text = <<>>
<1>1. PICK text : text = file[f].text
  OBVIOUS
<1>2. TextOK(text) /\ file[f] \in [there : BOOLEAN, text : Seq(Piece)] /\ (~ file[f].there => text = <<>>)
  BY <1>1 DEF FilesOK
<1>3. CASE ~ hasBlock(text)
  BY <1>1, <1>2, <1>3 DEF Removed
<1>4. CASE hasBlock(text)
  <2>1. PICK rest : rest = removeBlock(text)
    OBVIOUS
  <2>2. rest \in Seq(Piece) /\ Unmarked(rest)
    BY <1>2, <1>4, <2>1, RemoveLeavesNone DEF Unmarked
  <2>3. TextOK(rest) /\ ~ hasBlock(rest)
    BY <2>2, UnmarkedIsOK
  <2>4. PICK gone, kept : gone = [there |-> FALSE, text |-> <<>>] /\ kept = [there |-> TRUE, text |-> rest]
    OBVIOUS
  <2>5. /\ gone \in [there : BOOLEAN, text : Seq(Piece)] /\ TextOK(gone.text) /\ ~ hasBlock(gone.text)
        /\ gone.text = <<>> /\ kept.there
        /\ kept \in [there : BOOLEAN, text : Seq(Piece)] /\ TextOK(kept.text) /\ ~ hasBlock(kept.text)
    BY <2>2, <2>3, <2>4, Empty
  <2>6. Removed(f, created) \in {gone, kept}
    BY <1>1, <1>4, <2>1, <2>4 DEF Removed, Absent
  <2>. QED BY <2>5, <2>6
<1>. QED BY <1>3, <1>4

\* What a mirror writes over the text it read.
LEMMA MirroredIs ==
  ASSUME WritersOK, Typed, NEW w \in Writer, Writes(w), NEW f, f = writing[w].on
  PROVE  /\ f \in File
         /\ \E new : /\ file' = [file EXCEPT ![f] = [there |-> TRUE, text |-> new]] /\ TextOK(new)
                     /\ \E old : /\ TextOK(old) /\ new = upsertBlock(old, <<memory>>)
                                 /\ \/ old = writing[w].before.text
                                    \/ old = <<Frontmatter>> /\ writing[w].before.text = <<>>
<1>1. writing[w] # None /\ writing[w].at = "writing"
  BY DEF Writes, At
<1>2. f \in File /\ TextOK(writing[w].before.text) /\ (writing[w].created => writing[w].before.text = <<>>)
  BY <1>1 DEF WritersOK, WriterOK
<1>3. PICK old : old = IF writing[w].created /\ f \in RuleFile THEN <<Frontmatter>> ELSE writing[w].before.text
  OBVIOUS
<1>4. TextOK(old)
  <2>1. <<Frontmatter>> \in Seq(Piece) /\ Unmarked(<<Frontmatter>>)
    BY Pieces DEF Unmarked
  <2>. QED BY <1>2, <1>3, <2>1, UnmarkedIsOK
<1>5. PICK new : new = upsertBlock(old, <<memory>>)
  OBVIOUS
<1>6. TextOK(new)
  BY <1>4, <1>5, UpsertKeeps DEF Typed
<1>7. mirrored(~ writing[w].created, writing[w].before.text, f \in RuleFile, memory) = new
  BY <1>3, <1>5 DEF mirrored
<1>8. file' = [file EXCEPT ![f] = [there |-> TRUE, text |-> new]]
  BY <1>7 DEF Writes
<1>. QED BY <1>2, <1>3, <1>4, <1>5, <1>6, <1>8

\* Nothing is written at first.
LEMMA FilesInit == Init => FilesOK /\ WritersOK
BY Empty DEF Init, FilesOK, WritersOK

\* Texts stay in order.
LEMMA FilesStep ==
  ASSUME FilesOK, WritersOK, Typed, [Next]_vars
  PROVE  FilesOK'
<1>1. ASSUME file' = file
      PROVE  FilesOK'
  BY <1>1 DEF FilesOK
<1>2. ASSUME NEW f \in File, RemovesMirror(f)
      PROVE  FilesOK'
  <2>1. PICK rest : rest = Removed(f, f \in cli.made)
    OBVIOUS
  <2>2. (f \in cli.made) \in BOOLEAN
    OBVIOUS
  <2>3. rest \in [there : BOOLEAN, text : Seq(Piece)] /\ TextOK(rest.text) /\ (~ rest.there => rest.text = <<>>)
    BY <2>1, <2>2, RemovedIs
  <2>4. file' = [file EXCEPT ![f] = rest]
    BY <1>2, <2>1 DEF RemovesMirror
  <2>. QED BY <2>3, <2>4 DEF FilesOK
<1>3. ASSUME NEW f \in File, file' = [file EXCEPT ![f] = [there |-> TRUE, text |-> <<>>]]
      PROVE  FilesOK'
  BY <1>3, FileWritten, Empty
<1>4. ASSUME NEW f \in File, TearsRemoval(f)
      PROVE  FilesOK'
  BY <1>3, <1>4 DEF TearsRemoval
<1>5. ASSUME NEW w \in Writer, TearsMirror(w)
      PROVE  FilesOK'
  <2>1. writing[w] # None /\ writing[w].at = "writing"
    BY <1>5 DEF TearsMirror, At
  <2>2. writing[w].on \in File
    BY <2>1 DEF WritersOK, WriterOK
  <2>. QED BY <1>3, <1>5, <2>2 DEF TearsMirror
<1>6. ASSUME NEW w \in Writer, Writes(w)
      PROVE  FilesOK'
  BY <1>6, MirroredIs, FileWritten
<1>. QED BY <1>1, <1>2, <1>4, <1>5, <1>6, EditsKeep, FilesMove

\* A writer that goes on, or ends.
LEMMA WriterMoves ==
  ASSUME WritersOK, NEW w \in Writer, NEW y, y = None \/ WriterOK(y), writing' = [writing EXCEPT ![w] = y]
  PROVE  WritersOK'
<1>1. y \in Mirroring \cup {None}
  BY DEF WriterOK
<1>. QED BY <1>1 DEF WritersOK

\* A writer that has read a file.
LEMMA ReadIs ==
  ASSUME FilesOK, NEW f \in File, NEW todo \in SUBSET File, NEW stored \in BOOLEAN
  PROVE  WriterOK(Read(f, todo, stored))
<1>1. PICK stale \in BOOLEAN : stale = isStale(file[f].text, memory)
  BY DEF isStale
<1>2. PICK before : before = IF stale THEN file[f] ELSE Absent
  OBVIOUS
<1>3. /\ before \in [there : BOOLEAN, text : Seq(Piece)] /\ TextOK(before.text)
      /\ ~ before.there => before.text = <<>>
      /\ stale => before = file[f]
  BY <1>2, Empty DEF FilesOK, Absent
<1>4. PICK y : y = [on |-> f, todo |-> todo, before |-> before, created |-> ~ file[f].there, listing |-> {},
                    stored |-> stored, at |-> IF stale THEN "writing" ELSE "noting"]
  OBVIOUS
<1>5. y \in Mirroring
  BY <1>3, <1>4 DEF Mirroring, FilesOK
<1>6. WriterOK(y)
  BY <1>3, <1>4, <1>5 DEF WriterOK
<1>7. y = Read(f, todo, stored)
  BY <1>1, <1>2, <1>4 DEF Read
<1>. QED BY <1>6, <1>7

\* A refresh between two files.
LEMMA CheckingIs ==
  ASSUME NEW todo \in SUBSET File, NEW stored \in BOOLEAN
  PROVE  Checking(todo, stored) = None \/ WriterOK(Checking(todo, stored))
<1>1. PICK y : y = [on |-> None, todo |-> todo, before |-> Absent, created |-> FALSE, listing |-> {},
                    stored |-> stored, at |-> "checking"]
  OBVIOUS
<1>2. y \in Mirroring
  BY <1>1, Empty DEF Mirroring, Absent
<1>3. WriterOK(y)
  BY <1>1, <1>2, Empty DEF WriterOK, Absent
<1>. QED BY <1>1, <1>3 DEF Checking

\* Whatever a writer does, what it knows stays in order.
LEMMA WritersStep ==
  ASSUME FilesOK, WritersOK, Typed, [Next]_vars
  PROVE  WritersOK'
<1>1. CASE Purges
  <2>1. \A w \in Writer : writing'[w] = IF writing[w] = None THEN None ELSE [writing[w] EXCEPT !.stored = FALSE]
    BY <1>1 DEF Purges
  <2>2. \A w \in Writer : writing[w] # None =>
           /\ writing'[w] \in Mirroring
           /\ writing'[w].at = writing[w].at /\ writing'[w].on = writing[w].on
           /\ writing'[w].before = writing[w].before /\ writing'[w].created = writing[w].created
    BY <2>1 DEF WritersOK, Mirroring
  <2>3. writing' = [w \in Writer |-> writing'[w]]
    BY <1>1 DEF Purges
  <2>4. \A w \in Writer : writing'[w] # None => writing[w] # None
    BY <2>1
  <2>5. \A w \in Writer : writing'[w] \in Mirroring \cup {None}
    BY <2>1, <2>2
  <2>. QED BY <2>2, <2>3, <2>4, <2>5 DEF WritersOK, WriterOK
<1>2. ASSUME NEW w \in Writer, writing[w] # None
      PROVE  /\ writing[w] \in Mirroring /\ WriterOK(writing[w])
             /\ writing[w].todo \in SUBSET File /\ writing[w].stored \in BOOLEAN
             /\ \A t \in SUBSET File : Checking(t, writing[w].stored) = None \/ WriterOK(Checking(t, writing[w].stored))
  <2>1. WriterOK(writing[w]) /\ writing[w] \in Mirroring
    BY <1>2 DEF WritersOK, WriterOK
  <2>2. writing[w].todo \in SUBSET File /\ writing[w].stored \in BOOLEAN
    BY <2>1 DEF Mirroring
  <2>. QED BY <2>1, <2>2, CheckingIs
<1>3. ASSUME NEW w \in Writer, NEW f \in File, Mirrors(w, f)
      PROVE  WritersOK'
  <2>1. WriterOK(Read(f, {}, TRUE))
    BY ReadIs
  <2>. QED BY <1>3, <2>1, WriterMoves DEF Mirrors
<1>4. ASSUME NEW w \in Writer, Refreshes(w)
      PROVE  WritersOK'
  <2>1. Checking(targets, TRUE) = None \/ WriterOK(Checking(targets, TRUE))
    BY CheckingIs DEF Typed
  <2>. QED BY <1>4, <2>1, WriterMoves DEF Refreshes
<1>5. ASSUME NEW w \in Writer, NEW f \in File, Checks(w, f)
      PROVE  WritersOK'
  <2>1. writing[w] # None
    BY <1>5 DEF Checks, At
  <2>2. PICK todo : todo = writing[w].todo \ {f}
    OBVIOUS
  <2>3. todo \in SUBSET File /\ writing[w].stored \in BOOLEAN
    BY <1>2, <2>1, <2>2
  <2>4. PICK y : y = [on |-> f, todo |-> todo, before |-> Absent, created |-> FALSE, listing |-> {},
                      stored |-> writing[w].stored, at |-> "reading"]
    OBVIOUS
  <2>5. y \in Mirroring
    BY <2>3, <2>4, Empty DEF Mirroring, Absent
  <2>6. WriterOK(y)
    BY <2>4, <2>5, Empty DEF WriterOK, Absent
  <2>7. writing' = [writing EXCEPT ![w] = y] \/ writing' = [writing EXCEPT ![w] = Checking(todo, writing[w].stored)]
    BY <1>5, <2>2, <2>4 DEF Checks
  <2>. QED BY <1>2, <2>1, <2>3, <2>6, <2>7, WriterMoves
<1>6. ASSUME NEW w \in Writer, ReadsAgain(w)
      PROVE  WritersOK'
  <2>1. writing[w] # None /\ writing[w].at = "reading"
    BY <1>6 DEF ReadsAgain, At
  <2>2. writing[w].on \in File
    BY <1>2, <2>1 DEF WriterOK
  <2>3. WriterOK(Read(writing[w].on, writing[w].todo, writing[w].stored))
    BY <1>2, <2>1, <2>2, ReadIs
  <2>. QED BY <1>6, <2>3, WriterMoves DEF ReadsAgain
<1>7. ASSUME NEW w \in Writer, Writes(w)
      PROVE  WritersOK'
  <2>1. writing[w] # None /\ writing[w].at = "writing"
    BY <1>7 DEF Writes, At
  <2>2. PICK y : y = [[writing[w] EXCEPT !.at = "noting"] EXCEPT !.before = Absent]
    OBVIOUS
  <2>3. y \in Mirroring /\ y.at = "noting" /\ y.before = Absent /\ y.on = writing[w].on
    BY <1>2, <2>1, <2>2, Empty DEF Mirroring, Absent
  <2>4. WriterOK(y)
    BY <1>2, <2>1, <2>3, Empty DEF WriterOK, Absent
  <2>5. writing' = [writing EXCEPT ![w] = y]
    BY <1>7, <2>2 DEF Writes, WritersOK
  <2>. QED BY <2>4, <2>5, WriterMoves
<1>8. ASSUME NEW w \in Writer, Lists(w)
      PROVE  WritersOK'
  <2>1. writing[w] # None /\ writing[w].at \in {"noting", "creating"}
    BY <1>8 DEF Lists, At
  <2>2. PICK listing, at : /\ listing = (IF At(w, "noting") THEN targets ELSE made)
                           /\ at = (IF At(w, "noting") THEN "targets" ELSE "made")
    OBVIOUS
  <2>3. PICK y : y = [[writing[w] EXCEPT !.listing = listing] EXCEPT !.at = at]
    OBVIOUS
  <2>4. listing \in SUBSET File /\ at \in {"targets", "made"}
    BY <2>2 DEF Typed
  <2>5. y \in Mirroring /\ y.at = at /\ y.before = writing[w].before /\ y.on = writing[w].on
    BY <1>2, <2>1, <2>3, <2>4 DEF Mirroring
  <2>6. WriterOK(y)
    BY <1>2, <2>1, <2>4, <2>5 DEF WriterOK
  <2>7. writing' = [writing EXCEPT ![w] = y]
    BY <1>8, <2>2, <2>3 DEF Lists, WritersOK
  <2>. QED BY <2>6, <2>7, WriterMoves
<1>9. ASSUME NEW w \in Writer, NotesTarget(w)
      PROVE  WritersOK'
  <2>1. writing[w] # None /\ writing[w].at = "targets"
    BY <1>9 DEF NotesTarget, At
  <2>2. PICK y : y = [writing[w] EXCEPT !.at = "creating", !.listing = {}]
    OBVIOUS
  <2>3. y \in Mirroring /\ y.at = "creating" /\ y.before = writing[w].before /\ y.on = writing[w].on
    BY <1>2, <2>1, <2>2 DEF Mirroring
  <2>4. WriterOK(y)
    BY <1>2, <2>1, <2>3 DEF WriterOK
  <2>5. writing' = [writing EXCEPT ![w] = y] \/ writing' = [writing EXCEPT ![w] = Done(w)]
    BY <1>9, <2>2 DEF NotesTarget
  <2>6. Done(w) = None \/ WriterOK(Done(w))
    BY <1>2, <2>1 DEF Done
  <2>. QED BY <2>4, <2>5, <2>6, WriterMoves
<1>10. ASSUME NEW w \in Writer, NotesCreated(w)
       PROVE  WritersOK'
  <2>1. writing[w] # None
    BY <1>10 DEF NotesCreated, At
  <2>2. Done(w) = None \/ WriterOK(Done(w))
    BY <1>2, <2>1 DEF Done
  <2>. QED BY <1>10, <2>2, WriterMoves DEF NotesCreated
<1>11. ASSUME NEW w \in Writer, Dies(w) \/ TearsMirror(w)
       PROVE  WritersOK'
  BY <1>11, WriterMoves DEF Dies, TearsMirror
<1>12. ASSUME writing' = writing
       PROVE  WritersOK'
  BY <1>12 DEF WritersOK
<1>. QED BY <1>1, <1>3, <1>4, <1>5, <1>6, <1>7, <1>8, <1>9, <1>10, <1>11, <1>12, WritersMove DEF MirrorSteps

-----------------------------------------------------------------------------
(* The hooks. *)

\* No hook of ours in a settings file is another build's.
FollowsIn(p) == \A e \in Event : \A c \in hooks[p][e] : IsOurs(c) => c = HookCommand
\* Every event of a file has our hook, or somebody else's.
CoveredIn(p) == \A e \in Event : HookCommand \in hooks[p][e] \/ \E c \in hooks[p][e] : ~ IsOurs(c)

\* `init` has taken out what is stale before it installs, and installs before it records.
InitProgress ==
  cli.does = "init" /\ "hooks" \in scene =>
    /\ \A p \in PastStale \ cli.skipped : FollowsIn(p)
    /\ cli.step \in {"record", "done"} => cli.at \in cli.skipped \/ CoveredIn(cli.at)

\* What is taken out of a file that can be read is not in it any more.
LEMMA TakenOut ==
  ASSUME Typed, NEW p \in Place, p \notin broken, NEW ours, hooks' = Without(p, ours), NEW e \in Event
  PROVE  \A c \in hooks'[p][e] : c \in Command /\ c \notin ours
BY DEF Without, Typed

\* An `init` that goes on.
LEMMA InitGoesOn ==
  ASSUME Typed, InitProgress, [Next]_vars, GoesOn
  PROVE  InitProgress'
<1>0. /\ hooks \in [Place -> [Event -> SUBSET Command]] /\ cli' \in Remembering /\ SameCommand
      /\ HookCommand' = HookCommand
  BY DEF Typed, GoesOn, SameCommand, HookCommand
<1>1. SUFFICES ASSUME cli.does = "init", "hooks" \in scene, NEW at, cli.at = at, cli'.at = at
               PROVE  /\ \A p \in PastStale' \ cli'.skipped : FollowsIn(p)'
                      /\ cli'.step \in {"record", "done"} => at \in cli'.skipped \/ CoveredIn(at)'
  <2>1. scene' = scene
    BY WorldMoves DEF MemoryChanges, BuildMoves
  <2>. QED BY <1>0, <2>1 DEF InitProgress, SameCommand, CoveredIn
<1>2. cli.step \in InitStep /\ at \in Place
  BY <1>0, <1>1 DEF Typed, CommandTyped, StepsOf, SameCommand
<1>3. \A p \in PastStale \ cli.skipped : p \in Place /\ FollowsIn(p)
  BY <1>1 DEF InitProgress, PastStale, Past
<1>4. cli.step \in {"record", "done"} => at \in cli.skipped \/ CoveredIn(at)
  BY <1>1 DEF InitProgress
<1>5. cli.skipped \subseteq cli'.skipped
  BY <1>0 DEF SameCommand
<1>6. ASSUME NEW p \in Place, RemovesStale(p)
      PROVE  /\ p \in cli'.skipped \/ FollowsIn(p)'
             /\ \A o \in Place : FollowsIn(o) => FollowsIn(o)'
             /\ cli'.step = "stale"
  <2>1. /\ cli'.skipped = cli.skipped \cup ({p} \cap broken) /\ cli'.step = "stale"
        /\ hooks' = Without(p, Ours(cli.recorded) \ {HookCommand})
    <3>1. {p} \cap broken \in SUBSET Config
      BY DEF Config
    <3>. QED BY <1>6, <3>1, HandlesOne DEF RemovesStale, Typed
  <2>2. p \in broken \/ FollowsIn(p)'
    <3>1. SUFFICES ASSUME p \notin broken, NEW e \in Event, NEW c \in hooks'[p][e], IsOurs(c)
                   PROVE  c = HookCommand
      BY <1>0 DEF FollowsIn, IsOurs
    <3>2. c \in Command /\ c \notin Ours(cli.recorded) \ {HookCommand}
      BY <2>1, <3>1, TakenOut
    <3>. QED BY <3>1, <3>2 DEF Ours, isOurHookCommand, IsOurs
  <2>3. \A o \in Place, e \in Event : hooks'[o][e] \subseteq hooks[o][e]
    BY <1>0, <2>1 DEF Without
  <2>. QED BY <1>0, <2>1, <2>2, <2>3 DEF FollowsIn, IsOurs
<1>7. CASE Installs
  <2>1. cli.step = "install"
    BY <1>7 DEF Installs
  <2>2. PastStale = Place
    BY <1>1, <2>1 DEF PastStale, Past
  <2>3. CASE cli.at \in broken
    <3>1. cli'.does = "nothing"
      BY <1>7, <2>3, IdleIs DEF Installs
    <3>. QED BY <1>0, <1>1, <3>1 DEF SameCommand
  <2>4. CASE cli.at \notin broken
    <3>1. hooks' = [hooks EXCEPT ![at] =
                      [e \in Event |-> IF hooks[at][e] = {} THEN {HookCommand} ELSE hooks[at][e]]]
      BY <1>1, <1>7, <2>4 DEF Installs, installHooks
    <3>2. \A p \in Place \ cli.skipped : FollowsIn(p)'
      BY <1>0, <1>2, <1>3, <2>2, <3>1 DEF FollowsIn, IsOurs
    <3>3. at \in cli.skipped \/ CoveredIn(at)'
      BY <1>0, <1>2, <1>3, <2>2, <3>1 DEF FollowsIn, CoveredIn, IsOurs
    <3>4. PastStale' \subseteq Place
      BY DEF PastStale, Past
    <3>. QED BY <1>2, <1>5, <3>2, <3>3, <3>4
  <2>. QED BY <2>3, <2>4
<1>8. ASSUME ~ Installs, ~ \E p \in Place : RemovesStale(p)
      PROVE  /\ PastStale' \subseteq PastStale
             /\ cli'.step \in {"record", "done"} => cli.step \in {"record", "done"}
  BY <1>1, <1>8 DEF GoesOn
<1>9. ASSUME hooks' = hooks \/ \A p \in Place, e \in Event :
               hooks[p][e] \subseteq hooks'[p][e] /\ \A c \in hooks'[p][e] \ hooks[p][e] : ~ IsOurs(c)
      PROVE  \A p \in Place : (FollowsIn(p) => FollowsIn(p)') /\ (CoveredIn(p) => CoveredIn(p)')
  BY <1>0, <1>9 DEF FollowsIn, CoveredIn, IsOurs
<1>10. ASSUME NEW p \in Place, TearsHooks(p), \A e \in Event : hooks'[p][e] = {},
              \A o \in Place \ {p} : hooks'[o] = hooks[o], ~ Installs, ~ \E o \in Place : RemovesStale(o)
       PROVE  /\ \A o \in PastStale' \ cli'.skipped : FollowsIn(o)'
              /\ cli'.step \in {"record", "done"} => at \in cli'.skipped \/ CoveredIn(at)'
  <2>1. cli' # Idle
    BY <1>0, <1>1, IdleIs DEF SameCommand
  <2>2. cli'.skipped = cli.skipped \cup {p}
    BY <1>10, <2>1, TearsOne DEF Typed
  <2>3. \A o \in Place \ {p} : (FollowsIn(o) => FollowsIn(o)') /\ (CoveredIn(o) => CoveredIn(o)')
    BY <1>0, <1>10 DEF FollowsIn, CoveredIn, IsOurs
  <2>. QED BY <1>2, <1>3, <1>4, <1>8, <1>10, <2>2, <2>3
<1>11. ASSUME NEW p \in Place, RemovesHooks(p)
       PROVE  FALSE
  BY <1>2, <1>11 DEF RemovesHooks, Handles, InitStep
<1>12. ASSUME NEW p \in Place, RemovesStale(p)
       PROVE  /\ \A o \in PastStale' \ cli'.skipped : FollowsIn(o)'
              /\ cli'.step \in {"record", "done"} => at \in cli'.skipped \/ CoveredIn(at)'
  <2>1. PastStale' \subseteq PastStale \/ \E o \in Place : RemovesStale(o) /\ PastStale' \subseteq PastStale \cup {o}
    BY DEF GoesOn
  <2>2. cli'.step = "stale" /\ \A o \in Place : FollowsIn(o) => FollowsIn(o)'
    BY <1>6, <1>12
  <2>. QED BY <1>3, <1>5, <1>6, <2>1, <2>2
<1>13. CASE ~ Installs /\ ~ \E p \in Place : RemovesStale(p)
  <2>1. CASE \E p \in Place : /\ TearsHooks(p) /\ \A e \in Event : hooks'[p][e] = {}
                              /\ \A o \in Place \ {p} : hooks'[o] = hooks[o]
    BY <1>10, <1>13, <2>1
  <2>2. CASE hooks' = hooks \/ \A p \in Place, e \in Event :
               hooks[p][e] \subseteq hooks'[p][e] /\ \A c \in hooks'[p][e] \ hooks[p][e] : ~ IsOurs(c)
    BY <1>2, <1>3, <1>4, <1>5, <1>8, <1>9, <1>13, <2>2
  <2>. QED BY <1>11, <1>13, <2>1, <2>2, HooksAre
<1>. QED BY <1>7, <1>12, <1>13

\* No step undoes what `init` has done so far.
LEMMA InitKeeps ==
  ASSUME Typed, InitProgress, [Next]_vars
  PROVE  InitProgress'
<1>1. ASSUME cli'.does # "init"
      PROVE  InitProgress'
  BY <1>1 DEF InitProgress
<1>2. ASSUME NEW p \in Place, BeginsInit(p)
      PROVE  InitProgress'
  <2>1. PastStale' = {} /\ cli'.step = "note"
    BY <1>2, Begin DEF PastStale, Past
  <2>. QED BY <2>1 DEF InitProgress
<1>3. ASSUME NEW chained, StatuslineInstall(chained)
      PROVE  cli'.does # "init"
  BY <1>3, Lines, IdleIs
<1>. QED BY <1>1, <1>2, <1>3, InitGoesOn, CommandGoes, Begin, IdleIs

\* The types, the texts and the writers' texts, of any reachable state.
InOrder == Typed /\ FilesOK /\ WritersOK

\* It is in order at first, and stays so.
LEMMA InOrderInit == Init => InOrder
BY TypedInit, FilesInit DEF InOrder

\* Every step of anybody keeps it so.
LEMMA InOrderStep == InOrder /\ [Next]_vars => InOrder'
BY TypedStep, FilesStep, WritersStep DEF InOrder

\* An `init` that came to its end follows the build it runs from, whoever wrote into
\* the settings files while it ran: no hook of ours is another build's, and every
\* event has ours or somebody else's.
THEOREM InitDoesItsWork == Spec => []InitFollowsTheBuild
<1>1. Typed /\ InitProgress => InitFollowsTheBuild
  <2> SUFFICES ASSUME Typed, InitProgress, cli.does = "init", cli.step = "done", "hooks" \in scene
               PROVE  InitFollowsTheBuild
    BY DEF InitFollowsTheBuild
  <2>1. PastStale = Place
    BY DEF PastStale, Past
  <2>. QED BY <2>1 DEF InitProgress, InitFollowsTheBuild, FollowsIn, CoveredIn
<1>2. Init => InOrder /\ InitProgress
  BY InOrderInit, IdleIs DEF Init, InitProgress
<1>3. InOrder /\ InitProgress /\ [Next]_vars => (InOrder /\ InitProgress)'
  BY InOrderStep, InitKeeps DEF InOrder
<1>4. InOrder => Typed
  BY DEF InOrder
<1>. QED BY <1>1, <1>2, <1>3, <1>4, PTL DEF Spec

-----------------------------------------------------------------------------
(* What is ours, and what an uninstall has taken out. *)

\* A server started for this root is ours.
ServersOK ==
  /\ mcp \in [Scope -> Command \cup {Nothing}]
  /\ \A s \in Scope : mcp[s].root = Here => mcp[s].by = "contextd"

\* A command that is recorded is ours.
RecordedOK ==
  /\ recorded = Nothing \/ IsOurs(recorded)
  /\ cli.recorded = Nothing \/ IsOurs(cli.recorded)

\* The user's status line is never ours, and what --chain took over, or is about to note,
\* is a person's; what is noted of the project's file stands in for a line in it.
Somebodys(c) == c \in {Nothing, Persons} \/ isOurStatusline(c)
LinesOK ==
  /\ \A p \in Place : Somebodys(line[p])
  /\ Somebodys(chain.was) /\ (cli.step = "chain" => Somebodys(cli.replaced.was))
  /\ ~ Rechains =>
       /\ line["user"] \in {Nothing, Persons}
       /\ chain = NoChain \/ (chain.at \in Place /\ chain.was = Persons)
       /\ chain.at = "project" => line["project"] # Nothing
       /\ cli.step = "chain" =>
            /\ cli.replaced.at \in Place /\ cli.replaced.was = Persons
            /\ line["project"] # Nothing
            /\ cli.replaced.at = "user" => chain.at # "project"

\* A block is in a file a list names, or one that was not noted; while an uninstall is
\* under way, in a file it has yet to go to, or one no list named when it read them.
BlocksOK ==
  \A f \in File : hasBlock(file[f].text) =>
    /\ f \in targets \cup stray
    /\ Uninstalling => f \in Pending \cup stray

\* What an uninstall has gone past has nothing of ours.
NoHooks == \A p \in PastHooks \ cli.skipped, e \in Event : \A c \in hooks[p][e] : ~ IsOurs(c)
NoServers == \A s \in PastServers : fileFor(s) \in cli.skipped \/ ~ IsOurs(mcp[s])
NoLines == Rechains \/ \A p \in PastLines : ~ isOurStatusline(line[p])

WiringInv == InOrder /\ ServersOK /\ RecordedOK /\ LinesOK /\ BlocksOK /\ NoHooks /\ NoServers /\ NoLines

\* A command that is not in progress, or begins, has gone past nothing.
LEMMA NothingPast ==
  ASSUME Typed, [Next]_vars, ~ GoesOn
  PROVE  /\ PastHooks' = {} /\ PastServers' = {} /\ PastLines' = {}
         /\ Uninstalling' => ~ Uninstalling /\ Pending' = targets \cup Declared
<1>1. CASE cli' = Idle
  BY <1>1, IdleIs DEF PastHooks, PastServers, PastLines, Past, Uninstalling
<1>2. ASSUME NEW p \in Place, BeginsInit(p)
      PROVE  PastHooks' = {} /\ PastServers' = {} /\ PastLines' = {} /\ ~ Uninstalling'
  BY <1>2, Begin DEF PastHooks, PastServers, PastLines, Past, Uninstalling
<1>3. ASSUME NEW does \in {"uninstall", "purge"}, BeginsUninstall(does)
      PROVE  /\ PastHooks' = {} /\ PastServers' = {} /\ PastLines' = {}
             /\ ~ Uninstalling /\ Pending' = targets \cup Declared
  <2>1. cli = Idle
    BY <1>3 DEF BeginsUninstall
  <2>2. cli'.does = does /\ cli'.step = "hooks" /\ cli'.left = Place /\ cli'.files = targets \cup Declared
    BY <1>3, Begin
  <2>. QED BY <2>1, <2>2, IdleIs DEF PastHooks, PastServers, PastLines, Past, AfterLines, Uninstalling, Pending
<1>4. CASE BeginsUnline
  BY <1>4, Begin DEF PastHooks, PastServers, PastLines, Past, AfterLines, Uninstalling
<1>5. ASSUME NEW chained, StatuslineInstall(chained)
      PROVE  PastHooks' = {} /\ PastServers' = {} /\ PastLines' = {} /\ ~ Uninstalling'
  BY <1>1, <1>5, Lines DEF PastHooks, PastServers, PastLines, Past, Uninstalling
<1>. QED BY <1>1, <1>2, <1>3, <1>4, <1>5, CommandGoes

\* The servers under our name.
LEMMA ServersStep ==
  ASSUME ServersOK, Typed, [Next]_vars
  PROVE  /\ ServersOK'
         /\ \/ mcp' = mcp
            \/ \E s \in Scope : RemovesServers(s)
            \/ cli = Idle /\ cli' = cli
            \/ \A s \in Scope : mcp'[s] = mcp[s] \/ ~ IsOurs(mcp'[s])
<1>1. ASSUME NEW s \in Scope, NEW entry, entry \in Command, entry.root = Here => entry.by = "contextd",
             mcp' = [mcp EXCEPT ![s] = entry]
      PROVE  ServersOK'
  BY <1>1 DEF ServersOK
<1>2. ASSUME NEW s \in Scope, mcp' = [mcp EXCEPT ![s] = Nothing]
      PROVE  ServersOK'
  <2>1. Nothing.root # Here
    BY WiringAssumption DEF Nothing
  <2>. QED BY <1>2, <2>1 DEF ServersOK
<1>3. ASSUME NEW s \in Scope, NEW entry \in {Persons} \cup {Runs(build, q) : q \in Project \ {Here}},
             WritesServer(s, entry)
      PROVE  ServersOK' /\ \A o \in Scope : mcp'[o] = mcp[o] \/ ~ IsOurs(mcp'[o])
  <2>1. entry \in Command /\ entry.root # Here /\ ~ IsOurs(entry)
    BY WiringAssumption, OthersHooks DEF Typed, Persons, Runs, Command
  <2>2. mcp' = [mcp EXCEPT ![s] = entry]
    BY <1>3 DEF WritesServer
  <2>. QED BY <1>1, <2>1, <2>2 DEF ServersOK
<1>4. ASSUME NEW s \in Scope, NEW force, mcpInstall(s, force)
      PROVE  ServersOK' /\ cli = Idle /\ cli' = cli
  <2>1. PICK wanted : wanted = Runs(build, Here)
    OBVIOUS
  <2>2. wanted \in Command /\ wanted.by = "contextd"
    BY <2>1, WiringAssumption DEF Typed, Runs, Command
  <2>3. mcp' = [mcp EXCEPT ![s] = wanted] \/ mcp' = [mcp EXCEPT ![s] = Nothing]
    BY <1>4, <2>1 DEF mcpInstall
  <2>4. cli = Idle /\ cli' = cli
    BY <1>4 DEF mcpInstall
  <2>. QED BY <1>1, <1>2, <2>2, <2>3, <2>4
<1>5. ASSUME NEW s \in Scope, mcpUninstall(s) \/ RemovesServers(s)
      PROVE  ServersOK'
  <2>1. mcp' = mcp \/ mcp' = [mcp EXCEPT ![s] = Nothing]
    BY <1>5 DEF mcpUninstall, RemovesServers, Unregistered
  <2>. QED BY <1>2, <2>1 DEF ServersOK
<1>6. ASSUME NEW s \in Scope, mcpUninstall(s)
      PROVE  cli = Idle /\ cli' = cli
  BY <1>6 DEF mcpUninstall
<1>7. mcp' = mcp => ServersOK'
  BY DEF ServersOK
<1>. QED BY <1>3, <1>4, <1>5, <1>6, <1>7, ServersMove

\* What is recorded, and what a command in progress has read of it.
LEMMA RecordedStep ==
  ASSUME RecordedOK, Typed, [Next]_vars
  PROVE  RecordedOK'
<1>1. recorded' = Nothing \/ IsOurs(recorded')
  BY RecordMoves DEF RecordedOK, Records, Purges, HookCommand, Runs, IsOurs
<1>2. cli'.recorded \in {cli.recorded, recorded, Nothing}
  <2>1. ASSUME NEW chained, StatuslineInstall(chained)
        PROVE  cli'.recorded = Nothing
    BY <2>1, Lines, IdleIs
  <2>. QED BY <2>1, CommandGoes, Begin, IdleIs DEF GoesOn, SameCommand
<1>. QED BY <1>1, <1>2 DEF RecordedOK, IsOurs

\* The status lines.
LEMMA LinesStep ==
  ASSUME LinesOK, Typed, NoLines, [Next]_vars
  PROVE  LinesOK'
<1>1. /\ "user" \in Place /\ "project" \in Place /\ Place = {"user", "project"} /\ None \notin Place
      /\ ~ isOurStatusline(Persons) /\ ~ isOurStatusline(Nothing) /\ Persons # Nothing
      /\ line \in [Place -> Command \cup {Nothing}] /\ NoChain.at = None /\ NoChain.was = Nothing
  BY WiringAssumption DEF Place, isOurStatusline, Persons, Nothing, Typed, NoChain
<1>2. cli'.step = "chain" =>
        \/ cli.step = "chain" /\ cli'.replaced = cli.replaced
        \/ \E chained \in BOOLEAN : StatuslineInstall(chained) /\ installed # NoChain
  <2>1. GoesOn => (cli'.step = "chain" => cli.step = "chain" /\ cli'.replaced = cli.replaced)
    BY DEF GoesOn, SameCommand
  <2>2. \A p \in Place : BeginsInit(p) => cli'.step # "chain"
    BY Begin
  <2>3. \A does \in {"uninstall", "purge"} : BeginsUninstall(does) => cli'.step # "chain"
    BY Begin
  <2>4. (BeginsUnline \/ cli' = Idle) => cli'.step # "chain"
    BY Begin, IdleIs
  <2>5. ASSUME NEW chained, StatuslineInstall(chained)
        PROVE  cli'.step # "chain" \/ installed # NoChain
    BY <2>5, Lines, IdleIs
  <2>. QED BY <2>1, <2>2, <2>3, <2>4, <2>5, CommandGoes
<1>3. ASSUME chain' = chain, cli'.step = "chain" => cli.step = "chain" /\ cli'.replaced = cli.replaced,
             \A p \in Place : Somebodys(line'[p]),
             ~ Rechains => line'["user"] \in {Nothing, Persons},
             ~ Rechains => \/ line["project"] # Nothing => line'["project"] # Nothing
                           \/ chain.at # "project" /\ cli'.step # "chain"
      PROVE  LinesOK'
  BY <1>1, <1>3 DEF LinesOK, Somebodys, isOurStatusline
<1>4. ASSUME NEW p \in Place, WritesLine(p) \/ TearsHooks(p), ~ \E chained \in BOOLEAN : StatuslineInstall(chained)
      PROVE  LinesOK'
  <2>1. chain' = chain
    BY <1>4 DEF WritesLine, TearsHooks, notes
  <2>2. \/ line' = [line EXCEPT ![p] = Persons]
        \/ line' = line
        \/ p = "user" /\ line' = [line EXCEPT ![p] = Nothing]
    BY <1>4 DEF WritesLine, TearsHooks
  <2>3. /\ \A q \in Place : line'[q] \in {line[q], Nothing, Persons}
        /\ line["project"] # Nothing => line'["project"] # Nothing
    BY <1>1, <2>2
  <2>. QED BY <1>1, <1>2, <1>3, <1>4, <2>1, <2>3 DEF LinesOK, Somebodys
<1>5. ASSUME NEW p \in Place, RemovesLine(p), ~ \E chained \in BOOLEAN : StatuslineInstall(chained)
      PROVE  LinesOK'
  <2>1. chain' = chain /\ line' = [line EXCEPT ![p] = Restored(p)]
    BY <1>5 DEF RemovesLine, notes
  <2>2. cli'.step = "line"
    <3>1. {} \in SUBSET Config
      OBVIOUS
    <3>. QED BY <1>5, <3>1, HandlesOne DEF RemovesLine, Typed
  <2>3. \/ Restored(p) = line[p]
        \/ Restored(p) = Nothing /\ chain.at # p
        \/ Restored(p) = chain.was /\ chain.at = p
    BY DEF Restored
  <2>4. \A q \in Place : line'[q] = IF q = p THEN Restored(p) ELSE line[q]
    BY <1>1, <2>1
  <2>5. \A q \in Place : Somebodys(line'[q])
    BY <2>3, <2>4 DEF LinesOK, Somebodys
  <2>6. ~ Rechains => line'["user"] \in {Nothing, Persons}
    BY <1>1, <2>3, <2>4 DEF LinesOK
  <2>7. ~ Rechains => \/ line["project"] # Nothing => line'["project"] # Nothing
                      \/ chain.at # "project" /\ cli'.step # "chain"
    BY <1>1, <2>2, <2>3, <2>4 DEF LinesOK
  <2>. QED BY <1>2, <1>3, <1>5, <2>1, <2>5, <2>6, <2>7
<1>6. ASSUME line' = line, chain' = chain, ~ \E chained \in BOOLEAN : StatuslineInstall(chained)
      PROVE  LinesOK'
  BY <1>1, <1>2, <1>3, <1>6 DEF LinesOK
<1>7. ASSUME ForgetsChain \/ Purges
      PROVE  LinesOK'
  <2>1. line' = line /\ chain' = NoChain /\ cli.step \in {"forget", "purge"} /\ cli'.step # "chain"
    <3>1. {"done", "unregister"} \subseteq CommandStep
      BY DEF CommandStep
    <3>. QED BY <1>7, <3>1, StepsTo DEF ForgetsChain, Purges, wires, Typed
  <2>. QED BY <1>1, <2>1 DEF LinesOK, Somebodys
<1>8. CASE NotesChain
  <2>1. line' = line /\ chain' = cli.replaced /\ cli.step = "chain" /\ cli'.step = "done"
    <3>1. "done" \in CommandStep
      BY DEF CommandStep
    <3>. QED BY <1>8, <3>1, StepsTo DEF NotesChain, wires, Typed
  <2>. QED BY <1>1, <2>1 DEF LinesOK, Somebodys
<1>9. ASSUME NEW chained, StatuslineInstall(chained)
      PROVE  LinesOK'
  <2>1. PICK ours : ours = Runs(build, None)
    OBVIOUS
  <2>2. line' = [line EXCEPT !["project"] = ours] /\ chain' = chain /\ isOurStatusline(ours) /\ ours # Nothing
    BY <1>9, <2>1 DEF StatuslineInstall, notes, isOurStatusline, Runs, Nothing
  <2>3. line'["project"] = ours /\ line'["user"] = line["user"]
    BY <1>1, <2>2
  <2>4. cli'.step = "chain" => cli'.replaced = installed /\ installed # NoChain
    BY <1>9, Lines, IdleIs
  <2>5. installed # NoChain =>
          \/ installed.at = "project" /\ installed.was = line["project"] /\ line["project"] # Nothing
          \/ installed.at = "user" /\ installed.was = line["user"] /\ line["user"] # Nothing /\ line["project"] = Nothing
    BY DEF installed
  <2>6. ~ Rechains => ~ isOurStatusline(installed.was)
    BY <1>9 DEF StatuslineInstall
  <2>7. \A p \in Place : Somebodys(line'[p])
    BY <1>1, <2>2, <2>3 DEF LinesOK, Somebodys
  <2>8. cli'.step = "chain" => Somebodys(cli'.replaced.was)
    BY <1>1, <2>4, <2>5 DEF LinesOK
  <2>9. ~ Rechains /\ cli'.step = "chain" =>
           /\ cli'.replaced.at \in Place /\ cli'.replaced.was = Persons
           /\ cli'.replaced.at = "user" => chain.at # "project"
    BY <1>1, <2>4, <2>5, <2>6 DEF LinesOK, Somebodys
  <2>. QED BY <2>2, <2>3, <2>7, <2>8, <2>9 DEF LinesOK, Somebodys, isOurStatusline
<1>10. \A p \in Place : WritesLine(p) \/ RemovesLine(p) \/ TearsHooks(p) => chain' = chain
  BY DEF WritesLine, RemovesLine, TearsHooks, notes
<1>11. ForgetsChain \/ Purges \/ NotesChain => line' = line
  BY DEF NotesChain, ForgetsChain, Purges, wires
<1>. QED BY <1>4, <1>5, <1>6, <1>7, <1>8, <1>9, LinesMove, ChainMoves

\* The blocks.
LEMMA BlocksStep ==
  ASSUME BlocksOK, InOrder, [Next]_vars
  PROVE  BlocksOK'
<1>0. Typed /\ FilesOK /\ WritersOK
  BY DEF InOrder
<1>1. ASSUME NEW f \in File, NEW text, file' = [file EXCEPT ![f] = text]
      PROVE  file'[f] = text /\ \A g \in File : g # f => file'[g] = file[g]
  BY <1>0, <1>1 DEF FilesOK
<1>2. ASSUME NEW g \in File, file' = [file EXCEPT ![g] = [there |-> TRUE, text |-> <<>>]]
      PROVE  \A f \in File : hasBlock(file'[f].text) => hasBlock(file[f].text)
  <2>1. PICK new : new = [there |-> TRUE, text |-> <<>>]
    OBVIOUS
  <2>2. file'[g] = new /\ \A f \in File : f # g => file'[f] = file[f]
    BY <1>1, <1>2, <2>1
  <2>3. new.text = <<>>
    BY <2>1
  <2>4. file'[g].text = <<>>
    BY <2>2, <2>3
  <2>5. ~ hasBlock(file'[g].text)
    BY <2>4, Empty
  <2>. QED BY <2>2, <2>5
<1>3. ASSUME NEW g \in File, RemovesMirror(g)
      PROVE  /\ ~ hasBlock(file'[g].text) /\ \A f \in File : f # g => file'[f] = file[f]
             /\ stray' = stray \ {g} /\ targets' = targets
             /\ Uninstalling' = Uninstalling /\ Pending' = Pending \ {g}
  <2>1. file' = [file EXCEPT ![g] = Removed(g, g \in cli.made)] /\ stray' = stray \ {g} /\ targets' = targets
    BY <1>3 DEF RemovesMirror, notes
  <2>2. (g \in cli.made) \in BOOLEAN
    OBVIOUS
  <2>3. ~ hasBlock(Removed(g, g \in cli.made).text)
    BY <1>0, <2>2, RemovedIs
  <2>4. SameCommand /\ cli.step = "mirrors" /\ cli'.step = "mirrors" /\ cli'.left = cli.left \ {g}
    <3>1. {} \in SUBSET Config
      OBVIOUS
    <3>. QED BY <1>0, <1>3, <3>1, HandlesOne DEF RemovesMirror, Typed
  <2>. QED BY <1>1, <2>1, <2>3, <2>4 DEF Uninstalling, Pending, SameCommand
<1>4. \/ \E w \in Writer : Writes(w)
      \/ \A f \in File : hasBlock(file'[f].text) => hasBlock(file[f].text)
  <2>1. ASSUME NEW g \in File, TearsRemoval(g)
        PROVE  \A f \in File : hasBlock(file'[f].text) => hasBlock(file[f].text)
    BY <1>2, <2>1 DEF TearsRemoval
  <2>2. ASSUME NEW w \in Writer, TearsMirror(w)
        PROVE  \A f \in File : hasBlock(file'[f].text) => hasBlock(file[f].text)
    <3>1. writing[w] # None /\ writing[w].at = "writing"
      BY <2>2 DEF TearsMirror, At
    <3>2. writing[w].on \in File
      BY <1>0, <3>1 DEF WritersOK, WriterOK
    <3>. QED BY <1>2, <2>2, <3>2 DEF TearsMirror
  <2>3. ASSUME NEW g \in File, Edits(g) \/ DeletesFile(g)
        PROVE  \A f \in File : hasBlock(file'[f].text) => hasBlock(file[f].text)
    BY <1>0, <2>3, EditsKeep
  <2>. QED BY <1>3, <2>1, <2>2, <2>3, FilesMove
<1>5. ASSUME NEW w \in Writer, Writes(w)
      PROVE  BlocksOK'
  <2>1. PICK f : f = writing[w].on
    OBVIOUS
  <2>2. f \in File /\ \E text : file' = [file EXCEPT ![f] = text]
    BY <1>0, <1>5, <2>1, MirroredIs
  <2>3. \A g \in File : g # f => file'[g] = file[g]
    BY <1>1, <2>2
  <2>4. /\ targets' = targets /\ cli' = cli
        /\ stray' = IF Uninstalling \/ f \notin targets THEN stray \cup {f} ELSE stray
    BY <1>5, <2>1 DEF Writes, notes
  <2>5. Uninstalling' = Uninstalling /\ Pending' = Pending
    BY <2>4 DEF Uninstalling, Pending
  <2>. QED BY <2>3, <2>4, <2>5 DEF BlocksOK
<1>6. ASSUME NEW g \in File, RemovesMirror(g)
      PROVE  BlocksOK'
  BY <1>3, <1>6 DEF BlocksOK
<1>7. ASSUME NEW w \in Writer, NotesTarget(w)
      PROVE  BlocksOK'
  <2>1. /\ file' = file /\ cli' = cli
        /\ stray' = IF Uninstalling THEN stray \cup (targets \ targets') ELSE (stray \cup targets) \ targets'
    BY <1>7 DEF NotesTarget, wires
  <2>2. Uninstalling' = Uninstalling /\ Pending' = Pending
    BY <2>1 DEF Uninstalling, Pending
  <2>. QED BY <2>1, <2>2 DEF BlocksOK
<1>8. CASE Purges
  <2>1. file' = file /\ stray' = stray
    BY <1>8 DEF Purges, wires
  <2>2. cli.step = "purge" /\ cli'.step = "unregister" /\ SameCommand
    <3>1. "unregister" \in CommandStep
      BY DEF CommandStep
    <3>. QED BY <1>0, <1>8, <3>1, StepsTo DEF Purges, Typed
  <2>3. Uninstalling /\ Pending = {}
    BY <1>0, <2>2 DEF Typed, CommandTyped, Remembering, StepsOf, InitStep, UninstallingStep, Uninstalling, Pending
  <2>. QED BY <2>1, <2>3 DEF BlocksOK
<1>9. ASSUME \A f \in File : hasBlock(file'[f].text) => hasBlock(file[f].text),
             UNCHANGED <<targets, stray>>, ~ \E g \in File : RemovesMirror(g)
      PROVE  BlocksOK'
  <2>1. CASE GoesOn
    <3>1. Uninstalling' = Uninstalling /\ Pending \subseteq Pending'
      BY <1>9, <2>1 DEF GoesOn, SameCommand, Uninstalling
    <3>. QED BY <1>9, <3>1 DEF BlocksOK
  <2>2. CASE ~ GoesOn
    BY <1>0, <1>9, <2>2, NothingPast DEF BlocksOK
  <2>. QED BY <2>1, <2>2
<1>10. \A w \in Writer : NotesCreated(w) => UNCHANGED <<targets, stray>>
  BY DEF NotesCreated
<1>. QED BY <1>4, <1>5, <1>6, <1>7, <1>8, <1>9, <1>10, ListsMove

\* The hooks an uninstall took out stay out.
LEMMA HooksStayOut ==
  ASSUME Typed, NoHooks, [Next]_vars
  PROVE  NoHooks'
<1>1. CASE ~ GoesOn
  BY <1>1, NothingPast DEF NoHooks
<1>2. CASE GoesOn
  <2>1. \A p \in PastHooks : p \in Place /\ cli.step \in UninstallingStep
    BY DEF PastHooks, Past, AfterLines, UninstallingStep
  <2>2. cli.skipped \subseteq cli'.skipped
    BY <1>2 DEF GoesOn, SameCommand
  <2>3. ASSUME NEW p \in Place, RemovesHooks(p)
        PROVE  /\ p \in cli'.skipped \/ \A e \in Event : \A c \in hooks'[p][e] : ~ IsOurs(c)
               /\ \A o \in Place, e \in Event : hooks'[o][e] \subseteq hooks[o][e]
    <3>1. cli'.skipped = cli.skipped \cup ({p} \cap broken) /\ hooks' = Without(p, Ours(cli.recorded))
      <4>1. {p} \cap broken \in SUBSET Config
        BY DEF Config
      <4>. QED BY <2>3, <4>1, HandlesOne DEF RemovesHooks, Typed
    <3>2. ASSUME p \notin broken, NEW e \in Event, NEW c \in hooks'[p][e], IsOurs(c)
          PROVE  FALSE
      <4>1. c \in Command /\ c \notin Ours(cli.recorded)
        BY <3>1, <3>2, TakenOut
      <4>. QED BY <3>2, <4>1 DEF Ours, isOurHookCommand, IsOurs
    <3>3. \A o \in Place, e \in Event : hooks'[o][e] \subseteq hooks[o][e]
      BY <3>1 DEF Without, Typed
    <3>. QED BY <3>1, <3>2, <3>3
  <2>4. PastHooks' \subseteq PastHooks \/ \E p \in Place : RemovesHooks(p) /\ PastHooks' \subseteq PastHooks \cup {p}
    BY <1>2 DEF GoesOn
  <2>5. ASSUME NEW p \in Place, RemovesHooks(p)
        PROVE  NoHooks'
    <3>1. PastHooks' \subseteq PastHooks \cup {o \in Place : RemovesHooks(o)}
      BY <2>4
    <3>. QED BY <2>1, <2>2, <2>3, <2>5, <3>1 DEF NoHooks, IsOurs
  <2>6. CASE ~ \E p \in Place : RemovesHooks(p)
    <3>1. PastHooks' \subseteq PastHooks
      BY <2>4, <2>6
    <3>2. SUFFICES ASSUME NEW p \in PastHooks, p \notin cli.skipped, NEW e \in Event, NEW c \in hooks'[p][e], IsOurs(c),
                          p \in PastHooks', p \notin cli'.skipped
                   PROVE  c \in hooks[p][e]
      BY <2>1, <2>2, <3>1 DEF NoHooks, IsOurs
    <3>3. p \in Place /\ cli.step \in UninstallingStep
      BY <2>1
    <3>4. ~ Installs /\ ~ \E o \in Place : RemovesStale(o)
      BY <3>3 DEF Installs, RemovesStale, Handles, UninstallingStep
    <3>. QED BY <2>6, <3>2, <3>3, <3>4, HooksAre
  <2>. QED BY <2>5, <2>6
<1>. QED BY <1>1, <1>2

\* The servers an uninstall took out stay out.
LEMMA ServersStayOut ==
  ASSUME Typed, ServersOK, NoServers, [Next]_vars
  PROVE  NoServers'
<1>1. CASE ~ GoesOn
  BY <1>1, NothingPast DEF NoServers
<1>2. CASE GoesOn
  <2>1. \A s \in PastServers : s \in Scope /\ cli # Idle
    BY IdleIs DEF PastServers, Past
  <2>2. cli.skipped \subseteq cli'.skipped
    BY <1>2 DEF GoesOn, SameCommand
  <2>3. ASSUME NEW s \in Scope, RemovesServers(s)
        PROVE  /\ fileFor(s) \in cli'.skipped \/ ~ IsOurs(mcp'[s])
               /\ \A o \in Scope : mcp'[o] = mcp[o] \/ ~ IsOurs(mcp'[o])
    <3>1. cli'.skipped = cli.skipped \cup ({fileFor(s)} \cap broken) /\ mcp' = Unregistered(s)
      <4>1. {fileFor(s)} \cap broken \in SUBSET Config
        BY DEF Config
      <4>. QED BY <2>3, <4>1, HandlesOne DEF RemovesServers, Typed
    <3>2. ~ IsOurs(Nothing)
      BY DEF IsOurs, Nothing
    <3>3. fileFor(s) \notin broken => ~ IsOurs(mcp'[s])
      BY <3>1, <3>2 DEF Unregistered, get, servesProject, IsOurs, ServersOK
    <3>. QED BY <3>1, <3>2, <3>3 DEF Unregistered, ServersOK
  <2>4. PastServers' \subseteq PastServers
        \/ \E s \in Scope : RemovesServers(s) /\ PastServers' \subseteq PastServers \cup {s}
    BY <1>2 DEF GoesOn
  <2>5. ASSUME NEW s \in Scope, RemovesServers(s)
        PROVE  NoServers'
    <3>1. PastServers' \subseteq PastServers \cup {o \in Scope : RemovesServers(o)}
      BY <2>4
    <3>. QED BY <2>1, <2>2, <2>3, <2>5, <3>1 DEF NoServers, IsOurs
  <2>6. CASE ~ \E s \in Scope : RemovesServers(s)
    <3>1. PastServers' \subseteq PastServers
      BY <2>4, <2>6
    <3>2. ASSUME NEW s \in PastServers
          PROVE  mcp'[s] = mcp[s] \/ ~ IsOurs(mcp'[s])
      BY <2>1, <2>6, ServersStep
    <3>. QED BY <2>2, <3>1, <3>2 DEF NoServers, IsOurs
  <2>. QED BY <2>5, <2>6
<1>. QED BY <1>1, <1>2

\* The status line, too.
LEMMA LinesStayOut ==
  ASSUME Typed, LinesOK, NoLines, [Next]_vars
  PROVE  NoLines'
<1>0. SUFFICES ASSUME ~ Rechains
               PROVE  \A p \in PastLines' : ~ isOurStatusline(line'[p])
  BY DEF NoLines, isOurStatusline
<1>1. CASE ~ GoesOn
  BY <1>1, NothingPast
<1>2. CASE GoesOn
  <2>1. /\ \A p \in PastLines : p \in Place /\ cli # Idle /\ ~ isOurStatusline(line[p])
        /\ ~ isOurStatusline(Persons) /\ ~ isOurStatusline(Nothing)
        /\ line \in [Place -> Command \cup {Nothing}]
    BY <1>0, IdleIs DEF PastLines, Past, NoLines, isOurStatusline, Persons, Nothing, Typed
  <2>2. ASSUME NEW p \in Place, RemovesLine(p)
        PROVE  ~ isOurStatusline(line'[p]) /\ \A o \in Place : line'[o] = line[o] \/ ~ isOurStatusline(line'[o])
    <3>1. line' = [line EXCEPT ![p] = Restored(p)]
      BY <2>2 DEF RemovesLine
    <3>2. ~ isOurStatusline(Restored(p))
      BY <1>0, <2>1 DEF Restored, Unread, LinesOK, NoChain
    <3>. QED BY <2>1, <3>1, <3>2
  <2>3. PastLines' \subseteq PastLines \/ \E p \in Place : RemovesLine(p) /\ PastLines' \subseteq PastLines \cup {p}
    BY <1>2 DEF GoesOn
  <2>4. ASSUME NEW p \in PastLines
        PROVE  ~ isOurStatusline(line'[p])
    <3>1. ASSUME NEW o \in Place, WritesLine(o) \/ TearsHooks(o)
          PROVE  ~ isOurStatusline(line'[p])
      BY <2>1, <3>1 DEF WritesLine, TearsHooks
    <3>2. \A chained : ~ StatuslineInstall(chained)
      BY <2>1, Lines
    <3>. QED BY <2>1, <2>2, <3>1, <3>2, LinesMove
  <2>. QED BY <2>2, <2>3, <2>4
<1>. QED BY <1>1, <1>2

\* The invariant holds at first.
LEMMA WiringInit == Init => WiringInv
<1> SUFFICES ASSUME Init PROVE WiringInv
  OBVIOUS
<1>1. ServersOK
  BY WiringAssumption DEF Init, ServersOK, Nothing
<1>2. RecordedOK
  BY IdleIs DEF Init, RecordedOK
<1>3. LinesOK
  <2>1. /\ line = [p \in Place |-> Nothing] /\ chain = NoChain /\ cli.step # "chain"
        /\ NoChain.at = None /\ NoChain.was = Nothing
    BY IdleIs DEF Init, NoChain
  <2>2. \A p \in Place : line[p] = Nothing
    BY <2>1
  <2>. QED BY <2>1, <2>2, WiringAssumption DEF LinesOK, Somebodys, Place
<1>4. BlocksOK
  BY Empty DEF Init, BlocksOK
<1>5. PastHooks = {} /\ PastServers = {} /\ PastLines = {}
  BY IdleIs DEF Init, PastHooks, PastServers, PastLines, Past
<1>. QED BY <1>1, <1>2, <1>3, <1>4, <1>5, InOrderInit DEF WiringInv, NoHooks, NoServers, NoLines

\* Every step keeps it.
LEMMA WiringStep == WiringInv /\ [Next]_vars => WiringInv'
<1> SUFFICES ASSUME WiringInv, [Next]_vars
             PROVE  WiringInv'
  OBVIOUS
<1>1. InOrder /\ Typed /\ ServersOK /\ RecordedOK /\ LinesOK /\ BlocksOK /\ NoHooks /\ NoServers /\ NoLines
  BY DEF WiringInv, InOrder
<1>. QED BY <1>1, InOrderStep, ServersStep, RecordedStep, LinesStep, BlocksStep, HooksStayOut, ServersStayOut,
     LinesStayOut DEF WiringInv

\* Whatever commands, people, other projects and builds do to the files contextd is wired
\* into, and wherever they are killed: a text has at most one end marker and every start
\* marker begins a block's body; a block is in a file some list names, or one that has
\* not been noted; a server of this root and a recorded hook are contextd's own; a status
\* line that is noted, or about to be, is a person's; and an uninstall under way has kept
\* out what it took out.  The next three theorems rest on it.
THEOREM WiringInvariant == Spec => []WiringInv
BY WiringInit, WiringStep, PTL DEF Spec

\* An uninstall that came to its end left no hook, no server and no status line of ours
\* in the files it could read, whichever build had put them there and whatever others
\* wrote while it ran, and no block but one that was not noted when it read the lists, or
\* was written after that.
THEOREM UninstallDoesItsWork == Spec => []UninstallLeavesNothing
<1>1. WiringInv => UninstallLeavesNothing
  <2> SUFFICES ASSUME WiringInv, Uninstalling, cli.step = "done"
               PROVE  UninstallLeavesNothing
    BY DEF UninstallLeavesNothing
  <2>1. PastHooks = Place /\ PastServers = Scope /\ PastLines = Place /\ Pending = {}
    BY DEF Uninstalling, PastHooks, PastServers, PastLines, Past, AfterLines, Pending
  <2>. QED BY <2>1 DEF WiringInv, NoHooks, NoServers, NoLines, BlocksOK, UninstallLeavesNothing
<1>. QED BY <1>1, WiringInvariant, PTL

-----------------------------------------------------------------------------
(* The doctor. *)

\* What doctor looks at: this project's hooks wherever they are, and its servers.
LEMMA DoctorLooks ==
  ASSUME WiringInv
  PROVE  /\ \A c \in installedHooks : IsOurs(c) => c \in inspectHooks
         /\ \A c \in inspectHooks : c \in installedHooks /\ c.by = "contextd"
         /\ \A s \in Scope : fileFor(s) \notin broken /\ IsOurs(mcp[s]) => s \in Serving /\ get(s) = mcp[s]
         /\ \A s \in Serving : s \in Scope /\ get(s) = mcp[s] /\ get(s).by = "contextd"
<1>1. \A c \in installedHooks : IsOurs(c) => c \in inspectHooks
  BY DEF inspectHooks, isOurHookCommand, IsOurs
<1>2. \A c \in inspectHooks : c \in installedHooks /\ c.by = "contextd"
  <2>1. SUFFICES ASSUME NEW c \in inspectHooks
                 PROVE  c \in installedHooks /\ c.by = "contextd"
    OBVIOUS
  <2>2. c \in installedHooks /\ c \in Command /\ (isOurHookCommand(c, recorded) \/ looksWired(c))
    BY DEF inspectHooks, installedHooks
  <2>3. recorded = Nothing \/ IsOurs(recorded)
    BY DEF WiringInv, RecordedOK
  <2>4. c # Nothing
    BY <2>2 DEF Command, Nothing
  <2>. QED BY <2>2, <2>3, <2>4 DEF isOurHookCommand, looksWired, IsOurs
<1>3. \A s \in Scope : fileFor(s) \notin broken /\ IsOurs(mcp[s]) => s \in Serving /\ get(s) = mcp[s]
  BY DEF Serving, servesProject, get, IsOurs
<1>4. \A s \in Serving : s \in Scope /\ get(s) = mcp[s] /\ get(s).by = "contextd"
  <2>1. SUFFICES ASSUME NEW s \in Serving
                 PROVE  s \in Scope /\ get(s) = mcp[s] /\ get(s).by = "contextd"
    OBVIOUS
  <2>2. s \in Scope /\ get(s).root = Here
    BY DEF Serving, servesProject
  <2>3. get(s) = mcp[s]
    BY <2>2, WiringAssumption DEF get, Nothing
  <2>. QED BY <2>2, <2>3 DEF WiringInv, ServersOK
<1>. QED BY <1>1, <1>2, <1>3, <1>4

\* A command of ours that cannot start is a failed check; one that can is a build that
\* is looked at.
LEMMA DoctorChecks ==
  ASSUME WiringInv, NEW m \in Machine, NEW c \in OurCommands
  PROVE  /\ c.build \notin m.stands => \E k \in diagnose(m) : k.status = "fail"
         /\ c.build \in m.stands /\ newerSource(m.checkout[c.build]) => \E k \in diagnose(m) : k.status = "warn"
<1>1. \/ c \in inspectHooks
      \/ \E s \in Serving : c = get(s)
  BY DoctorLooks DEF OurCommands
<1>2. ASSUME c.build \in m.stands, newerSource(m.checkout[c.build])
      PROVE  \E k \in diagnose(m) : k.status = "warn"
  <2>1. c.build \in Running
    BY <1>1, DoctorLooks DEF Running
  <2>2. Checked("build", "warn") \in buildChecks(m)
    BY <1>2, <2>1 DEF buildChecks, buildDrift
  <2>3. Checked("build", "warn").status = "warn"
    BY DEF Checked
  <2>. QED BY <2>2, <2>3 DEF diagnose
<1>3. ASSUME c.build \notin m.stands, c \in inspectHooks
      PROVE  \E k \in diagnose(m) : k.status = "fail"
  <2>1. Checked("hook command", "fail") \in hookChecks(m)
    BY <1>3 DEF hookChecks, resolveCommand
  <2>2. Checked("hook command", "fail").status = "fail"
    BY DEF Checked
  <2>. QED BY <2>1, <2>2 DEF diagnose, adapterChecks
<1>4. ASSUME c.build \notin m.stands, NEW s \in Serving, c = get(s)
      PROVE  \E k \in diagnose(m) : k.status = "fail"
  <2>1. Checked("mcp", "fail") \in mcpChecks(m)
    BY <1>4 DEF mcpChecks, resolveCommand
  <2>2. Checked("mcp", "fail").status = "fail"
    BY DEF Checked
  <2>. QED BY <2>1, <2>2 DEF diagnose
<1>. QED BY <1>1, <1>2, <1>3, <1>4

\* Only a command that cannot start fails a check.
LEMMA DoctorFails ==
  ASSUME WiringInv, NEW m \in Machine, NEW k \in diagnose(m), k.status = "fail"
  PROVE  \E c \in installedHooks \cup {get(s) : s \in Scope} : c.by = "contextd" /\ c.build \notin m.stands
<1>1. \A name, status : Checked(name, status).status = status
  BY DEF Checked
<1>2. ASSUME k \in hookChecks(m)
      PROVE  \E c \in inspectHooks : c.build \notin m.stands
  <2>1. inspectHooks # {} /\ k # Checked("hooks", "ok")
    <3>1. Checked("hooks", "warn").status # "fail" /\ Checked("hooks", "ok").status # "fail"
      BY DEF Checked
    <3>. QED BY <1>2, <3>1 DEF hookChecks
  <2>2. PICK c \in inspectHooks : k = Checked("hook command", IF resolveCommand(c, m) THEN "ok" ELSE "fail")
    BY <1>2, <2>1 DEF hookChecks
  <2>3. ~ resolveCommand(c, m)
    <3>1. Checked("hook command", "ok").status # "fail"
      BY DEF Checked
    <3>. QED BY <2>2, <3>1
  <2>. QED BY <2>3 DEF resolveCommand
<1>3. k # transcriptCheck(m)
  BY <1>1 DEF transcriptCheck
<1>4. ASSUME k \in mcpChecks(m)
      PROVE  \E s \in Serving : get(s).build \notin m.stands
  <2>1. Serving # {}
    BY <1>1, <1>4 DEF mcpChecks
  <2>2. PICK s \in Serving : k = Checked("mcp", IF resolveCommand(get(s), m) THEN "ok" ELSE "fail")
    BY <1>4, <2>1 DEF mcpChecks
  <2>3. ~ resolveCommand(get(s), m)
    BY <1>1, <2>2
  <2>. QED BY <2>3 DEF resolveCommand
<1>5. k \notin buildChecks(m)
  BY <1>1 DEF buildChecks
<1>6. k \in hookChecks(m) \/ k \in mcpChecks(m)
  BY <1>3, <1>5 DEF diagnose, adapterChecks
<1>. QED BY <1>2, <1>4, <1>6, DoctorLooks

\* `doctor` fails on a hook or a server of this project that cannot start, wherever it
\* is, is content only with builds their sources have not left behind, and does not
\* fail while everything of contextd's can start.
THEOREM DoctorIsRight == Spec => []DoctorSeesTheWiring
<1>1. WiringInv => DoctorSeesTheWiring
  <2>1. SUFFICES ASSUME WiringInv, NEW m \in Machine
                 PROVE  LET status == worstStatus(diagnose(m)) IN
                        /\ (\E c \in OurCommands : c.build \notin m.stands) => status = "fail"
                        /\ status = "ok" => \A c \in OurCommands : ~ newerSource(m.checkout[c.build])
                        /\ status = "fail" =>
                             \E c \in installedHooks \cup {get(s) : s \in Scope} : c.by = "contextd" /\ c.build \notin m.stands
    BY DEF DoctorSeesTheWiring
  <2>2. PICK status : status = worstStatus(diagnose(m))
    OBVIOUS
  <2>3. /\ status = "fail" <=> \E k \in diagnose(m) : k.status = "fail"
        /\ status = "ok" => \A k \in diagnose(m) : k.status # "warn"
    BY <2>2 DEF worstStatus
  <2>. QED BY <2>1, <2>2, <2>3, DoctorChecks, DoctorFails
<1>. QED BY <1>1, WiringInvariant, PTL

-----------------------------------------------------------------------------
(* What is theirs stays. *)

\* Passages that stay at their places are the same.
LEMMA SameSpots ==
  ASSUME NEW old \in Seq(Piece), NEW new \in Seq(Piece),
         \A i \in 1 .. Len(old) : old[i] \in Passage => i <= Len(new) /\ new[i] = old[i],
         \A i \in 1 .. Len(new) : new[i] \in Passage => i <= Len(old) /\ new[i] = old[i]
  PROVE  SamePassages(old, new)
<1> DEFINE at == [i \in PassagesAt(old) |-> i]
<1>1. PassagesAt(old) = PassagesAt(new)
  BY DEF PassagesAt
<1>2. at \in [PassagesAt(old) -> PassagesAt(new)] /\ \A i \in PassagesAt(old) : at[i] = i
  BY <1>1
<1>. HIDE DEF at
<1>3. \A i, j \in PassagesAt(old) : i < j => at[i] < at[j]
  BY <1>2
<1>4. \A i \in PassagesAt(old) : new[at[i]] = old[i]
  BY <1>2 DEF PassagesAt
<1>5. \A n \in PassagesAt(new) : \E i \in PassagesAt(old) : at[i] = n
  BY <1>1, <1>2
<1>. QED BY <1>2, <1>3, <1>4, <1>5 DEF SamePassages

\* A start marker that kept its end is next but one to it.
LEMMA WholeBlock ==
  ASSUME NEW text, TextOK(text), ~ Unterminated(text), hasBlock(text)
  PROVE  \E i \in 1 .. Len(text) :
           /\ i + 2 \in 1 .. Len(text) /\ find(text) = {<<i, i + 2>>}
           /\ text[i] = Start /\ text[i + 1] \in Memory /\ text[i + 2] = End
<1>0. text \in Seq(Piece) /\ Len(text) \in Nat /\ DOMAIN text = 1 .. Len(text)
  BY DEF TextOK
<1>1. PICK j \in 1 .. Len(text) : text[j] = End
  BY BlockHasEnd
<1>2. PICK i \in 1 .. Len(text) :
        /\ find(text) = {<<i, j>>} /\ i < j - 1 /\ text[i] = Start
        /\ \A m \in 1 .. Len(text) : text[m] = Start => i <= m /\ m <= j
        /\ \A m \in 1 .. Len(text) : text[m] = End => m = j
  BY <1>1, BlockAt
<1>3. j > 2 /\ text[j - 2] = Start /\ j - 2 \in 1 .. Len(text)
  BY <1>0, <1>1 DEF TextOK, Closed
<1>4. i <= j - 2
  BY <1>2, <1>3
<1>5. PICK n \in 1 .. Len(text) : /\ n > i /\ text[n] = End
                                  /\ \A k \in 1 .. Len(text) : ~ (i < k /\ k < n /\ text[k] = Start)
  BY <1>0, <1>2 DEF Unterminated
<1>6. n = j
  BY <1>2, <1>5
<1>7. i = j - 2
  BY <1>0, <1>3, <1>4, <1>5, <1>6
<1>8. text[i + 1] \in Memory
  BY <1>2 DEF TextOK, Begun
<1>9. j = i + 2
  BY <1>0, <1>7
<1>. QED BY <1>1, <1>2, <1>8, <1>9

\* A block that is written leaves the passages around it.
LEMMA UpsertKeepsPassages ==
  ASSUME NEW text, TextOK(text), ~ Unterminated(text), NEW body \in Memory
  PROVE  SamePassages(text, upsertBlock(text, <<body>>))
<1>0. text \in Seq(Piece) /\ Len(text) \in Nat
  BY DEF TextOK
<1>1. PICK k : k = Block(<<body>>)
  OBVIOUS
<1>2. k \in Seq(Piece) /\ Len(k) = 3 /\ k[1] = Start /\ k[2] = body /\ k[3] = End
  BY <1>1, BlockIs
<1>3. \A n \in 1 .. 3 : k[n] \notin Passage
  BY <1>2, Pieces
<1>4. CASE ~ hasBlock(text)
  <2>1. upsertBlock(text, <<body>>) = text \o k
    BY <1>1, <1>4 DEF upsertBlock
  <2>2. PICK new : new = text \o k
    OBVIOUS
  <2>3. /\ new \in Seq(Piece) /\ Len(new) = Len(text) + Len(k)
        /\ \A m \in 1 .. Len(text) : new[m] = text[m]
        /\ \A m \in 1 .. Len(k) : new[Len(text) + m] = k[m]
    BY <1>0, <1>2, <2>2, Joined
  <2>4. \A n \in 1 .. Len(new) : new[n] \in Passage => n <= Len(text) /\ new[n] = text[n]
    <3>1. ASSUME NEW n \in 1 .. Len(new), n > Len(text)
          PROVE  new[n] \notin Passage
      <4>1. n - Len(text) \in 1 .. 3 /\ n = Len(text) + (n - Len(text))
        BY <1>0, <1>2, <2>3, <3>1
      <4>2. new[n] = k[n - Len(text)]
        BY <1>2, <2>3, <4>1
      <4>. QED BY <1>3, <4>1, <4>2
    <3>. QED BY <1>0, <2>3, <3>1
  <2>5. \A n \in 1 .. Len(text) : text[n] \in Passage => n <= Len(new) /\ new[n] = text[n]
    BY <1>0, <1>2, <2>3
  <2>6. SamePassages(text, new)
    BY <1>0, <2>3, <2>4, <2>5, SameSpots
  <2>. QED BY <2>1, <2>2, <2>6
<1>5. CASE hasBlock(text)
  <2>1. PICK i \in 1 .. Len(text) :
          /\ i + 2 \in 1 .. Len(text) /\ find(text) = {<<i, i + 2>>}
          /\ text[i] = Start /\ text[i + 1] \in Memory /\ text[i + 2] = End
    BY <1>5, WholeBlock
  <2>2. PICK b, a : b = Before(text) /\ a = After(text)
    OBVIOUS
  <2>3. /\ b \in Seq(Piece) /\ a \in Seq(Piece)
        /\ Len(b) = i - 1 /\ \A m \in 1 .. i - 1 : b[m] = text[m]
        /\ Len(a) = Len(text) - (i + 2) /\ \A m \in 1 .. Len(text) - (i + 2) : a[m] = text[m + (i + 2)]
    BY <1>0, <2>1, <2>2, Around
  <2>4. PICK v, new : v = b \o k /\ new = v \o a
    OBVIOUS
  <2>5. /\ v \in Seq(Piece) /\ Len(v) = Len(b) + Len(k)
        /\ \A m \in 1 .. Len(b) : v[m] = b[m]
        /\ \A m \in 1 .. Len(k) : v[Len(b) + m] = k[m]
    BY <1>2, <2>3, <2>4, Joined
  <2>6. /\ new \in Seq(Piece) /\ Len(new) = Len(v) + Len(a)
        /\ \A m \in 1 .. Len(v) : new[m] = v[m]
        /\ \A m \in 1 .. Len(a) : new[Len(v) + m] = a[m]
    <3>1. v \in Seq(Piece) /\ a \in Seq(Piece)
      BY <2>3, <2>5
    <3>. QED BY <2>4, <3>1, Joined
  <2>7. Len(v) = i + 2 /\ Len(new) = Len(text)
    BY <1>0, <1>2, <2>3, <2>5, <2>6
  <2>8. \A n \in 1 .. Len(text) : n < i \/ n > i + 2 => new[n] = text[n]
    <3>1. SUFFICES ASSUME NEW n \in 1 .. Len(text), n < i \/ n > i + 2
                   PROVE  new[n] = text[n]
      OBVIOUS
    <3>2. CASE n < i
      <4>1. n \in 1 .. Len(b) /\ n \in 1 .. Len(v) /\ n \in 1 .. i - 1
        BY <2>3, <2>7, <3>2
      <4>. QED BY <2>3, <2>5, <2>6, <4>1
    <3>3. CASE n > i + 2
      <4>1. n - (i + 2) \in 1 .. Len(a) /\ n - (i + 2) \in 1 .. Len(text) - (i + 2)
        BY <1>0, <2>3, <3>3
      <4>2. new[Len(v) + (n - (i + 2))] = a[n - (i + 2)] /\ a[n - (i + 2)] = text[(n - (i + 2)) + (i + 2)]
        BY <2>3, <2>6, <4>1
      <4>3. Len(v) + (n - (i + 2)) = n /\ (n - (i + 2)) + (i + 2) = n
        BY <2>7
      <4>. QED BY <4>2, <4>3
    <3>. QED BY <3>1, <3>2, <3>3
  <2>9. \A n \in 1 .. Len(text) : i <= n /\ n <= i + 2 => new[n] \notin Passage /\ text[n] \notin Passage
    <3>1. SUFFICES ASSUME NEW n \in 1 .. Len(text), i <= n, n <= i + 2
                   PROVE  new[n] \notin Passage /\ text[n] \notin Passage
      OBVIOUS
    <3>2. n - (i - 1) \in 1 .. 3 /\ n = (i - 1) + (n - (i - 1)) /\ n \in 1 .. Len(v)
      BY <2>7, <3>1
    <3>3. new[n] = v[n] /\ v[(i - 1) + (n - (i - 1))] = k[n - (i - 1)]
      BY <1>2, <2>3, <2>5, <2>6, <3>2
    <3>4. n = i \/ n = i + 1 \/ n = i + 2
      BY <3>1
    <3>5. text[n] \notin Passage
      BY <2>1, <3>4, Pieces
    <3>. QED BY <1>3, <3>2, <3>3, <3>5
  <2>10. \A n \in 1 .. Len(text) : new[n] \in Passage \/ text[n] \in Passage => new[n] = text[n]
    BY <2>8, <2>9
  <2>11. upsertBlock(text, <<body>>) = new
    BY <1>1, <1>5, <2>2, <2>4 DEF upsertBlock
  <2>12. SamePassages(text, new)
    BY <1>0, <2>6, <2>7, <2>10, SameSpots
  <2>. QED BY <2>11, <2>12
<1>. QED BY <1>4, <1>5

\* So does one that is removed.
LEMMA RemoveKeepsPassages ==
  ASSUME NEW text, TextOK(text), ~ Unterminated(text), hasBlock(text)
  PROVE  SamePassages(text, removeBlock(text))
<1>0. text \in Seq(Piece) /\ Len(text) \in Nat
  BY DEF TextOK
<1>1. PICK i \in 1 .. Len(text) :
        /\ i + 2 \in 1 .. Len(text) /\ find(text) = {<<i, i + 2>>}
        /\ text[i] = Start /\ text[i + 1] \in Memory /\ text[i + 2] = End
  BY WholeBlock
<1>2. PICK b, a, new : b = Before(text) /\ a = After(text) /\ new = b \o a
  OBVIOUS
<1>3. /\ b \in Seq(Piece) /\ a \in Seq(Piece)
      /\ Len(b) = i - 1 /\ \A m \in 1 .. i - 1 : b[m] = text[m]
      /\ Len(a) = Len(text) - (i + 2) /\ \A m \in 1 .. Len(text) - (i + 2) : a[m] = text[m + (i + 2)]
  <2>1. PICK j : j = i + 2
    OBVIOUS
  <2>2. j \in 1 .. Len(text) /\ i < j /\ find(text) = {<<i, j>>}
    BY <1>1, <2>1
  <2>. QED BY <1>2, <2>1, <2>2, Around
<1>4. /\ new \in Seq(Piece) /\ Len(new) = Len(b) + Len(a)
      /\ \A m \in 1 .. Len(b) : new[m] = b[m]
      /\ \A m \in 1 .. Len(a) : new[Len(b) + m] = a[m]
  BY <1>2, <1>3, Joined
<1>5. /\ Len(new) = Len(text) - 3
      /\ \A n \in 1 .. i - 1 : new[n] = text[n]
  BY <1>0, <1>3, <1>4
<1>6. \A n \in 1 .. Len(text) : n > i + 2 => n - 3 \in 1 .. Len(new) /\ n - 3 >= i /\ new[n - 3] = text[n]
  <2>1. SUFFICES ASSUME NEW n \in 1 .. Len(text), n > i + 2
                 PROVE  n - 3 \in 1 .. Len(new) /\ n - 3 >= i /\ new[n - 3] = text[n]
    OBVIOUS
  <2>2. n - (i + 2) \in 1 .. Len(a) /\ n - (i + 2) \in 1 .. Len(text) - (i + 2)
    BY <1>0, <1>3, <2>1
  <2>3. new[Len(b) + (n - (i + 2))] = a[n - (i + 2)] /\ a[n - (i + 2)] = text[(n - (i + 2)) + (i + 2)]
    BY <1>3, <1>4, <2>2
  <2>4. Len(b) + (n - (i + 2)) = n - 3 /\ (n - (i + 2)) + (i + 2) = n
    BY <1>3
  <2>. QED BY <1>0, <1>5, <2>1, <2>3, <2>4
<1>7. \A n \in PassagesAt(text) : n \in 1 .. Len(text) /\ (n < i \/ n > i + 2)
  <2>1. ASSUME NEW n \in 1 .. Len(text), i <= n, n <= i + 2
        PROVE  text[n] \notin Passage
    <3>1. n = i \/ n = i + 1 \/ n = i + 2
      BY <2>1
    <3>. QED BY <1>1, <3>1, Pieces
  <2>. QED BY <2>1 DEF PassagesAt
<1> DEFINE at == [n \in PassagesAt(text) |-> IF n < i THEN n ELSE n - 3]
<1>8. \A n \in PassagesAt(text) : at[n] = IF n < i THEN n ELSE n - 3
  OBVIOUS
<1>9. DOMAIN at = PassagesAt(text) /\ at = [n \in PassagesAt(text) |-> at[n]]
  OBVIOUS
<1>. HIDE DEF at
<1>10. \A n \in PassagesAt(text) : at[n] \in PassagesAt(new) /\ new[at[n]] = text[n]
  <2>1. SUFFICES ASSUME NEW n \in PassagesAt(text)
                 PROVE  at[n] \in PassagesAt(new) /\ new[at[n]] = text[n]
    OBVIOUS
  <2>2. n \in 1 .. Len(text) /\ text[n] \in Passage
    BY DEF PassagesAt
  <2>3. at[n] \in 1 .. Len(new) /\ new[at[n]] = text[n]
    <3>1. CASE n < i
      <4>1. n \in 1 .. i - 1 /\ n \in 1 .. Len(new)
        BY <1>0, <1>1, <1>5, <2>2, <3>1
      <4>2. at[n] = n
        BY <1>8, <3>1
      <4>. QED BY <1>5, <4>1, <4>2
    <3>2. CASE n > i + 2
      <4>1. at[n] = n - 3
        BY <1>8, <2>2, <3>2
      <4>. QED BY <1>6, <2>2, <3>2, <4>1
    <3>. QED BY <1>7, <3>1, <3>2
  <2>. QED BY <2>2, <2>3 DEF PassagesAt
<1>11. at \in [PassagesAt(text) -> PassagesAt(new)]
  BY <1>9, <1>10
<1>12. \A m, n \in PassagesAt(text) : m < n => at[m] < at[n]
  BY <1>7, <1>8
<1>13. \A n \in PassagesAt(new) : \E m \in PassagesAt(text) : at[m] = n
  <2>1. SUFFICES ASSUME NEW n \in 1 .. Len(new), new[n] \in Passage
                 PROVE  \E m \in PassagesAt(text) : at[m] = n
    BY DEF PassagesAt
  <2>2. CASE n < i
    <3>1. n \in 1 .. i - 1 /\ n \in 1 .. Len(text)
      BY <1>0, <1>5, <2>2
    <3>2. n \in PassagesAt(text)
      BY <1>5, <2>1, <3>1 DEF PassagesAt
    <3>. QED BY <1>8, <2>2, <3>2
  <2>3. CASE n >= i
    <3>1. n + 3 \in 1 .. Len(text) /\ n + 3 > i + 2
      BY <1>0, <1>5, <2>3
    <3>2. new[(n + 3) - 3] = text[n + 3] /\ (n + 3) - 3 = n
      BY <1>6, <3>1
    <3>3. n + 3 \in PassagesAt(text)
      BY <2>1, <3>1, <3>2 DEF PassagesAt
    <3>4. at[n + 3] = n
      BY <1>8, <2>3, <3>3, <3>2
    <3>. QED BY <3>3, <3>4
  <2>. QED BY <1>5, <2>2, <2>3
<1>14. SamePassages(text, new)
  BY <1>10, <1>11, <1>12, <1>13 DEF SamePassages
<1>. QED BY <1>2, <1>14 DEF removeBlock

\* A text none of whose pieces is a passage may go.
LEMMA BareIsNobodys ==
  ASSUME NEW text, NEW rest, SamePassages(text, rest), isBare(rest)
  PROVE  SamePassages(text, <<>>)
<1>1. PassagesAt(rest) = {}
  BY Pieces DEF isBare, PassagesAt
<1>2. PassagesAt(<<>>) = {}
  BY DEF PassagesAt
<1>3. PICK at \in [PassagesAt(text) -> PassagesAt(rest)] : TRUE
  BY DEF SamePassages
<1>4. PassagesAt(text) = {}
  BY <1>1, <1>3
<1>. QED BY <1>1, <1>2, <1>3, <1>4 DEF SamePassages

\* A text that is not touched.
LEMMA SameText ==
  ASSUME NEW text \in Seq(Piece)
  PROVE  SamePassages(text, text)
BY SameSpots

\* Hooks: ours are taken out, and put where there is none; a file that is emptied is
\* excepted.
LEMMA HooksKept ==
  ASSUME WiringInv, [Next]_vars
  PROVE  HooksStay
<1>0. /\ hooks \in [Place -> [Event -> SUBSET Command]]
      /\ cli.recorded = Nothing \/ IsOurs(cli.recorded)
  BY DEF WiringInv, InOrder, Typed, RecordedOK
<1>1. ASSUME NEW c \in Command, isOurHookCommand(c, cli.recorded)
      PROVE  IsOurs(c)
  <2>1. c # Nothing
    BY DEF Command, Nothing
  <2>. QED BY <1>0, <1>1, <2>1 DEF isOurHookCommand, IsOurs
<1>2. ASSUME NEW p \in Place, NEW ours \in SUBSET Ours(cli.recorded), hooks' = Without(p, ours)
      PROVE  HooksStay
  <2>1. \A c \in ours : IsOurs(c)
    BY <1>1 DEF Ours
  <2>2. hooks' = hooks \/ hooks' = [hooks EXCEPT ![p] = [e \in Event |-> hooks[p][e] \ ours]]
    BY <1>2 DEF Without
  <2>. QED BY <1>0, <2>1, <2>2 DEF HooksStay
<1>3. ASSUME NEW p \in Place, NEW command, hooks' = installHooks(p, command)
      PROVE  HooksStay
  <2>1. hooks' = [hooks EXCEPT ![p] = [e \in Event |-> IF hooks[p][e] = {} THEN {command} ELSE hooks[p][e]]]
    BY <1>3 DEF installHooks
  <2>. QED BY <1>0, <2>1 DEF HooksStay
<1>4. ASSUME hooks' = hooks
      PROVE  HooksStay
  BY <1>4 DEF HooksStay
<1>5. ASSUME NEW p \in Place, RemovesStale(p) \/ RemovesHooks(p)
      PROVE  HooksStay
  <2>1. (Ours(cli.recorded) \ {HookCommand}) \in SUBSET Ours(cli.recorded)
    OBVIOUS
  <2>. QED BY <1>2, <1>5, <2>1 DEF RemovesStale, RemovesHooks
<1>6. CASE Installs
  <2>1. CASE cli.at \in Place
    BY <1>3, <1>4, <1>6, <2>1 DEF Installs
  <2>2. CASE cli.at \notin Place
    <3>1. \A command : installHooks(cli.at, command) = hooks
      BY <1>0, <2>2 DEF installHooks
    <3>. QED BY <1>4, <1>6, <3>1 DEF Installs
  <2>. QED BY <2>1, <2>2
<1>7. ASSUME NEW q, OtherInit(q)
      PROVE  HooksStay
  BY <1>3, <1>7 DEF OtherInit, Place
<1>8. ASSUME NEW p \in Place, NEW e \in Event, WritesHook(p, e)
      PROVE  HooksStay
  <2>1. hooks' = [hooks EXCEPT ![p][e] = hooks[p][e] \cup {Persons}]
    BY <1>8 DEF WritesHook
  <2>. QED BY <1>0, <2>1 DEF HooksStay
<1>9. ASSUME NEW p \in Place, TearsHooks(p)
      PROVE  HooksStay
  <2>1. hooks' = [hooks EXCEPT ![p] = [e \in Event |-> {}]]
    BY <1>9 DEF TearsHooks
  <2>. QED BY <1>0, <1>9, <2>1 DEF HooksStay
<1>. QED BY <1>4, <1>5, <1>6, <1>7, <1>8, <1>9, HooksMove

\* Servers: ours are unregistered, and one is registered where there is none.
LEMMA ServersKept ==
  ASSUME WiringInv, [Next]_vars
  PROVE  ServersStay
<1>0. mcp \in [Scope -> Command \cup {Nothing}] /\ \A s \in Scope : mcp[s].root = Here => IsOurs(mcp[s])
  BY DEF WiringInv, ServersOK, IsOurs
<1>1. ASSUME NEW s \in Scope, mcp[s] = Nothing, NEW entry, mcp' = [mcp EXCEPT ![s] = entry]
      PROVE  ServersStay
  BY <1>0, <1>1 DEF ServersStay
<1>2. ASSUME NEW s \in Scope, mcp' = Unregistered(s)
      PROVE  ServersStay
  <2>1. servesProject(get(s)) => mcp[s].root = Here
    BY WiringAssumption DEF servesProject, get, Nothing
  <2>2. mcp' = mcp \/ (IsOurs(mcp[s]) /\ mcp' = [mcp EXCEPT ![s] = Nothing])
    BY <1>0, <1>2, <2>1 DEF Unregistered
  <2>. QED BY <1>0, <2>2 DEF ServersStay
<1>3. ASSUME NEW s \in Scope, NEW force \in BOOLEAN, mcpInstall(s, force)
      PROVE  ServersStay
  <2>1. CASE force = TRUE
    BY <1>3, <2>1 DEF ServersStay, Forced
  <2>2. CASE force = FALSE
    <3>1. PICK wanted : wanted = Runs(build, Here)
      OBVIOUS
    <3>2. mcp[s] = Nothing
      BY <1>3, <2>2 DEF mcpInstall, get
    <3>3. mcp' = [mcp EXCEPT ![s] = wanted] \/ mcp' = [mcp EXCEPT ![s] = Nothing]
      BY <1>3, <3>1 DEF mcpInstall
    <3>. QED BY <1>1, <3>2, <3>3
  <2>. QED BY <2>1, <2>2
<1>4. ASSUME NEW s \in Scope, mcpUninstall(s) \/ RemovesServers(s)
      PROVE  ServersStay
  BY <1>2, <1>4 DEF mcpUninstall, RemovesServers
<1>5. ASSUME NEW s \in Scope, NEW entry, WritesServer(s, entry)
      PROVE  ServersStay
  BY <1>1, <1>5 DEF WritesServer
<1>6. mcp' = mcp => ServersStay
  BY DEF ServersStay
<1>. QED BY <1>3, <1>4, <1>5, <1>6, ServersMove

\* The line --chain took over, about to be noted.
ToNote == {c \in {cli.replaced} : cli.step = "chain"}

\* Only the note itself, a kill before it, or the loss of the file it is about ends it.
LEMMA NotesStay ==
  ASSUME Typed, [Next]_vars, ~ NotesChain, NEW p \in Place, cli.step = "chain", cli.replaced.at = p
  PROVE  ToNote' = ToNote \/ Ends \/ TearsHooks(p)
<1>0. CommandTyped /\ cli # Idle
  BY IdleIs DEF Typed
<1>1. cli' = cli => ToNote' = ToNote
  BY DEF ToNote
<1>2. ASSUME NEW o \in Place, TearsHooks(o)
      PROVE  ToNote' = ToNote
  <2>1. cli.step # "install"
    OBVIOUS
  <2>2. cli' = [cli EXCEPT !.skipped = cli.skipped \cup {o}]
    BY <1>0, <1>2, <2>1 DEF TearsHooks
  <2>3. cli'.step = cli.step /\ cli'.replaced = cli.replaced
    BY <1>0, <2>2 DEF CommandTyped, Remembering
  <2>. QED BY <2>3 DEF ToNote
<1>3. ~ InitSteps
  BY <1>0 DEF InitSteps, BeginsInit, Notes, RemovesStale, Installs, Records, Steps, Handles
<1>4. ~ UninstallSteps
  BY <1>0 DEF UninstallSteps, BeginsUninstall, RemovesHooks, RemovesServers, RemovesMirror, TearsRemoval,
     RemovesLine, ForgetsChain, Purges, Unregisters, Steps, Handles
<1>5. ~ MovesOn /\ ~ BeginsUnline /\ ~ \E chained \in BOOLEAN : StatuslineInstall(chained)
  BY <1>0 DEF MovesOn, BeginsUnline, StatuslineInstall
<1>. QED BY <1>1, <1>2, <1>3, <1>4, <1>5, CommandsMove

\* Status lines: a person's stays where it is, or is noted, or about to be, until it is
\* back.
LEMMA LinesKept ==
  ASSUME WiringInv, [Next]_vars
  PROVE  LinesStay
<1>0. LinesOK /\ Typed /\ NoLines
  BY DEF WiringInv, InOrder
<1>1. /\ "user" \in Place /\ "project" \in Place /\ Place = {"user", "project"} /\ None \notin Place
      /\ ~ isOurStatusline(Persons) /\ ~ isOurStatusline(Nothing) /\ Persons # Nothing
      /\ line \in [Place -> Command \cup {Nothing}]
  BY <1>0, WiringAssumption DEF Place, isOurStatusline, Persons, Nothing, Typed
<1> SUFFICES ASSUME ~ Rechains, NEW p \in Place, Remembers(p), ~ TearsHooks(p),
                    ~ (Ends /\ cli.step = "chain" /\ cli.replaced.at = p)
             PROVE  Remembers(p)'
  BY DEF LinesStay
<1>2. PICK note : note = [at |-> p, was |-> Persons]
  OBVIOUS
<1>3. note.at = p /\ note.was = Persons
  BY <1>2
<1>4. line[p] = Persons \/ (line[p] # Nothing /\ note \in {chain} \cup ToNote)
  BY <1>2 DEF Remembers, ToNote
<1>5. line'[p] = Persons \/ (line'[p] # Nothing /\ note \in ({chain} \cup ToNote)') => Remembers(p)'
  BY <1>2 DEF Remembers, ToNote
<1>6. (p = "user" \/ ~ isOurStatusline(line[p])) => line[p] = Persons
  <2>1. line[p] # Nothing
    BY <1>1, <1>4
  <2>. QED BY <1>0, <2>1 DEF LinesOK, Somebodys
<1>7. ASSUME line'[p] = line[p], note \in {chain} \cup ToNote => note \in ({chain} \cup ToNote)'
      PROVE  Remembers(p)'
  BY <1>4, <1>5, <1>7
<1>8. ASSUME ~ ForgetsChain, ~ Purges, note \in {chain} \cup ToNote, p = "project"
      PROVE  note \in ({chain} \cup ToNote)'
  <2>1. CASE NotesChain
    <3>1. chain' = cli.replaced /\ cli.step = "chain"
      BY <2>1 DEF NotesChain, Steps
    <3>2. cli.replaced \in [at : Place \cup {None}, was : Command \cup {Nothing}]
      BY <1>0 DEF Typed, CommandTyped, Remembering
    <3>3. cli.replaced.at = "project" /\ cli.replaced.was = Persons
      BY <1>0, <1>1, <1>3, <1>8, <3>1 DEF LinesOK, ToNote
    <3>4. cli.replaced = note
      BY <1>2, <1>8, <3>2, <3>3
    <3>. QED BY <3>1, <3>4
  <2>2. CASE ~ NotesChain
    <3>1. chain' = chain
      BY <1>8, <2>2, ChainMoves
    <3>2. note \in ToNote => ToNote' = ToNote
      <4>1. note \in ToNote => cli.step = "chain" /\ cli.replaced.at = p
        BY <1>3 DEF ToNote
      <4>. QED BY <1>0, <2>2, <4>1, NotesStay
    <3>. QED BY <1>8, <3>1, <3>2
  <2>. QED BY <2>1, <2>2
<1>9. ASSUME line'[p] = line[p]
      PROVE  Remembers(p)'
  <2>1. CASE line[p] = Persons
    BY <1>5, <1>9, <2>1
  <2>2. CASE ForgetsChain \/ Purges
    <3>1. cli.step \in {"forget", "purge"} /\ cli.does \in {"uninstall", "purge", "unline"}
      BY <1>0, <2>2 DEF ForgetsChain, Purges, Steps, Typed, CommandTyped, Remembering, StepsOf, InitStep
    <3>2. PastLines = Place
      BY <3>1 DEF PastLines, Past, AfterLines
    <3>3. ~ isOurStatusline(line[p])
      BY <1>0, <3>2 DEF NoLines
    <3>. QED BY <1>6, <2>1, <3>3
  <2>3. CASE line[p] # Persons /\ ~ ForgetsChain /\ ~ Purges
    <3>1. p = "project"
      BY <1>1, <1>6, <2>3
    <3>. QED BY <1>7, <1>8, <1>9, <2>3, <3>1
  <2>. QED BY <2>1, <2>2, <2>3
<1>10. ASSUME NEW o \in Place, WritesLine(o) \/ TearsHooks(o)
       PROVE  line'[p] = line[p]
  <2>1. line[p] # Nothing
    BY <1>1, <1>4
  <2>. QED BY <1>1, <1>10, <2>1 DEF WritesLine, TearsHooks
<1>11. ASSUME NEW o \in Place, RemovesLine(o)
       PROVE  Remembers(p)'
  <2>1. line' = [line EXCEPT ![o] = Restored(o)] /\ cli.step = "line"
    BY <1>11 DEF RemovesLine, Handles
  <2>2. CASE o # p
    <3>1. line'[p] = line[p]
      BY <1>1, <2>1, <2>2
    <3>. QED BY <1>9, <3>1
  <2>3. CASE o = p
    <3>1. line'[p] = Restored(p)
      BY <1>1, <2>1, <2>3
    <3>2. CASE line[p] = Persons
      BY <1>1, <1>5, <3>1, <3>2 DEF Restored
    <3>3. CASE line[p] # Persons
      <4>1. note = chain /\ p = "project" /\ isOurStatusline(line[p]) /\ ~ Unread(p)
        BY <1>1, <1>4, <1>6, <2>1, <3>3 DEF ToNote, Unread
      <4>2. Restored(p) = Persons
        BY <1>3, <4>1 DEF Restored
      <4>. QED BY <1>5, <3>1, <4>2
    <3>. QED BY <3>2, <3>3
  <2>. QED BY <2>2, <2>3
<1>12. ASSUME NEW chained \in BOOLEAN, StatuslineInstall(chained)
       PROVE  Remembers(p)'
  <2>1. PICK ours : ours = Runs(build, None)
    OBVIOUS
  <2>2. line' = [line EXCEPT !["project"] = ours] /\ ours # Nothing
    BY <1>12, <2>1 DEF StatuslineInstall, Runs, Nothing
  <2>3. CASE p = "user"
    <3>1. line'[p] = line[p]
      BY <1>1, <2>2, <2>3
    <3>. QED BY <1>9, <3>1
  <2>4. CASE p = "project"
    <3>1. line["project"] # Nothing
      BY <1>1, <1>4, <2>4
    <3>2. installed = [at |-> "project", was |-> line["project"]]
      BY <3>1 DEF installed
    <3>3. ~ isOurStatusline(installed.was)
      BY <1>12 DEF StatuslineInstall
    <3>4. line[p] = Persons
      BY <1>6, <2>4, <3>2, <3>3
    <3>5. installed = note /\ installed # NoChain
      <4>1. NoChain.at = None
        BY DEF NoChain
      <4>. QED BY <1>1, <1>2, <1>3, <2>4, <3>2, <3>4, <4>1
    <3>6. cli'.step = "chain" /\ cli'.replaced = note
      BY <1>0, <1>12, <3>5, Lines
    <3>7. line'[p] = ours
      BY <1>1, <2>2, <2>4
    <3>. QED BY <1>5, <2>2, <3>6, <3>7 DEF ToNote
  <2>. QED BY <1>1, <2>3, <2>4
<1>13. line' = line => line'[p] = line[p]
  OBVIOUS
<1>. QED BY <1>9, <1>10, <1>11, <1>12, <1>13, LinesMove

\* Text: a block is written and removed between the passages, from the text that was read.
LEMMA TextKeeps ==
  ASSUME WiringInv, [Next]_vars
  PROVE  PersonActs \/ TextStays
<1>0. FilesOK /\ WritersOK /\ Typed
  BY DEF WiringInv, InOrder
<1>1. \A f \in File : /\ TextOK(file[f].text) /\ file[f].text \in Seq(Piece)
                      /\ SamePassages(file[f].text, file[f].text)
  BY <1>0, SameText DEF FilesOK, TextOK
<1>2. ASSUME NEW f \in File, \A g \in File : g # f => file'[g] = file[g],
             \/ Emptied(f)
             \/ \E old \in {file[f].text} \cup Starts(f) : Unterminated(old) \/ SamePassages(old, file'[f].text)
      PROVE  TextStays
  BY <1>1, <1>2 DEF TextStays
<1>3. ASSUME NEW f \in File, NEW new, file' = [file EXCEPT ![f] = new]
      PROVE  file'[f] = new /\ \A g \in File : g # f => file'[g] = file[g]
  BY <1>0, <1>3 DEF FilesOK
<1>4. ASSUME NEW w \in Writer, Writes(w)
      PROVE  TextStays
  <2>1. PICK f : f = writing[w].on
    OBVIOUS
  <2>2. f \in File
    BY <1>0, <1>4, <2>1, MirroredIs
  <2>3. PICK new :
          /\ file' = [file EXCEPT ![f] = [there |-> TRUE, text |-> new]] /\ TextOK(new)
          /\ \E old : /\ TextOK(old) /\ new = upsertBlock(old, <<memory>>)
                      /\ \/ old = writing[w].before.text
                         \/ old = <<Frontmatter>> /\ writing[w].before.text = <<>>
    BY <1>0, <1>4, <2>1, MirroredIs
  <2>4. PICK old : /\ TextOK(old) /\ new = upsertBlock(old, <<memory>>)
                   /\ \/ old = writing[w].before.text
                      \/ old = <<Frontmatter>> /\ writing[w].before.text = <<>>
    BY <2>3
  <2>5. PICK written : written = [there |-> TRUE, text |-> new]
    OBVIOUS
  <2>6. file'[f] = written /\ (\A g \in File : g # f => file'[g] = file[g]) /\ written.text = new
    BY <1>3, <2>2, <2>3, <2>5
  <2>7. writing[w].before.text \in Starts(f)
    BY <1>4, <2>1 DEF Starts
  <2>8. Unterminated(writing[w].before.text) \/ SamePassages(writing[w].before.text, new)
    <3>1. memory \in Memory
      BY <1>0 DEF Typed
    <3>2. CASE old = writing[w].before.text
      BY <2>4, <3>1, <3>2, UpsertKeepsPassages
    <3>3. CASE old = <<Frontmatter>> /\ writing[w].before.text = <<>>
      <4>1. PassagesAt(<<Frontmatter>>) = {} /\ PassagesAt(<<>>) = {} /\ ~ Unterminated(<<Frontmatter>>)
        BY Pieces DEF PassagesAt, Unterminated
      <4>2. SamePassages(old, new)
        BY <2>4, <3>1, <3>3, <4>1, UpsertKeepsPassages
      <4>. QED BY <3>3, <4>1, <4>2 DEF SamePassages
    <3>. QED BY <2>4, <3>2, <3>3
  <2>. QED BY <1>2, <2>2, <2>6, <2>7, <2>8
<1>5. ASSUME NEW w \in Writer, TearsMirror(w)
      PROVE  TextStays
  <2>1. PICK f : f = writing[w].on
    OBVIOUS
  <2>2. f \in File
    BY <1>0, <1>5, <2>1 DEF WritersOK, WriterOK, TearsMirror, At
  <2>3. Emptied(f) /\ \A g \in File : g # f => file'[g] = file[g]
    BY <1>3, <1>5, <2>1, <2>2 DEF TearsMirror, Emptied
  <2>. QED BY <1>2, <2>2, <2>3
<1>6. ASSUME NEW f \in File, TearsRemoval(f)
      PROVE  TextStays
  <2>1. Emptied(f) /\ \A g \in File : g # f => file'[g] = file[g]
    BY <1>3, <1>6 DEF TearsRemoval, Emptied
  <2>. QED BY <1>2, <2>1
<1>7. ASSUME NEW f \in File, RemovesMirror(f)
      PROVE  TextStays
  <2>1. PICK text, rest : text = file[f].text /\ rest = removeBlock(text)
    OBVIOUS
  <2>2. file' = [file EXCEPT ![f] = Removed(f, f \in cli.made)]
    BY <1>7 DEF RemovesMirror
  <2>3. file'[f] = Removed(f, f \in cli.made) /\ \A g \in File : g # f => file'[g] = file[g]
    BY <1>3, <2>2
  <2>4. Unterminated(text) \/ SamePassages(text, file'[f].text)
    <3>1. CASE ~ hasBlock(text)
      BY <1>1, <2>1, <2>3, <3>1 DEF Removed
    <3>2. CASE hasBlock(text) /\ ~ Unterminated(text)
      <4>1. SamePassages(text, rest)
        BY <1>1, <2>1, <3>2, RemoveKeepsPassages
      <4>2. isBare(rest) => SamePassages(text, <<>>)
        BY <4>1, BareIsNobodys
      <4>3. PICK kept : kept = [there |-> TRUE, text |-> rest]
        OBVIOUS
      <4>4. kept.text = rest /\ Absent.text = <<>>
        BY <4>3 DEF Absent
      <4>5. (file'[f] = Absent /\ isBare(rest)) \/ file'[f] = kept
        BY <2>1, <2>3, <3>2, <4>3 DEF Removed
      <4>. QED BY <4>1, <4>2, <4>4, <4>5
    <3>. QED BY <3>1, <3>2
  <2>. QED BY <1>2, <2>1, <2>3, <2>4
<1>8. ASSUME NEW f \in File, Edits(f) \/ DeletesFile(f)
      PROVE  PersonActs
  BY <1>8 DEF PersonActs
<1>9. file' = file => TextStays
  BY <1>1 DEF TextStays
<1>. QED BY <1>4, <1>5, <1>6, <1>7, <1>8, <1>9, FilesMove

\* Whichever command of contextd runs, wherever it is killed, the hooks and the servers
\* other people have stay where they are, a person's status line stays or is noted until it
\* is back, and the passages around a block keep their order and their words as they were
\* when the file was read: but for the file a kill empties, the line it takes before the
\* note, and a server that --force replaces.
THEOREM WhatIsTheirsStays == Spec => TheirsIsKept
<1>1. WiringInv /\ [Next]_vars =>
        [\/ PersonActs
         \/ HooksStay /\ ServersStay /\ LinesStay /\ TextStays]_vars
  BY HooksKept, ServersKept, LinesKept, TextKeeps
<1>2. Spec => [][PersonActs \/ (HooksStay /\ ServersStay /\ LinesStay /\ TextStays)]_vars
  BY <1>1, WiringInvariant, PTL DEF Spec
<1>. QED BY <1>2 DEF TheirsIsKept

=============================================================================
