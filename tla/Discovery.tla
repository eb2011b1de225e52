------------------------------- MODULE Discovery -------------------------------
(***************************************************************************)
(* What start-up reads from the file system: discover_skills of            *)
(* tools/skills.py, then discover_context_files of agent/context.py.  A    *)
(* node is a resolved path: two names for one node are links, and links    *)
(* may form a cycle.  Only the entries a skill can come from are           *)
(* modelled, by one name for a loose Markdown file and two for a           *)
(* directory; "skipped" are those that are hidden, node_modules, or match  *)
(* a pattern of an ignore file of their directory.                         *)
(***************************************************************************)
EXTENDS Naturals, Sequences, FiniteSets, SequencesExt

CONSTANTS
    Dirs, Files, Absent,
    Surroundings,   \* what the directories and files may hold, and which of them lie
                    \* where start-up looks
    MaxLinks        \* how many subdirectories deep a path is followed: the system
                    \* gives up on a path of too many links, the model on any

Leaves == {"SKILL.md", "a.md"}
Subdirs == {"s", "t"}

(* What _load_file makes of a file: a skill with a name in its header, one *)
(* named after its directory, or none.                                     *)
Headers == {"named", "unnamed", "invalid"}

FileSystem == [
    entry : [Dirs -> [Leaves -> Files \cup {Absent}] ],
    subdir : [Dirs -> [Subdirs -> Dirs \cup {Absent}] ],
    skipped : SUBSET (Dirs \X (Leaves \cup Subdirs)),
    undecodable : SUBSET Dirs,          \* with an ignore file that is not UTF-8
    header : [Files -> Headers] ]

Nodes == Dirs \cup Files \cup {Absent}

(* The paths discover_skills and discover_context_files are given or make, *)
(* and what they lead to.                                                  *)
Layouts == [
    explicit : Seq(Nodes), user : [1 .. 3 -> Nodes],
    agents : Seq([node : Nodes, git : BOOLEAN]),
    global : Files \cup {Absent}, chain : Seq(Seq(Files \cup {Absent})) ]

ASSUME SurroundingsAssumption ==
    /\ Absent \notin Dirs \cup Files /\ Dirs \cap Files = {}
    /\ \A s \in Surroundings : s.fs \in FileSystem /\ s.layout \in Layouts
    /\ MaxLinks \in Nat

VARIABLES
    fs, layout,     \* the surroundings, which do not change
    phase,          \* "skills", "context", "done" or "raised"
    source,         \* sources already begun
    agenda,         \* what is left to visit of the present source, in order
    found,          \* found_skills not yet looked at
    selected,       \* the skills, in the order of the dict
    canonical,      \* canonical_paths
    diagnostics,
    level,          \* directories of the chain already read
    context         \* the context files, in order

skillVars == <<source, agenda, found, selected, canonical, diagnostics>>
contextVars == <<level, context>>
discoveryVars == <<fs, layout, phase, skillVars, contextVars>>

-----------------------------------------------------------------------------
(* The sources, in their order of precedence.  "agents" runs from the      *)
(* working directory up.                                                   *)

Source(node, name, markdown) == [node |-> node, name |-> name, markdown |-> markdown]

_project_agents_directories(agents) ==
    LET tops == {i \in DOMAIN agents : agents[i].git}
        top == IF tops = {} THEN Len(agents) ELSE Min(tops)
    IN [i \in 1 .. top |-> Source(agents[i].node, "skills", FALSE)]

DefaultSources ==
    <<Source(layout.user[1], "skills", TRUE),       \* ~/.pi/agent/skills
      Source(layout.user[2], "skills", FALSE),      \* ~/.agents/skills
      Source(layout.user[3], "skills", TRUE)>>      \* .pi/skills of the working directory
    \o _project_agents_directories(layout.agents)

Sources == [i \in DOMAIN layout.explicit |-> Source(layout.explicit[i], "x", TRUE)] \o DefaultSources

DiscoveryInit ==
    /\ \E s \in Surroundings : fs = s.fs /\ layout = s.layout
    /\ phase = "skills"
    /\ source = 0
    /\ agenda = <<>> /\ found = <<>>
    /\ selected = <<>> /\ canonical = {} /\ diagnostics = {}
    /\ level = 0
    /\ context = <<>>

-----------------------------------------------------------------------------
(* _scan_directory                                                         *)

Entry(node, name, markdown, depth) ==
    [node |-> node, name |-> name, markdown |-> markdown, depth |-> depth]

Ignored(dir, name) == <<dir, name>> \in fs.skipped

Declared(dir) == fs.entry[dir]["SKILL.md"] # Absent /\ ~Ignored(dir, "SKILL.md")

(* A file: "name" is that of the directory it was reached in.              *)
FileIn(dir, leaf, name) == <<Entry(fs.entry[dir][leaf], name, leaf # "SKILL.md", 0)>>

Subdirectory(at, sub) ==
    LET node == fs.subdir[at.node][sub]
    IN IF node # Absent /\ ~Ignored(at.node, sub) /\ at.depth < MaxLinks
         THEN <<Entry(node, sub, TRUE, at.depth + 1)>>
         ELSE <<>>

Loose(at) ==
    IF at.markdown /\ fs.entry[at.node]["a.md"] # Absent /\ ~Ignored(at.node, "a.md")
      THEN FileIn(at.node, "a.md", at.name)
      ELSE <<>>

(* Variant: the entries are taken as the system lists them.                *)
VisitUnsorted(at) ==
    IF Declared(at.node) THEN FileIn(at.node, "SKILL.md", at.name)
    ELSE Subdirectory(at, "t") \o Loose(at) \o Subdirectory(at, "s")

visit(at) ==
    IF Declared(at.node) THEN FileIn(at.node, "SKILL.md", at.name)
    ELSE Loose(at) \o Subdirectory(at, "s") \o Subdirectory(at, "t")

NextSource ==
    /\ phase = "skills" /\ agenda = <<>> /\ found = <<>>
    /\ source < Len(Sources)
    /\ source' = source + 1
    /\ LET s == Sources[source']
       IN IF s.node = Absent
            THEN /\ diagnostics' = IF s.name = "x" THEN diagnostics \cup {<<"warning", Absent>>}
                                   ELSE diagnostics
                 /\ UNCHANGED agenda
            ELSE /\ agenda' = <<Entry(s.node, s.name, s.markdown, 0)>>
                 /\ UNCHANGED diagnostics
    /\ UNCHANGED <<fs, layout, phase, found, selected, canonical, contextVars>>

(* _ignore_patterns catches OSError only.                                  *)
VisitDirectory ==
    /\ phase = "skills" /\ agenda # <<>>
    /\ LET at == Head(agenda)
       IN /\ at.node \in Dirs
          /\ IF at.node \in fs.undecodable
               THEN phase' = "raised" /\ UNCHANGED agenda
               ELSE agenda' = visit(at) \o Tail(agenda) /\ UNCHANGED phase
    /\ UNCHANGED <<fs, layout, source, found, selected, canonical, diagnostics, contextVars>>

Name(file, parent) == IF fs.header[file] = "named" THEN "p" ELSE parent

_load_file ==
    /\ phase = "skills" /\ agenda # <<>>
    /\ agenda' = Tail(agenda)
    /\ LET at == Head(agenda)
       IN /\ at.node \in Files
          /\ IF fs.header[at.node] = "invalid"
               THEN /\ diagnostics' = IF at.markdown THEN diagnostics
                                      ELSE diagnostics \cup {<<"warning", at.node>>}
                    /\ UNCHANGED found
               ELSE /\ found' = Append(found, [name |-> Name(at.node, at.name), file |-> at.node])
                    /\ UNCHANGED diagnostics
    /\ UNCHANGED <<fs, layout, phase, source, selected, canonical, contextVars>>

-----------------------------------------------------------------------------
(* discover_skills                                                         *)

NameTaken(skill) == \E i \in DOMAIN selected : selected[i].name = skill.name

(* Variant: a name that is taken is passed over like a known file.         *)
KnownOrColliding(skill) == skill.file \in canonical \/ NameTaken(skill)

Known(skill) == skill.file \in canonical

Select ==
    /\ phase = "skills" /\ agenda = <<>> /\ found # <<>>
    /\ found' = Tail(found)
    /\ LET skill == Head(found)
       IN \/ Known(skill) /\ UNCHANGED <<selected, canonical, diagnostics>>
          \/ /\ ~Known(skill) /\ NameTaken(skill)
             /\ diagnostics' = diagnostics \cup {<<"collision", skill.file>>}
             /\ UNCHANGED <<selected, canonical>>
          \/ /\ ~Known(skill) /\ ~NameTaken(skill)
             /\ selected' = Append(selected, skill)
             /\ canonical' = canonical \cup {skill.file}
             /\ UNCHANGED diagnostics
    /\ UNCHANGED <<fs, layout, phase, source, agenda, contextVars>>

-----------------------------------------------------------------------------
(* discover_context_files, after the skills.  layout.chain has for each    *)
(* directory, from the root to the working directory, the files its        *)
(* candidates stand for, in the order of CONTEXT_CANDIDATES.               *)

BeginContext ==
    /\ phase = "skills" /\ agenda = <<>> /\ found = <<>> /\ source = Len(Sources)
    /\ phase' = "context"
    /\ context' = IF layout.global = Absent THEN <<>> ELSE <<layout.global>>
    /\ UNCHANGED <<fs, layout, skillVars, level>>

Present(candidates) == {i \in DOMAIN candidates : candidates[i] # Absent}

FirstPresent(candidates) == candidates[Min(Present(candidates))]

(* Variant: the search goes on behind a file that was seen already.        *)
FirstUnseen(candidates) ==
    LET unseen == {i \in Present(candidates) : candidates[i] \notin Range(context)}
    IN IF unseen = {} THEN <<>> ELSE <<candidates[Min(unseen)]>>

FirstCandidate(candidates) ==
    IF Present(candidates) = {} \/ FirstPresent(candidates) \in Range(context)
      THEN <<>> ELSE <<FirstPresent(candidates)>>

ReadContext ==
    /\ phase = "context"
    /\ level < Len(layout.chain)
    /\ level' = level + 1
    /\ context' = context \o FirstCandidate(layout.chain[level'])
    /\ UNCHANGED <<fs, layout, phase, skillVars>>

Finish ==
    /\ phase = "context" /\ level = Len(layout.chain)
    /\ phase' = "done"
    /\ UNCHANGED <<fs, layout, skillVars, contextVars>>

DiscoveryRest == phase \in {"done", "raised"} /\ UNCHANGED discoveryVars

DiscoveryNext ==
    \/ NextSource \/ VisitDirectory \/ _load_file \/ Select
    \/ BeginContext \/ ReadContext \/ Finish \/ DiscoveryRest

DiscoverySpec == DiscoveryInit /\ [][DiscoveryNext]_discoveryVars

-----------------------------------------------------------------------------
(* The skills there are, without a scan: a candidate is a path from a      *)
(* source, known by the number of the source, the subdirectories on the    *)
(* way, and the file at its end.                                           *)

Paths == UNION {[1 .. n -> Subdirs] : n \in 0 .. MaxLinks}

(* The directories a scan goes down to.                                    *)
Ways ==
    [dir \in Dirs |-> [sub \in Subdirs |->
        IF Declared(dir) \/ Ignored(dir, sub) THEN Absent ELSE fs.subdir[dir][sub] ]]

Below(ways, node, sub) == IF node \in Dirs THEN ways[node][sub] ELSE Absent

NodesOn(ways, start, path) ==
    LET nodes[n \in 0 .. Len(path)] ==
            IF n = 0 THEN start ELSE Below(ways, nodes[n - 1], path[n])
    IN nodes

Parent(c) == NodesOn(Ways, Sources[c.source].node, c.path)[Len(c.path)]

FileOf(c) == IF c.leaf = "itself" THEN Parent(c) ELSE fs.entry[Parent(c)][c.leaf]

ParentName(c) == IF c.path = <<>> THEN Sources[c.source].name ELSE c.path[Len(c.path)]

SkillOf(c) == [name |-> Name(FileOf(c), ParentName(c)), file |-> FileOf(c)]

IsPlace(c) ==
    \/ c.leaf = "itself" /\ c.path = <<>> /\ Parent(c) \in Files
    \/ /\ Parent(c) \in Dirs /\ c.leaf \in Leaves
       /\ FileOf(c) # Absent /\ ~Ignored(Parent(c), c.leaf)
       /\ c.leaf = "a.md" => ~Declared(Parent(c)) /\ (c.path # <<>> \/ Sources[c.source].markdown)

Candidates ==
    {c \in [source : DOMAIN Sources, path : Paths, leaf : Leaves \cup {"itself"}] :
        IsPlace(c) /\ fs.header[FileOf(c)] # "invalid"}

Rank(name) == CHOOSE i \in 1 .. 5 : <<"itself", "SKILL.md", "a.md", "s", "t">>[i] = name

(* The entries of a directory are sorted by name.                          *)
Earlier(p, q) ==
    \E i \in DOMAIN p \cap DOMAIN q :
        (\A j \in 1 .. i - 1 : p[j] = q[j]) /\ Rank(p[i]) < Rank(q[i])

Before(c, d) ==
    \/ c.source < d.source
    \/ c.source = d.source /\ Earlier(Append(c.path, c.leaf), Append(d.path, d.leaf))

(* skills.py:187, "deterministic first-source-wins precedence", and        *)
(* README.md:92, "explicit paths have highest precedence": an earlier      *)
(* candidate that has a chosen skill's name, or leads to its file, has     *)
(* lost its file to another name, or its name to another file.             *)
FirstSourceWins ==
    phase = "done" =>
        LET all == {[at |-> c, skill |-> SkillOf(c)] : c \in Candidates}
            taken(i) == {selected[j].name : j \in 1 .. i} \cup {selected[j].file : j \in 1 .. i}
        IN \A i \in DOMAIN selected :
              \E c \in all :
                 /\ c.skill = selected[i]
                 /\ \A d \in all :
                       (Before(d.at, c.at) /\ (\/ d.skill.name = selected[i].name
                                             \/ d.skill.file = selected[i].file)) =>
                            /\ d.skill # selected[i]
                            /\ d.skill.name \in taken(i - 1) \/ d.skill.file \in taken(i - 1)

(* IMPLEMENTATION_PLAN.md:815, "diagnostics, duplicate names": no skill is *)
(* lost in silence.  However many links lead to it, a file that has one is *)
(* chosen or reported, chosen once, and under a name of its own.           *)
EverySkillAccountedFor ==
    phase = "done" =>
        LET chosen == {s.file : s \in Range(selected)}
        IN /\ \A c \in Candidates : FileOf(c) \in chosen \/ <<"collision", FileOf(c)>> \in diagnostics
           /\ \A i, j \in DOMAIN selected :
                 i # j => selected[i].name # selected[j].name /\ selected[i].file # selected[j].file

(* context.py:30, "one instruction file per directory, nearest last": the  *)
(* files are those first among the candidates of a directory, the global   *)
(* one before them, each once, where the outermost directory has it.       *)
ContextInOrder ==
    phase = "done" =>
        LET first(i) == FirstPresent(layout.chain[i])
            levels == {i \in DOMAIN layout.chain : Present(layout.chain[i]) # {}}
            new == {i \in levels : /\ first(i) # layout.global
                                  /\ \A j \in levels : j < i => first(j) # first(i)}
            own == IF layout.global = Absent THEN context ELSE Tail(context)
        IN /\ layout.global # Absent => context[1] = layout.global
           /\ Len(own) = Cardinality(new)
           /\ \A i \in new : own[Cardinality({j \in new : j <= i})] = first(i)

(* skills.py:120: start-up survives whatever an ignore file holds.         *)
StartsAnyway == phase # "raised"
=============================================================================
