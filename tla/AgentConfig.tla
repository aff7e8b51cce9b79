---------------------------- MODULE AgentConfig ----------------------------
(***************************************************************************)
(* Agent configuration as code: the files the setup-* commands and init    *)
(* write for coding agents, the drift config-check reports of them, and    *)
(* what config-check --fix rewrites. A file is a text with an author: the  *)
(* user, or Beadloom from what it knew then (its release, the project's    *)
(* facts, the flow's architecture and stack). Every command is a function  *)
(* on the project; --fix is a sequence of five, and can stop between two.  *)
(* Each file is written at once: the code writes with write_text, and what *)
(* a kill in the middle of one write leaves of a file is not modelled.     *)
(***************************************************************************)
EXTENDS Naturals, Sequences, FiniteSets

CONSTANTS
  Roles,        \* ROLE_NAMES
  Commands,     \* COMMAND_FILES
  MaxReleases,  \* Beadloom releases, each with texts of its own
  MaxFacts,     \* versions of rules.yml, pyproject.toml and the packages
  MaxUser,      \* bound on steps of the user
  MaxCommands   \* bound on commands

ASSUME AgentConstants ==
  /\ MaxReleases \in Nat \ {0} /\ MaxFacts \in Nat \ {0}
  /\ MaxUser \in Nat /\ MaxCommands \in Nat

Tools == {"claude", "cursor"}
IDEs == {"cursor", "windsurf", "cline"}
Editors == {"claude-code", "cursor", "windsurf"}
Archs == {"ddd", "fsd"}
Stacks == {"python", "typescript"}

(* Texts. "names" is a text of the user in which the word beadloom occurs. *)
None == [by |-> "none"]
User == [by |-> "user"]
UserNames == [by |-> "names"]
Untrimmed == [by |-> "user", blank |-> TRUE]   \* with blank lines round it
strip(t) == IF t = Untrimmed THEN User ELSE t
Generated(r, f) == [by |-> "beadloom", release |-> r, facts |-> f]
Composed(r, a, s) == [by |-> "beadloom", release |-> r, arch |-> a, stack |-> s]
\* The vendored role files are byte for byte this composition.
Vendored(r) == Composed(r, "ddd", {"python"})

VARIABLES
  project,      \* the files, the installed release and the facts
  last,         \* what took the last step
  userSteps, commandSteps

avars == <<project, last, userSteps, commandSteps>>

-----------------------------------------------------------------------------
(* flow.yml: absent, invalid, or tools, one architecture and a stack.      *)

build_flow_config(tools, arch, stack) ==
  IF tools # {} /\ tools \subseteq Tools /\ arch \in Archs
       /\ stack # {} /\ stack \subseteq Stacks
  THEN [kind |-> "valid", tools |-> tools, arch |-> arch, stack |-> stack]
  ELSE [kind |-> "invalid"]

\* Flags override the file, the file overrides the defaults; nothing is saved.
resolve_flow_config(p, flags) ==
  IF p.flow.kind = "invalid" THEN p.flow
  ELSE LET f == IF p.flow.kind = "valid" THEN p.flow
                ELSE [tools |-> {"claude"}, arch |-> "ddd", stack |-> p.detected]
       IN  build_flow_config(IF flags.tools # {} THEN flags.tools ELSE f.tools,
                             IF flags.arch # "none" THEN flags.arch ELSE f.arch,
                             IF flags.stack # {} THEN flags.stack ELSE f.stack)

compose_role(p, c) == Composed(p.release, c.arch, c.stack)

-----------------------------------------------------------------------------
(* What the commands write.                                                *)

\* Everything outside the custom block is rendered anew; the block is kept.
\* Mutant: the template alone.
WithoutCustomBlock(p) == [text |-> Generated(p.release, p.facts), custom |-> None]
build_agents_md_content(p) ==
  [text |-> Generated(p.release, p.facts),
   custom |-> IF p.agents_md = None THEN None ELSE strip(p.agents_md.custom)]
generate_agents_md(p) == [p EXCEPT !.agents_md = build_agents_md_content(p)]

\* Sections between markers; markers are put round the bullets of "## 0.1
\* Project:" when there are none; an unclosed or unknown section is no section.
HasSection(p) == p.claude_md # None /\ p.claude_md.section \in {"marked", "heading"}
_render_project_info_section(p) == Generated(p.release, p.facts)
StaleSections(p) == HasSection(p) /\ p.claude_md.info # _render_project_info_section(p)
refresh_claude_md(p) ==
  IF StaleSections(p)
  THEN [p EXCEPT !.claude_md.info = _render_project_info_section(p),
                 !.claude_md.section = "marked"]
  ELSE p

_RULES_ADAPTER_TEMPLATE(p) == Generated(p.release, 0)
_is_beadloom_adapter(t) == t.by \in {"beadloom", "names"}
\* The mark of an installed IDE: a directory for Cursor, the file itself else.
Marker(p, ide) == IF ide = "cursor" THEN p.cursor_dir ELSE p.rules[ide] # None
setup_rules_auto(p) ==
  [p EXCEPT !.rules = [ide \in IDEs |->
     IF Marker(p, ide) /\ (@[ide] = None \/ _is_beadloom_adapter(@[ide]))
     THEN _RULES_ADAPTER_TEMPLATE(p) ELSE @[ide]]]

generate_adapters(p, c) ==
  [p EXCEPT !.roles = [t \in Tools |-> IF t \in c.tools
                         THEN [r \in Roles |-> compose_role(p, c)] ELSE @[t]],
            !.pointer = IF "cursor" \in c.tools THEN Generated(p.release, 0) ELSE @,
            !.cursor_dir = @ \/ "cursor" \in c.tools]

_scaffold_vendored(p, force) ==
  [p EXCEPT !.commands = [c \in Commands |->
     IF @[c] = None \/ force THEN Vendored(p.release) ELSE @[c]]]

_scaffold_claude_md(p, force) ==
  refresh_claude_md(
    IF force \/ p.claude_md = None
    THEN [p EXCEPT !.claude_md = [section |-> "marked", info |-> None, prose |-> None]]
    ELSE p)

setup_agentic_flow(p, flags, force) ==
  LET c == resolve_flow_config(p, flags) IN
  IF c.kind = "invalid" THEN p
  ELSE _scaffold_claude_md(_scaffold_vendored(generate_adapters(p, c), force), force)

setup_rules(p, ide, refresh) ==
  IF refresh THEN generate_agents_md(refresh_claude_md(p))
  ELSE IF ide = "auto" THEN setup_rules_auto(p)
  ELSE [p EXCEPT !.rules[ide] = IF @ = None THEN _RULES_ADAPTER_TEMPLATE(p) ELSE @]

\* An MCP configuration: its beadloom entry, and the user's own servers. The
\* one of Cursor is under .cursor, which is then there; that of Windsurf is the
\* user's global one. setup_mcp_auto never touches one that exists.
setup_mcp(p, editor, remove) ==
  [p EXCEPT !.mcp[editor] = [there |-> TRUE, ours |-> ~remove, others |-> @.others],
            !.cursor_dir = @ \/ editor = "cursor"]
_MCP_EDITOR_MARKERS(p) == IF p.cursor_dir THEN "cursor"
                          ELSE IF p.rules["windsurf"] # None THEN "windsurf" ELSE "claude-code"
setup_mcp_auto(p) ==
  LET editor == _MCP_EDITOR_MARKERS(p) IN
  IF p.mcp[editor].there THEN p ELSE setup_mcp(p, editor, FALSE)

\* .gitlab-ci.yml gets the job once, after the user's stages; the other files
\* of the kit (GitHub workflow, guide, recipe, provisioner) are rewritten.
_scaffold_gitlab(p) == [p EXCEPT !.ci.job = TRUE]
setup_ai_techwriter(p, platform) ==
  LET q == IF platform = "gitlab" THEN _scaffold_gitlab(p) ELSE p
  IN  [q EXCEPT !.kit = Generated(p.release, 0)]

\* The agent files of init --bootstrap, and of init --yes, which stops at an
\* existing .beadloom directory unless --force removes it.
BootstrapAgentFiles(p) == setup_rules_auto(setup_mcp_auto(generate_agents_md(p)))
non_interactive_init(p, force) ==
  IF (p.agents_md # None \/ p.flow.kind # "absent") /\ ~force THEN p
  ELSE BootstrapAgentFiles([p EXCEPT !.agents_md = None, !.flow = [kind |-> "absent"]])

-----------------------------------------------------------------------------
(* config-check.                                                           *)

\* Mutant: the whole file is compared.
WholeFile(m) == m
_agents_auto_region(m) == m.text
_agents_md_drift(p) ==
  IF p.agents_md # None
       /\ _agents_auto_region(build_agents_md_content(p)) # _agents_auto_region(p.agents_md)
  THEN {<<"AGENTS.md">>} ELSE {}
_claude_md_drift(p) == IF StaleSections(p) THEN {<<"CLAUDE.md">>} ELSE {}
_adapter_drifts(p) ==
  {<<"rules", ide>> : ide \in {i \in IDEs : /\ _is_beadloom_adapter(p.rules[i])
                                           /\ p.rules[i] # _RULES_ADAPTER_TEMPLATE(p)}}

_agentic_flow_scaffolded(p) == /\ \A r \in Roles : p.roles["claude"][r] # None
                               /\ \A c \in Commands : p.commands[c] # None
_agentic_flow_drifts(p) ==
  IF ~_agentic_flow_scaffolded(p) THEN {}
  ELSE {<<"commands", c>> : c \in {x \in Commands : p.commands[x] # Vendored(p.release)}}
       \cup IF p.flow.kind # "absent" THEN {}
            ELSE {<<"claude", r>> : r \in {x \in Roles : p.roles["claude"][x] # Vendored(p.release)}}

_flow_config_drift(p) == IF p.flow.kind = "invalid" THEN {<<"flow.yml">>} ELSE {}
_composed_adapter_drifts(p) ==
  IF p.flow.kind # "valid" THEN {}
  ELSE {x \in p.flow.tools \X Roles : p.roles[x[1]][x[2]] \notin {None, compose_role(p, p.flow)}}

check_config_drift(p) ==
  _agents_md_drift(p) \cup _claude_md_drift(p) \cup _adapter_drifts(p)
    \cup _agentic_flow_drifts(p) \cup _flow_config_drift(p) \cup _composed_adapter_drifts(p)

refresh_agentic_flow_files(p) ==
  IF ~_agentic_flow_scaffolded(p) THEN p
  ELSE [p EXCEPT !.roles["claude"] = [r \in Roles |-> Vendored(p.release)],
                 !.commands = [c \in Commands |-> Vendored(p.release)]]
refresh_composed_adapters(p) == IF p.flow.kind = "valid" THEN generate_adapters(p, p.flow) ELSE p

\* config-check --fix, its writes in order, up to the k-th.
\* Mutant: the composer runs before the vendored files are restored.
VendoredLast(k, p) == CASE k = 1 -> refresh_claude_md(p)
                        [] k = 2 -> generate_agents_md(p)
                        [] k = 3 -> setup_rules_auto(p)
                        [] k = 4 -> refresh_composed_adapters(p)
                        [] k = 5 -> refresh_agentic_flow_files(p)
FixStep(k, p) == CASE k = 1 -> refresh_claude_md(p)
                   [] k = 2 -> generate_agents_md(p)
                   [] k = 3 -> setup_rules_auto(p)
                   [] k = 4 -> refresh_agentic_flow_files(p)
                   [] k = 5 -> refresh_composed_adapters(p)
Fix(k, p) == LET do(j, q) == IF j <= k THEN FixStep(j, q) ELSE q
             IN  do(5, do(4, do(3, do(2, do(1, p)))))

-----------------------------------------------------------------------------
(* Steps.                                                                  *)

Runs(name, p) == /\ commandSteps < MaxCommands
                 /\ commandSteps' = commandSteps + 1
                 /\ project' = p /\ last' = name
                 /\ UNCHANGED userSteps
Acts(name, p) == /\ userSteps < MaxUser /\ p # project
                 /\ userSteps' = userSteps + 1
                 /\ project' = p /\ last' = name
                 /\ UNCHANGED commandSteps

ConfigCheckFix == \E k \in 0 .. 5 : Runs(IF k = 5 THEN "fix" ELSE "cut", Fix(k, project))
SetupAgenticFlow ==
  \E flags \in [tools: SUBSET Tools, arch: {"none", "fsd"}, stack: {{}, {"typescript"}}],
     force \in BOOLEAN :
       Runs(IF force THEN "force" ELSE "flow", setup_agentic_flow(project, flags, force))
SetupRules == \E ide \in IDEs \cup {"auto"}, refresh \in BOOLEAN :
                Runs("command", setup_rules(project, ide, refresh))
SetupMcp == \E editor \in Editors, remove \in BOOLEAN :
              Runs("command", setup_mcp(project, editor, remove))
SetupAiTechwriter == \E platform \in {"github", "gitlab"} :
                       Runs("command", setup_ai_techwriter(project, platform))
Init_ == \/ Runs("command", BootstrapAgentFiles(project))
         \/ \E force \in BOOLEAN : Runs(IF force THEN "force" ELSE "command",
                                         non_interactive_init(project, force))

\* The user writes where the files say the user may, or in files of the user's own.
WritesProse ==
  \/ project.agents_md # None /\ Acts("prose", [project EXCEPT !.agents_md.custom = Untrimmed])
  \/ project.claude_md # None /\ Acts("prose", [project EXCEPT !.claude_md.prose = User])
  \/ project.claude_md = None /\ \E s \in {"none", "unclosed"} :
       Acts("prose", [project EXCEPT !.claude_md = [section |-> s, info |-> None, prose |-> User]])
  \/ \E ide \in IDEs : project.rules[ide] = None /\ Acts("prose", [project EXCEPT !.rules[ide] = User])
  \/ \E e \in Editors : Acts("prose", [project EXCEPT !.mcp[e].others = TRUE, !.mcp[e].there = TRUE])
  \/ Acts("prose", [project EXCEPT !.ci.stages = TRUE])

\* The user changes or removes what Beadloom wrote.
ChangesGenerated ==
  \/ project.agents_md # None /\ Acts("user", [project EXCEPT !.agents_md.text = User])
  \/ HasSection(project) /\ Acts("user", [project EXCEPT !.claude_md.info = User])
  \/ \E ide \in IDEs, t \in {None, UserNames} : Acts("user", [project EXCEPT !.rules[ide] = t])
  \/ \E t \in Tools, r \in Roles, x \in {None, User} : Acts("user", [project EXCEPT !.roles[t][r] = x])
  \/ \E c \in Commands, x \in {None, User} : Acts("user", [project EXCEPT !.commands[c] = x])
  \/ Acts("user", [project EXCEPT !.pointer = User])
  \/ Acts("user", [project EXCEPT !.cursor_dir = FALSE, !.pointer = None,
                                  !.roles["cursor"] = [r \in Roles |-> None]])

WritesFlow ==
  \/ Acts("user", [project EXCEPT !.flow = [kind |-> "absent"]])
  \/ \E tools \in SUBSET Tools, arch \in Archs, stack \in {{"python"}, {"typescript"}} :
       Acts("user", [project EXCEPT !.flow = build_flow_config(tools, arch, stack)])

\* rules.yml, pyproject.toml or the packages change; Beadloom is upgraded.
FactsChange == project.facts < MaxFacts /\ Acts("user", [project EXCEPT !.facts = @ + 1])
Upgrade == project.release < MaxReleases /\ Acts("user", [project EXCEPT !.release = @ + 1])

Fresh(stack) ==
  [release |-> 1, facts |-> 1, detected |-> stack, flow |-> [kind |-> "absent"],
   agents_md |-> None, claude_md |-> None, rules |-> [i \in IDEs |-> None],
   cursor_dir |-> FALSE, roles |-> [t \in Tools |-> [r \in Roles |-> None]],
   commands |-> [c \in Commands |-> None], pointer |-> None,
   mcp |-> [e \in Editors |-> [there |-> FALSE, ours |-> FALSE, others |-> FALSE]],
   ci |-> [stages |-> FALSE, job |-> FALSE], kit |-> None]
NoFlags == [tools |-> {}, arch |-> "none", stack |-> {}]

AgentInit ==
  /\ \E s \in {"none", "heading"}, cursor \in BOOLEAN :
       LET new == [Fresh({"python"}) EXCEPT !.cursor_dir = cursor]
           prose == [new EXCEPT !.claude_md = [section |-> s, info |-> User, prose |-> User]]
       IN  project \in {new, prose,
                        setup_agentic_flow(BootstrapAgentFiles(new), NoFlags, FALSE)}
  /\ last = "none" /\ userSteps = 0 /\ commandSteps = 0

AgentNext ==
  \/ ConfigCheckFix \/ SetupAgenticFlow \/ SetupRules \/ SetupMcp \/ SetupAiTechwriter \/ Init_
  \/ WritesProse \/ ChangesGenerated \/ WritesFlow \/ FactsChange \/ Upgrade

-----------------------------------------------------------------------------
(* Properties.                                                             *)

(* Two config-check --fix in a row leave nothing that drifts, whatever was *)
(* edited, removed, upgraded or interrupted before, except what --fix does *)
(* not own: an invalid flow.yml, and a stale .cursorrules of a project     *)
(* without .cursor. (One is not enough: the composer, its last step, can   *)
(* make .cursor, or complete a scaffold, which earlier steps look for.)    *)
FixConverges ==
  LET p == Fix(5, Fix(5, project)) IN
  check_config_drift(p) \subseteq
    (IF p.flow.kind = "invalid" THEN {<<"flow.yml">>} ELSE {})
      \cup (IF p.cursor_dir THEN {} ELSE {<<"rules", "cursor">>})

\* The places of the user's: the custom block of AGENTS.md, CLAUDE.md outside the sections,
\* IDE rules that do not name Beadloom, other MCP servers, CI stages, commands.
Kept(p, q, commands) ==
  /\ p.agents_md # None => q.agents_md # None /\ strip(q.agents_md.custom) = strip(p.agents_md.custom)
  /\ p.claude_md # None => q.claude_md # None /\ q.claude_md.prose = p.claude_md.prose
  /\ \A ide \in IDEs : p.rules[ide] = User => q.rules[ide] = User
  /\ \A e \in Editors : p.mcp[e].others => q.mcp[e].others
  /\ p.ci.stages => q.ci.stages
  /\ commands => \A c \in Commands : p.commands[c] = User => q.commands[c] = User

(* What a user writes beside the generated text is the user's: no command  *)
(* without --force changes it, also when it is cut short between two of    *)
(* its writes, not in the middle of one (hand-edited commands are --fix's  *)
(* own); and writing it never makes config-check                           *)
(* report more or less than before (config_sync.py: it must never trip the *)
(* check).                                                                 *)
ProseIsSafe ==
  [][/\ last' \in {"fix", "cut", "flow", "command"} =>
          Kept(project, project', last' \in {"flow", "command"})
     /\ last' = "prose" => check_config_drift(project') = check_config_drift(project)]_avars
=============================================================================
