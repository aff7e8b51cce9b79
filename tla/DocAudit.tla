------------------------------ MODULE DocAudit ------------------------------
(***************************************************************************)
(* `docs audit`: numbers and versions the documentation states, against    *)
(* what the manifest, the index and the installed release say they are.      *)
(* A line is the sequence of its words, each by what the scanner takes it  *)
(* for.                                                                    *)
(***************************************************************************)
EXTENDS Naturals, Sequences, FiniteSets, SequencesExt

CONSTANTS
  Above,          \* the names of the directories the project lies in
  Files,          \* the markdown files there may be: sequences of names
  Texts,          \* what a file may hold: a sequence of lines
  Projects,       \* states of the project: [manifests, graph, release]
  Configs,        \* what docs_audit of config.yml may say
  Suffix,         \* <<p, q>>: the path of the file q ends with the text p
  LanguageOf,     \* the table from file extensions to languages
  Unset,          \* a key that is not there
  Unusable,       \* a value of a type the reader does not expect
  MaxSteps        \* bound on edits and project changes

VARIABLES
  docs,           \* [Files -> text]
  project,        \* what is true of the project now
  indexed,        \* its graph at the last index run, or Unset
  config,
  steps

dvars == <<docs, project, indexed, config, steps>>

\* A word: a number "num" or one with %, + or = at it ("marked"), a keyword of a fact
\* ("key"), the first word of a keyword of two ("lead"), a "modifier" such as "about" or
\* "max", a "version" (whose parts take three places: two "word"s follow it), a version in
\* backticks ("quoted"), or another "word". Dates, issue numbers, ranges, line references,
\* pinned versions and other code in backticks are "masked".
\* A line that opens or closes a code block is Fence.
Fence == <<[is |-> "fence"]>>
Word == [is : {"fence", "marked", "modifier", "word", "masked"}]
          \cup [is : {"num", "version", "quoted"}, value : Nat] \cup [is : {"key", "lead"}, fact : STRING]

\* Mutant: a word less.
ShortWindow == 4
PROXIMITY_WINDOW == 5
_EXCLUDE_DIRS == {"node_modules", ".git", "__pycache__", ".venv", "venv"}

\* The last name of a path is that of a markdown file, and a condition is no marker.
ASSUME AuditConstants ==
  /\ MaxSteps \in Nat
  /\ IsFiniteSet(Files) /\ << >> \notin Files /\ Files \subseteq Seq(STRING)
  /\ \A p \in Files : Last(p) \notin _EXCLUDE_DIRS
  /\ Texts \subseteq Seq(Seq(Word))
  /\ {Unset, Unusable} \cap [op : {">", ">="}, threshold : Nat] = {}

-----------------------------------------------------------------------------
(* The scanner.                                                            *)

\* The words the number scanner sees, in their order: code in backticks is not there.
Words(line) ==
  LET kept == {i \in DOMAIN line : line[i].is \notin {"masked", "quoted"}}
  IN [n \in 1..Cardinality(kept) |->
        line[CHOOSE i \in kept : Cardinality({j \in kept : j <= i}) = n]]
Apart(i, j) == IF i < j THEN j - i ELSE i - j
_has_modifier(ws, i) == \E j \in DOMAIN ws : Apart(i, j) <= 3 /\ ws[j].is = "modifier"

IsKeyword(ws, j) == \/ ws[j].is = "key"
                    \/ /\ ws[j].is = "lead" /\ j < Len(ws)
                       /\ ws[j + 1].is = "key" /\ ws[j + 1].fact = ws[j].fact
Near(ws, i) == {j \in DOMAIN ws : Apart(i, j) <= PROXIMITY_WINDOW /\ IsKeyword(ws, j)}

\* The nearer wins; of two as near, the one after the number. Mutant: the one before it.
BeforeWins(i, j) == 2 * Apart(i, j) + (IF j < i THEN 0 ELSE 1)
Score(i, j) == 2 * Apart(i, j) + (IF j < i THEN 1 ELSE 0)
Nearest(ws, i) == CHOOSE j \in Near(ws, i) : \A k \in Near(ws, i) : Score(i, j) <= Score(i, k)

_LOW_CONFIDENCE == {"SPEC.md", "CONTRIBUTING.md"}

\* Numbers below 10 are taken for no count at all.
_extract_number_mentions(path, line) ==
  LET ws == Words(line) IN
  {[fact |-> ws[Nearest(ws, i)].fact, value |-> ws[i].value, path |-> path] :
     i \in {k \in DOMAIN ws : /\ ws[k].is = "num" /\ ws[k].value >= 10
                              /\ ~_has_modifier(ws, k) /\ Last(path) \notin _LOW_CONFIDENCE
                              /\ Near(ws, k) # {}}}
\* Backticks do not hide a version.
_extract_versions(path, line) ==
  {[fact |-> "version", value |-> line[i].value, path |-> path] :
     i \in {k \in DOMAIN line : line[k].is \in {"version", "quoted"}}}

\* Fences alternate: one that is never closed hides the rest of the file.
Shown(text, i) == /\ text[i] # Fence
                  /\ Cardinality({j \in 1..(i - 1) : text[j] = Fence}) % 2 = 0
scan_file(path) ==
  LET t == docs[path] IN
  UNION {_extract_versions(path, t[i]) \cup _extract_number_mentions(path, t[i]) :
           i \in {k \in DOMAIN t : Shown(t, k)}}

-----------------------------------------------------------------------------
(* The pages.                                                              *)

\* *.md, docs/**/*.md and .beadloom/*.md
default_globs ==
  {p \in Files : \/ Len(p) = 1
                 \/ p[1] = "docs" /\ Len(p) > 1
                 \/ p[1] = ".beadloom" /\ Len(p) = 2}

\* docs/**/features/**/SPEC.md; the other patterns are outside the globs.
_EXCLUDE_PATTERNS ==
  {p \in default_globs : p[1] = "docs" /\ Last(p) = "SPEC.md" /\ "features" \in Range(Front(p))}

\* A pattern is the set of files it matches; one that is not a text is passed over.
_load_exclude_paths == UNION {g \in config.exclude_paths : g # Unusable}

\* Excluded directories are looked for in the absolute path: below one of them nothing is
\* audited.
resolve_paths ==
  {p \in default_globs : (Above \cup Range(p)) \cap _EXCLUDE_DIRS = {} /\ Last(p) # "CHANGELOG.md"}
    \ (_EXCLUDE_PATTERNS \cup _load_exclude_paths)

-----------------------------------------------------------------------------
(* The facts.  Version, tools and commands are read when they are asked    *)
(* for, the rest from the index.                                           *)

\* A manifest without one: Unset. A dynamic version is the one the named source file
\* states, else that of the installed package.
_parse_version(m) ==
  IF m = Unset THEN Unset
  ELSE IF ~m.dynamic THEN m.version
  ELSE IF m.hatch # Unset THEN m.hatch ELSE m.installed

\* pyproject.toml, package.json, Cargo.toml: the first that has a version.
_collect_version(manifests) ==
  LET found == SelectSeq([i \in DOMAIN manifests |-> _parse_version(manifests[i])],
                         LAMBDA v : v # Unset)
  IN IF found = <<>> THEN <<>> ELSE [version |-> found[1]]

_collect_db_counts(g) == [node_count |-> Len(g.nodes), edge_count |-> g.edges]
_collect_language_count(g) ==
  [language_count |-> Cardinality({LanguageOf[e] : e \in g.extensions \cap DOMAIN LanguageOf})]
\* What the test mapper wrote into a node's extra, if anything.
_collect_test_count(g) ==
  [test_count |-> FoldLeft(LAMBDA sum, t : IF t = Unset THEN sum ELSE sum + t.test_count, 0, g.nodes)]
_collect_framework_count(g) ==
  [framework_count |-> Len(SelectSeq(g.nodes, LAMBDA t : t # Unset /\ t.framework))]
_collect_rule_type_count(g) == [rule_type_count |-> g.rules]

_collect_mcp_tool_count(release) == [mcp_tool_count |-> release.tools]
\* A command is its path through the groups, and a group is counted as well.
_collect_cli_command_count(release) == [cli_command_count |-> Cardinality(release.commands)]

\* An entry that is no mapping, has no value or one that is neither text nor number is
\* passed over.
_collect_extra_facts ==
  LET usable == {f \in DOMAIN config.extra_facts :
                   config.extra_facts[f] # Unusable /\ config.extra_facts[f].value \notin {Unset, Unusable}}
  IN [f \in usable |-> config.extra_facts[f].value]

BuiltIn(graph) ==
  _collect_version(project.manifests) @@ _collect_db_counts(graph)
    @@ _collect_language_count(graph) @@ _collect_test_count(graph)
    @@ _collect_framework_count(graph) @@ _collect_rule_type_count(graph)
    @@ _collect_mcp_tool_count(project.release) @@ _collect_cli_command_count(project.release)

\* Extra facts come last and replace a built-in one of their name.
collect ==
  [f \in DOMAIN _collect_extra_facts \cup DOMAIN BuiltIn(indexed) |->
     IF f \in DOMAIN _collect_extra_facts THEN _collect_extra_facts[f] ELSE BuiltIn(indexed)[f]]

-----------------------------------------------------------------------------
(* The comparison.                                                         *)

\* Percent.
DEFAULT_TOLERANCES == [node_count |-> 10, edge_count |-> 10, test_count |-> 5]
_load_tolerances ==
  LET usable == {f \in DOMAIN config.tolerances : config.tolerances[f] # Unusable}
  IN [f \in usable |-> config.tolerances[f]]
tolerance(f) ==
  IF f \in DOMAIN _load_tolerances THEN _load_tolerances[f]
  ELSE IF f \in DOMAIN DEFAULT_TOLERANCES THEN DEFAULT_TOLERANCES[f] ELSE 0

\* An entry counts only with its path, fact and value.
_load_ignore ==
  {r \in config.ignore : r # Unusable /\ Unset \notin {r.path, r.fact, r.value}}

Within(actual, mentioned, t) ==
  IF t = 0 \/ actual = 0 THEN mentioned = actual
  ELSE actual * (100 - t) <= 100 * mentioned /\ 100 * mentioned <= actual * (100 + t)
_values_match_with_tolerance(f, actual, mentioned) ==
  IF f = "version" THEN actual = mentioned ELSE Within(actual, mentioned, tolerance(f))

\* Mutant: a rule silences every mention of its fact in the file.
SilencesTheFact(rule, m) == rule.fact = m.fact /\ <<rule.path, m.path>> \in Suffix
Silences(rule, m) == /\ rule.fact = m.fact /\ rule.value = m.value
                     /\ <<rule.path, m.path>> \in Suffix

Mentions == UNION {scan_file(p) : p \in resolve_paths}
compare_facts ==
  {m \in Mentions : /\ ~\E rule \in _load_ignore : Silences(rule, m)
                    /\ m.fact \in DOMAIN collect
                    /\ ~_values_match_with_tolerance(m.fact, collect[m.fact], m.value)}

\* The gate's step: without a database it fails.
AuditPasses == indexed # Unset /\ compare_facts = {}

\* `docs audit --fail-if stale>N`, or stale>=N: the exit code. What does not parse is an
\* error before anything is read, and so is a missing database.
docs_audit(condition) ==
  IF condition = Unusable THEN 2
  ELSE IF indexed = Unset THEN 1
  ELSE LET stale == Cardinality(compare_facts) IN
       IF condition # Unset /\ (\/ condition.op = ">" /\ stale > condition.threshold
                                \/ condition.op = ">=" /\ stale >= condition.threshold)
       THEN 1 ELSE 0

-----------------------------------------------------------------------------
(* Steps.                                                                  *)

Step == steps < MaxSteps /\ steps' = steps + 1
EditDoc == /\ Step /\ \E p \in Files, t \in Texts : docs' = [docs EXCEPT ![p] = t]
           /\ UNCHANGED <<project, indexed, config>>
Develop == /\ Step /\ project' \in Projects
           /\ UNCHANGED <<docs, indexed, config>>
reindex == indexed' = project.graph /\ UNCHANGED <<docs, project, config, steps>>

AuditInit ==
  /\ docs = [p \in Files |-> <<>>]
  /\ project \in Projects /\ indexed = Unset /\ config \in Configs /\ steps = 0
AuditNext == EditDoc \/ Develop \/ reindex

-----------------------------------------------------------------------------
(* Properties.                                                             *)

\* The pages a reader would say are audited: at the top or under docs, not a change log,
\* a specification or the guide for contributors, and not excluded by the configuration.
Pages ==
  {p \in Files :
     /\ Len(p) = 1 \/ (p[1] = "docs" /\ Range(p) \cap _EXCLUDE_DIRS = {})
     /\ Last(p) \notin {"CHANGELOG.md", "SPEC.md", "CONTRIBUTING.md"}
     /\ \A g \in config.exclude_paths : g = Unusable \/ p \notin g}

\* The keyword at j says what the number at k counts: it comes right after it, or it is the
\* only one of its line and at most five words off.
Counts(ws, k, j) ==
  /\ ws[j].is = "key"
  /\ \/ j = k + 1
     \/ /\ j <= k + 5 /\ k <= j + 5
        /\ \A i \in DOMAIN ws \ {j} : ws[i].is \notin {"key", "lead"}

\* A plain claim: a number of 10 or more with such a keyword, no modifier near; or a
\* version. Outside a code block, on such a page.
Claims ==
  UNION {UNION {LET ws == Words(docs[p][i]) IN
    {[fact |-> ws[kj[2]].fact, value |-> ws[kj[1]].value, path |-> p] :
       kj \in {x \in (DOMAIN ws) \X (DOMAIN ws) :
                 /\ ws[x[1]].is = "num" /\ ws[x[1]].value >= 10
                 /\ Counts(ws, x[1], x[2]) /\ ~_has_modifier(ws, x[1])}}
      \cup {[fact |-> "version", value |-> w.value, path |-> p] :
              w \in {x \in Range(docs[p][i]) : x.is \in {"version", "quoted"}}}
    : i \in {j \in DOMAIN docs[p] : Shown(docs[p], j)}} : p \in Pages}

\* What the author excused or replaced, told from what only looks like it.
Excused(m) ==
  \/ \E r \in config.ignore \ {Unusable} :
       r.fact = m.fact /\ r.value = m.value /\ <<r.path, m.path>> \in Suffix
  \/ /\ m.fact \in DOMAIN config.extra_facts /\ config.extra_facts[m.fact] # Unusable
     /\ config.extra_facts[m.fact].value \notin {Unset, Unusable}

Percent(f) ==
  IF f \in DOMAIN config.tolerances /\ config.tolerances[f] # Unusable THEN config.tolerances[f]
  ELSE IF f \in {"node_count", "edge_count"} THEN 10 ELSE IF f = "test_count" THEN 5 ELSE 0

\* With a current index, every plain claim that is out of its tolerance is reported, and
\* so fails the gate and `--fail-if stale>0`, unless a rule excuses just this number or the
\* configuration replaces the fact: neither another keyword nearby, a masked word between,
\* a rule for another number of the same page, an unusable entry of the configuration nor
\* a manifest without a version turns a wrong claim into a pass. For projects that do not
\* lie in a directory of an excluded name.
FalseClaimsFound ==
  Above \cap _EXCLUDE_DIRS = {} /\ indexed = project.graph =>
    \A m \in Claims :
      LET truth == BuiltIn(project.graph) IN
      m.fact \in DOMAIN truth =>
        \/ /\ m \in compare_facts /\ ~AuditPasses
           /\ docs_audit([op |-> ">", threshold |-> 0]) = 1
        \/ IF m.fact = "version" THEN m.value = truth.version
           ELSE Within(truth[m.fact], m.value, Percent(m.fact))
        \/ Excused(m)
=============================================================================
