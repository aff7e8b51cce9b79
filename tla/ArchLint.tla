------------------------------ MODULE ArchLint ------------------------------
(***************************************************************************)
(* The architecture linter over an index that lags behind the code:        *)
(* imports resolved to nodes and turned into edges by a full reindex       *)
(* (graph/import_resolver.py), annotations refreshed by every reindex, and *)
(* the rules evaluated over the tables (graph/rules/, graph/linter.py).    *)
(*                                                                         *)
(* Paths are sequences of names.  A node's source is a directory (DirOf)   *)
(* or one file (FileOf); a module is [dir, name]; an import is the         *)
(* sequence of its dotted parts.  A rule names a node by its number.       *)
(***************************************************************************)
EXTENDS CycleSearch, RuleFile

CONSTANTS
  RefOf,       \* a node's ref_id: <<"web">>, or <<"domain", "web">> for "domain:web"
  KindOf, TagsOf,                \* its kind and tags
  DirOf, FileOf,                 \* its source, a directory or a file
  Modules, ContentsOf,           \* source files and what may stand in them
  ImportsIn, SymbolsIn,          \* a content's imports, and its symbols' annotations
  ScanPaths,                     \* scan_paths of config.yml, in order
  Graphs,                        \* what the YAML may declare: (src, dst, kind) -> lifecycle
  RuleFiles,                     \* what rules.yml may say, by a name
  LedgerOf,                      \* a node's rows of sync_state: [ok, total]
  Absent

ASSUME SourcesDiffer ==
  /\ << >> \notin {DirOf[n] : n \in DOMAIN DirOf}
  /\ \A m, n \in DOMAIN DirOf : DirOf[m] = DirOf[n] => m = n
  /\ \A m, n \in DOMAIN FileOf : FileOf[m] = FileOf[n] => m = n

RulesIn == [f \in DOMAIN RuleFiles |-> load_rules(RuleFiles[f])]

RuleTypes == {"deny", "require", "forbid_cycles", "forbid_import", "forbid", "layers", "check",
              "unregistered_feature_candidate", "module_coverage"}

PathNames == UNION {Range(p) : p \in Range(DirOf) \cup Range(ScanPaths) \cup {m.dir : m \in Modules}
                                     \cup UNION Range(ImportsIn)}

ASSUME LintConstants ==
  /\ DOMAIN DirOf \subseteq Nodes /\ Absent \notin Nodes /\ Absent \notin Graphs
  /\ \A n \in DOMAIN DirOf : DirOf[n] \in Seq(PathNames)
  /\ ScanPaths \in Seq(Seq(PathNames))
  /\ \A m \in Modules : m.dir \in Seq(PathNames) /\ ContentsOf[m] \ {Absent} \subseteq DOMAIN ImportsIn
  /\ \A c \in DOMAIN ImportsIn :
       /\ ImportsIn[c] \subseteq Seq(PathNames) /\ DOMAIN SymbolsIn[c] \in SUBSET Nat
       /\ \A s \in DOMAIN SymbolsIn[c] : DOMAIN SymbolsIn[c][s] \in SUBSET Nat
  /\ \A g \in Graphs : DOMAIN g \subseteq Nodes \X Nodes \X VALID_EDGE_KINDS
  /\ \A f \in DOMAIN RuleFiles : RulesIn[f] # Refused =>
       \A r \in RulesIn[f] : r.type \in RuleTypes /\ (r.type = "layers" => DOMAIN r.spec.layers \in SUBSET Nat)

\* One search, of one depth, and one order of layers.
ASSUME OneCycleRule ==
  \A f \in DOMAIN RuleFiles : RulesIn[f] # Refused =>
      /\ \A q, r \in RulesIn[f] : q.type = r.type /\ r.type \in {"layers", "forbid_cycles"} => q = r
      /\ \A r \in RulesIn[f] : r.type = "forbid_cycles" => r.spec.max_depth = MaxDepth

VARIABLES
  code,        \* what stands in each source file
  declared,    \* the graph in the YAML files
  symbols,     \* code_symbols: the content each file's rows were read from
  imports,     \* code_imports: [file, path, node], node Absent if unresolved
  edges,       \* edges: (src, dst, kind) -> lifecycle
  loaded,      \* the declared graph the tables were loaded from
  lastFull,    \* the code at the last full reindex (history)
  phase,       \* idle | evaluating
  rulefile,    \* which rules.yml it reads, or has read; Blank if there is none
  report       \* the violations of the last lint, or Refused

world == <<code, declared>>
index == <<symbols, imports, edges, loaded, lastFull>>
vars == <<world, index, phase, rulefile, report, search>>

Present(tree) == {m \in Modules : tree[m] # Absent}

(***************************************************************************)
(* Import resolution (graph/import_resolver.py).                           *)
(***************************************************************************)

\* _import_path_to_file_paths: per prefix the module, then the package.
CandidatesAt(prefix, path) ==
  <<[dir |-> prefix \o Front(path), name |-> Last(path)],
    [dir |-> prefix \o path, name |-> "__init__"]>>

\* Strategy 1: the node named "kind:value" by an annotation of the first symbol of
\* the first candidate file that names one; domain before service before feature.
\* A symbol's annotations are a sequence of [key, value], in the dict's order.
NamedBy(key, m, tree) ==
  IF m \in Present(tree) /\ SymbolsIn[tree[m]] # << >>
  THEN {n \in Nodes : \E a \in Range(SymbolsIn[tree[m]][1]) :
                        a.key = key /\ RefOf[n] = <<key, a.value>>}
  ELSE {}

FirstFound(sets) ==
  LET found == {i \in DOMAIN sets : sets[i] # {}} IN IF found = {} THEN {} ELSE sets[Min(found)]

SearchPrefixes == Append(ScanPaths, << >>)

ByAnnotation(path, tree) ==
  FirstFound([i \in DOMAIN SearchPrefixes |-> FirstFound([j \in 1..2 |-> FirstFound([k \in 1..3 |->
    NamedBy(<<"domain", "service", "feature">>[k], CandidatesAt(SearchPrefixes[i], path)[j], tree)])])])

\* The deepest directory on the way up from path that is a node's source.
Shallowest(path) ==                           \* mutant: walks down, not up
  LET above == {n \in DOMAIN DirOf : IsPrefix(DirOf[n], path)}
  IN  {n \in above : \A k \in above : Len(DirOf[k]) >= Len(DirOf[n])}
Deepest(path) ==
  LET above == {n \in DOMAIN DirOf : IsPrefix(DirOf[n], path)}
  IN  {n \in above : \A k \in above : Len(DirOf[k]) <= Len(DirOf[n])}

\* _find_node_by_source_prefix: the scan paths in order, then the bare path.
BySource(path) == FirstFound([i \in DOMAIN SearchPrefixes |-> Deepest(SearchPrefixes[i] \o path)])

Resolved(path, tree) ==
  LET hits == FirstFound(<<ByAnnotation(path, tree), BySource(path)>>)
  IN  IF hits = {} THEN Absent ELSE CHOOSE n \in hits : TRUE

IndexedImports(tree) ==
  UNION {{[file |-> m, path |-> p, node |-> Resolved(p, tree)] : p \in ImportsIn[tree[m]]} :
           m \in Present(tree)}

Trees == {f \in [Modules -> UNION {ContentsOf[m] : m \in Modules}] :
            \A m \in Modules : f[m] \in ContentsOf[m]}

\* create_import_edges: from the node whose directory holds the file, whatever its
\* annotations say.  INSERT OR IGNORE: an edge the YAML declares stays as declared.
ImportEdges(rows) ==
  UNION {{<<n, r.node, "depends_on">> : n \in Deepest(r.file.dir) \ {r.node}} :
           r \in {x \in rows : x.node # Absent}}

\* As functions of the tree, so that no step computes them anew.
ImportRows == [tree \in Trees |-> IndexedImports(tree)]
ImportEdgesOf == [tree \in Trees |-> ImportEdges(ImportRows[tree])]

Loaded(graph, tree) ==
  [e \in DOMAIN graph \cup ImportEdgesOf[tree] |-> IF e \in DOMAIN graph THEN graph[e] ELSE "active"]

(***************************************************************************)
(* The index.  What a reindex does to files and docs is module Reindex's   *)
(* subject; here counts that only a full one resolves imports.             *)
(***************************************************************************)
Full ==
  /\ symbols' = code
  /\ imports' = ImportRows[code]
  /\ edges' = Loaded(declared, code)
  /\ loaded' = declared /\ lastFull' = code

Incremental ==
  IF loaded # declared
  THEN Full
  ELSE symbols' = code /\ UNCHANGED <<imports, edges, loaded, lastFull>>

(***************************************************************************)
(* Rules (graph/rules/evaluators.py).                                      *)
(***************************************************************************)
rules == RulesIn[rulefile]
RulesOf(type) == {r \in rules : r.type = type}

Violation(r, m, from, to) ==
  [type |-> r.type, name |-> r.name, severity |-> r.severity, file |-> m, from |-> from, to |-> to]

\* NodeMatcher.matches: a field that is not set matches everything.
MatchesUntagged(matcher, n) ==
  /\ n \notin matcher.exclude
  /\ matcher.ref \in {Blank, n}
  /\ matcher.kind \in {Blank, KindOf[n]}
Matches(matcher, n) ==
  MatchesUntagged(matcher, n) /\ (matcher.tag = Blank \/ matcher.tag \in TagsOf[n])

\* _get_file_node: the first annotation of the first symbol that names a node.
FileNode(m) ==
  LET rows == IF m \in Present(symbols) THEN SymbolsIn[symbols[m]] ELSE << >>
      named == FirstFound([s \in DOMAIN rows |-> FirstFound([i \in DOMAIN rows[s] |->
                            {n \in Nodes : RefOf[n] = <<rows[s][i].value>>}])])
  IN  IF named = {} THEN Absent ELSE CHOOSE n \in named : TRUE

_edge_exists(src, dst, kinds) == \E k \in kinds : <<src, dst, k>> \in DOMAIN edges

Denied(r) ==
  {Violation(r, i.file, FileNode(i.file), i.node) : i \in
     {x \in imports :
        /\ x.node # Absent /\ FileNode(x.file) \notin {Absent, x.node}
        /\ Matches(r.spec.from, FileNode(x.file)) /\ Matches(r.spec.to, x.node)
        /\ ~_edge_exists(FileNode(x.file), x.node, r.spec.unless)}}

Lacking(r) ==
  {Violation(r, Absent, n, Absent) : n \in
     {x \in Nodes : /\ Matches(r.spec.for, x)
                    /\ ~ \E e \in DOMAIN edges : /\ e[1] = x /\ r.spec.edge_kind \in {Blank, e[3]}
                                                 /\ Matches(r.spec.has_edge_to, e[2])}}

CrossBoundary(r) ==
  {Violation(r, i.file, Absent, Absent) : i \in
     {x \in imports : x.file \in r.spec.from_glob /\ x.path \in r.spec.to_glob}}

ForbiddenEdges(r) ==
  {Violation(r, Absent, e[1], e[2]) : e \in
     {x \in DOMAIN edges : /\ r.spec.edge_kind \in {Blank, x[3]}
                           /\ Matches(r.spec.from, x[1]) /\ Matches(r.spec.to, x[2])}}

\* _live_lifecycle_clause
LiveEdgesAll(es, kinds) ==                    \* mutant: intent counts as reality
  {<<e[1], e[2]>> : e \in {x \in DOMAIN es : x[3] \in kinds}}
LiveEdges(es, kinds) ==
  {<<e[1], e[2]>> : e \in {x \in DOMAIN es : x[3] \in kinds /\ es[x] = "active"}}

\* evaluate_layer_rules: no dependency on a higher layer, nor, unless skipping is allowed,
\* past the next lower one.  Of a tag listed twice the last place counts; a node with two
\* layer tags is in the layer of the one that the iteration of a set yields first.
LayersOf(tags, n) ==
  {i \in DOMAIN tags : tags[i] \in TagsOf[n] /\ \A j \in DOMAIN tags : j > i => tags[j] # tags[i]}

LayerChoices ==
  LET Layers(n) == UNION {LayersOf(r.spec.layers, n) : r \in RulesOf("layers")}
  IN {f \in [Nodes -> {0} \cup UNION {Layers(n) : n \in Nodes}] :
        \A n \in Nodes : Layers(n) # {} => f[n] \in Layers(n)}

Upward(r, layer) ==
  {Violation(r, Absent, e[1], e[2]) : e \in
     {x \in LiveEdges(edges, {r.spec.edge_kind}) :
        /\ LayersOf(r.spec.layers, x[1]) # {} /\ LayersOf(r.spec.layers, x[2]) # {}
        /\ \/ layer[x[1]] > layer[x[2]]
           \/ ~r.spec.allow_skip /\ layer[x[2]] > layer[x[1]] + 1}}

\* Rows and files are counted under a directory; under a file's path there is nothing.
Under(n) == {m \in Modules : n \in DOMAIN DirOf /\ IsPrefix(DirOf[n], m.dir)}
Rows(m) == IF m \in Present(symbols) THEN Len(SymbolsIn[symbols[m]]) ELSE 0

\* evaluate_cardinality_rules: a node without pairs has no coverage at all.
Sizes(r) ==
  {Violation(r, Absent, n, Absent) : n \in
     {x \in Nodes :
        /\ Matches(r.spec.for, x)
        /\ \/ /\ r.spec.max_symbols # Blank /\ x \in DOMAIN DirOf \cup DOMAIN FileOf
              /\ MapThenSumSet(Rows, Under(x)) > r.spec.max_symbols
           \/ /\ r.spec.max_files # Blank /\ x \in DOMAIN DirOf \cup DOMAIN FileOf
              /\ Cardinality(Under(x) \cap Present(symbols)) > r.spec.max_files
           \/ /\ r.spec.min_doc_coverage # Blank
              /\ IF LedgerOf[x].total = 0 THEN r.spec.min_doc_coverage > 0
                 ELSE 100 * LedgerOf[x].ok < r.spec.min_doc_coverage * LedgerOf[x].total}}

\* A key among the annotations of any symbol of the file.
Annotations(m) == IF Rows(m) = 0 THEN {} ELSE Range(FlattenSeq(SymbolsIn[symbols[m]]))

_candidate_files_for_domain(n) ==
  {m \in Under(n) : /\ \E a \in Annotations(m) : a.key = "domain" /\ RefOf[n] = <<a.value>>
                    /\ \A a \in Annotations(m) : a.key # "feature"}

\* The tags of the nodes are not asked for, and so any tag will do.
Unregistered(r) ==
  {Violation(r, x[2], x[1], Absent) : x \in
     {y \in Nodes \X Modules :
        /\ MatchesUntagged(r.spec.for, y[1]) /\ y[2] \in _candidate_files_for_domain(y[1])
        /\ Rows(y[2]) >= r.spec.min_symbols /\ y[2] \notin r.spec.exclude}}

\* _node_dir_source_prefixes: a domain's directory, and the root, cover nothing.
Covering(root) == {DirOf[n] : n \in {x \in DOMAIN DirOf : KindOf[x] # "domain" /\ DirOf[x] # root}}

\* evaluate_module_coverage_rules: candidates from the disk and from code_symbols.
Uncovered(r) ==
  {Violation(r, m, Absent, Absent) : m \in
     {x \in Present(code) \cup {y \in Modules : Rows(y) > 0} :
        /\ IsPrefix(r.spec.source_root, x.dir)
        /\ Rows(x) > 0 => Rows(x) >= r.spec.min_symbols
        /\ \A a \in Annotations(x) : a.key \notin {"feature", "component"}
        /\ \A n \in DOMAIN FileOf : FileOf[n] # x
        /\ ~ \E d \in Covering(r.spec.source_root) : IsPrefix(d, x.dir)
        /\ x \notin r.spec.exempt}}

Cyclic(r) == {Violation(r, Absent, c[1], Tip(c)) : c \in reported}

Violations(r, layer) ==
  CASE r.type = "deny" -> Denied(r)
    [] r.type = "require" -> Lacking(r)
    [] r.type = "forbid_cycles" -> Cyclic(r)
    [] r.type = "forbid_import" -> CrossBoundary(r)
    [] r.type = "forbid" -> ForbiddenEdges(r)
    [] r.type = "layers" -> Upward(r, layer)
    [] r.type = "check" -> Sizes(r)
    [] r.type = "unregistered_feature_candidate" -> Unregistered(r)
    [] r.type = "module_coverage" -> Uncovered(r)

evaluate_all(layer) == UNION {Violations(r, layer) : r \in rules}

\* `lint --strict` exits with 0.
Green == report \notin {Absent, Refused} /\ \A v \in report : v.severity # "error"

(***************************************************************************)
(* Actions.                                                                *)
(***************************************************************************)
EditCode(m, c) ==
  /\ phase = "idle" /\ c # code[m]
  /\ code' = [code EXCEPT ![m] = c]
  /\ report' = Absent /\ rulefile' = Absent
  /\ UNCHANGED <<declared, index, phase, search>>

EditGraph(g) ==
  /\ phase = "idle" /\ g # declared
  /\ declared' = g
  /\ report' = Absent /\ rulefile' = Absent
  /\ UNCHANGED <<code, index, phase, search>>

FullReindex ==
  /\ phase = "idle"
  /\ Full
  /\ report' = Absent /\ rulefile' = Absent
  /\ UNCHANGED <<world, phase, search>>

\* lint: reindex (incremental) unless told not to, then the rules: without a file there
\* are no violations, a file that is refused is an error, else evaluate_all up to the
\* cycle rules, whose search starts from nothing.
Lint(reindex, source) ==
  /\ phase = "idle"
  /\ loaded = Absent => reindex
  /\ IF reindex THEN Incremental ELSE UNCHANGED index
  /\ rulefile' = source
  /\ \/ source = Blank /\ report' = {} /\ UNCHANGED <<phase, search>>
     \/ source # Blank /\ RulesIn[source] = Refused /\ report' = Refused /\ UNCHANGED <<phase, search>>
     \/ /\ source # Blank /\ RulesIn[source] # Refused
        /\ phase' = "evaluating" /\ report' = Absent
        /\ adj' = UNION {LiveEdges(edges', r.spec.edge_kind) : r \in RulesOf("forbid_cycles")'}
        /\ todo' = Participants(adj') /\ frames' = {} /\ reported' = {}
  /\ UNCHANGED world

EvaluateCycles ==
  /\ phase = "evaluating"
  /\ SearchNext
  /\ UNCHANGED <<world, index, phase, rulefile, report>>

Report ==
  /\ phase = "evaluating" /\ SearchDone
  /\ \E layer \in LayerChoices : report' = evaluate_all(layer)
  /\ phase' = "idle"
  /\ adj' = {} /\ reported' = {}
  /\ UNCHANGED <<world, index, rulefile, todo, frames>>

Init ==
  /\ code \in Trees
  /\ declared \in Graphs
  /\ symbols = [m \in Modules |-> Absent] /\ imports = {} /\ edges = << >>
  /\ loaded = Absent /\ lastFull = [m \in Modules |-> Absent]
  /\ phase = "idle" /\ rulefile = Absent /\ report = Absent
  /\ adj = {} /\ todo = {} /\ frames = {} /\ reported = {}

Next ==
  \/ \E m \in Modules : \E c \in ContentsOf[m] : EditCode(m, c)
  \/ \E g \in Graphs : EditGraph(g)
  \/ FullReindex \/ EvaluateCycles \/ Report
  \/ \E reindex \in BOOLEAN, f \in DOMAIN RuleFiles \cup {Blank} : Lint(reindex, f)

Spec == Init /\ [][Next]_vars

(***************************************************************************)
(* What a lint is worth.  The references below know of nodes, directories  *)
(* and import statements only: not of tables, prefixes, frames or rows.    *)
(***************************************************************************)

\* The node a module is part of: that of the innermost directory around it.
Home(m) ==
  {n \in DOMAIN DirOf : /\ IsPrefix(DirOf[n], m.dir)
                        /\ \A k \in DOMAIN DirOf : IsPrefix(DirOf[k], m.dir) => IsPrefix(DirOf[k], DirOf[n])}

\* The modules that an import may denote; they need not exist.
Denoted(path) == UNION {Range(CandidatesAt(SearchPrefixes[i], path)) : i \in DOMAIN SearchPrefixes}

Imported == UNION {Denoted(p) : p \in UNION {ImportsIn[c] : c \in DOMAIN ImportsIn}}

\* Which nodes the imports of a tree make depend on which, by way of these modules;
\* without what the YAML declares as something else than active: a planned edge
\* hides the import that has made it real.
Visible(tree, targets, graph) ==
  {d \in Nodes \X Nodes :
     /\ d[1] # d[2]
     /\ \E m \in Present(tree) : \E p \in ImportsIn[tree[m]] : \E k \in targets \cap Denoted(p) :
          d[1] \in Home(m) /\ d[2] \in Home(k)
     /\ <<d[1], d[2], "depends_on">> \in DOMAIN graph => graph[<<d[1], d[2], "depends_on">>] = "active"}

Declared(graph, kinds) ==
  {<<e[1], e[2]>> : e \in {x \in DOMAIN graph : x[3] \in kinds /\ graph[x] = "active"}}

Fresh == lastFull = code /\ symbols = code /\ loaded = declared

\* What the author's file asks for as an error, read from its text.
Asked(type) ==
  IF rulefile \in {Absent, Blank} THEN {}
  ELSE {r.blocks[type] : r \in {x \in Range(Default(RuleFiles[rulefile], "rules", << >>)) :
          type \in DOMAIN x.blocks /\ Get(x, "severity") \in {Blank, "error"}}}

\* The nodes that a matcher without exclusions means.
Meant(matcher) ==
  {n \in Nodes : /\ "exclude" \notin DOMAIN matcher
                 /\ "ref_id" \in DOMAIN matcher => matcher.ref_id = n
                 /\ "kind" \in DOMAIN matcher => matcher.kind = KindOf[n]
                 /\ "tag" \in DOMAIN matcher => matcher.tag \in TagsOf[n]}

Annotated(m) == {n \in Nodes : \E s \in Range(SymbolsIn[code[m]]) : \E a \in Range(s) : RefOf[n] = <<a.value>>}

\* What the linter is right about when it is green.
Acyclic(links) ==
  \E rank \in [Nodes -> 1..Cardinality(Nodes)] : \A d \in links : rank[d[1]] < rank[d[2]]

\* A node is where it is if it has the tag of one place only.
Downward(b, links) ==
  LET Places(n) == {i \in DOMAIN b.layers : b.layers[i].tag \in TagsOf[n]}
  IN \A d \in links : \A i, j \in DOMAIN b.layers :
       Places(d[1]) = {i} /\ Places(d[2]) = {j} => ~(i > j)

Fits(b, n) == Cardinality({m \in Present(code) : IsPrefix(DirOf[n], m.dir)}) <= b.max_files

\* An import within which no declared edge of an exempting kind lies.
Crosses(b, m, n) ==
  \E p \in ImportsIn[code[m]] : \E k \in Present(code) \cap Denoted(p) : \E t \in Home(k) \ {n} :
     t \in Meant(b.to) /\ \A u \in Default(b, "unless_edge", {}) : <<n, t, u>> \notin DOMAIN declared

Clean ==
  LET real == Visible(code, Present(code), declared) \cup Declared(declared, {"depends_on"}) IN
  /\ \A b \in Asked("forbid_cycles") :
       "depends_on" \in b.edge_kind /\ MaxDepth >= Cardinality(Nodes) => Acyclic(real)
  /\ \A b \in Asked("layers") : Get(b, "edge_kind") = "depends_on" => Downward(b, real)
  /\ \A b \in Asked("check") : \A n \in Meant(b.for) \cap DOMAIN DirOf :
       Get(b, "max_files") # Blank => Fits(b, n)
  /\ \A b \in Asked("deny") : "depends_on" \notin Default(b, "unless_edge", {}) =>
       \A m \in Present(code) : \A n \in Meant(b.from) : Annotated(m) = {n} => ~Crosses(b, m, n)

\* What users read into `lint --strict` exiting with 0: when the tables are those of the
\* code and the file asks for it, the code's own dependencies have no cycle (of at
\* most MaxDepth nodes), none of them leads to a higher layer, no node has more files
\* than it may, and no module that is annotated with one node imports what a deny rule
\* forbids to it.  As every import becomes a depends_on edge, a rule that exempts those
\* who have one forbids nothing.
GreenMeansClean == phase = "idle" /\ Green /\ Fresh => Clean

\* An import denotes modules of one node: of several scan paths, or a module beside
\* a package of its name, at most one counts.
OneHome ==
  \A p \in UNION Range(ImportsIn) : \A k \in Modules \cap Denoted(p) : \A i \in DOMAIN SearchPrefixes :
    Home(k) # {} => Home(CandidatesAt(SearchPrefixes[i], p)[2]) \in {{}, Home(k)}

\* An annotation by which an import is resolved names the node that the module lies in.
AnnotatedAtHome ==
  \A m \in Modules : \A c \in ContentsOf[m] \ {Absent} :
    SymbolsIn[c] # << >> => \A a \in Range(SymbolsIn[c][1]) : \A n \in Nodes :
                              RefOf[n] = <<a.key, a.value>> => n \in Home(m)

\* What was so at the last full reindex, by the code or as declared, of these kinds.
Known(kinds) ==
  (IF "depends_on" \in kinds THEN Visible(lastFull, Imported, loaded) ELSE {}) \cup Declared(loaded, kinds)

\* A lint may be late, but it makes nothing up: after any edits and incremental
\* reindexes, what it says of dependencies was true of the code at the last full
\* reindex, or is declared, and no cycle is said twice.
NothingInvented ==
  /\ ReportedOnce
  /\ \A c \in reported : Links(c) \subseteq Known(UNION {r.spec.edge_kind : r \in RulesOf("forbid_cycles")})
  /\ phase = "idle" /\ report \notin {Absent, Refused} =>
       \A v \in report :
         /\ v.type = "layers" => <<v.from, v.to>> \in Known({r.spec.edge_kind : r \in RulesOf("layers")})
         /\ v.type = "deny" => \E p \in ImportsIn[lastFull[v.file]] :
                                  \E k \in Denoted(p) : v.to \in Home(k)
=============================================================================
