----------------------------- MODULE Bootstrap -----------------------------
(***************************************************************************)
(* init --bootstrap: the directory tree becomes a graph (services.yml) and *)
(* a first rules.yml, which the author then loads and lints. The tree is   *)
(* two levels below the source directories; a directory name is known by   *)
(* the pattern of the presets it matches.                                  *)
(***************************************************************************)
EXTENDS Naturals, FiniteSets, Sequences

CONSTANTS
  DirOrder,      \* top-level directories in sorted order
  KnownDirs,     \* those of them in _SOURCE_DIRS
  SkippedDirs,   \* those in _SKIP_DIRS
  Names,         \* names of subdirectories
  Pattern,       \* [Names -> which directory pattern matches it]
  Names2,        \* names of directories one level further down
  RefIds,        \* ref_ids
  Sanitized,     \* [Names -> its ref_id]: parentheses go, so that two names may share one
  ChildRef,      \* [Names \X Names2 -> ref_id]: joined by a dash, which names may have too
  OtherName,     \* a project name no directory has
  Trees,         \* the trees a project starts from
  MaxTreeEdits   \* bound on changes of the tree

Dirs == {DirOrder[i] : i \in DOMAIN DirOrder}
Patterns == {"entity", "feature", "service", "shared", "utility", "other"}

VARIABLES
  tree,     \* the project: its directories, its name, whether it is a mobile app
  services_yml,     \* services.yml and rules.yml
  scanned,  \* the tree the last bootstrap saw
  treeEdits

bvars == <<tree, services_yml, scanned, treeEdits>>

\* dirs that exist; loose: with code directly in them; subs: with code in them,
\* and their own subdirectories with code; what the imports of a directory and its
\* manifest's workspace dependencies mention, sanitized. An import is one part of its
\* path, and imports are those within the first ten files of a directory and the first
\* fifty edges.
Tree == [dirs: SUBSET Dirs, loose: SUBSET Dirs, subs: [Dirs -> SUBSET Names],
         kids: [Names -> SUBSET Names2], imports: SUBSET (Names \X RefIds),
         manifest: SUBSET (Names \X RefIds), name: RefIds, mobile: BOOLEAN]

ASSUME BootstrapConstants ==
  /\ KnownDirs \subseteq Dirs /\ SkippedDirs \subseteq Dirs \ KnownDirs
  /\ Pattern \in [Names \cup Names2 -> Patterns]
  /\ Sanitized \in [Names -> RefIds] /\ ChildRef \in [Names \X Names2 -> RefIds]
  /\ Dirs \cup {OtherName} \subseteq RefIds /\ "" \notin RefIds /\ MaxTreeEdits \in Nat
  /\ \A t \in Trees : /\ t \in Tree /\ t.loose \subseteq t.dirs
                      /\ \A d \in Dirs \ t.dirs : t.subs[d] = {}

-----------------------------------------------------------------------------
(* Presets.                                                                *)

detect_preset(t) == IF t.mobile THEN "monolith"
                    ELSE IF "services" \in t.dirs THEN "microservices"
                    ELSE IF "packages" \in t.dirs THEN "monorepo" ELSE "monolith"

default_kind(preset) == IF preset = "monolith" THEN "domain" ELSE "service"

classify_dir(preset, n) ==
  CASE Pattern[n] \in {"entity", "feature", "service"} -> Pattern[n]
    [] Pattern[n] = "shared" -> IF preset = "monolith" THEN "service" ELSE "domain"
    [] Pattern[n] = "utility" -> IF preset = "monolith" THEN "service" ELSE default_kind(preset)
    [] Pattern[n] = "other" -> default_kind(preset)

-----------------------------------------------------------------------------
(* The scan. Clusters are keyed by the bare directory name: of two source  *)
(* directories with a subdirectory of one name, the later one is kept.     *)

scan_project(t) == {d \in t.dirs : \/ d \in KnownDirs
                                   \/ d \notin SkippedDirs /\ (d \in t.loose \/ t.subs[d] # {})}
_cluster_with_children(t) == UNION {t.subs[d] : d \in scan_project(t)}

cluster_ref_ids(t) == {Sanitized[n] : n \in _cluster_with_children(t)}

_read_manifest_deps(t, n) == {r \in RefIds : <<n, r>> \in t.manifest}

\* Mutant: an import of anything is an edge.
ImportsOfAnything(t) ==
  {<<Sanitized[p[1]], p[2]>> : p \in {q \in t.imports : q[1] \in _cluster_with_children(t)}}
_quick_import_scan(t) ==
  {<<Sanitized[p[1]], p[2]>> : p \in {q \in t.imports : /\ q[1] \in _cluster_with_children(t)
                                                     /\ q[2] \in cluster_ref_ids(t) \ {Sanitized[q[1]]}}}

-----------------------------------------------------------------------------
(* The graph. A node is its ref_id and kind.                               *)

Node1(r, k) == [ref |-> r, kind |-> k]
Edge1(s, d, k) == [src |-> s, dst |-> d, kind |-> k]

child_ref_id(n, c) == ChildRef[n, c]
ClusterNodes(t) ==
  LET preset == detect_preset(t) IN
  {Node1(Sanitized[n], classify_dir(preset, n)) : n \in _cluster_with_children(t)}
    \cup UNION {{Node1(child_ref_id(n, c), classify_dir(preset, c)) : c \in t.kids[n]} :
                  n \in _cluster_with_children(t)}
FallbackNodes(t) == {Node1(d, default_kind(detect_preset(t))) : d \in scan_project(t)}
BelowRoot(t) == IF _cluster_with_children(t) = {} THEN FallbackNodes(t) ELSE ClusterNodes(t)
node_ref_ids(t) == {n.ref : n \in BelowRoot(t)}

ChildEdges(t) ==
  UNION {{Edge1(child_ref_id(n, c), Sanitized[n], "part_of") : c \in t.kids[n]} :
           n \in _cluster_with_children(t)}
\* Mutant: clusters are not attached to the root.
ChildrenOnly(t) == ChildEdges(t)
PartOf(t) ==
  ChildEdges(t) \cup {Edge1(r, t.name, "part_of") : r \in cluster_ref_ids(t) \ {t.name}}
DependsOn(t) ==
  {Edge1(p[1], p[2], "depends_on") : p \in _quick_import_scan(t)}
    \cup IF detect_preset(t) # "monorepo" THEN {}
         ELSE UNION {{Edge1(Sanitized[n], r, "depends_on") :
                        r \in (_read_manifest_deps(t, n) \cap node_ref_ids(t)) \ {Sanitized[n]}} :
                       n \in _cluster_with_children(t)}

\* The rules are written once, from the kinds of the nodes of that time.
generate_rules(nodes) == {k \in {"domain", "feature"} : \E n \in nodes : n.kind = k}

\* The root is the first node of the file.
bootstrap_project ==
  LET below == BelowRoot(tree) IN
  /\ services_yml' = IF below = {} THEN services_yml
             ELSE [root  |-> Node1(tree.name, "service"),
                   below |-> below,
                   edges |-> PartOf(tree) \cup DependsOn(tree),
                   rules |-> IF services_yml.rules = {} THEN generate_rules(below) ELSE services_yml.rules]
  /\ scanned' = tree
  /\ UNCHANGED <<tree, treeEdits>>

\* load_graph keeps the first node of a ref_id: one named like the project gives way to
\* the root. Which of several others is the first is left open: any of them has to pass.
Loaded(y) == {y.root} \cup {n \in y.below : n.ref # y.root.ref}
\* evaluate_require_rules with an empty has_edge_to
Violations(y) == {n \in Loaded(y) : /\ n.kind \in y.rules
                                    /\ ~\E e \in y.edges : e.kind = "part_of" /\ e.src = n.ref}

TreeChanges ==
  /\ treeEdits < MaxTreeEdits
  /\ \E d \in Dirs, n \in Names : /\ n \notin tree.subs[d]
                                  /\ tree' = [tree EXCEPT !.dirs = @ \cup {d}, !.subs[d] = @ \cup {n}]
  /\ treeEdits' = treeEdits + 1
  /\ UNCHANGED <<services_yml, scanned>>

NoYaml == [root |-> Node1(OtherName, "service"), below |-> {}, edges |-> {}, rules |-> {}]
BootstrapInit == /\ tree \in Trees
                 /\ services_yml = NoYaml /\ scanned = tree /\ treeEdits = 0
BootstrapNext == bootstrap_project \/ TreeChanges

-----------------------------------------------------------------------------
(* Properties.                                                             *)

(* Every edge of a bootstrapped graph binds: both its ends are nodes the   *)
(* loader keeps, also when a directory has the project's name.             *)
BootstrappedEdgesBind ==
  \A e \in services_yml.edges : {e.src, e.dst} \subseteq {n.ref : n \in Loaded(services_yml)}

(* A bootstrapped graph with clusters passes the rules it was given, in    *)
(* this or an earlier bootstrap.                                           *)
ClusteredBootstrapLintsClean ==
  _cluster_with_children(scanned) # {} => Violations(services_yml) = {}

\* What bootstrap writes can be loaded and linted.
BootstrapIsSound == BootstrappedEdgesBind /\ ClusteredBootstrapLintsClean
=============================================================================
