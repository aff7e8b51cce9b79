----------------------------- MODULE SymbolScope -----------------------------
(***************************************************************************)
(* Which stale docs the AI tech-writer looks at: with a --since baseline   *)
(* the list of stale nodes is narrowed to those whose doc names a symbol   *)
(* that changed; the others are re-baselined without being looked at.      *)
(*                                                                         *)
(* A Python file is a sequence of lines: a top-level def or class with its *)
(* name, an indented line, any other top-level statement (a decorator      *)
(* among them), or a blank one; `ver` tells texts apart.  A doc is the set *)
(* of names that occur in it.                                              *)
(***************************************************************************)
EXTENDS Naturals, FiniteSets, Sequences, FiniteSetsExt

CONSTANTS
  Refs,        \* nodes with stale docs
  Docs,        \* paths of docs, relative to docs/
  DocsOf,      \* the docs of each node, in the order of sync_state
  CodesOf,     \* the stale code files of each node
  Revisions,   \* contents a code file can have, Missing among them
  Names,       \* names of symbols
  Missing      \* no such file

VARIABLES
  old, new,    \* each code file at --since and in the working tree
  diff,        \* what git diff says of each: the pairs of lines kept
  mentions,    \* names in docs/<path>
  atRoot,      \* names in <path> at the project root, or Missing
  reasons,     \* are all drift reasons of the node hash or symbol changes?
  left,        \* stale nodes not looked at yet
  kept,        \* nodes handed on to the agent
  baselined    \* nodes dropped and re-baselined

scopeVars == <<old, new, diff, mentions, atRoot, reasons, left, kept, baselined>>

Codes == UNION {CodesOf[r] : r \in Refs}

ASSUME ScopeConstants ==
  \A f \in Revisions \ {Missing} : f \in Seq({f[i] : i \in DOMAIN f})

(***************************************************************************)
(* git diff --unified=0: which line of one side is kept as which of the    *)
(* other, in order.  The rest is removed, or added.  git looks for a short *)
(* diff and does not promise the shortest.                                 *)
(***************************************************************************)
Alignments(f, g) ==
  {same \in SUBSET {p \in (1..Len(f)) \X (1..Len(g)) : f[p[1]] = g[p[2]]} :
     \A p, q \in same : p = q \/ (p[1] < q[1] /\ p[2] < q[2]) \/ (q[1] < p[1] /\ q[2] < p[2])}

NoDiff == {}
DiffsOf(f, g) == IF Missing \in {f, g} THEN {NoDiff} ELSE Alignments(f, g)

OtherSide(same) == {<<p[2], p[1]>> : p \in same}

\* The lines of a hunk: those after line i that are not kept, up to one that is.
Hunk(f, lines, i) == {j \in (i + 1)..Len(f) : lines \cap (i + 1)..j = {}}

\* A side on which a hunk has no lines reports the line before it.
Span(own, other, i) == IF own = {} /\ other # {} THEN {i} ELSE own

\* The lines that the headers report of the first side.
ChangedLines(f, g, same) ==
  UNION {Span(Hunk(f, {q[1] : q \in same}, p[1]), Hunk(g, {q[2] : q \in same}, p[2]), p[1]) :
           p \in same \cup {<<0, 0>>}}

(***************************************************************************)
(* Symbols and the lines they are taken to own.                            *)
(***************************************************************************)
Defs(f) == {i \in 1..Len(f) : f[i].kind = "def"}

\* Up to the next def or class, but for the blank lines before it.
BlockEnd(f, start) ==
  LET next == Min({i \in Defs(f) : i > start} \cup {Len(f) + 1})
  IN  Max({i \in start..(next - 1) : i = start \/ f[i].kind # "blank"})

\* The last definition of a name counts.
SymbolRange(f, name) ==
  LET start == Max({i \in Defs(f) : f[i].name = name}) IN start..BlockEnd(f, start)

ChangedSymbols(f, lines) ==
  {n \in {f[i].name : i \in Defs(f)} : SymbolRange(f, n) \cap lines # {}}

NewSideOnly(f, g, same) ==                       \* mutant: removed symbols are lost
  ChangedSymbols(g, ChangedLines(g, f, OtherSide(same)))

\* Both sides: what was edited or added, and what was removed or renamed.
PairChangedSymbols(f, g, same) ==
  ChangedSymbols(f, ChangedLines(f, g, same))
    \cup ChangedSymbols(g, ChangedLines(g, f, OtherSide(same)))

(***************************************************************************)
(* The verdict on a node.                                                  *)
(***************************************************************************)

\* The doc of a node is that of its first stale pair, and its path is taken
\* from the project root.
DocText(r) == IF atRoot[DocsOf[r][1]] = Missing THEN {} ELSE atRoot[DocsOf[r][1]]

\* Kept when a revision is missing or no symbol is hit, or when one is named.
PairKeeps(c, text) ==
  LET changed == IF Missing \in {old[c], new[c]} THEN {}
                 ELSE PairChangedSymbols(old[c], new[c], diff[c])
  IN  changed = {} \/ changed \cap text # {}

DependsOnChange(r) == ~reasons[r] \/ \E c \in CodesOf[r] : PairKeeps(c, DocText(r))

(***************************************************************************)
(* The narrowing, node by node.                                            *)
(***************************************************************************)
ScopeInit ==
  /\ old \in [Codes -> Revisions] /\ new \in [Codes -> Revisions]
  /\ \A c \in Codes : old[c] # new[c]
  /\ \E of \in {[c \in Codes |-> DiffsOf(old[c], new[c])]} :
       diff \in {d \in [Codes -> UNION {of[c] : c \in Codes}] : \A c \in Codes : d[c] \in of[c]}
  /\ mentions \in [Docs -> SUBSET Names]
  /\ atRoot \in [Docs -> SUBSET Names \cup {Missing}]
  /\ reasons \in [Refs -> BOOLEAN]
  /\ left = Refs /\ kept = {} /\ baselined = {}

Keep(r) ==
  /\ r \in left /\ DependsOnChange(r)
  /\ kept' = kept \cup {r} /\ left' = left \ {r}
  /\ UNCHANGED <<old, new, diff, mentions, atRoot, reasons, baselined>>

\* sync-update --yes marks all pairs of the node.
Drop(r) ==
  /\ r \in left /\ ~DependsOnChange(r)
  /\ baselined' = baselined \cup {r} /\ left' = left \ {r}
  /\ UNCHANGED <<old, new, diff, mentions, atRoot, reasons, kept>>

ScopeNext == \E r \in Refs : Keep(r) \/ Drop(r)

ScopeSpec == ScopeInit /\ [][ScopeNext]_scopeVars

(***************************************************************************)
(* Properties.                                                             *)
(***************************************************************************)

\* What a symbol is: its lines up to the next top-level statement, without the
\* blank lines before that.
Body(f, name) ==
  LET start == Max({0} \cup {i \in Defs(f) : f[i].name = name})
      next == Min({i \in 1..Len(f) : i > start /\ f[i].kind \in {"def", "top"}}
                    \cup {Len(f) + 1})
      end == Max({i \in start..(next - 1) : i = start \/ f[i].kind # "blank"})
  IN  IF start = 0 THEN << >> ELSE SubSeq(f, start, end)

\* The symbols whose definition was edited, added or removed.
Touched(c) ==
  IF Missing \in {old[c], new[c]} THEN {}
  ELSE {n \in Names : Body(old[c], n) # Body(new[c], n)}

\* The line arithmetic - hunks, anchors of pure insertions and deletions, blank
\* lines, old and new side - never loses a symbol: a node is not dropped over
\* a change to the definition of a symbol its doc names, when that doc is the
\* one that was read.  (A name that a file defines twice is not covered: only
\* the lines of its last definition count as its own.)
AttributionComplete ==
  \A r \in baselined : \A c \in CodesOf[r] : Touched(c) \cap DocText(r) = {}

\* symbol_scope: "Conservative by construction - never under-refresh"; SPEC:
\* "it never under-refreshes".  No node is re-baselined unseen when one of its
\* docs names a symbol whose definition changed.
NeverUnderRefresh ==
  \A r \in baselined : \A c \in CodesOf[r], i \in 1..Len(DocsOf[r]) :
    Touched(c) \cap mentions[DocsOf[r][i]] = {}

=============================================================================
