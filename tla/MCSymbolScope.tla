---------------------------- MODULE MCSymbolScope ----------------------------
(***************************************************************************)
(* Instances of SymbolScope for TLC: every file of up to three lines over  *)
(* two names, each defined once at most.                                   *)
(***************************************************************************)
EXTENDS SymbolScope

CONSTANTS r1, d1, c1, fn, gn, NoName, MaxLines

\* gn is the bystander: its lines change by being written, moved or indented under.
Line == [kind : {"def"}, name : {fn}, ver : {1, 2}] \cup [kind : {"def"}, name : {gn}, ver : {1}]
          \cup [kind : {"in"}, name : {NoName}, ver : {1, 2}]
          \cup [kind : {"top"}, name : {NoName}, ver : {1}]
          \cup [kind : {"blank"}, name : {NoName}, ver : {1}]

\* An indented line follows a def; no name is defined twice.
Python(s) ==
  /\ \A i \in 1..Len(s) : s[i].kind = "in" => \E j \in 1..(i - 1) : s[j].kind = "def"
  /\ \A i, j \in Defs(s) : s[i].name = s[j].name => i = j

MCRevisions == {s \in UNION {[1..n -> Line] : n \in 0..MaxLines} : Python(s)} \cup {Missing}

\* Bound: every drift is in code, and the doc that is read is the doc.
MCInit == ScopeInit /\ atRoot = mentions /\ reasons = [r \in Refs |-> TRUE]

MCDocsOf == [r \in Refs |-> <<d1>>]
MCCodesOf == [r \in Refs |-> {c1}]
=============================================================================
