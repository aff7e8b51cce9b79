---------------------------- MODULE MCGateSteps ----------------------------
(***************************************************************************)
(* What the CI gate and the agents rest on, in one run: lint, docs audit,  *)
(* the narrowing of stale docs, and the coordinator's bead that closes     *)
(* when the gate is green. They share no state; `part` says whose          *)
(* behaviour it is, and the others rest in a state in which their          *)
(* properties have nothing to look at.                                     *)
(***************************************************************************)
EXTENDS MCArchLint, MCDocAudit, MCSymbolScope, MCBeadTable

VARIABLE part

NoText == [x \in Codes |-> Missing]
LintRests == /\ code = [m \in Modules |-> CHOOSE c \in ContentsOf[m] : TRUE]
             /\ declared = CHOOSE graph \in Graphs : TRUE
             /\ symbols = [m \in Modules |-> Absent] /\ imports = {} /\ edges = << >>
             /\ loaded = Absent /\ lastFull = [m \in Modules |-> Absent]
             /\ phase = "idle" /\ rulefile = Absent /\ report = Absent
             /\ adj = {} /\ todo = Nodes /\ frames = {} /\ reported = {}
AuditRests == /\ docs = [p \in Files |-> << >>] /\ project = (CHOOSE p \in Projects : TRUE)
              /\ indexed = Unset /\ config = (CHOOSE c \in Configs : TRUE) /\ steps = 0
ScopeRests == /\ old = NoText /\ new = NoText /\ diff = [x \in Codes |-> NoDiff]
              /\ mentions = [d \in Docs |-> {}] /\ atRoot = mentions
              /\ reasons = [r \in Refs |-> TRUE] /\ left = {} /\ kept = {} /\ baselined = {}
BeadsRest == /\ bd = [i \in Beads |-> [status |-> "open", epic |-> FALSE]] /\ made = {} /\ deps = {}
             /\ file = NoFile /\ red = {} /\ call = [p \in Agents |-> NoCall]
             /\ synced = "none" /\ calls = 0 /\ outside = 0

GateInit ==
  /\ part \in {"lint", "audit", "scope", "beads"}
  /\ IF part = "lint" THEN Init ELSE LintRests
  /\ IF part = "audit" THEN AuditInit ELSE AuditRests
  /\ IF part = "scope" THEN MCInit ELSE ScopeRests
  /\ IF part = "beads" THEN BeadInit ELSE BeadsRest

GateNext ==
  /\ UNCHANGED part
  /\ \/ part = "lint" /\ Next /\ UNCHANGED <<dvars, scopeVars, beadVars>>
     \/ part = "audit" /\ AuditNext /\ UNCHANGED <<vars, scopeVars, beadVars>>
     \/ part = "scope" /\ ScopeNext /\ UNCHANGED <<vars, dvars, beadVars>>
     \/ part = "beads" /\ BeadNext /\ UNCHANGED <<vars, dvars, scopeVars>>
=============================================================================
