--------------------------- MODULE MCProjectState ---------------------------
(***************************************************************************)
(* What Beadloom's commands write into a project, and what they read back, *)
(* in one run: graph files, agent files, bootstrap, snapshots and diffs,   *)
(* bundles and impact trees. They share no state; `part` says whose        *)
(* behaviour it is, the others rest.                                       *)
(***************************************************************************)
EXTENDS MCGraphFiles, AgentConfig, Bootstrap, MCGraphHistory, MCGraphReads

MCDirOrder == <<"packages", "services", "tools">>
MCPattern == [n \in Names \cup Names2 |->
  CASE n = "shop" -> "other" [] n = "shop-api" -> "shared" [] n = "api" -> "feature"]
\* The child api of shop has the ref_id of its neighbour shop-api.
MCSanitized == [n \in Names |-> n]
MCChildRef == [p \in Names \X Names2 |->
  IF p = <<"shop", "api">> THEN "shop-api" ELSE "shop-api-api"]
MCRefIds == Dirs \cup Names \cup {"shop-api-api", OtherName}
Pairs == {{}, {<<"shop", "shop-api">>, <<"shop-api", "shop">>}}
MCTrees ==
  {[dirs |-> ds, loose |-> l, subs |-> s, kids |-> k, imports |-> i, manifest |-> m,
    name |-> n, mobile |-> b] :
   <<ds, l, s, k, i, m, n, b>> \in
     {x \in (SUBSET Dirs) \X (SUBSET Dirs) \X [Dirs -> SUBSET Names]
           \X {[y \in Names |-> {}], [y \in Names |-> Names2]}
           \X Pairs \X Pairs \X (Names \cup {OtherName}) \X BOOLEAN :
        /\ x[2] \in {{}, x[1]} /\ {} \in {x[5], x[6]}
        /\ \A d \in Dirs \ x[1] : x[3][d] = {}}}

VARIABLE part

FilesRest == /\ disk = [f \in Files |-> CHOOSE l \in Layouts : l.shape = "syntax"]
             /\ table = load_graph(disk) /\ writer = [p \in Writers |-> Idle]
             /\ volatile = {} /\ acked = NoAck /\ opened = 0 /\ authored = 0 /\ faults = 0
AgentRests == project = Fresh({"python"}) /\ last = "none" /\ userSteps = 0 /\ commandSteps = 0
BootstrapRests == /\ tree = CHOOSE t \in Trees : t.dirs = {}
                  /\ services_yml = NoYaml /\ scanned = tree /\ treeEdits = 0
HistoryRests == /\ yaml = CHOOSE g \in Graphs : ~Unambiguous(g)
                /\ head = yaml /\ db = loaded_graph(yaml) /\ snaps = << >>
                /\ watches = [d \in Docs |-> << >>] /\ flow = 0 /\ cli = 0
                /\ refs = [d \in Docs |-> NoRow] /\ stamp = Indexed
                /\ attested = [d \in Docs |-> << >>] /\ edits = 0
ReadRests == /\ edges = {} /\ ask = (CHOOSE q \in Questions : TRUE) /\ leg = "asked"
             /\ seeds = << >> /\ queue = << >> /\ current = NoNode /\ pending = {} /\ visited = {}
             /\ level = << >> /\ parent = << >> /\ shown = {} /\ answer = << >>

ProjectInit ==
  /\ part \in {"files", "agents", "bootstrap", "history", "reads"}
  /\ IF part = "files" THEN GraphInit ELSE FilesRest
  /\ IF part = "agents" THEN AgentInit ELSE AgentRests
  /\ IF part = "bootstrap" THEN BootstrapInit ELSE BootstrapRests
  /\ IF part = "history" THEN HistoryInit ELSE HistoryRests
  /\ IF part = "reads" THEN ReadInit ELSE ReadRests

ProjectNext ==
  /\ UNCHANGED part
  /\ \/ part = "files" /\ GraphNext /\ UNCHANGED <<avars, bvars, hvars, rvars>>
     \/ part = "agents" /\ AgentNext /\ UNCHANGED <<gvars, bvars, hvars, rvars>>
     \/ part = "bootstrap" /\ BootstrapNext /\ UNCHANGED <<gvars, avars, hvars, rvars>>
     \/ part = "history" /\ HistoryNext /\ UNCHANGED <<gvars, avars, bvars, rvars>>
     \/ part = "reads" /\ ReadNext /\ UNCHANGED <<gvars, avars, bvars, hvars>>
=============================================================================
