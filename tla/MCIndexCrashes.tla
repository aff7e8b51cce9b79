--------------------------- MODULE MCIndexCrashes ---------------------------
(***************************************************************************)
(* What a crash leaves of the index, in one run: reindexes cut off at any  *)
(* commit, and upgrades of an earlier release's schema cut off at any      *)
(* statement.  They share no state; `part` says whose behaviour it is, the *)
(* other rests.                                                            *)
(***************************************************************************)
EXTENDS MCReindex, Migration

MCNodeRows == {"a", "b"}
MCEdgeRows == {<<"a", "b">>}
MCDocRows == {"d"}
MCForeignRows == {"f"}

VARIABLE part

ReindexRests == /\ disk = NoFiles /\ graph = (CHOOSE g \in Graphs : TRUE)
                /\ parser = (CHOOSE p \in Parsers : TRUE)
MigrationRests == /\ db = << >> /\ stored = [t \in Tables |-> {}]
                  /\ caller = [c \in Callers |-> Away]
                  /\ completed = FALSE /\ disturbed = FALSE /\ calls = 0 /\ kills = 0

IndexInit ==
  /\ part \in {"reindex", "migration"}
  /\ Init /\ (part = "migration" => ReindexRests)
  /\ IF part = "migration" THEN MigrationInit ELSE MigrationRests

IndexNext ==
  /\ UNCHANGED part
  /\ \/ part = "reindex" /\ Next /\ UNCHANGED mvars
     \/ part = "migration" /\ MigrationNext /\ UNCHANGED vars
=============================================================================
