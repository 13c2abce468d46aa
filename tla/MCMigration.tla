---------------------------- MODULE MCMigration ----------------------------
(***************************************************************************)
(* Small instances of Migration for TLC.                                   *)
(***************************************************************************)
EXTENDS Migration

CONSTANTS hot1, warm1, cold1, \* providers
          file1, file2,       \* paths
          v1                  \* versions

MCTier    == [x \in Providers |-> IF x = hot1 THEN Hot ELSE IF x = warm1 THEN Warm ELSE Cold]
MCMaxFile == [x \in Providers |-> 0]
MCRoom    == {[x \in Providers |-> 1]}
MCSegs    == [v \in Versions |-> 1]
=============================================================================
