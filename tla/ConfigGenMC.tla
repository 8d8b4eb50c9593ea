----------------------------- MODULE ConfigGenMC -----------------------------
(* Start states of the file system for generate_configs.py.               *)
EXTENDS ConfigGen

Old == [f \in Paths |-> "old"]
None == [f \in Paths |-> "absent"]

(* Every device directory made beforehand, with and without an earlier    *)
(* run's files; and all but the last directory of each model.             *)
MCLayouts ==
    {[dirs |-> Paths, files |-> Old],
     [dirs |-> Paths, files |-> None],
     [dirs |-> {f \in Paths : f[2] # "german-equatorial" \/ f[3] # "switch"},
      files |-> Old]}

=============================================================================
