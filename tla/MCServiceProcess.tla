-------------------------- MODULE MCServiceProcess --------------------------
(***************************************************************************)
(* Model values for the run of ServiceProcess.                             *)
(***************************************************************************)
EXTENDS ServiceProcess

\* "prd" stands for a name that config.AppEnv does not know.
MCEnvironments ==
    [app : {"prd", "stage", "production"}, seed : {"", "true", "false", "yes"},
     complete : BOOLEAN]
=============================================================================
