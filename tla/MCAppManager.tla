---------------------------- MODULE MCAppManager ----------------------------
(* Surroundings of the instances of AppManager, see `env' there.  One        *)
(* application is asked for beside the files that arrive or the queues that  *)
(* others fill, and two, of which the last must win, beside the rest.        *)
EXTENDS AppManager, TLC

AllEnvs  == {{}, {"blocks"}, {"late"}, {"busy"}, {"early"}, {"broken"}, {"transfer"}}
Requests == [e \in AllEnvs |-> IF e \in {{"busy"}, {"transfer"}} THEN 1 ELSE 2]
=============================================================================
