----------------------------- MODULE MCPipeline -----------------------------
(* Instances of Pipeline for TLC. *)
EXTENDS Pipeline

\* One result of each kind the timing stage tells apart.
MCOutcomes ==
    {[status |-> "ERROR", validity |-> "error"],
     [status |-> "INSUFFICIENT", validity |-> "insufficient-power"],
     [status |-> "PASS", validity |-> "valid"],
     [status |-> "WARNING", validity |-> "valid"],
     [status |-> "FAIL", validity |-> "valid"],
     [status |-> "PASS", validity |-> "confounded"],
     [status |-> "FAIL", validity |-> "confounded"]}

MCConfigs ==
    [kat : BOOLEAN, ct : {None, {}, {1}, {1, 2}}, timing : {None, {}, {2}, {1, 2}},
     sentinel : Sentinels]

NoStages == {[kat |-> TRUE, ct |-> None, timing |-> None, sentinel |-> "off"]}

OneEach == {[kat |-> FALSE, ct |-> {1}, timing |-> {1, 2}, sentinel |-> "name"]}
=============================================================================
