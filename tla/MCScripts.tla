----------------------------- MODULE MCScripts ------------------------------
(* Instances of Scripts for TLC: which scripts run beside each other. *)
EXTENDS Scripts

CONSTANTS r1, r2, r3

Cast(p1, p2, p3) ==
    [r \in Runs |-> CASE r = r1 -> p1 [] r = r2 -> p2 [] OTHER -> p3]

\* Two runs that send, or a reader beside a deployment.
Pairs ==
    { Cast("deploy_cw20", "deploy_cw20", "none"),
      Cast("deploy_cw20", "instantiate_cw20", "none"),
      Cast("deploy_cw20", "deploy_check_balance", "none"),
      Cast("instantiate_cw20", "instantiate_cw20", "none"),
      Cast("instantiate_cw20", "transfer_cw20", "none"),
      Cast("deploy_cw20", "find_latest_code", "none"),
      Cast("deploy_check_balance", "get_code_from_tx", "none"),
      Cast("instantiate_cw20", "query_code", "none"),
      Cast("instantiate_cw20", "list_contracts", "none"),
      Cast("instantiate_cw20", "query_cw20", "none"),
      Cast("transfer_cw20", "get_balance", "none") }

\* A search that two deployments go on beside.
Search == Cast("deploy_check_balance", "deploy_check_balance", "find_latest_code")

\* The library package.json asks for, a client that differs from it in that
\* answers have logs, and one that has everything the scripts use.
Installed == {"jsonlog"}
Older == {"logs", "jsonlog"}

InstalledCalm == [faults : {{}}, lib : {Installed}, prog : Pairs]

CalmAndStorm ==
    [faults : {{}}, lib : {Installed, Older, Features}, prog : Pairs]
    \cup [faults : {Faults}, lib : {Installed, Features}, prog : Pairs]
    \cup [faults : {{}}, lib : {Features}, prog : {Search}]
=============================================================================
