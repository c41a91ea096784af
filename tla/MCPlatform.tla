----------------------------- MODULE MCPlatform -----------------------------
(* Values of the constants of Platform for model checking.                 *)
EXTENDS Platform, TLC

MCOrderOf == [m \in Mail |-> "o1"]
MCProcOf == "r1" :> "p1" @@ "r2" :> "p2"
MCPriority == <<"groq", "openai">>
MCOneProvider == <<"groq">>
MCTabOf == [q \in Request |-> "t1"]
MCRoleOf == "c1" :> "admin" @@ "c2" :> "manager"
=============================================================================
