---------------------------- MODULE MCSubAgents ----------------------------
(* TLC instance of SubAgents: a call with two agents of one name, the second *)
(* in a worktree, and a call whose agent is given the number of the second.  *)
EXTENDS SubAgents

Config(numbers, isolated) ==
    [name |-> [base |-> "x", numbers |-> numbers], isolated |-> isolated]

MCConfigs ==
    [b \in {"b1", "b2"} |->
        IF b = "b1"
        THEN <<Config(<<>>, FALSE), Config(<<>>, TRUE)>>
        ELSE <<Config(<<2>>, FALSE)>>]

============================================================================
