----------------------------- MODULE MCServices -----------------------------
(* An instance of Services for TLC. *)
EXTENDS Services, TLC

\* The seats that play over the agent endpoint.
MCPull == {<<"rps", "b">>, <<"chess", "b">>, <<"2048", "b">>}

MCTurns == [chess |-> 2, rps |-> 1] @@ ("2048" :> 1)
=============================================================================
