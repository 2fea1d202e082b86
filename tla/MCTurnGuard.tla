----------------------------- MODULE MCTurnGuard -----------------------------
(* Values for the constants of TurnGuard.                                  *)
EXTENDS TurnGuard, TLC

Prompts == 1 .. 3
Rank    == "text" :> 1 @@ "image" :> 2 @@ "slash" :> 3 @@ "auto" :> 4 @@ "tick" :> 5
             @@ "message" :> 6 @@ "initial" :> 7

\* Prompts come in any order and are alike but for their kinds, so each choice
\* of kinds occurs once; one prompt at least is typed.
AllMixes == {m \in [Prompts -> Kind] :
               m[1] = "text" /\ \A p, q \in Prompts : p < q => Rank[m[p]] <= Rank[m[q]]}
TextOnly == {[p \in Prompts |-> "text"]}
=============================================================================
