----------------------- MODULE MCConfirmacaoPagamento -----------------------
(* Instances of ConfirmacaoPagamento for TLC. *)
EXTENDS ConfirmacaoPagamento, TLC

CONSTANTS t1, t2, t3, d1, d2, c1, c2

Finais == {"SUCESSO", "FALHA"}
Todos == {"SUCESSO", "FALHA", "PROCESSANDO"}
Simetria == Permutations({t1, t2}) \cup Permutations({d1, d2})

=============================================================================
