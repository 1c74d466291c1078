----------------------------- MODULE MCAlocacao -----------------------------
(* Small instances of Alocacao: two garages, two vehicles, two reservations. *)
EXTENDS Alocacao, TLC

CONSTANTS v1, v2, m1

MCGaragens == {1, 2}
MCVeiculoDe == 1 :> v1 @@ 2 :> v2
\* The second one's return precedes its pick-up in the order of the identifiers.
MCRetiradaDe == 1 :> 1 @@ 2 :> 2
MCDevolucaoDe == 1 :> 2 @@ 2 :> 1

Criar(placas, g, lote) ==
  [op |-> "CRIAR", placas |-> placas, local |-> g, modelo |-> m1, lote |-> lote]
Editar(v, g, retira, modelo) ==
  [op |-> "EDITAR", veiculo |-> v, local |-> g, retira |-> retira, modelo |-> modelo]
Editada(g, n, nova) ==
  [op |-> "GARAGEM", garagem |-> g, capacidade |-> n, nova |-> nova]
DaReserva(op, r) == [op |-> op, reserva |-> r]

Movimentos == {Editar(v, g, FALSE, Nada) : v \in {v1, v2}, g \in MCGaragens \cup {Nada}}

\* Every kind of transaction, with those that ask for their locks out of order:
\* a move that changes the model, a vehicle taken out of service with a change
\* of the model, a reservation returned to a garage before its pick-up's.
MCPedidos ==
  {Criar({v2}, 2, FALSE), Criar({v1, v2}, 1, TRUE)} \cup
  {Editar(v1, 2, FALSE, Nada), Editar(v2, 1, TRUE, Nada), Editar(v1, Nada, FALSE, Nada)} \cup
  {Editar(v1, 1, FALSE, m1), Editar(v1, Mesma, TRUE, m1)} \cup
  {Editada(1, 2, "ATIVA"), Editada(1, 1, "MANUTENCAO"), Editada(1, Nada, "INATIVA")} \cup
  {DaReserva("RESERVAR", 2), DaReserva("PAGAR", 1), DaReserva("ALTERAR", 1),
   DaReserva("CANCELAR", 1)}

MCPedidosOrdem == Movimentos \cup
  {Criar({v1}, 2, FALSE), Criar({v2}, 1, FALSE), DaReserva("RESERVAR", 2)}

Simetria == Permutations(Processos)
=============================================================================
