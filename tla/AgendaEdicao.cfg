CONSTANTS
  Nada = Nada
  Reservas = {r1}
  Garagens = {g1}
  Alteracoes = {}
  Edicoes = {e1, e2}
  StatusEditaveis = {"DISPONIVEL", "MANUTENCAO"}
  MaxTempo = 2
  Prazo = 1
  DuracaoMaxima = 2
  Validade = 1
  PrazoNoMeio = FALSE
SPECIFICATION Spec
CHECK_DEADLOCK FALSE
INVARIANT PagaOperacional
