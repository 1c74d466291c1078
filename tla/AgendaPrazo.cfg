CONSTANTS
  Nada = Nada
  Reservas = {r1, r2}
  Garagens = {g1}
  Alteracoes = {}
  Edicoes = {}
  StatusEditaveis = {"DISPONIVEL", "MANUTENCAO"}
  MaxTempo = 2
  Prazo = 1
  DuracaoMaxima = 2
  Validade = 1
  PrazoNoMeio = TRUE
SPECIFICATION Spec
CHECK_DEADLOCK FALSE
INVARIANT SemDuplaReserva
