CONSTANTS
  Nada = Nada
  Reservas = {r1}
  Garagens = {g1}
  Alteracoes = {a1, a2}
  Edicoes = {}
  StatusEditaveis = {"DISPONIVEL", "MANUTENCAO"}
  MaxTempo = 3
  Prazo = 1
  DuracaoMaxima = 2
  Validade = 1
  PrazoNoMeio = FALSE
SPECIFICATION Spec
CHECK_DEADLOCK FALSE
INVARIANT PeriodoValido
