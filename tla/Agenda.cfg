CONSTANTS
  r1 = r1
  r2 = r2
  g1 = g1
  g2 = g2
  a1 = a1
  e1 = e1
  Nada = Nada
  Reservas = {r1, r2}
  Garagens = {g1, g2}
  Alteracoes = {a1}
  Edicoes = {e1}
  StatusEditaveis <- Editaveis
  MaxTempo = 2
  Prazo = 1
  DuracaoMaxima = 2
  Validade = 1
  PrazoNoMeio = FALSE
SPECIFICATION FocoSpec
CHECK_DEADLOCK FALSE
SYMMETRY Simetria
INVARIANTS
  SemDuplaReserva
  PagaOperacional
  NoLocal
PROPERTIES
  PeriodoPagoFixo
  ImplementaCalendario
