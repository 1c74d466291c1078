CONSTANTS
  t1 = t1
  t2 = t2
  t3 = t3
  d1 = d1
  d2 = d2
  c1 = c1
  c2 = c2
  Nada = Nada
  Tentativas = {t1, t2}
  Entregas = {d1, d2}
  Cancelamentos = {c1}
  Desfechos <- Finais
  MaxQuedas = 1
  EstornoPodeFalhar = TRUE
SPECIFICATION Spec
SYMMETRY Simetria
INVARIANTS
  TypeOK
  ConfirmadaPaga
  ExpiradaSemEfeitos
  CobrancaEspelhaReserva
  CancelamentoCoerente
  ReconhecidoTemDestino
  UmEmail
PROPERTIES
  HistoricoImutavel
  ImplementaCiclo
