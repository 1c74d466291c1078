CONSTANTS
  t1 = t1
  t2 = t2
  t3 = t3
  d1 = d1
  d2 = d2
  c1 = c1
  c2 = c2
  Nada = Nada
  Tentativas = {t1}
  Entregas = {d1, d2}
  Cancelamentos = {c1}
  Desfechos <- Finais
  MaxQuedas = 0
  EstornoPodeFalhar = FALSE
SPECIFICATION Spec
INVARIANT ConfirmadaTemPagamento
