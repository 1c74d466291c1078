SPECIFICATION Spec
CONSTANTS
  v1 = v1
  v2 = v2
  m1 = m1
  Nada = Nada
  Mesma = Mesma
  Veiculos = {v1, v2}
  Modelos = {m1}
  Reservas = {1, 2}
  Garagens = {1, 2}
  Processos = {p1, p2, p3}
  Capacidades = {1}
  Pedidos <- MCPedidos
  VeiculoDe <- MCVeiculoDe
  RetiradaDe <- MCRetiradaDe
  DevolucaoDe <- MCDevolucaoDe
SYMMETRY Simetria
INVARIANTS
  ContagemExata
  CapacidadeRespeitada
  CirculoForaDeOrdem
PROPERTY ImplementaFrota
