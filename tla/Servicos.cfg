CONSTANTS
  Cobrancas = {c1}
  p1 = p1
  Pagamentos = {p1, p2, p3}
  Ninguem = ninguem
  PedidoLento = FALSE
  Bloqueios = {b1, b2}
  Verificacoes = {v1}
  Revogacoes = {q1}
  MaxDia = 1
  Interessados = {l1}
  Pedidos = {q1}
  EdicoesVeiculo = {e1, e2}
  Nenhum = ninguem
  MaxEnvios = 3
  Veiculos = {v1}
  Execucoes = {x1, x2}
  MaxTentativas = 1
  MaxSurtos = 2
  MaxInterrupcoes = 1
  Nulo = nulo
  Imagens = {i1}
  e1 = e1
  EdicoesImg = {e1, e2}
  Limpeza = limpeza
  MaxImagens = 1
  Vaga = vaga
  Locatario = locatario
  Locador = locador
  Tokens = {t1, t2}
  Resgates = {r1, r2}
  Trocas = {s1, s2}
  Livre = livre
  Adicoes = {a1, a2, a3}
  Remocoes = {r1}
  Cnhs = {n1, n2, n3}
  MaxCondutores = 2
  Solta = solta
  Links = {t1, t2, t3}
  Criacoes = {q1, q2, q3}
  MaxSorteios = 3
  SemLink = nenhum
  Diarias = {99, 1001}
  ValoresServico = {52}
  Inicios = {0, 1439}
  Fins = {1440, 2880}
  Margens <- MCMargens
  Reprecos = {a1}
  MaxPrecos = 1
  loc1 = loc1
  loc2 = loc2
  dono1 = dono1
  dono2 = dono2
  adm = adm
  res1 = res1
  vei1 = vei1
  mod1 = mod1
  gar1 = gar1
  q1 = q1
  q2 = q2
  ContasA <- MCContas
  CargoInicial <- MCCargoInicial
  ReservasA = {res1}
  VeiculosA = {vei1}
  ModelosA = {mod1}
  GaragensA = {gar1}
  LocatarioDe <- MCLocatarioDe
  DonoDe <- MCDonoDe
  Sistema = sistema
  Anonimo = anonimo
  RequisicoesA = {q1, q2}
  HandlersDe <- MCHandlersDe
  MaxMudancas = 1
SPECIFICATION MCSpec
CHECK_DEADLOCK FALSE
INVARIANTS
  ServicosTypeOK
  ImpedimentoRecusa
  RegistroFielAoEnvio
  NotificadoTemAviso
  RelatorioRegistrado
  AlertaSemRepeticao
  ObjetosTemLinha
  VisibilidadeEmDia
  TokenUnico
  ExclusaoOuReserva
  LimiteDeCondutores
  RevogacaoVale
  TotalConfere
  EncargoConfere
  Isolamento
  CodigoOculto
PROPERTIES
  ImplementaQuitacao
  AlertaSeResolve
  CanceladaSemNovoCondutor
