------------------------------- MODULE Acesso -------------------------------
(***************************************************************************)
(* A request on its way: the middlewares decide on the token and on the    *)
(* account, the controller decides whose ids reach the service, and the    *)
(* service compares them with the requester, one await later.  No layer is *)
(* complete: some routes only name the roles, some services only compare   *)
(* ids, and the property needs each operation to be covered by one of      *)
(* them.  A listing is followed for one of the rows it may return.         *)
(***************************************************************************)
EXTENDS Naturals, FiniteSets

CONSTANTS
  ContasA,         \* the accounts
  CargoInicial,   \* ContasA -> Cargos
  ReservasA, VeiculosA, ModelosA, GaragensA,
  LocatarioDe,    \* ReservasA -> ContasA
  DonoDe,         \* the owner of each vehicle, model and garage, and of a reservation's vehicle
  Sistema,        \* what is of nobody: catalogues and the monitoring
  Anonimo,        \* who sends no token
  RequisicoesA,   \* requests
  HandlersDe,     \* bound: the handlers each request may be for
  MaxMudancas     \* bound: accounts changed

Cargos == {"LOCATARIO", "LOCADOR", "ADMIN"}
Frota == VeiculosA \cup ModelosA \cup GaragensA
Recursos == ContasA \cup Frota \cup ReservasA \cup {Sistema}

ASSUME AcessoAssumption ==
  /\ CargoInicial \in [ContasA -> Cargos]
  /\ LocatarioDe \in [ReservasA -> ContasA]
  /\ DonoDe \in [Frota \cup ReservasA -> ContasA]
  /\ ContasA \cap (Frota \cup ReservasA) = {} /\ Frota \cap ReservasA = {}
  /\ Sistema \notin ContasA \cup Frota \cup ReservasA /\ Anonimo \notin ContasA

VARIABLES
  contaA,      \* each account: its cargo and whether it is ATIVA, ANONIMIZADA or EXCLUIDA
  sessoes,     \* the tokens issued: the account, and its cargo at that moment
  requisicao,  \* each request: where it is, its handler, its token, the ids the service got
  mudancas     \* accounts changed so far

acessoVars == <<contaA, sessoes, requisicao, mudancas>>

Com(handlers, v) == [h \in handlers |-> v]

\* One table of several, each of its own handlers.
Unir(tabelas) ==
  [h \in UNION {DOMAIN f : f \in tabelas} |-> (CHOOSE f \in tabelas : h \in DOMAIN f)[h]]

-----------------------------------------------------------------------------
(* The roles each route lets through; NENHUM is a request without token.   *)

Publico == {"NENHUM"}
Opcional == Cargos \cup Publico

RotasReserva ==
  Unir({Com({"reserva.findByLocatarioId", "estorno.consultar", "reserva.precificar", "reserva.create",
             "reserva.iniciarPagamento", "reserva.desbloquear", "reserva.gerarQrDesbloqueio",
             "reserva.desbloquearQr", "reserva.adicionarCondutor", "reserva.removerCondutor"},
            {"LOCATARIO", "ADMIN"}),
        Com({"reserva.findByVeiculoId"}, {"LOCADOR", "ADMIN"}),
        Com({"localizacao.ultimaDaReserva", "compartilhamento.criar", "compartilhamento.revogar"},
            {"LOCATARIO"}),
        Com({"reserva.index", "reserva.findById", "reserva.cancelar", "reserva.devolver",
             "reserva.update", "reserva.delete", "reserva.listarCondutores"}, Cargos)})

RotasAdmin ==
  Com({"conta.index", "conta.findByEmail", "conta.findById", "conta.create", "conta.update",
       "conta.delete", "bloqueio.create", "bloqueio.listByLocatario", "bloqueio.findById",
       "bloqueio.revogar", "monitoramento.executar"}, {"ADMIN"})

RotasConta ==
  Unir({Com({"conta.getCurrentAccount", "conta.updateProfile", "conta.changePassword",
             "conta.deleteAccount"}, Cargos),
        Com({"senha.forgot", "senha.reset"}, Publico)})

RotasVeiculo ==
  Unir({Com({"veiculo.findByLocadorId"}, Publico),
        Com({"veiculo.frota", "veiculo.createLote", "veiculo.updateModelo",
             "veiculo.updateModeloDoVeiculo", "veiculo.create", "veiculo.update", "veiculo.delete",
             "imagem.criar", "imagem.reordenar", "imagem.definirCapa", "imagem.excluir"},
            {"LOCADOR", "ADMIN"}),
        Com({"veiculo.index", "veiculo.findById", "imagem.listar"}, Opcional)})

RotasGaragem ==
  Unir({Com({"garagem.findVeiculos", "garagem.create", "garagem.update", "garagem.delete"},
            {"LOCADOR", "ADMIN"}),
        Com({"garagem.alocarVeiculo", "garagem.desalocarVeiculo"}, {"LOCADOR"}),
        Com({"garagem.index", "garagem.findById"}, Opcional)})

RotasLocador ==
  Com({"locador.index", "locador.findByCnpjOrEmpresa", "locador.create", "locador.findById",
       "locador.update", "locador.delete"}, {"LOCADOR", "ADMIN"})

RotasLocatario ==
  Com({"locatario.index", "locatario.findByCpfOrCnh", "locatario.create", "locatario.findById",
       "locatario.update", "locatario.delete"}, {"LOCATARIO", "ADMIN"})

RotasFavorito ==
  Com({"favorito.index", "favorito.verificar", "favorito.create", "favorito.delete"}, {"LOCATARIO"})

RotasInteresse ==
  Com({"interesse.descoberta", "interesse.notificacoes", "interesse.index", "interesse.create",
       "interesse.delete"}, {"LOCATARIO"})

RotasAvaliacao ==
  Unir({Com({"avaliacaoRelatorio.dashboard"}, {"LOCADOR"}),
        Com({"avaliacao.findByReserva"}, Cargos),
        Com({"avaliacao.create"}, {"LOCATARIO", "ADMIN"})})

RotasDashboard ==
  Com({"dashboard.reservas", "dashboard.financeiro", "dashboard.utilizacao", "dashboard.frota"},
      {"LOCADOR"})

RotasLocalizacao ==
  Unir({Com({"localizacao.ultima", "localizacao.historico"}, Cargos),
        Com({"localizacao.registrar"}, {"LOCADOR", "ADMIN"})})

RotasDeficiencia ==
  Unir({Com({"deficiencia.index", "deficiencia.findByDescription", "deficiencia.findById"}, Publico),
        Com({"deficiencia.create", "deficiencia.update", "deficiencia.delete"}, {"ADMIN"})})

RotasLgpd ==
  Com({"lgpd.exportar", "lgpd.acessos", "lgpd.anonimizar",
       "lgpd.exportar/id", "lgpd.acessos/id", "lgpd.anonimizar/id"}, Cargos)

RotasCobranca == Com({"cobranca.listarPendentes", "cobranca.pagar"}, {"LOCATARIO"})
RotasAuditoria == Com({"auditoria.listar"}, {"LOCADOR", "ADMIN"})
RotasNotificacao == Com({"preferencia.listar", "preferencia.definir"}, Cargos)
RotasServico == Com({"servicoOpcional.index", "servicoOpcional.findById"}, Publico)
RotasCompartilhamento == Com({"compartilhamento.publico"}, Publico)
RotasWebhook == Com({"webhook.handle"}, Publico)

Rotas ==
  Unir({RotasReserva, RotasAdmin, RotasConta, RotasVeiculo, RotasGaragem, RotasLocador,
        RotasLocatario, RotasFavorito, RotasInteresse, RotasAvaliacao, RotasDashboard,
        RotasLocalizacao, RotasDeficiencia, RotasLgpd, RotasCobranca, RotasAuditoria,
        RotasNotificacao, RotasServico, RotasCompartilhamento, RotasWebhook})

Handlers == DOMAIN Rotas

-----------------------------------------------------------------------------
(* Whose ids the controller hands to the service: the requester's own      *)
(* (TOKEN), the path's, the body's or the row's of the kind named, two of  *)
(* them, or none.                                                          *)

ControleReservaConsulta ==
  Unir({Com({"reserva.iniciarPagamento", "reserva.index", "reserva.findById"}, "RESERVA"),
        Com({"reserva.findByLocatarioId"}, "CONTA"),
        Com({"reserva.findByVeiculoId"}, "VEICULO")})

ControleReservaEscrita ==
  Unir({Com({"reserva.create"}, "CONTA"),
        Com({"reserva.precificar"}, "NADA"),
        Com({"reserva.update", "reserva.cancelar", "reserva.devolver", "reserva.delete"}, "RESERVA")})

ControleReservaViagem ==
  Com({"reserva.desbloquear", "reserva.gerarQrDesbloqueio", "reserva.desbloquearQr",
       "reserva.adicionarCondutor", "reserva.listarCondutores", "reserva.removerCondutor"},
      "RESERVA")

ControleVeiculoConsulta ==
  Unir({Com({"veiculo.index", "veiculo.frota", "veiculo.findById"}, "VEICULO"),
        Com({"veiculo.findByLocadorId"}, "NADA")})

ControleVeiculoEscrita ==
  Unir({Com({"veiculo.create", "veiculo.createLote"}, "CONTA"),
        Com({"veiculo.update", "veiculo.delete"}, "VEICULO"),
        Com({"veiculo.updateModelo"}, "MODELO"),
        Com({"veiculo.updateModeloDoVeiculo"}, "VEICULO_E_CONTA")})

ControleImagem ==
  Com({"imagem.listar", "imagem.criar", "imagem.reordenar", "imagem.definirCapa", "imagem.excluir"},
      "VEICULO")

ControleGaragemConsulta == Com({"garagem.index", "garagem.findById", "garagem.findVeiculos"}, "GARAGEM")

ControleGaragemEscrita ==
  Unir({Com({"garagem.create"}, "CONTA"),
        Com({"garagem.update", "garagem.delete"}, "GARAGEM"),
        Com({"garagem.alocarVeiculo", "garagem.desalocarVeiculo"}, "GARAGEM_E_VEICULO")})

ControleContaConsulta == Com({"conta.index", "conta.findByEmail", "conta.findById"}, "CONTA")

ControleConta ==
  Unir({Com({"conta.update", "conta.delete"}, "CONTA"),
        Com({"conta.create"}, "SISTEMA")})

ControleContaPropria ==
  Com({"conta.getCurrentAccount", "conta.updateProfile", "conta.changePassword",
       "conta.deleteAccount"}, "TOKEN")

ControleSenha == Com({"senha.forgot", "senha.reset"}, "NADA")
ControleLocador == Com(DOMAIN RotasLocador, "CONTA")
ControleLocatario == Com(DOMAIN RotasLocatario, "CONTA")
ControleFavorito == Com(DOMAIN RotasFavorito, "TOKEN")

ControleInteresse ==
  Unir({Com({"interesse.descoberta"}, "NADA"),
        Com({"interesse.notificacoes", "interesse.index", "interesse.create", "interesse.delete"}, "TOKEN")})

ControleAvaliacao == Com({"avaliacao.findByReserva", "avaliacao.create"}, "RESERVA")
ControleAvaliacaoRelatorio == Com({"avaliacaoRelatorio.dashboard"}, "TOKEN")
ControleDashboard == Com(DOMAIN RotasDashboard, "TOKEN")

ControleLocalizacao ==
  Unir({Com({"localizacao.registrar", "localizacao.historico", "localizacao.ultima"}, "VEICULO"),
        Com({"localizacao.ultimaDaReserva"}, "RESERVA")})

ControleDeficiencia ==
  Unir({Com({"deficiencia.index", "deficiencia.findByDescription", "deficiencia.findById"}, "NADA"),
        Com({"deficiencia.create", "deficiencia.update", "deficiencia.delete"}, "SISTEMA")})

\* The same handlers serve the titular's own routes, without an id.
ControleLgpd ==
  Unir({Com({"lgpd.exportar", "lgpd.acessos", "lgpd.anonimizar"}, "TOKEN"),
        Com({"lgpd.exportar/id", "lgpd.acessos/id", "lgpd.anonimizar/id"}, "CONTA")})

ControleBloqueio == Com({"bloqueio.create", "bloqueio.listByLocatario", "bloqueio.findById",
                         "bloqueio.revogar"}, "CONTA")
ControleMonitoramento == Com({"monitoramento.executar"}, "SISTEMA")
ControleCobranca == Com(DOMAIN RotasCobranca, "RESERVA")
ControleEstorno == Com({"estorno.consultar"}, "RESERVA")
ControleAuditoria == Com(DOMAIN RotasAuditoria, "CONTA")
ControlePreferencia == Com(DOMAIN RotasNotificacao, "TOKEN")
ControleServico == Com(DOMAIN RotasServico, "NADA")
ControleWebhook == Com(DOMAIN RotasWebhook, "NADA")

ControleCompartilhamento ==
  Unir({Com({"compartilhamento.criar", "compartilhamento.revogar"}, "RESERVA"),
        Com({"compartilhamento.publico"}, "NADA")})

Controles ==
  Unir({ControleReservaConsulta, ControleReservaEscrita, ControleReservaViagem,
        ControleVeiculoConsulta, ControleVeiculoEscrita, ControleImagem,
        ControleGaragemConsulta, ControleGaragemEscrita, ControleContaConsulta,
        ControleConta, ControleContaPropria, ControleSenha, ControleLocador,
        ControleLocatario, ControleFavorito, ControleInteresse, ControleAvaliacao,
        ControleAvaliacaoRelatorio, ControleDashboard, ControleLocalizacao,
        ControleDeficiencia, ControleLgpd, ControleBloqueio, ControleMonitoramento,
        ControleCobranca, ControleEstorno, ControleAuditoria, ControlePreferencia,
        ControleServico, ControleCompartilhamento, ControleWebhook})

ASSUME HandlersAssumption ==
  HandlersDe \in [RequisicoesA -> SUBSET (Handlers \cap DOMAIN Controles)]

(* The sets of ids a handler's service may be given. *)
Alvos(h, s) ==
  CASE Controles[h] = "NADA"    -> {{}}
    [] Controles[h] = "TOKEN"   -> {{s.id}}
    [] Controles[h] = "SISTEMA" -> {{Sistema}}
    [] Controles[h] = "CONTA"   -> {{c} : c \in ContasA}
    [] Controles[h] = "RESERVA" -> {{r} : r \in ReservasA}
    [] Controles[h] = "VEICULO" -> {{v} : v \in VeiculosA}
    [] Controles[h] = "MODELO"  -> {{m} : m \in ModelosA}
    [] Controles[h] = "GARAGEM" -> {{g} : g \in GaragensA}
    [] Controles[h] = "VEICULO_E_CONTA"   -> {{v, c} : v \in VeiculosA, c \in ContasA}
    [] Controles[h] = "GARAGEM_E_VEICULO" -> {{g, v} : g \in GaragensA, v \in VeiculosA}

\* The readings that only show the published catalogue to tenants and visitors.
Catalogo(h, s) ==
  /\ h \in {"veiculo.index", "veiculo.findById", "garagem.index", "garagem.findById", "imagem.listar"}
  /\ s.cargo \in {"NENHUM", "LOCATARIO"}

\* Mutant: the owner gets the reservation as the tenant does.
MostraCodigoATodos(h, s) ==
  h \in {"reserva.index", "reserva.findById", "reserva.update", "reserva.cancelar",
         "reserva.devolver", "reserva.create", "reserva.findByLocatarioId",
         "reserva.desbloquear", "reserva.desbloquearQr"}

\* The answers that carry the reservation with its unlock code.
MostraCodigo(h, s) ==
  \/ h \in {"reserva.index", "reserva.findById", "reserva.update", "reserva.cancelar",
            "reserva.devolver"} /\ s.cargo # "LOCADOR"
  \/ h \in {"reserva.create", "reserva.findByLocatarioId", "reserva.desbloquear",
            "reserva.desbloquearQr"}

-----------------------------------------------------------------------------
(* What each service compares with the requester. *)

Admin(s) == s.cargo = "ADMIN"
Ou(s, cargo, dono) == Admin(s) \/ (s.cargo = cargo /\ s.id = dono)

\* Mutant: only the role is compared, never the reservation's ids.
AssertReservaAccessPorCargo(s, r) == Admin(s) \/ s.cargo \in {"LOCATARIO", "LOCADOR"}

AssertReservaAccess(s, r) ==
  \/ Admin(s)
  \/ s.cargo = "LOCATARIO" /\ s.id = LocatarioDe[r]
  \/ s.cargo = "LOCADOR" /\ s.id = DonoDe[r]

ReservaPermite(h, s, x) ==
  \/ h \in {"reserva.index", "reserva.findById", "reserva.update", "reserva.cancelar",
            "reserva.devolver", "reserva.desbloquear", "reserva.gerarQrDesbloqueio",
            "reserva.desbloquearQr", "reserva.adicionarCondutor", "reserva.listarCondutores",
            "reserva.removerCondutor"} /\ AssertReservaAccess(s, x)
  \/ h \in {"reserva.findByLocatarioId", "reserva.create"} /\ (Admin(s) \/ s.id = x)
  \/ h = "reserva.findByVeiculoId" /\ Ou(s, "LOCADOR", DonoDe[x])

VeiculoPermite(h, s, x) ==
  \/ h \in {"veiculo.index", "veiculo.frota", "veiculo.findById", "veiculo.update",
            "veiculo.delete", "veiculo.updateModelo"} /\ Ou(s, "LOCADOR", DonoDe[x])
  \/ h \in {"veiculo.create", "veiculo.createLote"} /\ Ou(s, "LOCADOR", x)
  \/ h = "veiculo.updateModeloDoVeiculo"
     /\ Ou(s, "LOCADOR", IF x \in ContasA THEN x ELSE DonoDe[x])

ImagemPermite(h, s, x) == h \in DOMAIN ControleImagem /\ Ou(s, "LOCADOR", DonoDe[x])

GaragemPermite(h, s, x) ==
  \/ h \in {"garagem.index", "garagem.findById", "garagem.findVeiculos", "garagem.update",
            "garagem.delete"} /\ Ou(s, "LOCADOR", DonoDe[x])
  \/ h = "garagem.create" /\ (Admin(s) \/ s.id = x)
  \/ h \in {"garagem.alocarVeiculo", "garagem.desalocarVeiculo"}
     /\ s.cargo = "LOCADOR" /\ s.id = DonoDe[x]

LocadorPermite(h, s, x) == h \in DOMAIN RotasLocador /\ Ou(s, "LOCADOR", x)
LocatarioPermite(h, s, x) == h \in DOMAIN RotasLocatario /\ Ou(s, "LOCATARIO", x)

AvaliacaoPermite(h, s, x) ==
  \/ h = "avaliacao.create" /\ Ou(s, "LOCATARIO", LocatarioDe[x])
  \/ h = "avaliacao.findByReserva" /\ AssertReservaAccess(s, x)

LocalizacaoPermite(h, s, x) ==
  \/ h \in {"localizacao.historico", "localizacao.ultima"} /\ Ou(s, "LOCADOR", DonoDe[x])
  \/ h = "localizacao.registrar" /\ (Admin(s) \/ s.id = DonoDe[x])
  \/ h = "localizacao.ultimaDaReserva" /\ s.cargo = "LOCATARIO" /\ s.id = LocatarioDe[x]

LgpdPermite(h, s, x) == h \in DOMAIN RotasLgpd /\ (Admin(s) \/ s.id = x)
PreferenciaPermite(h, s, x) == h \in DOMAIN RotasNotificacao /\ (Admin(s) \/ s.id = x)
AuditoriaPermite(h, s, x) == h \in DOMAIN RotasAuditoria /\ (Admin(s) \/ s.id = x)
PagamentoPermite(h, s, x) == h = "reserva.iniciarPagamento" /\ (Admin(s) \/ s.id = LocatarioDe[x])
EstornoPermite(h, s, x) == h = "estorno.consultar" /\ Ou(s, "LOCATARIO", LocatarioDe[x])

CobrancaPermite(h, s, x) ==
  h \in DOMAIN RotasCobranca /\ s.cargo = "LOCATARIO" /\ s.id = LocatarioDe[x]

CompartilhamentoPermite(h, s, x) ==
  /\ h \in {"compartilhamento.criar", "compartilhamento.revogar"}
  /\ s.cargo = "LOCATARIO" /\ s.id = LocatarioDe[x]

\* Services that compare nothing: the route, or the token's own id, is the check.
SemVerificacao ==
  UNION {DOMAIN RotasAdmin, DOMAIN RotasDeficiencia, DOMAIN RotasConta, DOMAIN RotasFavorito,
         DOMAIN RotasInteresse, DOMAIN RotasDashboard, DOMAIN ControleAvaliacaoRelatorio}

Permite(h, s, x) ==
  \/ h \in SemVerificacao
  \/ ReservaPermite(h, s, x) \/ VeiculoPermite(h, s, x) \/ ImagemPermite(h, s, x)
  \/ GaragemPermite(h, s, x) \/ LocadorPermite(h, s, x) \/ LocatarioPermite(h, s, x)
  \/ AvaliacaoPermite(h, s, x) \/ LocalizacaoPermite(h, s, x) \/ LgpdPermite(h, s, x)
  \/ PreferenciaPermite(h, s, x) \/ AuditoriaPermite(h, s, x) \/ PagamentoPermite(h, s, x)
  \/ EstornoPermite(h, s, x) \/ CobrancaPermite(h, s, x) \/ CompartilhamentoPermite(h, s, x)

-----------------------------------------------------------------------------
(* The request. *)

Anonima == [id |-> Anonimo, cargo |-> "NENHUM"]
Ociosa == [passo |-> "LIVRE"]
Recusada == [passo |-> "RECUSADA"]

InitAcesso ==
  /\ contaA = [c \in ContasA |-> [cargo |-> CargoInicial[c], estado |-> "ATIVA"]]
  /\ sessoes = {[id |-> c, cargo |-> CargoInicial[c]] : c \in ContasA}
  /\ requisicao = [q \in RequisicoesA |-> Ociosa]
  /\ mudancas = 0

\* The token is valid and its account exists and was not anonymised.
AuthMiddleware(s) == s \in sessoes /\ contaA[s.id].estado = "ATIVA"
Authorize(h, s) == s.cargo \in Rotas[h]

MudaConta == {"conta.update", "conta.delete", "conta.deleteAccount", "lgpd.anonimizar",
              "lgpd.anonimizar/id"}

(* The middlewares and the controller, up to the first await of the service. *)
Pedir(q, h, s) ==
  /\ requisicao[q] = Ociosa
  /\ s = Anonima \/ AuthMiddleware(s)
  /\ Authorize(h, s)
  /\ h \in MudaConta => mudancas < MaxMudancas
  /\ \E alvos \in Alvos(h, s) :
       requisicao' = [requisicao EXCEPT ![q] =
                        [passo |-> "SERVICO", handler |-> h, sessao |-> s, alvos |-> alvos]]
  /\ UNCHANGED <<contaA, sessoes, mudancas>>

\* An account with a reservation, of its own or of its vehicles, is not deleted.
TemHistorico(c) == \E r \in ReservasA : c \in {LocatarioDe[r], DonoDe[r]}

Encerrada(h, c) ==
  \/ h \in {"conta.delete", "conta.deleteAccount"} /\ ~TemHistorico(c)
     /\ contaA' = [contaA EXCEPT ![c].estado = "EXCLUIDA"]
  \/ h \in {"lgpd.anonimizar", "lgpd.anonimizar/id"}
     /\ contaA' = [contaA EXCEPT ![c].estado = "ANONIMIZADA"]
  \/ h = "conta.update" /\ \E cargo \in Cargos : contaA' = [contaA EXCEPT ![c].cargo = cargo]

(* The service accepts the request, which takes effect.  A handler that     *)
(* changes an account finds it first.                                       *)
Executar(q) ==
  LET p == requisicao[q] IN
  /\ p.passo = "SERVICO"
  /\ p.handler # "reserva.delete"
  /\ \/ Catalogo(p.handler, p.sessao)
     \/ \A x \in p.alvos : Permite(p.handler, p.sessao, x)
  /\ IF p.handler \in MudaConta
       THEN /\ \A c \in p.alvos : contaA[c].estado # "EXCLUIDA" /\ Encerrada(p.handler, c)
            /\ mudancas' = mudancas + 1
       ELSE UNCHANGED <<contaA, mudancas>>
  /\ requisicao' = [requisicao EXCEPT ![q].passo = "FEITA"]
  /\ UNCHANGED sessoes

(* 401, 403, 404, 405 or 409. *)
Recusar(q) ==
  LET p == requisicao[q] IN
  /\ p.passo = "SERVICO"
  /\ requisicao' = [requisicao EXCEPT ![q] = Recusada]
  /\ UNCHANGED <<contaA, sessoes, mudancas>>

(* An anonymised account has lost its email and its hash. *)
LoginA(c) ==
  /\ contaA[c].estado = "ATIVA"
  /\ sessoes' = sessoes \cup {[id |-> c, cargo |-> contaA[c].cargo]}
  /\ UNCHANGED <<contaA, requisicao, mudancas>>

NextAcesso ==
  \/ \E q \in RequisicoesA, s \in sessoes \cup {Anonima} :
       \E h \in HandlersDe[q] : Pedir(q, h, s)
  \/ \E q \in RequisicoesA : Executar(q) \/ Recusar(q)
  \/ \E c \in ContasA : LoginA(c)

SpecAcesso == InitAcesso /\ [][NextAcesso]_acessoVars

-----------------------------------------------------------------------------
AcessoTypeOK ==
  /\ contaA \in [ContasA -> [cargo : Cargos, estado : {"ATIVA", "ANONIMIZADA", "EXCLUIDA"}]]
  /\ sessoes \subseteq [id : ContasA, cargo : Cargos]
  /\ \A q \in RequisicoesA : requisicao[q] \notin {Ociosa, Recusada} =>
       /\ requisicao[q].passo \in {"SERVICO", "FEITA"}
       /\ requisicao[q].handler \in Handlers
       /\ requisicao[q].sessao \in sessoes \cup {Anonima}
       /\ requisicao[q].alvos \subseteq Recursos
  /\ mudancas \in Nat

(* Who has a part in a resource. *)
Partes(x) ==
  IF x \in ContasA THEN {x}
  ELSE IF x \in ReservasA THEN {LocatarioDe[x], DonoDe[x]}
  ELSE IF x \in Frota THEN {DonoDe[x]}
  ELSE {}

\* What only the tenant does with a reservation.
DoLocatario == {"reserva.iniciarPagamento", "estorno.consultar", "reserva.desbloquear",
                "reserva.gerarQrDesbloqueio", "reserva.desbloquearQr", "reserva.adicionarCondutor",
                "reserva.removerCondutor", "avaliacao.create", "cobranca.listarPendentes",
                "cobranca.pagar", "compartilhamento.criar", "compartilhamento.revogar",
                "localizacao.ultimaDaReserva"}

Legitimado(h, s, x) ==
  \/ s.cargo = "ADMIN"
  \/ s.id \in (IF h \in DoLocatario THEN {LocatarioDe[x]} ELSE Partes(x))

(* Ownership always comes from the token: whatever took effect on an        *)
(* account, a reservation, a vehicle, a model or a garage, beyond reading   *)
(* the published catalogue, was asked by an administrator's session or by   *)
(* one of a party to it, and by the tenant where only the tenant acts,      *)
(* whatever ids the path, the query or the body held, and although each     *)
(* layer covers only some of the handlers.                                  *)
Isolamento ==
  \A q \in RequisicoesA :
    LET p == requisicao[q] IN
    (p.passo = "FEITA" /\ ~Catalogo(p.handler, p.sessao)) =>
      \A x \in p.alvos : Legitimado(p.handler, p.sessao, x)

(* The unlock code never reaches a session of the owner's side: an answer   *)
(* that carries it goes to the reservation's tenant or to an administrator. *)
CodigoOculto ==
  \A q \in RequisicoesA :
    LET p == requisicao[q] IN
    (p.passo = "FEITA" /\ MostraCodigo(p.handler, p.sessao)) =>
      /\ p.sessao.cargo # "LOCADOR"
      /\ p.sessao.cargo # "ADMIN" =>
           \A x \in p.alvos : p.sessao.id \in {x} \cup (IF x \in ReservasA THEN {LocatarioDe[x]} ELSE {})

=============================================================================
