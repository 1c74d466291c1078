------------------------ MODULE ConfirmacaoPagamento ------------------------
(***************************************************************************)
(* One reservation of MOVA from its creation to its end, and the money     *)
(* paid for it: payment attempts, the gateway's signed webhooks handled by *)
(* concurrent requests, cancellation, lazy expiration, refund ledger.      *)
(*                                                                         *)
(* Every handler is a TypeScript async function; between two awaits any    *)
(* other request may run.  What a handler does between two awaits, or in   *)
(* one database transaction under the reservation's advisory lock, is one  *)
(* action here; what it carries across an await is in the variables of its *)
(* process (pc, tentativa, desfecho, destino).  A crash forgets those.     *)
(***************************************************************************)
EXTENDS Naturals, FiniteSets

CONSTANTS
  Tentativas,          \* payment attempts, each one PAGAMENTO_RESERVA charge
  Entregas,            \* webhook requests that may be in flight at once
  Cancelamentos,       \* cancellation requests that may be in flight at once
  Desfechos,           \* outcomes the gateway reports (subset of StatusEvento)
  MaxQuedas,           \* bound on crashes of the backend
  EstornoPodeFalhar,   \* may both refund calls of one transaction fail?
  Nada                 \* no attempt / no code (SQL NULL)

StatusReserva == {"AGUARDANDO_PAGAMENTO", "CONFIRMADA", "EM_ANDAMENTO",
                  "REALIZADA", "CANCELADA"}
StatusPagamento == {"AGUARDANDO_PAGAMENTO", "PROCESSANDO", "SUCESSO", "FALHA"}
StatusEvento == {"SUCESSO", "FALHA", "PROCESSANDO"}
StatusEstorno == {"NENHUM", "SOLICITADO", "CONCLUIDO"}

ASSUME ConstantesAssumption ==
  /\ Desfechos \subseteq StatusEvento
  /\ MaxQuedas \in Nat
  /\ EstornoPodeFalhar \in BOOLEAN
  /\ Nada \notin Tentativas \cup Entregas

VARIABLES
  \* row Reserva
  status, statusPagamento,
  codigo,              \* the delivery whose code was stored, or Nada
  expirada,            \* expiradaEm is set
  \* rows CobrancaReserva
  cobranca,            \* PAGAMENTO_RESERVA charge of each attempt
  ultima,              \* the attempt created last, or Nada
  multa,               \* CANCELAMENTO charge
  \* rows EventoFinanceiroSandbox
  recebidos,           \* attempts with PAGAMENTO_RECEBIDO of their event
  estorno,             \* refund of each event (identity provider:eventId)
  estornoCancelamento, \* refund of the cancellation (cancelamento:<id>)
  emails,              \* confirmation e-mails sent
  \* surroundings read by the handlers
  vencida,             \* criadaEm is 15 minutes old or more
  bloqueado,           \* the renter has an active block
  operacional,         \* vehicle and garages can serve the reservation
  \* the gateway
  emitidos, reconhecidos,
  \* processes
  pc, tentativa, desfecho, destino, pcCancelar, quedas

reservaVars == <<status, statusPagamento, codigo, expirada>>
cobrancaVars == <<cobranca, ultima, multa>>
razaoVars == <<recebidos, estorno, estornoCancelamento>>
ambienteVars == <<vencida, bloqueado, operacional>>
gatewayVars == <<emitidos, reconhecidos>>
entregaVars == <<pc, tentativa, desfecho, destino>>
vars == <<reservaVars, cobrancaVars, razaoVars, emails, ambienteVars,
          gatewayVars, entregaVars, pcCancelar, quedas>>

Evento == [tentativa : Tentativas, desfecho : Desfechos]
PcEntrega == {"ociosa", "ler", "liberar", "recusar", "atualizar", "codigo",
              "reler", "notificar", "receber", "estornarCancelamento",
              "estornarEvento"}
Destinos == {"receber", "receberEEstornar", "estornarEvento"}
PcCancelamento == {"ocioso", "cancelar", "estornar"}

Init ==
  /\ status = "AGUARDANDO_PAGAMENTO"
  /\ statusPagamento = "AGUARDANDO_PAGAMENTO"
  /\ codigo = Nada
  /\ expirada = FALSE
  /\ cobranca = [t \in Tentativas |-> "NENHUMA"]
  /\ ultima = Nada
  /\ multa = "NENHUMA"
  /\ recebidos = {}
  /\ estorno = [t \in Tentativas |-> "NENHUM"]
  /\ estornoCancelamento = "NENHUM"
  /\ emails = 0
  /\ vencida = FALSE
  /\ bloqueado = FALSE
  /\ operacional = TRUE
  /\ emitidos = {}
  /\ reconhecidos = {}
  /\ pc = [d \in Entregas |-> "ociosa"]
  /\ tentativa = [d \in Entregas |-> Nada]
  /\ desfecho = [d \in Entregas |-> Nada]
  /\ destino = [d \in Entregas |-> "receber"]
  /\ pcCancelar = [c \in Cancelamentos |-> "ocioso"]
  /\ quedas = 0

-----------------------------------------------------------------------------
(* Lazy expiration, shared by every read of the reservation.               *)

\* Mutation: the filter forgets that the payment may be approved already.
MutVencidaPaga ==
  /\ status = "AGUARDANDO_PAGAMENTO"
  /\ vencida

\* reservaVencidaWhere: unpaid, still waiting, past the 15 minutes.
Vencida ==
  /\ status = "AGUARDANDO_PAGAMENTO"
  /\ statusPagamento # "SUCESSO"
  /\ vencida

\* Mutation: the charge of the running attempt is left behind.
MutExpirarSemCobranca ==
  /\ status' = "CANCELADA"
  /\ expirada' = TRUE
  /\ statusPagamento' =
       IF statusPagamento = "PROCESSANDO" THEN "FALHA" ELSE statusPagamento
  /\ UNCHANGED <<codigo, cobrancaVars>>

\* Mutation: the reservation's status is written into its payment status.
MutExpirarPagamento ==
  /\ status' = "CANCELADA"
  /\ expirada' = TRUE
  /\ statusPagamento' = "CANCELADA"
  /\ UNCHANGED <<codigo, cobrancaVars>>

\* expirarReservaNoTx: the reservation and its running attempt end together.
ExpirarNoTx ==
  /\ status' = "CANCELADA"
  /\ expirada' = TRUE
  /\ statusPagamento' =
       IF statusPagamento = "PROCESSANDO" THEN "FALHA" ELSE statusPagamento
  /\ cobranca' = [t \in Tentativas |->
       IF cobranca[t] = "PROCESSANDO" THEN "FALHA" ELSE cobranca[t]]
  /\ UNCHANGED <<codigo, ultima, multa>>

\* findById: expires the overdue reservation, then reads it.
ExpirarAoLer ==
  \/ Vencida /\ ExpirarNoTx
  \/ ~Vencida /\ UNCHANGED <<reservaVars, cobrancaVars>>

\* Any other read (list, payment status page...) expires it as well.
Expirar ==
  /\ Vencida
  /\ ExpirarNoTx
  /\ UNCHANGED <<razaoVars, emails, ambienteVars, gatewayVars, entregaVars,
                 pcCancelar, quedas>>

-----------------------------------------------------------------------------
(* Starting a payment, and the gateway.                                    *)

\* PagamentoService.iniciar and registrarPagamentoIniciado (one transaction;
\* what the earlier read refuses, the transaction refuses too).
IniciarPagamento(t) ==
  /\ cobranca[t] = "NENHUMA"
  /\ operacional
  /\ status # "CANCELADA"
  /\ statusPagamento \in {"AGUARDANDO_PAGAMENTO", "FALHA"}
  /\ ~Vencida
  /\ statusPagamento' = "PROCESSANDO"
  /\ cobranca' = [cobranca EXCEPT ![t] = "PROCESSANDO"]
  /\ ultima' = t
  /\ UNCHANGED <<status, codigo, expirada, multa, razaoVars, emails,
                 ambienteVars, gatewayVars, entregaVars, pcCancelar, quedas>>

\* The gateway reports an outcome of a started attempt: one final outcome,
\* perhaps preceded by "processando".  If the backend stops before the
\* simulator's timer fires, the outcome is never reported.
Emitir(t, s) ==
  /\ cobranca[t] # "NENHUMA"
  /\ \A e \in emitidos : e.tentativa = t => e.desfecho = "PROCESSANDO"
  /\ emitidos' = emitidos \cup {[tentativa |-> t, desfecho |-> s]}
  /\ emitidos' # emitidos
  /\ UNCHANGED <<reservaVars, cobrancaVars, razaoVars, emails, ambienteVars,
                 reconhecidos, entregaVars, pcCancelar, quedas>>

-----------------------------------------------------------------------------
(* PagamentoWebhookService.processar, one action per await.                *)

Sucesso(d) == desfecho[d] = "SUCESSO"

\* Mutation: money received for an expired or cancelled unpaid reservation is
\* only recorded.
MutDestinoSemEstorno(st, sp) ==
  IF st = "CANCELADA" /\ sp = "SUCESSO" THEN "receberEEstornar" ELSE "receber"

\* What a delivery records once it knows the reservation it ends with.
DestinoDe(st, sp) ==
  IF st # "CANCELADA" THEN "receber"
  ELSE IF sp = "SUCESSO" THEN "receberEEstornar" ELSE "estornarEvento"

PcDoDestino(dest) ==
  IF dest = "estornarEvento" THEN "estornarEvento" ELSE "receber"

IrPara(d, p) == pc' = [pc EXCEPT ![d] = p]

\* The event a delivery carries.
EventoDe(d) == [tentativa |-> tentativa[d], desfecho |-> desfecho[d]]

\* The webhook answers 200: the gateway stops redelivering on its own.
Responder(d) ==
  /\ IrPara(d, "ociosa")
  /\ reconhecidos' = reconhecidos \cup {EventoDe(d)}

\* A non-approving event has nothing to record; an approving one goes to
\* the ledger with the reservation as st/sp describe it.
Concluir(d, st, sp) ==
  \/ /\ Sucesso(d)
     /\ destino' = [destino EXCEPT ![d] = DestinoDe(st, sp)]
     /\ IrPara(d, PcDoDestino(DestinoDe(st, sp)))
     /\ UNCHANGED reconhecidos
  \/ /\ ~Sucesso(d)
     /\ Responder(d)
     /\ UNCHANGED destino

\* Mutation: only an event whose refund is still pending is recognised.
MutJaBloqueadoPendente(t) ==
  /\ t \in recebidos
  /\ estorno[t] = "SOLICITADO"

\* jaRegistrouPagamentoBloqueado: this event was received and refunded, or
\* received while the reservation is not paid.
JaBloqueado(t) ==
  /\ t \in recebidos
  /\ estorno[t] = "CONCLUIDO" \/ statusPagamento # "SUCESSO"

\* A signed event arrives, for the first time or again.
Receber(d, e) ==
  /\ pc[d] = "ociosa"
  /\ e \in emitidos
  /\ tentativa' = [tentativa EXCEPT ![d] = e.tentativa]
  /\ desfecho' = [desfecho EXCEPT ![d] = e.desfecho]
  /\ IrPara(d, IF e.desfecho = "SUCESSO" /\ JaBloqueado(e.tentativa)
                 THEN "estornarEvento" ELSE "ler")
  /\ UNCHANGED <<reservaVars, cobrancaVars, razaoVars, emails, ambienteVars,
                 gatewayVars, destino, pcCancelar, quedas>>

\* Mutation: every approved reservation is taken as finished.
MutNuncaSemCodigo(d, sp, cod) == FALSE

\* Approved, without code, and the event is an approval again.
AprovadaSemCodigo(d, sp, cod) ==
  sp = "SUCESSO" /\ cod = Nada /\ Sucesso(d)

\* confirmarPagamento reads the reservation.  A cancelled one, and an approved
\* one that already has its code, are returned as they are; an approved one
\* without code (aprovadaSemCodigo) skips the block check.
LerReserva(d) ==
  /\ pc[d] = "ler"
  /\ ExpirarAoLer
  /\ \/ /\ \/ status' = "CANCELADA"
           \/ /\ statusPagamento' = "SUCESSO"
              /\ ~AprovadaSemCodigo(d, statusPagamento', codigo')
        /\ Concluir(d, status', statusPagamento')
     \/ /\ status' # "CANCELADA"
        /\ \/ statusPagamento' # "SUCESSO"
           \/ AprovadaSemCodigo(d, statusPagamento', codigo')
        /\ IrPara(d, IF Sucesso(d) /\ statusPagamento' # "SUCESSO"
                       THEN "liberar" ELSE "atualizar")
        /\ UNCHANGED <<destino, reconhecidos>>
  /\ UNCHANGED <<razaoVars, emails, ambienteVars, emitidos, tentativa,
                 desfecho, pcCancelar, quedas>>

\* BloqueioService.assertLocatarioLiberado: no active block and no open
\* cancellation charge.
VerificarLocatario(d) ==
  /\ pc[d] = "liberar"
  /\ IrPara(d, IF bloqueado \/ multa = "ABERTA" THEN "recusar" ELSE "atualizar")
  /\ UNCHANGED <<reservaVars, cobrancaVars, razaoVars, emails, ambienteVars,
                 gatewayVars, tentativa, desfecho, destino, pcCancelar, quedas>>

\* The updates of the payment status and of the newest charge.
GravarPagamento(s) ==
  /\ statusPagamento' = s
  /\ cobranca' = IF ultima # Nada /\ cobranca[ultima] # "SUCESSO"
                   THEN [cobranca EXCEPT ![ultima] = s] ELSE cobranca
  /\ UNCHANGED <<status, codigo, expirada, ultima, multa>>

\* Mutation: a late refusal overwrites an approval.
MutSoCanceladaTerminal(s) == status = "CANCELADA"

\* atualizarStatusPagamento refuses, changing nothing: the reservation is
\* cancelled (409), or it is approved and the event is not an approval.
Terminal(s) ==
  \/ status = "CANCELADA"
  \/ statusPagamento = "SUCESSO" /\ s # "SUCESSO"

RecusaOperacional(s) ==
  /\ s = "SUCESSO"
  /\ statusPagamento # "SUCESSO"
  /\ ~operacional

\* RN07 refused the event: the attempt becomes FALHA.  Whatever the transaction
\* throws is swallowed, and the 403 leads to the refund of the event.
RecusarPorBloqueio(d) ==
  /\ pc[d] = "recusar"
  /\ \/ Vencida /\ ExpirarNoTx
     \/ ~Vencida /\ Terminal("FALHA") /\ UNCHANGED <<reservaVars, cobrancaVars>>
     \/ ~Vencida /\ ~Terminal("FALHA") /\ GravarPagamento("FALHA")
  /\ IrPara(d, "estornarEvento")
  /\ UNCHANGED <<razaoVars, emails, ambienteVars, gatewayVars, tentativa,
                 desfecho, destino, pcCancelar, quedas>>

\* atualizarStatusPagamento meets the deadline: it expires the reservation and
\* returns it cancelled.
AtualizarVencida(d) ==
  /\ pc[d] = "atualizar"
  /\ Vencida
  /\ ExpirarNoTx
  /\ Concluir(d, status', statusPagamento')
  /\ UNCHANGED <<razaoVars, emails, ambienteVars, emitidos, tentativa,
                 desfecho, pcCancelar, quedas>>

\* Cancelled since the read: 409, rethrown; the gateway gets no 200.
AtualizarConflito(d) ==
  /\ pc[d] = "atualizar"
  /\ status = "CANCELADA"
  /\ IrPara(d, "ociosa")
  /\ UNCHANGED <<reservaVars, cobrancaVars, razaoVars, emails, ambienteVars,
                 gatewayVars, tentativa, desfecho, destino, pcCancelar, quedas>>

\* Approved since the read, and the event is not an approval: returned as is.
AtualizarJaAprovada(d) ==
  /\ pc[d] = "atualizar"
  /\ status # "CANCELADA"
  /\ Terminal(desfecho[d])
  /\ Responder(d)
  /\ UNCHANGED <<reservaVars, cobrancaVars, razaoVars, emails, ambienteVars,
                 emitidos, tentativa, desfecho, destino, pcCancelar, quedas>>

\* verificarReservaOperacional refuses: FALHA is committed, then thrown.
AtualizarInoperante(d) ==
  /\ pc[d] = "atualizar"
  /\ ~Vencida /\ ~Terminal(desfecho[d])
  /\ RecusaOperacional(desfecho[d])
  /\ GravarPagamento("FALHA")
  /\ IrPara(d, "estornarEvento")
  /\ UNCHANGED <<razaoVars, emails, ambienteVars, gatewayVars, tentativa,
                 desfecho, destino, pcCancelar, quedas>>

\* The event's status is written.  An approval goes on to the code (a read
\* reservation that is not approved has no code: ConfirmadaPaga).
AtualizarGrava(d) ==
  /\ pc[d] = "atualizar"
  /\ ~Vencida /\ ~Terminal(desfecho[d])
  /\ ~RecusaOperacional(desfecho[d])
  /\ GravarPagamento(desfecho[d])
  /\ \/ Sucesso(d) /\ IrPara(d, "codigo") /\ UNCHANGED reconhecidos
     \/ ~Sucesso(d) /\ Responder(d)
  /\ UNCHANGED <<razaoVars, emails, ambienteVars, emitidos, tentativa,
                 desfecho, destino, pcCancelar, quedas>>

\* Mutation: the conditional update looks at the code only.
MutSemCodigo == codigo = Nada

\* The condition of gerarCodigoDesbloqueio's update.
PodeGerarCodigo == codigo = Nada /\ status # "CANCELADA"

\* gerarCodigoDesbloqueio, the conditional update: first code wins.
GerarCodigo(d) ==
  /\ pc[d] = "codigo"
  /\ IF PodeGerarCodigo
       THEN codigo' = d /\ status' = "CONFIRMADA"
       ELSE UNCHANGED <<codigo, status>>
  /\ IrPara(d, "reler")
  /\ UNCHANGED <<statusPagamento, expirada, cobrancaVars, razaoVars, emails,
                 ambienteVars, gatewayVars, tentativa, desfecho, destino,
                 pcCancelar, quedas>>

\* Mutation: any delivery that finds the reservation with a code notifies.
MutTemCodigo(d) == codigo # Nada

\* confirmada.codigoDesbloqueio === codigo.
CodigoProprio(d) == codigo = d

\* gerarCodigoDesbloqueio, the read; only the winner of the code notifies.
RelerReserva(d) ==
  /\ pc[d] = "reler"
  /\ destino' = [destino EXCEPT ![d] = DestinoDe(status, statusPagamento)]
  /\ IrPara(d, IF CodigoProprio(d) THEN "notificar"
                 ELSE PcDoDestino(DestinoDe(status, statusPagamento)))
  /\ UNCHANGED <<reservaVars, cobrancaVars, razaoVars, emails, ambienteVars,
                 gatewayVars, tentativa, desfecho, pcCancelar, quedas>>

\* notificarReservaConfirmada; its own failures are caught and logged.
Notificar(d) ==
  /\ pc[d] = "notificar"
  /\ emails' = emails + 1
  /\ IrPara(d, PcDoDestino(destino[d]))
  /\ UNCHANGED <<reservaVars, cobrancaVars, razaoVars, ambienteVars,
                 gatewayVars, tentativa, desfecho, destino, pcCancelar, quedas>>

\* registrarPagamentoRecebido (skipDuplicates).
RegistrarRecebido(d) ==
  /\ pc[d] = "receber"
  /\ recebidos' = recebidos \cup {tentativa[d]}
  /\ \/ /\ destino[d] = "receberEEstornar"
        /\ IrPara(d, "estornarCancelamento")
        /\ UNCHANGED reconhecidos
     \/ /\ destino[d] # "receberEEstornar"
        /\ Responder(d)
  /\ UNCHANGED <<reservaVars, cobrancaVars, estorno, estornoCancelamento,
                 emails, ambienteVars, emitidos, tentativa, desfecho, destino,
                 pcCancelar, quedas>>

\* executarEstorno, called twice: the refund ends, or both calls fail.
NovoEstorno(antes) ==
  IF antes = "CONCLUIDO" \/ ~EstornoPodeFalhar
    THEN {"CONCLUIDO"} ELSE {"SOLICITADO", "CONCLUIDO"}

\* registrarEstornoPorCancelamento, called by the webhook.
EstornarPorCancelamento(d) ==
  /\ pc[d] = "estornarCancelamento"
  /\ estornoCancelamento' \in NovoEstorno(estornoCancelamento)
  /\ Responder(d)
  /\ UNCHANGED <<reservaVars, cobrancaVars, recebidos, estorno, emails,
                 ambienteVars, emitidos, tentativa, desfecho, destino,
                 pcCancelar, quedas>>

\* Mutation: the refused approval is refunded and then answered with an error.
MutEstornarSemResponder(d) ==
  /\ pc[d] = "estornarEvento"
  /\ recebidos' = recebidos \cup {tentativa[d]}
  /\ estorno' = [estorno EXCEPT ![tentativa[d]] = "CONCLUIDO"]
  /\ IrPara(d, "ociosa")
  /\ UNCHANGED <<reservaVars, cobrancaVars, estornoCancelamento, emails,
                 ambienteVars, gatewayVars, tentativa, desfecho, destino,
                 pcCancelar, quedas>>

\* registrarPagamentoBloqueado, also for an event of a cancelled reservation.
EstornarEvento(d) ==
  /\ pc[d] = "estornarEvento"
  /\ recebidos' = recebidos \cup {tentativa[d]}
  /\ \E s \in NovoEstorno(estorno[tentativa[d]]) :
       estorno' = [estorno EXCEPT ![tentativa[d]] = s]
  /\ Responder(d)
  /\ UNCHANGED <<reservaVars, cobrancaVars, estornoCancelamento, emails,
                 ambienteVars, emitidos, tentativa, desfecho, destino,
                 pcCancelar, quedas>>

Passo(d) ==
  \/ LerReserva(d) \/ VerificarLocatario(d) \/ RecusarPorBloqueio(d)
  \/ AtualizarVencida(d) \/ AtualizarConflito(d) \/ AtualizarJaAprovada(d)
  \/ AtualizarInoperante(d) \/ AtualizarGrava(d) \/ GerarCodigo(d)
  \/ RelerReserva(d) \/ Notificar(d) \/ RegistrarRecebido(d)
  \/ EstornarPorCancelamento(d) \/ EstornarEvento(d)

-----------------------------------------------------------------------------
(* ReservaService.cancelarReserva.                                         *)

\* The read: a cancelled and paid reservation has its refund reconciled
\* before the 409; a used one is refused.
LerParaCancelar(c) ==
  /\ pcCancelar[c] = "ocioso"
  /\ ExpirarAoLer
  /\ \/ /\ status' = "CANCELADA" /\ statusPagamento' = "SUCESSO"
        /\ pcCancelar' = [pcCancelar EXCEPT ![c] = "estornar"]
     \/ /\ status' \in {"AGUARDANDO_PAGAMENTO", "CONFIRMADA"}
        /\ pcCancelar' = [pcCancelar EXCEPT ![c] = "cancelar"]
     \/ /\ \/ status' \in {"EM_ANDAMENTO", "REALIZADA"}
           \/ status' = "CANCELADA" /\ statusPagamento' # "SUCESSO"
        /\ UNCHANGED pcCancelar
  /\ UNCHANGED <<razaoVars, emails, ambienteVars, gatewayVars, entregaVars,
                 quedas>>

\* Mutation: the transaction accepts a reservation already in use.
MutCancelavelEmUso == {"AGUARDANDO_PAGAMENTO", "CONFIRMADA", "EM_ANDAMENTO"}

\* The status filter of the cancelling update.
Cancelaveis == {"AGUARDANDO_PAGAMENTO", "CONFIRMADA"}

\* Mutation: a late fee is owed even when the refund keeps it.
MutMultaSempreAberta(tardio, sp) == IF tardio THEN "ABERTA" ELSE "QUITADA"

\* The CANCELAMENTO charge: owed if there is a fee and no payment to keep it from.
SituacaoDaMulta(tardio, sp) ==
  IF tardio /\ sp # "SUCESSO" THEN "ABERTA" ELSE "QUITADA"

\* The transaction of repository.cancelar.  The fee (tardio: past the free
\* period) was fixed at the read; whether it is owed or kept from the refund
\* is decided by the payment status read in the transaction.
Cancelar(c) ==
  /\ pcCancelar[c] = "cancelar"
  /\ status \in Cancelaveis
  /\ status' = "CANCELADA"
  /\ \E tardio \in BOOLEAN : multa' = SituacaoDaMulta(tardio, statusPagamento)
  /\ \/ /\ statusPagamento = "SUCESSO"
        /\ estornoCancelamento' =
             IF estornoCancelamento = "NENHUM" THEN "SOLICITADO"
                                               ELSE estornoCancelamento
        /\ pcCancelar' = [pcCancelar EXCEPT ![c] = "estornar"]
     \/ /\ statusPagamento # "SUCESSO"
        /\ pcCancelar' = [pcCancelar EXCEPT ![c] = "ocioso"]
        /\ UNCHANGED estornoCancelamento
  /\ UNCHANGED <<statusPagamento, codigo, expirada, cobranca, ultima, recebidos,
                 estorno, emails, ambienteVars, gatewayVars, entregaVars, quedas>>

\* Someone else ended or started the reservation since the read: 409.
CancelarConflito(c) ==
  /\ pcCancelar[c] = "cancelar"
  /\ status \notin Cancelaveis
  /\ pcCancelar' = [pcCancelar EXCEPT ![c] = "ocioso"]
  /\ UNCHANGED <<reservaVars, cobrancaVars, razaoVars, emails, ambienteVars,
                 gatewayVars, entregaVars, quedas>>

\* registrarEstornoDeCancelamento, or reconciliarEstornoDeCancelamento.
EstornarCancelada(c) ==
  /\ pcCancelar[c] = "estornar"
  /\ estornoCancelamento' \in NovoEstorno(estornoCancelamento)
  /\ pcCancelar' = [pcCancelar EXCEPT ![c] = "ocioso"]
  /\ UNCHANGED <<reservaVars, cobrancaVars, recebidos, estorno, emails,
                 ambienteVars, gatewayVars, entregaVars, quedas>>

-----------------------------------------------------------------------------
(* The rest of the reservation's life, and its surroundings.               *)

\* usarCodigoDesbloqueio / marcarCodigoComoUsado.
Desbloquear ==
  /\ codigo # Nada
  /\ status = "CONFIRMADA"
  /\ status' = "EM_ANDAMENTO"
  /\ UNCHANGED <<statusPagamento, codigo, expirada, cobrancaVars, razaoVars,
                 emails, ambienteVars, gatewayVars, entregaVars, pcCancelar,
                 quedas>>

\* devolverReserva / repository.devolver.
Devolver ==
  /\ status = "EM_ANDAMENTO"
  /\ status' = "REALIZADA"
  /\ UNCHANGED <<statusPagamento, codigo, expirada, cobrancaVars, razaoVars,
                 emails, ambienteVars, gatewayVars, entregaVars, pcCancelar,
                 quedas>>

\* The 15 minutes since criadaEm run out.
VencerPrazo ==
  /\ ~vencida
  /\ vencida' = TRUE
  /\ UNCHANGED <<reservaVars, cobrancaVars, razaoVars, emails, bloqueado,
                 operacional, gatewayVars, entregaVars, pcCancelar, quedas>>

\* An admin blocks the renter, or revokes the block.
MudarBloqueio ==
  /\ bloqueado' = ~bloqueado
  /\ UNCHANGED <<reservaVars, cobrancaVars, razaoVars, emails, vencida,
                 operacional, gatewayVars, entregaVars, pcCancelar, quedas>>

\* The owner takes the vehicle (or a garage) out of service: refused while a
\* paid reservation, or one in use, depends on it.
Indisponibilizar ==
  /\ operacional
  /\ ~(statusPagamento = "SUCESSO" /\ status \in {"AGUARDANDO_PAGAMENTO", "CONFIRMADA"})
  /\ status # "EM_ANDAMENTO"
  /\ operacional' = FALSE
  /\ UNCHANGED <<reservaVars, cobrancaVars, razaoVars, emails, vencida,
                 bloqueado, gatewayVars, entregaVars, pcCancelar, quedas>>

Restaurar ==
  /\ ~operacional
  /\ operacional' = TRUE
  /\ UNCHANGED <<reservaVars, cobrancaVars, razaoVars, emails, vencida,
                 bloqueado, gatewayVars, entregaVars, pcCancelar, quedas>>

\* The backend stops: every request in flight is forgotten.
Queda ==
  /\ quedas < MaxQuedas
  /\ quedas' = quedas + 1
  /\ pc' = [d \in Entregas |-> "ociosa"]
  /\ pcCancelar' = [c \in Cancelamentos |-> "ocioso"]
  /\ UNCHANGED <<reservaVars, cobrancaVars, razaoVars, emails, ambienteVars,
                 gatewayVars, tentativa, desfecho, destino>>

-----------------------------------------------------------------------------
Next ==
  \/ \E t \in Tentativas : IniciarPagamento(t)
  \/ \E t \in Tentativas, s \in Desfechos : Emitir(t, s)
  \/ \E d \in Entregas, e \in emitidos : Receber(d, e)
  \/ \E d \in Entregas : Passo(d)
  \/ \E c \in Cancelamentos :
       LerParaCancelar(c) \/ Cancelar(c) \/ CancelarConflito(c) \/ EstornarCancelada(c)
  \/ Expirar \/ Desbloquear \/ Devolver
  \/ VencerPrazo \/ MudarBloqueio \/ Indisponibilizar \/ Restaurar
  \/ Queda

Spec == Init /\ [][Next]_vars

\* The Node event loop resumes every handler; the gateway redelivers an event
\* until it gets a 200 (the built-in simulator delivers once, a real one retries).
Justica ==
  /\ \A d \in Entregas : WF_vars(Passo(d))
  /\ \A e \in Evento :
       SF_vars(\E d \in Entregas : e \notin reconhecidos /\ Receber(d, e))

FairSpec == Spec /\ Justica

-----------------------------------------------------------------------------
(* Properties.                                                             *)

\* Every variable keeps its type.
TypeOK ==
  /\ status \in StatusReserva
  /\ statusPagamento \in StatusPagamento
  /\ codigo \in Entregas \cup {Nada}
  /\ expirada \in BOOLEAN
  /\ cobranca \in [Tentativas -> StatusEvento \cup {"NENHUMA"}]
  /\ ultima \in Tentativas \cup {Nada}
  /\ multa \in {"NENHUMA", "ABERTA", "QUITADA"}
  /\ recebidos \subseteq Tentativas
  /\ estorno \in [Tentativas -> StatusEstorno]
  /\ estornoCancelamento \in StatusEstorno
  /\ emails \in Nat
  /\ vencida \in BOOLEAN /\ bloqueado \in BOOLEAN /\ operacional \in BOOLEAN
  /\ emitidos \subseteq Evento
  /\ reconhecidos \subseteq Evento
  /\ pc \in [Entregas -> PcEntrega]
  /\ tentativa \in [Entregas -> Tentativas \cup {Nada}]
  /\ desfecho \in [Entregas -> Desfechos \cup {Nada}]
  /\ destino \in [Entregas -> Destinos]
  /\ pcCancelar \in [Cancelamentos -> PcCancelamento]
  /\ quedas \in 0..MaxQuedas

Mantida == status \in {"CONFIRMADA", "EM_ANDAMENTO", "REALIZADA"}

\* A confirmed, running or finished reservation was approved and has its code,
\* and a code exists only where the payment was approved, however deliveries,
\* cancellations and crashes interleave with the two writes that confirm it.
ConfirmadaPaga ==
  /\ Mantida => codigo # Nada
  /\ codigo # Nada => statusPagamento = "SUCESSO" /\ (Mantida \/ status = "CANCELADA")

\* An expired reservation stays without payment, code, fee or cancellation
\* refund: a webhook after the deadline does not confirm it (README:169), and a
\* cancellation that had already read it does not charge it.
ExpiradaSemEfeitos ==
  expirada =>
    /\ status = "CANCELADA"
    /\ statusPagamento # "SUCESSO"
    /\ codigo = Nada
    /\ multa = "NENHUMA"
    /\ estornoCancelamento = "NENHUM"

\* The newest PAGAMENTO_RESERVA charge and the reservation always tell the same
\* payment status, and no older charge is left running or approved.
CobrancaEspelhaReserva ==
  /\ statusPagamento =
       IF ultima = Nada THEN "AGUARDANDO_PAGAMENTO" ELSE cobranca[ultima]
  /\ \A t \in Tentativas :
       t # ultima => cobranca[t] \in {"NENHUMA", "FALHA"}

\* RN04: the fee of a paid reservation is kept from its refund and never owed as
\* well; a paid reservation that is cancelled has its refund at least requested,
\* and only such a reservation has a cancellation refund.
CancelamentoCoerente ==
  /\ multa = "ABERTA" => status = "CANCELADA" /\ statusPagamento # "SUCESSO"
  /\ (status = "CANCELADA" /\ statusPagamento = "SUCESSO")
       <=> estornoCancelamento # "NENHUM"

\* Once the gateway got its 200 for an approval, the money is accounted for: the
\* receipt is in the ledger, and either the event has its refund or the
\* reservation is paid; if the reservation is cancelled, a refund exists.
ReconhecidoTemDestino ==
  \A e \in reconhecidos : e.desfecho = "SUCESSO" =>
    LET t == e.tentativa IN
    /\ t \in recebidos
    /\ estorno[t] = "NENHUM" => statusPagamento = "SUCESSO"
    /\ status = "CANCELADA" =>
         estorno[t] # "NENHUM" \/ estornoCancelamento # "NENHUM"

\* Only the delivery whose code was stored sends the e-mail (README:247), so one
\* is sent at most, and none before the reservation was confirmed.
UmEmail ==
  /\ emails <= 1
  /\ emails = 1 => codigo # Nada

\* With deliveries handled one at a time, a reservation that is kept rests on an
\* approval whose money was not given back ("nao confirma replay de evento ja
\* estornado", src/test/pagamento/webhook.test.ts:332).
ConfirmadaTemPagamento ==
  Mantida => \E t \in Tentativas :
    /\ [tentativa |-> t, desfecho |-> "SUCESSO"] \in emitidos
    /\ estorno[t] = "NENHUM"

\* At most one receipt of a reservation is kept: every other one is refunded
\* ("um recebimento, um codigo", src/test/reserva/expiracao-pagamento.test.ts:240).
UmRecebimento ==
  Cardinality({t \in recebidos : estorno[t] = "NENHUM"}) <= 1

\* A cancelled reservation is history: no late delivery, cancellation or
\* expiration changes its row, its charges or its fee; an approval is terminal;
\* a stored code is never replaced.
HistoricoImutavel ==
  [][ /\ status = "CANCELADA" => UNCHANGED <<reservaVars, cobrancaVars>>
      /\ statusPagamento = "SUCESSO" => statusPagamento' = "SUCESSO"
      /\ codigo # Nada => codigo' = codigo
    ]_<<reservaVars, cobrancaVars>>

\* The life cycle of CicloReserva.
Ciclo == INSTANCE CicloReserva
           WITH situacao <- status, pago <- statusPagamento = "SUCESSO"
ImplementaCiclo == Ciclo!Spec

\* Every approval the gateway reports is acknowledged in the end, also when a
\* cancellation makes the first delivery fail (409) or the backend stops.
AprovacaoReconhecida ==
  \A t \in Tentativas :
    [tentativa |-> t, desfecho |-> "SUCESSO"] \in emitidos
      ~> [tentativa |-> t, desfecho |-> "SUCESSO"] \in reconhecidos

\* An approved reservation does not stay without code: a stop between the two
\* writes is healed by the next delivery (aprovadaSemCodigo).
AprovadaGanhaCodigo ==
  statusPagamento = "SUCESSO" ~> (codigo # Nada \/ status = "CANCELADA")

=============================================================================
