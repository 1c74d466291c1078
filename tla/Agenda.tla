------------------------------- MODULE Agenda -------------------------------
(***************************************************************************)
(* The reservations of one vehicle: creation, change of period, payment,   *)
(* expiration, unlocking and return, against the owner's edits of the      *)
(* vehicle, its garage and the garages, with a clock.                      *)
(*                                                                         *)
(* Every database transaction that reads before it writes holds the        *)
(* vehicle's advisory lock (or the garage row) from that read on, so it is *)
(* one action.  Three requests are not atomic: what the service reads      *)
(* before the transaction (create, update of the period, unlocking), the   *)
(* vehicle row the edit reads before the lock, and the payment             *)
(* confirmation, which checks the deadline under the reservation's lock    *)
(* and then waits for the vehicle's.                                       *)
(***************************************************************************)
EXTENDS Naturals

CONSTANTS
  Reservas,        \* reservations that may be asked for
  Garagens,
  Alteracoes,      \* requests to change a period that may be in flight at once
  Edicoes,         \* edits of the vehicle that may be in flight at once
  StatusEditaveis, \* vehicle states the owner may choose
  MaxTempo,        \* bound of the clock and of the periods
  Prazo,           \* 15 minutes, from criadaEm
  DuracaoMaxima,   \* 30 days
  Validade,        \* 2 days, from dataHoraInicio: life of the unlock code
  PrazoNoMeio,     \* may time pass inside a payment confirmation?
  Nada             \* no garage, no value given

StatusVeiculo == {"DISPONIVEL", "RESERVADO", "MANUTENCAO", "INATIVO"}
StatusReserva == {"AGUARDANDO_PAGAMENTO", "CONFIRMADA", "EM_ANDAMENTO",
                  "REALIZADA", "CANCELADA"}
StatusPagamento == {"AGUARDANDO_PAGAMENTO", "PROCESSANDO", "SUCESSO", "FALHA"}

ASSUME ConstantesAssumption ==
  /\ StatusEditaveis \subseteq StatusVeiculo
  /\ MaxTempo \in Nat /\ Prazo \in Nat \ {0} /\ Validade \in Nat
  /\ DuracaoMaxima \in Nat
  /\ PrazoNoMeio \in BOOLEAN
  /\ Nada \notin Reservas \cup Garagens \cup Nat

VARIABLES
  agora,
  \* rows Reserva; "NENHUMA" before the request, "PEDIDA" while the service
  \* has read the vehicle and the transaction has not run yet
  status, pago, ini, fim, criadaEm, retirada, devolucao,
  valorDe,             \* the period valorTotal was calculated for
  \* rows Veiculo and Garagem
  veiculo, garagem, ativa,
  \* requests in flight
  confirmando,         \* reservations whose confirmation is past the deadline check
  desbloqueando,       \* reservations whose code was accepted, not yet marked
  alteracao, edicao

linhaVars == <<status, pago, ini, fim, criadaEm, retirada, devolucao, valorDe>>
periodoVars == <<ini, fim, valorDe>>
localVars == <<criadaEm, retirada, devolucao>>
frotaVars == <<veiculo, garagem, ativa>>
pedidoVars == <<confirmando, desbloqueando, alteracao, edicao>>
vars == <<agora, linhaVars, frotaVars, pedidoVars>>

Tempo == 0..MaxTempo
Mesma == "MESMA"   \* no garage given, where Nada is the garage null
SemAlteracao == [reserva |-> Nada, ini |-> Nada, fim |-> Nada, devolucao |-> Nada,
                 valorDe |-> Nada]
SemEdicao == [lido |-> Nada, novo |-> Nada, local |-> Mesma]

Init ==
  /\ agora = 0
  /\ status = [r \in Reservas |-> "NENHUMA"]
  /\ pago = [r \in Reservas |-> "AGUARDANDO_PAGAMENTO"]
  /\ ini = [r \in Reservas |-> 0]
  /\ fim = [r \in Reservas |-> 0]
  /\ criadaEm = [r \in Reservas |-> 0]
  /\ retirada = [r \in Reservas |-> Nada]
  /\ devolucao = [r \in Reservas |-> Nada]
  /\ valorDe = [r \in Reservas |-> <<0, 0>>]
  /\ veiculo = "DISPONIVEL"
  /\ garagem \in Garagens
  /\ ativa = [g \in Garagens |-> TRUE]
  /\ confirmando = {}
  /\ desbloqueando = {}
  /\ alteracao = [a \in Alteracoes |-> SemAlteracao]
  /\ edicao = [e \in Edicoes |-> SemEdicao]

-----------------------------------------------------------------------------
(* What the handlers ask of a reservation.                                 *)

Existe(r) == status[r] \in StatusReserva

\* reservaVencidaWhere; the limit itself is late.
Vencida(r) ==
  /\ status[r] = "AGUARDANDO_PAGAMENTO"
  /\ pago[r] # "SUCESSO"
  /\ agora >= criadaEm[r] + Prazo

\* Mutation: a reservation occupies its period from its confirmation on.
MutOcupaSoConfirmada(r) == status[r] \in {"CONFIRMADA", "EM_ANDAMENTO", "REALIZADA"}

\* The reservations overlapWhere looks at.
Ocupa(r) == Existe(r) /\ status[r] # "CANCELADA" /\ ~Vencida(r)

Sobrepoe(r, i, f) == ini[r] < f /\ i < fim[r]

\* overlapWhere.
Conflito(r, i, f) == \E o \in Reservas \ {r} : Ocupa(o) /\ Sobrepoe(o, i, f)

\* assertPeriodoValido.
PeriodoAceito(r, i, f) ==
  i < f /\ f <= i + DuracaoMaxima /\ i >= agora /\ ~Conflito(r, i, f)

Indisponibiliza(s) == s \in {"MANUTENCAO", "INATIVO"}

\* A paid reservation whose end is still ahead.
PagaFutura(r) ==
  /\ pago[r] = "SUCESSO"
  /\ status[r] \in {"AGUARDANDO_PAGAMENTO", "CONFIRMADA"}
  /\ fim[r] > agora

\* The garage the vehicle will be returned to.
LocalDevolucao(r) == IF devolucao[r] = Nada THEN retirada[r] ELSE devolucao[r]

\* Mutation: only the return garage is looked at.
MutOperacional(r) == ~Indisponibiliza(veiculo) /\ ativa[LocalDevolucao(r)]

\* verificarReservaOperacional.
Operacional(r) ==
  /\ ~Indisponibiliza(veiculo)
  /\ \A g \in {retirada[r], devolucao[r]} \ {Nada} : ativa[g]

\* The reservation's advisory lock is held only across a confirmation.
Livre(r) == r \notin confirmando

-----------------------------------------------------------------------------
(* Creation.                                                               *)

\* ReservaService.create: what is checked and remembered before the
\* transaction.
PedirReserva(r, i, f, d) ==
  /\ status[r] = "NENHUMA"
  /\ veiculo = "DISPONIVEL"
  /\ PeriodoAceito(r, i, f)
  /\ garagem # Nada /\ ativa[garagem]
  /\ d # Nada => ativa[d]
  /\ status' = [status EXCEPT ![r] = "PEDIDA"]
  /\ ini' = [ini EXCEPT ![r] = i]
  /\ fim' = [fim EXCEPT ![r] = f]
  /\ valorDe' = [valorDe EXCEPT ![r] = <<i, f>>]
  /\ retirada' = [retirada EXCEPT ![r] = garagem]
  /\ devolucao' = [devolucao EXCEPT ![r] = d]
  /\ UNCHANGED <<agora, pago, criadaEm, frotaVars, pedidoVars>>

\* The vehicle is still where the service saw it (LOCAL_RETIRADA_ALTERADO).
MesmaGaragem(r) == garagem = retirada[r]

\* Mutation: the overlap is left to the service, which looked before the lock.
MutPodeCriar(r) == MesmaGaragem(r)

PodeCriar(r) == MesmaGaragem(r) /\ ~Conflito(r, ini[r], fim[r])

\* PrismaReservaRepository.create, under the vehicle's lock.  A refusal leaves
\* no row.
CriarReserva(r) ==
  /\ status[r] = "PEDIDA"
  /\ PodeCriar(r)
  /\ status' = [status EXCEPT ![r] = "AGUARDANDO_PAGAMENTO"]
  /\ criadaEm' = [criadaEm EXCEPT ![r] = agora]
  /\ UNCHANGED <<agora, pago, periodoVars, retirada, devolucao, frotaVars, pedidoVars>>

RecusarReserva(r) ==
  /\ status[r] = "PEDIDA"
  /\ ~PodeCriar(r)
  /\ status' = [status EXCEPT ![r] = "NENHUMA"]
  /\ ini' = [ini EXCEPT ![r] = 0]
  /\ fim' = [fim EXCEPT ![r] = 0]
  /\ valorDe' = [valorDe EXCEPT ![r] = <<0, 0>>]
  /\ retirada' = [retirada EXCEPT ![r] = Nada]
  /\ devolucao' = [devolucao EXCEPT ![r] = Nada]
  /\ UNCHANGED <<agora, pago, criadaEm, frotaVars, pedidoVars>>

-----------------------------------------------------------------------------
(* Change of period and of return garage.                                  *)

\* Value given, or the value of the row.
Dado(v, atual) == IF v = Nada THEN atual ELSE v

PeriodoFixo(r) == pago[r] \in {"SUCESSO", "PROCESSANDO"}

\* ReservaService.update: dates are validated and priced against the row as read
\* if they change it.  A value that is not given stays undefined on its way to
\* the transaction.  (An overdue row is expired by this read: Expirar.)
LerAlteracao(a, r, i, f, d) ==
  LET i2 == Dado(i, ini[r])  f2 == Dado(f, fim[r])
      muda == <<i2, f2>> # <<ini[r], fim[r]>>
  IN
  /\ alteracao[a] = SemAlteracao
  /\ Existe(r) /\ status[r] # "CANCELADA" /\ ~Vencida(r)
  /\ <<i, f, d>> # <<Nada, Nada, Nada>>
  /\ muda => ~PeriodoFixo(r) /\ PeriodoAceito(r, i2, f2)
  /\ d # Nada => ativa[d]
  /\ alteracao' = [alteracao EXCEPT ![a] =
       [reserva |-> r, ini |-> i, fim |-> f, devolucao |-> d,
        valorDe |-> IF muda THEN <<i2, f2>> ELSE Nada]]
  /\ UNCHANGED <<agora, linhaVars, frotaVars, confirmando, desbloqueando, edicao>>

\* Mutation: the transaction repeats the overlap, not the check of the payment.
MutAceitaAlteracao(r, i, f) ==
  /\ status[r] \notin {"CANCELADA", "REALIZADA"}
  /\ <<i, f>> = <<ini[r], fim[r]>> \/ ~Conflito(r, i, f)

\* The checks of PrismaReservaRepository.update under both locks.
AceitaAlteracao(r, i, f) ==
  /\ status[r] \notin {"CANCELADA", "REALIZADA"}
  /\ <<i, f>> = <<ini[r], fim[r]>> \/ (~PeriodoFixo(r) /\ ~Conflito(r, i, f))

\* The return garage is read FOR SHARE.
GravarAlteracao(a) ==
  LET r == alteracao[a].reserva
      i == Dado(alteracao[a].ini, ini[r])
      f == Dado(alteracao[a].fim, fim[r])
      d == alteracao[a].devolucao
      aceita == AceitaAlteracao(r, i, f) /\ (d # Nada => ativa[d])
  IN
  /\ alteracao[a] # SemAlteracao
  /\ Livre(r)
  /\ alteracao' = [alteracao EXCEPT ![a] = SemAlteracao]
  /\ \/ /\ aceita
        /\ ini' = [ini EXCEPT ![r] = i]
        /\ fim' = [fim EXCEPT ![r] = f]
        /\ devolucao' = [devolucao EXCEPT ![r] = Dado(d, @)]
        /\ valorDe' = [valorDe EXCEPT ![r] = Dado(alteracao[a].valorDe, @)]
     \/ ~aceita /\ UNCHANGED <<periodoVars, devolucao>>
  /\ UNCHANGED <<agora, status, pago, criadaEm, retirada, frotaVars, confirmando,
                 desbloqueando, edicao>>

-----------------------------------------------------------------------------
(* Payment, cancellation, expiration.                                      *)

\* registrarPagamentoIniciado, under both locks.
IniciarPagamento(r) ==
  /\ status[r] \in {"AGUARDANDO_PAGAMENTO", "CONFIRMADA", "EM_ANDAMENTO", "REALIZADA"}
  /\ pago[r] \in {"AGUARDANDO_PAGAMENTO", "FALHA"}
  /\ ~Vencida(r)
  /\ Livre(r)
  /\ Operacional(r)
  /\ pago' = [pago EXCEPT ![r] = "PROCESSANDO"]
  /\ UNCHANGED <<agora, status, periodoVars, localVars, frotaVars, pedidoVars>>

\* A refusal is written; it does not touch the vehicle.
RecusarPagamento(r) ==
  /\ pago[r] = "PROCESSANDO"
  /\ status[r] = "AGUARDANDO_PAGAMENTO"
  /\ ~Vencida(r)
  /\ Livre(r)
  /\ pago' = [pago EXCEPT ![r] = "FALHA"]
  /\ UNCHANGED <<agora, status, periodoVars, localVars, frotaVars, pedidoVars>>

\* atualizarStatusPagamento with an approval of a started attempt, up to the
\* wait for the vehicle's lock.
IniciarConfirmacao(r) ==
  /\ status[r] = "AGUARDANDO_PAGAMENTO"
  /\ pago[r] \in {"PROCESSANDO", "FALHA"}
  /\ ~Vencida(r)
  /\ Livre(r)
  /\ confirmando' = confirmando \cup {r}
  /\ UNCHANGED <<agora, linhaVars, frotaVars, desbloqueando, alteracao, edicao>>

\* ... and from there to the commit.
Confirmar(r) ==
  /\ r \in confirmando
  /\ confirmando' = confirmando \ {r}
  /\ pago' = [pago EXCEPT ![r] = IF Operacional(r) THEN "SUCESSO" ELSE "FALHA"]
  /\ UNCHANGED <<agora, status, periodoVars, localVars, frotaVars,
                 desbloqueando, alteracao, edicao>>

\* gerarCodigoDesbloqueio.
GerarCodigo(r) ==
  /\ status[r] = "AGUARDANDO_PAGAMENTO"
  /\ pago[r] = "SUCESSO"
  /\ status' = [status EXCEPT ![r] = "CONFIRMADA"]
  /\ UNCHANGED <<agora, pago, periodoVars, localVars, frotaVars, pedidoVars>>

Cancelar(r) ==
  /\ status[r] \in {"AGUARDANDO_PAGAMENTO", "CONFIRMADA"}
  /\ Livre(r)
  /\ status' = [status EXCEPT ![r] = "CANCELADA"]
  /\ UNCHANGED <<agora, pago, periodoVars, localVars, frotaVars, pedidoVars>>

PagoExpirado(p) == IF p = "PROCESSANDO" THEN "FALHA" ELSE p

\* expirarReservaNoTx, which runs before every read.
Expirar(r) ==
  /\ Vencida(r)
  /\ Livre(r)
  /\ status' = [status EXCEPT ![r] = "CANCELADA"]
  /\ pago' = [pago EXCEPT ![r] = PagoExpirado(@)]
  /\ UNCHANGED <<agora, periodoVars, localVars, frotaVars, pedidoVars>>

-----------------------------------------------------------------------------
(* Unlocking and return.                                                   *)

\* usarCodigoDesbloqueio up to the geofence: the code's window is checked.
AceitarCodigo(r) ==
  /\ status[r] = "CONFIRMADA"
  /\ ini[r] <= agora /\ agora <= ini[r] + Validade /\ agora <= fim[r]
  /\ r \notin desbloqueando
  /\ desbloqueando' = desbloqueando \cup {r}
  /\ UNCHANGED <<agora, linhaVars, frotaVars, confirmando, alteracao, edicao>>

\* marcarCodigoComoUsado.
Desbloquear(r) ==
  /\ r \in desbloqueando
  /\ desbloqueando' = desbloqueando \ {r}
  /\ \/ status[r] = "CONFIRMADA" /\ status' = [status EXCEPT ![r] = "EM_ANDAMENTO"]
     \/ status[r] # "CONFIRMADA" /\ UNCHANGED status
  /\ UNCHANGED <<agora, pago, periodoVars, localVars, frotaVars, confirmando,
                 alteracao, edicao>>

Devolver(r) ==
  /\ status[r] = "EM_ANDAMENTO"
  /\ status' = [status EXCEPT ![r] = "REALIZADA"]
  /\ UNCHANGED <<agora, pago, periodoVars, localVars, frotaVars, pedidoVars>>

-----------------------------------------------------------------------------
(* The owner.                                                              *)

\* PrismaVeiculoRepository.update reads the vehicle before any lock.
LerVeiculo(e, s, g) ==
  /\ edicao[e] = SemEdicao
  /\ edicao' = [edicao EXCEPT ![e] = [lido |-> veiculo, novo |-> s, local |-> g]]
  /\ UNCHANGED <<agora, linhaVars, frotaVars, confirmando, desbloqueando, alteracao>>

\* Mutation: reservations waiting for payment do not hold the vehicle.
MutFixaGaragem(r) == status[r] \in {"CONFIRMADA", "EM_ANDAMENTO"}

\* assertNoReservationThatPinsGarage.
FixaGaragem(r) ==
  /\ status[r] \in {"AGUARDANDO_PAGAMENTO", "CONFIRMADA", "EM_ANDAMENTO"}
  /\ ~Vencida(r)

\* moveVehicleInTransaction and desalocarVehicleInTransaction (owner and
\* capacity are not this module's).
PodeMover(g) ==
  \/ g = garagem
  \/ /\ \A r \in Reservas : ~FixaGaragem(r)
     /\ g # Nada => ativa[g]

ImpedeIndisponibilizar(r) == status[r] = "EM_ANDAMENTO" \/ PagaFutura(r)

\* assertSemCompromissoParaIndisponibilizar: nothing is asked when the new
\* status is the one that was read.
SemCompromisso(lido, novo) ==
  \/ novo \in {Nada, lido}
  \/ ~Indisponibiliza(novo)
  \/ \A r \in Reservas : ~ImpedeIndisponibilizar(r)

\* The rest of the update: the move, the check of the status, the write.
GravarVeiculo(e) ==
  LET novo == edicao[e].novo
      g == IF edicao[e].local = Mesma THEN garagem ELSE edicao[e].local
      aceita == PodeMover(g) /\ SemCompromisso(edicao[e].lido, novo)
  IN
  /\ edicao[e] # SemEdicao
  /\ edicao' = [edicao EXCEPT ![e] = SemEdicao]
  /\ \/ aceita /\ garagem' = g /\ veiculo' = Dado(novo, veiculo)
     \/ ~aceita /\ UNCHANGED <<garagem, veiculo>>
  /\ UNCHANGED <<agora, linhaVars, ativa, confirmando, desbloqueando, alteracao>>

\* alocarVeiculo and desalocarVeiculo.
Mover(g) ==
  /\ garagem # g
  /\ PodeMover(g)
  /\ garagem' = g
  /\ UNCHANGED <<agora, linhaVars, veiculo, ativa, pedidoVars>>

\* A reservation that depends on the garage.
PrecisaDaGaragem(r, g) ==
  \/ retirada[r] = g /\ PagaFutura(r)
  \/ LocalDevolucao(r) = g /\ (PagaFutura(r) \/ status[r] = "EM_ANDAMENTO")

\* assertGaragemSemCompromissoParaIndisponibilizar, under the garage's row lock.
DesativarGaragem(g) ==
  /\ ativa[g]
  /\ \A r \in Reservas : ~PrecisaDaGaragem(r, g)
  /\ ativa' = [ativa EXCEPT ![g] = FALSE]
  /\ UNCHANGED <<agora, linhaVars, veiculo, garagem, pedidoVars>>

AtivarGaragem(g) ==
  /\ ~ativa[g]
  /\ ativa' = [ativa EXCEPT ![g] = TRUE]
  /\ UNCHANGED <<agora, linhaVars, veiculo, garagem, pedidoVars>>

\* Time passes; inside a confirmation only if PrazoNoMeio.
Passar ==
  /\ agora < MaxTempo
  /\ PrazoNoMeio \/ confirmando = {}
  /\ agora' = agora + 1
  /\ UNCHANGED <<linhaVars, frotaVars, pedidoVars>>

-----------------------------------------------------------------------------
Reservar ==
  \E r \in Reservas :
    \/ \E i, f \in Tempo, d \in Garagens \cup {Nada} : PedirReserva(r, i, f, d)
    \/ CriarReserva(r) \/ RecusarReserva(r)
    \/ IniciarPagamento(r) \/ RecusarPagamento(r)
    \/ IniciarConfirmacao(r) \/ Confirmar(r) \/ GerarCodigo(r)
    \/ Cancelar(r) \/ Expirar(r)
    \/ AceitarCodigo(r) \/ Desbloquear(r) \/ Devolver(r)

Alterar ==
  \E a \in Alteracoes :
    \/ \E r \in Reservas, i, f \in Tempo \cup {Nada}, d \in Garagens \cup {Nada} :
         LerAlteracao(a, r, i, f, d)
    \/ GravarAlteracao(a)

AdministrarFrota ==
  \/ \E e \in Edicoes :
       \/ \E s \in StatusEditaveis \cup {Nada}, g \in Garagens \cup {Nada, Mesma} :
            LerVeiculo(e, s, g)
       \/ GravarVeiculo(e)
  \/ \E g \in Garagens \cup {Nada} : Mover(g)
  \/ \E g \in Garagens : DesativarGaragem(g) \/ AtivarGaragem(g)

Next == Reservar \/ Alterar \/ AdministrarFrota \/ Passar

Spec == Init /\ [][Next]_vars

-----------------------------------------------------------------------------
(* Properties.                                                             *)

\* Every variable keeps its type; the clock does not pass its bound.
TypeOK ==
  /\ agora \in Tempo
  /\ status \in [Reservas -> StatusReserva \cup {"NENHUMA", "PEDIDA"}]
  /\ pago \in [Reservas -> StatusPagamento]
  /\ ini \in [Reservas -> Tempo] /\ fim \in [Reservas -> Tempo]
  /\ criadaEm \in [Reservas -> Tempo]
  /\ retirada \in [Reservas -> Garagens \cup {Nada}]
  /\ devolucao \in [Reservas -> Garagens \cup {Nada}]
  /\ valorDe \in [Reservas -> Tempo \X Tempo]
  /\ veiculo \in StatusVeiculo
  /\ garagem \in Garagens \cup {Nada}
  /\ ativa \in [Garagens -> BOOLEAN]
  /\ confirmando \subseteq Reservas
  /\ desbloqueando \subseteq Reservas
  /\ alteracao \in [Alteracoes ->
       [reserva : Reservas \cup {Nada}, ini : Tempo \cup {Nada}, fim : Tempo \cup {Nada},
        devolucao : Garagens \cup {Nada}, valorDe : (Tempo \X Tempo) \cup {Nada}]]
  /\ edicao \in [Edicoes ->
       [lido : StatusVeiculo \cup {Nada}, novo : StatusVeiculo \cup {Nada},
        local : Garagens \cup {Nada, Mesma}]]

\* A reservation that still gives its renter the vehicle, or gave it.
Vale(r) ==
  \/ status[r] \in {"CONFIRMADA", "EM_ANDAMENTO", "REALIZADA"}
  \/ /\ status[r] = "AGUARDANDO_PAGAMENTO"
     /\ pago[r] = "SUCESSO" \/ agora < criadaEm[r] + Prazo

\* No vehicle is reserved twice for the same time, however creations, changes
\* of period, confirmations and expirations interleave.
SemDuplaReserva ==
  \A r, o \in Reservas :
    r # o /\ Vale(r) /\ Vale(o) => fim[r] <= ini[o] \/ fim[o] <= ini[r]

\* While a paid reservation is ahead its vehicle is neither in maintenance nor
\* inactive and both its garages are active; while one is running, until its
\* end, its vehicle and the garage of its return still are.
PagaOperacional ==
  \A r \in Reservas :
    /\ /\ pago[r] = "SUCESSO"
       /\ status[r] \in {"AGUARDANDO_PAGAMENTO", "CONFIRMADA"}
       /\ fim[r] > agora
       => /\ veiculo \notin {"MANUTENCAO", "INATIVO"}
          /\ ativa[retirada[r]] /\ ativa[LocalDevolucao(r)]
    /\ status[r] = "EM_ANDAMENTO" /\ fim[r] > agora
       => veiculo \notin {"MANUTENCAO", "INATIVO"} /\ ativa[LocalDevolucao(r)]

\* As long as a reservation can be paid, is paid, or is running, its vehicle
\* stays where the renter was told to pick it up.
NoLocal ==
  \A r \in Reservas :
    Vale(r) /\ status[r] # "REALIZADA" => garagem = retirada[r]

\* RN05: the reserved time has an end after its start and is not too long.
PeriodoValido ==
  \A r \in Reservas :
    Existe(r) => ini[r] < fim[r] /\ fim[r] <= ini[r] + DuracaoMaxima

\* What is being paid or was paid keeps its period and its price, whatever
\* change was validated before the payment began.
PeriodoPagoFixo ==
  [][\A r \in Reservas : PeriodoFixo(r) =>
       /\ ini'[r] = ini[r] /\ fim'[r] = fim[r] /\ valorDe'[r] = valorDe[r]]_vars

\* What a row is in the vehicle's calendar: firm once it is paid, without a
\* place from the moment it is cancelled or its deadline has passed unpaid.
Fase(r) ==
  IF ~Existe(r) THEN "NOVA"
  ELSE IF ~Vale(r) THEN "SOLTA"
  ELSE IF status[r] = "REALIZADA" THEN "USADA"
  ELSE IF pago[r] = "SUCESSO" THEN "FIRME" ELSE "PROVISORIA"

Plano == INSTANCE Calendario WITH
  fase <- [r \in Reservas |-> Fase(r)],
  periodo <- [r \in Reservas |-> IF Vale(r) THEN <<ini[r], fim[r]>> ELSE <<0, 0>>],
  retirada <- [r \in Reservas |-> IF Vale(r) THEN retirada[r] ELSE Nada],
  onde <- garagem,
  Instantes <- Tempo

\* Creations, changes, payments, expirations and moves, with what each read
\* before, behave as a calendar in which each finds a place beside the others
\* as it takes effect, and a place that is lost is lost for good.
ImplementaCalendario == Plano!Spec

=============================================================================
