--------------------- MODULE ConfirmacaoPagamento_proofs ---------------------
(***************************************************************************)
(* Proofs about ConfirmacaoPagamento for any sets of attempts, deliveries  *)
(* and cancellations, any number of crashes and any gateway.               *)
(*                                                                         *)
(* The safety properties are not inductive: what a delivery writes after   *)
(* an await rests on what it read before it.  EntregaCoerente says, for    *)
(* each place where a delivery may be suspended, which part of what it     *)
(* read still holds there.                                                 *)
(***************************************************************************)
EXTENDS ConfirmacaoPagamento, TLAPS

\* Events come from started attempts, and requests in flight carry an event.
EventosCoerentes ==
  /\ \A e \in emitidos : cobranca[e.tentativa] # "NENHUMA"
  /\ \A d \in Entregas : pc[d] # "ociosa" => EventoDe(d) \in emitidos
  /\ ultima = Nada => \A t \in Tentativas : cobranca[t] = "NENHUMA"

\* No fee before the cancellation.
MultaCoerente == status # "CANCELADA" => multa = "NENHUMA"

PaPagos == {"codigo", "reler", "notificar"}
PaAprovacao == PaPagos \cup {"liberar", "recusar", "receber",
                             "estornarCancelamento", "estornarEvento"}

\* What a suspended delivery may still rely on.
EntregaBem(d) ==
  /\ pc[d] \in PaAprovacao => desfecho[d] = "SUCESSO"
  /\ pc[d] \in PaPagos => statusPagamento = "SUCESSO"
  /\ pc[d] \in {"notificar", "receber", "estornarCancelamento"} =>
       /\ statusPagamento = "SUCESSO"
       /\ destino[d] # "estornarEvento"
       /\ destino[d] = "receberEEstornar" => status = "CANCELADA"
  /\ pc[d] = "estornarCancelamento" =>
       destino[d] = "receberEEstornar" /\ tentativa[d] \in recebidos

\* The delivery that owns the code is past the point where codes are made, and
\* no second e-mail is on its way.
EmailBem(d) ==
  /\ codigo = d => pc[d] \notin {"liberar", "atualizar", "codigo"}
  /\ pc[d] = "notificar" => codigo = d
  /\ emails # 0 /\ codigo = d => pc[d] \notin {"reler", "notificar"}

EntregasCoerentes == \A d \in Entregas : EntregaBem(d) /\ EmailBem(d)

\* A cancellation goes on to the refund only when there is one to make.
CancelarCoerente ==
  \A c \in Cancelamentos :
    pcCancelar[c] = "estornar" => status = "CANCELADA" /\ statusPagamento = "SUCESSO"

\* The parts of the invariant that speak of the stored rows only.
LinhaBem ==
  /\ MultaCoerente
  /\ ConfirmadaPaga
  /\ ExpiradaSemEfeitos
  /\ CobrancaEspelhaReserva
  /\ CancelamentoCoerente

IInv ==
  /\ TypeOK
  /\ EventosCoerentes
  /\ LinhaBem
  /\ EntregasCoerentes
  /\ CancelarCoerente
  /\ ReconhecidoTemDestino
  /\ UmEmail

-----------------------------------------------------------------------------
(* Types.                                                                  *)

USE DEF StatusReserva, StatusPagamento, StatusEvento, StatusEstorno,
        PcEntrega, Destinos, PcCancelamento,
        reservaVars, cobrancaVars, razaoVars, ambienteVars, gatewayVars,
        entregaVars

\* A delivery in flight carries an event the gateway emitted.
LEMMA EventoEmVoo ==
  ASSUME TypeOK, EventosCoerentes, NEW d \in Entregas, pc[d] # "ociosa"
  PROVE  /\ EventoDe(d) \in emitidos
         /\ EventoDe(d) \in Evento
         /\ tentativa[d] \in Tentativas
         /\ desfecho[d] \in Desfechos
         /\ desfecho[d] \in StatusEvento
<1>1. EventoDe(d) \in emitidos /\ EventoDe(d) \in Evento
  BY DEF TypeOK, EventosCoerentes
<1>2. EventoDe(d).tentativa \in Tentativas /\ EventoDe(d).desfecho \in Desfechos
  BY <1>1 DEF Evento
<1> QED
  BY <1>1, <1>2, ConstantesAssumption DEF EventoDe

LEMMA DestinoTipo ==
  ASSUME NEW st, NEW sp
  PROVE  /\ DestinoDe(st, sp) \in Destinos
         /\ PcDoDestino(DestinoDe(st, sp)) \in {"receber", "estornarEvento"}
BY DEF DestinoDe, PcDoDestino

\* The two ways the rows are rewritten keep their types.
LEMMA ExpirarTipo ==
  ASSUME TypeOK, ExpirarNoTx
  PROVE  /\ status' \in StatusReserva
         /\ statusPagamento' \in StatusPagamento
         /\ codigo' \in Entregas \cup {Nada}
         /\ expirada' \in BOOLEAN
         /\ cobranca' \in [Tentativas -> StatusEvento \cup {"NENHUMA"}]
         /\ ultima' \in Tentativas \cup {Nada}
         /\ multa' \in {"NENHUMA", "ABERTA", "QUITADA"}
BY DEF TypeOK, ExpirarNoTx

LEMMA GravarTipo ==
  ASSUME TypeOK, NEW s \in StatusEvento, GravarPagamento(s)
  PROVE  /\ status' \in StatusReserva
         /\ statusPagamento' \in StatusPagamento
         /\ codigo' \in Entregas \cup {Nada}
         /\ expirada' \in BOOLEAN
         /\ cobranca' \in [Tentativas -> StatusEvento \cup {"NENHUMA"}]
         /\ ultima' \in Tentativas \cup {Nada}
         /\ multa' \in {"NENHUMA", "ABERTA", "QUITADA"}
BY DEF TypeOK, GravarPagamento

LEMMA TypeOKStep == TypeOK /\ EventosCoerentes /\ [Next]_vars => TypeOK'
<1> SUFFICES ASSUME TypeOK, EventosCoerentes, [Next]_vars PROVE TypeOK'
  OBVIOUS
<1> USE ConstantesAssumption DEF TypeOK
<1>1. ASSUME NEW t \in Tentativas, IniciarPagamento(t) PROVE TypeOK'
  BY <1>1 DEF IniciarPagamento
<1>2. ASSUME NEW t \in Tentativas, NEW s \in Desfechos, Emitir(t, s) PROVE TypeOK'
  BY <1>2 DEF Emitir, Evento
<1>3. ASSUME NEW d \in Entregas, NEW e \in emitidos, Receber(d, e) PROVE TypeOK'
  BY <1>3 DEF Receber, IrPara, Evento
<1>4. ASSUME NEW d \in Entregas, LerReserva(d) PROVE TypeOK'
  BY <1>4, ExpirarTipo, DestinoTipo, EventoEmVoo
     DEF LerReserva, ExpirarAoLer, Concluir, Responder, IrPara
<1>5. ASSUME NEW d \in Entregas, VerificarLocatario(d) PROVE TypeOK'
  BY <1>5 DEF VerificarLocatario, IrPara
<1>6. ASSUME NEW d \in Entregas, RecusarPorBloqueio(d) PROVE TypeOK'
  BY <1>6, ExpirarTipo, GravarTipo DEF RecusarPorBloqueio, IrPara
<1>7. ASSUME NEW d \in Entregas, AtualizarVencida(d) PROVE TypeOK'
  BY <1>7, ExpirarTipo, DestinoTipo, EventoEmVoo
     DEF AtualizarVencida, Concluir, Responder, IrPara
<1>8. ASSUME NEW d \in Entregas, AtualizarConflito(d) PROVE TypeOK'
  BY <1>8 DEF AtualizarConflito, IrPara
<1>9. ASSUME NEW d \in Entregas, AtualizarJaAprovada(d) PROVE TypeOK'
  BY <1>9, EventoEmVoo DEF AtualizarJaAprovada, Responder, IrPara
<1>10. ASSUME NEW d \in Entregas, AtualizarInoperante(d) PROVE TypeOK'
  BY <1>10, GravarTipo DEF AtualizarInoperante, IrPara
<1>11. ASSUME NEW d \in Entregas, AtualizarGrava(d) PROVE TypeOK'
  BY <1>11, GravarTipo, EventoEmVoo DEF AtualizarGrava, Responder, IrPara
<1>12. ASSUME NEW d \in Entregas, GerarCodigo(d) PROVE TypeOK'
  BY <1>12 DEF GerarCodigo, IrPara
<1>13. ASSUME NEW d \in Entregas, RelerReserva(d) PROVE TypeOK'
  BY <1>13, DestinoTipo DEF RelerReserva, IrPara
<1>14. ASSUME NEW d \in Entregas, Notificar(d) PROVE TypeOK'
  BY <1>14 DEF Notificar, PcDoDestino, IrPara
<1>15. ASSUME NEW d \in Entregas, RegistrarRecebido(d) PROVE TypeOK'
  BY <1>15, EventoEmVoo DEF RegistrarRecebido, Responder, IrPara
<1>16. ASSUME NEW d \in Entregas, EstornarPorCancelamento(d) PROVE TypeOK'
  BY <1>16, EventoEmVoo DEF EstornarPorCancelamento, NovoEstorno, Responder, IrPara
<1>17. ASSUME NEW d \in Entregas, EstornarEvento(d) PROVE TypeOK'
  BY <1>17, EventoEmVoo DEF EstornarEvento, NovoEstorno, Responder, IrPara
<1>18. ASSUME NEW c \in Cancelamentos, LerParaCancelar(c) PROVE TypeOK'
  BY <1>18, ExpirarTipo DEF LerParaCancelar, ExpirarAoLer
<1>19. ASSUME NEW c \in Cancelamentos, Cancelar(c) PROVE TypeOK'
  BY <1>19 DEF Cancelar, SituacaoDaMulta
<1>20. ASSUME NEW c \in Cancelamentos, CancelarConflito(c) PROVE TypeOK'
  BY <1>20 DEF CancelarConflito
<1>21. ASSUME NEW c \in Cancelamentos, EstornarCancelada(c) PROVE TypeOK'
  BY <1>21 DEF EstornarCancelada, NovoEstorno
<1>22. ASSUME Expirar PROVE TypeOK'
  BY <1>22, ExpirarTipo DEF Expirar
<1>23. ASSUME Desbloquear PROVE TypeOK'
  BY <1>23 DEF Desbloquear
<1>24. ASSUME Devolver PROVE TypeOK'
  BY <1>24 DEF Devolver
<1>25. ASSUME VencerPrazo PROVE TypeOK'
  BY <1>25 DEF VencerPrazo
<1>26. ASSUME MudarBloqueio PROVE TypeOK'
  BY <1>26 DEF MudarBloqueio
<1>27. ASSUME Indisponibilizar PROVE TypeOK'
  <2>1. operacional' \in BOOLEAN
    BY <1>27, Zenon DEF Indisponibilizar
  <2> QED
    BY <1>27, <2>1 DEF Indisponibilizar
<1>28. ASSUME Restaurar PROVE TypeOK'
  BY <1>28 DEF Restaurar
<1>29. ASSUME Queda PROVE TypeOK'
  BY <1>29 DEF Queda
<1>30. CASE UNCHANGED vars
  BY <1>30 DEF vars
<1> QED
  BY <1>1, <1>2, <1>3, <1>4, <1>5, <1>6, <1>7, <1>8, <1>9, <1>10, <1>11, <1>12, <1>13, <1>14,
     <1>15, <1>16, <1>17, <1>18, <1>19, <1>20, <1>21, <1>22, <1>23, <1>24, <1>25, <1>26,
     <1>27, <1>28, <1>29, <1>30
     DEF Next, Passo

\* The initial state satisfies the invariant.
LEMMA InitIInv == Init => IInv
<1> SUFFICES ASSUME Init PROVE IInv
  OBVIOUS
<1> USE ConstantesAssumption DEF Init
<1>1. TypeOK
  <2>1. vencida \in BOOLEAN /\ bloqueado \in BOOLEAN /\ operacional \in BOOLEAN
    BY Zenon
  <2>2. expirada \in BOOLEAN
    BY Zenon
  <2> QED
    BY <2>1, <2>2 DEF TypeOK
<1>2. EventosCoerentes
  BY DEF EventosCoerentes
<1>3. LinhaBem
  BY DEF LinhaBem, MultaCoerente, ConfirmadaPaga, ExpiradaSemEfeitos,
     CobrancaEspelhaReserva, CancelamentoCoerente, Mantida
<1>4. EntregasCoerentes
  BY DEF EntregasCoerentes, EntregaBem, EmailBem, PaPagos, PaAprovacao
<1>5. CancelarCoerente
  BY DEF CancelarCoerente
<1>6. ReconhecidoTemDestino
  BY DEF ReconhecidoTemDestino
<1>7. UmEmail
  BY DEF UmEmail
<1> QED
  BY <1>1, <1>2, <1>3, <1>4, <1>5, <1>6, <1>7 DEF IInv

-----------------------------------------------------------------------------
(* What a step may do to the rows: the operations of the repository.       *)

LinhaParada == UNCHANGED <<reservaVars, cobrancaVars, estornoCancelamento>>

LinhaExpira == Vencida /\ ExpirarNoTx /\ UNCHANGED estornoCancelamento

LinhaGrava ==
  /\ ultima # Nada
  /\ \E s \in StatusEvento : ~Terminal(s) /\ GravarPagamento(s)
  /\ UNCHANGED estornoCancelamento

LinhaEstorna ==
  /\ status = "CANCELADA" /\ statusPagamento = "SUCESSO"
  /\ UNCHANGED <<reservaVars, cobrancaVars>>
  /\ estornoCancelamento' \in {"SOLICITADO", "CONCLUIDO"}

PassoDaLinha ==
  \/ LinhaParada \/ LinhaExpira \/ LinhaGrava \/ LinhaEstorna
  \/ \E t \in Tentativas : IniciarPagamento(t)
  \/ \E d \in Entregas : GerarCodigo(d)
  \/ \E c \in Cancelamentos : Cancelar(c)
  \/ Desbloquear \/ Devolver

\* A delivery about to write finds a charge to write to.
LEMMA HaCobranca ==
  ASSUME IInv, NEW d \in Entregas, pc[d] # "ociosa"
  PROVE  ultima # Nada /\ desfecho[d] \in StatusEvento /\ tentativa[d] \in Tentativas
<1>1. EventoDe(d) \in emitidos /\ tentativa[d] \in Tentativas /\ desfecho[d] \in StatusEvento
  BY EventoEmVoo DEF IInv
<1>2. cobranca[tentativa[d]] # "NENHUMA"
  BY <1>1 DEF IInv, EventosCoerentes, EventoDe
<1> QED
  BY <1>1, <1>2 DEF IInv, EventosCoerentes

\* Every step is one of them.
LEMMA LinhaDoPasso ==
  ASSUME IInv, [Next]_vars
  PROVE  PassoDaLinha
<1> USE DEF LinhaParada, LinhaExpira, LinhaGrava, LinhaEstorna
<1>1. ASSUME NEW t \in Tentativas, IniciarPagamento(t) PROVE PassoDaLinha
  BY <1>1 DEF PassoDaLinha
<1>2. ASSUME NEW t \in Tentativas, NEW s \in Desfechos, Emitir(t, s) PROVE PassoDaLinha
  BY <1>2 DEF Emitir, PassoDaLinha
<1>3. ASSUME NEW d \in Entregas, NEW e \in emitidos, Receber(d, e) PROVE PassoDaLinha
  BY <1>3 DEF Receber, PassoDaLinha
<1>4. ASSUME NEW d \in Entregas, LerReserva(d) PROVE PassoDaLinha
  BY <1>4 DEF LerReserva, PassoDaLinha, ExpirarAoLer
<1>5. ASSUME NEW d \in Entregas, VerificarLocatario(d) PROVE PassoDaLinha
  BY <1>5 DEF VerificarLocatario, PassoDaLinha
<1>6. ASSUME NEW d \in Entregas, RecusarPorBloqueio(d) PROVE PassoDaLinha
  BY <1>6, HaCobranca DEF RecusarPorBloqueio, PassoDaLinha
<1>7. ASSUME NEW d \in Entregas, AtualizarVencida(d) PROVE PassoDaLinha
  BY <1>7 DEF AtualizarVencida, PassoDaLinha
<1>8. ASSUME NEW d \in Entregas, AtualizarConflito(d) PROVE PassoDaLinha
  BY <1>8 DEF AtualizarConflito, PassoDaLinha
<1>9. ASSUME NEW d \in Entregas, AtualizarJaAprovada(d) PROVE PassoDaLinha
  BY <1>9 DEF AtualizarJaAprovada, PassoDaLinha
<1>10. ASSUME NEW d \in Entregas, AtualizarInoperante(d) PROVE PassoDaLinha
  BY <1>10, HaCobranca DEF AtualizarInoperante, PassoDaLinha, Terminal, RecusaOperacional
<1>11. ASSUME NEW d \in Entregas, AtualizarGrava(d) PROVE PassoDaLinha
  BY <1>11, HaCobranca DEF AtualizarGrava, PassoDaLinha
<1>12. ASSUME NEW d \in Entregas, GerarCodigo(d) PROVE PassoDaLinha
  BY <1>12 DEF PassoDaLinha
<1>13. ASSUME NEW d \in Entregas, RelerReserva(d) PROVE PassoDaLinha
  BY <1>13 DEF RelerReserva, PassoDaLinha
<1>14. ASSUME NEW d \in Entregas, Notificar(d) PROVE PassoDaLinha
  BY <1>14 DEF Notificar, PassoDaLinha
<1>15. ASSUME NEW d \in Entregas, RegistrarRecebido(d) PROVE PassoDaLinha
  BY <1>15 DEF RegistrarRecebido, PassoDaLinha
<1>16. ASSUME NEW d \in Entregas, EstornarPorCancelamento(d) PROVE PassoDaLinha
  BY <1>16
     DEF EstornarPorCancelamento, PassoDaLinha, NovoEstorno, IInv, EntregasCoerentes,
         EntregaBem
<1>17. ASSUME NEW d \in Entregas, EstornarEvento(d) PROVE PassoDaLinha
  BY <1>17 DEF EstornarEvento, PassoDaLinha
<1>18. ASSUME NEW c \in Cancelamentos, LerParaCancelar(c) PROVE PassoDaLinha
  BY <1>18 DEF LerParaCancelar, PassoDaLinha, ExpirarAoLer
<1>19. ASSUME NEW c \in Cancelamentos, Cancelar(c) PROVE PassoDaLinha
  BY <1>19 DEF PassoDaLinha
<1>20. ASSUME NEW c \in Cancelamentos, CancelarConflito(c) PROVE PassoDaLinha
  BY <1>20 DEF CancelarConflito, PassoDaLinha
<1>21. ASSUME NEW c \in Cancelamentos, EstornarCancelada(c) PROVE PassoDaLinha
  BY <1>21 DEF EstornarCancelada, PassoDaLinha, NovoEstorno, IInv, CancelarCoerente
<1>22. ASSUME Expirar PROVE PassoDaLinha
  BY <1>22 DEF Expirar, PassoDaLinha
<1>23. ASSUME Desbloquear PROVE PassoDaLinha
  BY <1>23 DEF PassoDaLinha
<1>24. ASSUME Devolver PROVE PassoDaLinha
  BY <1>24 DEF PassoDaLinha
<1>25. ASSUME VencerPrazo PROVE PassoDaLinha
  BY <1>25 DEF VencerPrazo, PassoDaLinha
<1>26. ASSUME MudarBloqueio PROVE PassoDaLinha
  BY <1>26 DEF MudarBloqueio, PassoDaLinha
<1>27. ASSUME Indisponibilizar PROVE PassoDaLinha
  BY <1>27 DEF Indisponibilizar, PassoDaLinha
<1>28. ASSUME Restaurar PROVE PassoDaLinha
  BY <1>28 DEF Restaurar, PassoDaLinha
<1>29. ASSUME Queda PROVE PassoDaLinha
  BY <1>29 DEF Queda, PassoDaLinha
<1>30. CASE UNCHANGED vars
  BY <1>30 DEF vars, PassoDaLinha
<1> QED
  BY <1>1, <1>2, <1>3, <1>4, <1>5, <1>6, <1>7, <1>8, <1>9, <1>10, <1>11,
     <1>12, <1>13, <1>14, <1>15, <1>16, <1>17, <1>18, <1>19, <1>20, <1>21,
     <1>22, <1>23, <1>24, <1>25, <1>26, <1>27, <1>28, <1>29, <1>30 DEF Next,
     Passo

\* The rows keep their invariant.
LEMMA LinhaStep ==
  ASSUME IInv, TypeOK', [Next]_vars
  PROVE  LinhaBem'
<1> USE ConstantesAssumption
        DEF IInv, TypeOK, LinhaBem, MultaCoerente, ConfirmadaPaga, Mantida,
            ExpiradaSemEfeitos, CobrancaEspelhaReserva, CancelamentoCoerente
<1>1. CASE LinhaParada
  BY <1>1 DEF LinhaParada
<1>2. CASE LinhaExpira
  BY <1>2 DEF LinhaExpira, Vencida, ExpirarNoTx
<1>3. CASE LinhaGrava
  BY <1>3 DEF LinhaGrava, Terminal, GravarPagamento
<1>4. CASE LinhaEstorna
  BY <1>4 DEF LinhaEstorna
<1>5. ASSUME NEW t \in Tentativas, IniciarPagamento(t) PROVE LinhaBem'
  BY <1>5 DEF IniciarPagamento
<1>6. ASSUME NEW d \in Entregas, GerarCodigo(d) PROVE LinhaBem'
  BY <1>6 DEF GerarCodigo, PodeGerarCodigo, EntregasCoerentes, EntregaBem, PaPagos
<1>7. ASSUME NEW c \in Cancelamentos, Cancelar(c) PROVE LinhaBem'
  BY <1>7 DEF Cancelar, Cancelaveis, SituacaoDaMulta
<1>8. CASE Desbloquear
  BY <1>8 DEF Desbloquear
<1>9. CASE Devolver
  BY <1>9 DEF Devolver
<1> QED
  BY LinhaDoPasso, <1>1, <1>2, <1>3, <1>4, <1>5, <1>6, <1>7, <1>8, <1>9
     DEF PassoDaLinha

\* What is decided stays decided.
LEMMA LinhaAvanca ==
  ASSUME IInv, [Next]_vars
  PROVE  /\ status = "CANCELADA" => UNCHANGED <<reservaVars, cobrancaVars>>
         /\ statusPagamento = "SUCESSO" => statusPagamento' = "SUCESSO"
         /\ codigo # Nada => codigo' = codigo
         /\ estornoCancelamento # "NENHUM" => estornoCancelamento' # "NENHUM"
         /\ ultima # Nada => ultima' # Nada
         /\ \A t \in Tentativas : cobranca[t] # "NENHUMA" => cobranca'[t] # "NENHUMA"
<1> DEFINE Avanca ==
         /\ status = "CANCELADA" => UNCHANGED <<reservaVars, cobrancaVars>>
         /\ statusPagamento = "SUCESSO" => statusPagamento' = "SUCESSO"
         /\ codigo # Nada => codigo' = codigo
         /\ estornoCancelamento # "NENHUM" => estornoCancelamento' # "NENHUM"
         /\ ultima # Nada => ultima' # Nada
         /\ \A t \in Tentativas : cobranca[t] # "NENHUMA" => cobranca'[t] # "NENHUMA"
<1> USE ConstantesAssumption DEF IInv, TypeOK, LinhaBem, ConfirmadaPaga, Mantida
<1>1. CASE LinhaParada
  BY <1>1 DEF LinhaParada
<1>2. CASE LinhaExpira
  BY <1>2 DEF LinhaExpira, Vencida, ExpirarNoTx
<1>3. CASE LinhaGrava
  BY <1>3 DEF LinhaGrava, Terminal, GravarPagamento
<1>4. CASE LinhaEstorna
  BY <1>4 DEF LinhaEstorna
<1>5. ASSUME NEW t \in Tentativas, IniciarPagamento(t) PROVE Avanca
  BY <1>5 DEF IniciarPagamento
<1>6. ASSUME NEW d \in Entregas, GerarCodigo(d) PROVE Avanca
  BY <1>6 DEF GerarCodigo, PodeGerarCodigo
<1>7. ASSUME NEW c \in Cancelamentos, Cancelar(c) PROVE Avanca
  BY <1>7 DEF Cancelar, Cancelaveis
<1>8. CASE Desbloquear
  BY <1>8 DEF Desbloquear
<1>9. CASE Devolver
  BY <1>9 DEF Devolver
<1> QED
  BY LinhaDoPasso, <1>1, <1>2, <1>3, <1>4, <1>5, <1>6, <1>7, <1>8, <1>9
     DEF PassoDaLinha

-----------------------------------------------------------------------------
(* What a step may do to the requests in flight and to the ledger.         *)

RazaoParada == UNCHANGED <<recebidos, estorno, emails, gatewayVars>>
EntregaParada == UNCHANGED entregaVars /\ RazaoParada
Agiu(d) ==
  \A o \in Entregas \ {d} :
    /\ pc'[o] = pc[o] /\ tentativa'[o] = tentativa[o]
    /\ desfecho'[o] = desfecho[o] /\ destino'[o] = destino[o]
Quieta(d) == UNCHANGED emails \/ (pc[d] = "notificar" /\ emails' = emails + 1)
PassoDasEntregas ==
  \/ EntregaParada
  \/ UNCHANGED <<entregaVars, recebidos, estorno, emails, reconhecidos>>
     /\ \E t \in Tentativas, s \in Desfechos : Emitir(t, s)
  \/ Queda
  \/ \E d \in Entregas : Agiu(d) /\ Quieta(d) /\
       (Passo(d) \/ \E e \in emitidos : Receber(d, e))

LEMMA EntregaDoPasso ==
  ASSUME TypeOK, [Next]_vars
  PROVE  PassoDasEntregas
<1> USE DEF EntregaParada, RazaoParada, TypeOK
<1>1. ASSUME NEW t \in Tentativas, IniciarPagamento(t) PROVE PassoDasEntregas
  BY <1>1 DEF IniciarPagamento, PassoDasEntregas
<1>2. ASSUME NEW t \in Tentativas, NEW s \in Desfechos, Emitir(t, s) PROVE PassoDasEntregas
  BY <1>2 DEF PassoDasEntregas, Emitir
<1>3. ASSUME NEW d \in Entregas, NEW e \in emitidos, Receber(d, e) PROVE PassoDasEntregas
  BY <1>3 DEF Receber, IrPara, Agiu, Quieta, PassoDasEntregas
<1>4. ASSUME NEW d \in Entregas, LerReserva(d) PROVE PassoDasEntregas
  BY <1>4 DEF LerReserva, IrPara, Concluir, Responder, Agiu, Quieta, PassoDasEntregas, Passo
<1>5. ASSUME NEW d \in Entregas, VerificarLocatario(d) PROVE PassoDasEntregas
  BY <1>5
     DEF VerificarLocatario, IrPara, Concluir, Responder, Agiu, Quieta, PassoDasEntregas,
         Passo
<1>6. ASSUME NEW d \in Entregas, RecusarPorBloqueio(d) PROVE PassoDasEntregas
  BY <1>6
     DEF RecusarPorBloqueio, IrPara, Concluir, Responder, Agiu, Quieta, PassoDasEntregas,
         Passo
<1>7. ASSUME NEW d \in Entregas, AtualizarVencida(d) PROVE PassoDasEntregas
  BY <1>7
     DEF AtualizarVencida, IrPara, Concluir, Responder, Agiu, Quieta, PassoDasEntregas, Passo
<1>8. ASSUME NEW d \in Entregas, AtualizarConflito(d) PROVE PassoDasEntregas
  BY <1>8
     DEF AtualizarConflito, IrPara, Concluir, Responder, Agiu, Quieta, PassoDasEntregas, Passo
<1>9. ASSUME NEW d \in Entregas, AtualizarJaAprovada(d) PROVE PassoDasEntregas
  BY <1>9
     DEF AtualizarJaAprovada, IrPara, Concluir, Responder, Agiu, Quieta, PassoDasEntregas,
         Passo
<1>10. ASSUME NEW d \in Entregas, AtualizarInoperante(d) PROVE PassoDasEntregas
  BY <1>10
     DEF AtualizarInoperante, IrPara, Concluir, Responder, Agiu, Quieta, PassoDasEntregas,
         Passo
<1>11. ASSUME NEW d \in Entregas, AtualizarGrava(d) PROVE PassoDasEntregas
  BY <1>11
     DEF AtualizarGrava, IrPara, Concluir, Responder, Agiu, Quieta, PassoDasEntregas, Passo
<1>12. ASSUME NEW d \in Entregas, GerarCodigo(d) PROVE PassoDasEntregas
  BY <1>12 DEF GerarCodigo, IrPara, Concluir, Responder, Agiu, Quieta, PassoDasEntregas, Passo
<1>13. ASSUME NEW d \in Entregas, RelerReserva(d) PROVE PassoDasEntregas
  BY <1>13 DEF RelerReserva, IrPara, Concluir, Responder, Agiu, Quieta, PassoDasEntregas, Passo
<1>14. ASSUME NEW d \in Entregas, Notificar(d) PROVE PassoDasEntregas
  BY <1>14 DEF Notificar, IrPara, Concluir, Responder, Agiu, Quieta, PassoDasEntregas, Passo
<1>15. ASSUME NEW d \in Entregas, RegistrarRecebido(d) PROVE PassoDasEntregas
  BY <1>15
     DEF RegistrarRecebido, IrPara, Concluir, Responder, Agiu, Quieta, PassoDasEntregas, Passo
<1>16. ASSUME NEW d \in Entregas, EstornarPorCancelamento(d) PROVE PassoDasEntregas
  BY <1>16
     DEF EstornarPorCancelamento, IrPara, Concluir, Responder, Agiu, Quieta, PassoDasEntregas,
         Passo
<1>17. ASSUME NEW d \in Entregas, EstornarEvento(d) PROVE PassoDasEntregas
  BY <1>17
     DEF EstornarEvento, IrPara, Concluir, Responder, Agiu, Quieta, PassoDasEntregas, Passo
<1>18. ASSUME NEW c \in Cancelamentos, LerParaCancelar(c) PROVE PassoDasEntregas
  BY <1>18 DEF LerParaCancelar, PassoDasEntregas
<1>19. ASSUME NEW c \in Cancelamentos, Cancelar(c) PROVE PassoDasEntregas
  BY <1>19 DEF Cancelar, PassoDasEntregas
<1>20. ASSUME NEW c \in Cancelamentos, CancelarConflito(c) PROVE PassoDasEntregas
  BY <1>20 DEF CancelarConflito, PassoDasEntregas
<1>21. ASSUME NEW c \in Cancelamentos, EstornarCancelada(c) PROVE PassoDasEntregas
  BY <1>21 DEF EstornarCancelada, PassoDasEntregas
<1>22. ASSUME Expirar PROVE PassoDasEntregas
  BY <1>22 DEF Expirar, PassoDasEntregas
<1>23. ASSUME Desbloquear PROVE PassoDasEntregas
  BY <1>23 DEF Desbloquear, PassoDasEntregas
<1>24. ASSUME Devolver PROVE PassoDasEntregas
  BY <1>24 DEF Devolver, PassoDasEntregas
<1>25. ASSUME VencerPrazo PROVE PassoDasEntregas
  BY <1>25 DEF VencerPrazo, PassoDasEntregas
<1>26. ASSUME MudarBloqueio PROVE PassoDasEntregas
  BY <1>26 DEF MudarBloqueio, PassoDasEntregas
<1>27. ASSUME Indisponibilizar PROVE PassoDasEntregas
  BY <1>27 DEF Indisponibilizar, PassoDasEntregas
<1>28. ASSUME Restaurar PROVE PassoDasEntregas
  BY <1>28 DEF Restaurar, PassoDasEntregas
<1>29. ASSUME Queda PROVE PassoDasEntregas
  BY <1>29 DEF PassoDasEntregas
<1>30. CASE UNCHANGED vars
  BY <1>30 DEF vars, PassoDasEntregas
<1> QED
  BY <1>1, <1>2, <1>3, <1>4, <1>5, <1>6, <1>7, <1>8, <1>9, <1>10, <1>11,
     <1>12, <1>13, <1>14, <1>15, <1>16, <1>17, <1>18, <1>19, <1>20, <1>21,
     <1>22, <1>23, <1>24, <1>25, <1>26, <1>27, <1>28, <1>29, <1>30 DEF Next,
     Passo

\* The ledger and the gateway's events only grow.
LEMMA RazaoAvanca ==
  ASSUME IInv, [Next]_vars
  PROVE  /\ recebidos \subseteq recebidos'
         /\ \A t \in Tentativas : estorno[t] # "NENHUM" => estorno'[t] # "NENHUM"
         /\ emitidos \subseteq emitidos'
<1> DEFINE Avanca ==
         /\ recebidos \subseteq recebidos'
         /\ \A t \in Tentativas : estorno[t] # "NENHUM" => estorno'[t] # "NENHUM"
         /\ emitidos \subseteq emitidos'
<1> USE DEF IInv, TypeOK
<1>1. CASE EntregaParada
  BY <1>1 DEF EntregaParada, RazaoParada
<1>2. ASSUME NEW t \in Tentativas, NEW s \in Desfechos, Emitir(t, s),
             UNCHANGED <<entregaVars, recebidos, estorno, emails, reconhecidos>>
      PROVE  Avanca
  BY <1>2 DEF Emitir
<1>3. CASE Queda
  BY <1>3 DEF Queda
<1>4. ASSUME NEW d \in Entregas, NEW e \in emitidos, Receber(d, e) PROVE Avanca
  BY <1>4 DEF Receber
<1>5. ASSUME NEW d \in Entregas, Passo(d) PROVE Avanca
  <2>1. CASE RegistrarRecebido(d)
    BY <2>1 DEF RegistrarRecebido
  <2>2. CASE EstornarEvento(d)
    BY <2>2 DEF EstornarEvento, NovoEstorno
  <2>3. CASE ~RegistrarRecebido(d) /\ ~EstornarEvento(d)
    BY <1>5, <2>3 DEF Passo, LerReserva, VerificarLocatario, RecusarPorBloqueio,
       AtualizarVencida, AtualizarConflito, AtualizarJaAprovada,
       AtualizarInoperante, AtualizarGrava, GerarCodigo, RelerReserva, Notificar,
       EstornarPorCancelamento
  <2> QED
    BY <2>1, <2>2, <2>3
<1> QED
  BY EntregaDoPasso, <1>1, <1>2, <1>3, <1>4, <1>5 DEF PassoDasEntregas

\* A delivery after its own step.
LEMMA EntregaAgiu ==
  ASSUME IInv, TypeOK', [Next]_vars, NEW d \in Entregas,
         Passo(d) \/ \E e \in emitidos : Receber(d, e)
  PROVE  /\ EntregaBem(d)' /\ EmailBem(d)'
         /\ pc'[d] # "ociosa" => EventoDe(d)' \in emitidos'
<1> DEFINE Bem == /\ EntregaBem(d)' /\ EmailBem(d)'
                  /\ pc'[d] # "ociosa" => EventoDe(d)' \in emitidos'
<1>0. /\ pc \in [Entregas -> PcEntrega] /\ pc[d] \in PcEntrega
      /\ tentativa \in [Entregas -> Tentativas \cup {Nada}]
      /\ desfecho \in [Entregas -> Desfechos \cup {Nada}]
      /\ destino \in [Entregas -> Destinos]
      /\ EntregaBem(d) /\ EmailBem(d)
      /\ pc[d] # "ociosa" => EventoDe(d) \in emitidos
      /\ codigo \in Entregas \cup {Nada} /\ emails \in Nat
  BY DEF IInv, TypeOK, EntregasCoerentes, EventosCoerentes
<1>l. LinhaBem /\ UmEmail /\ Nada \notin Entregas
  BY ConstantesAssumption DEF IInv
<1> USE <1>0, <1>l DEF EntregaBem, EmailBem, PaPagos, PaAprovacao, IrPara
<1>1. ASSUME NEW e \in emitidos, Receber(d, e) PROVE Bem
  <2>1. e \in Evento
    BY DEF IInv, TypeOK
  <2>2. EventoDe(d)' = e
    BY <1>1, <2>1 DEF Receber, EventoDe, Evento
  <2> QED
    BY <1>1, <2>2 DEF Receber
<1>2. ASSUME LerReserva(d) PROVE Bem
  BY <1>2 DEF LerReserva, ExpirarAoLer, ExpirarNoTx, Vencida, Concluir,
     Responder, DestinoDe, PcDoDestino, Sucesso, AprovadaSemCodigo,
     EventoDe, LinhaBem, ConfirmadaPaga
<1>3. ASSUME VerificarLocatario(d) PROVE Bem
  BY <1>3 DEF VerificarLocatario, EventoDe
<1>4. ASSUME RecusarPorBloqueio(d) PROVE Bem
  BY <1>4 DEF RecusarPorBloqueio, ExpirarNoTx, GravarPagamento, EventoDe
<1>5. ASSUME AtualizarVencida(d) PROVE Bem
  BY <1>5 DEF AtualizarVencida, Vencida, ExpirarNoTx, Concluir, Responder,
     DestinoDe, PcDoDestino, Sucesso, EventoDe
<1>6. ASSUME AtualizarConflito(d) PROVE Bem
  BY <1>6 DEF AtualizarConflito, EventoDe
<1>7. ASSUME AtualizarJaAprovada(d) PROVE Bem
  BY <1>7 DEF AtualizarJaAprovada, Responder, EventoDe
<1>8. ASSUME AtualizarInoperante(d) PROVE Bem
  BY <1>8 DEF AtualizarInoperante, RecusaOperacional, GravarPagamento,
     EventoDe
<1>9. ASSUME AtualizarGrava(d) PROVE Bem
  BY <1>9 DEF AtualizarGrava, GravarPagamento, Responder, Sucesso, EventoDe
<1>10. ASSUME GerarCodigo(d) PROVE Bem
  BY <1>10 DEF GerarCodigo, PodeGerarCodigo, EventoDe, UmEmail
<1>11. ASSUME RelerReserva(d) PROVE Bem
  BY <1>11 DEF RelerReserva, CodigoProprio, DestinoDe, PcDoDestino, EventoDe
<1>12. ASSUME Notificar(d) PROVE Bem
  BY <1>12 DEF Notificar, PcDoDestino, EventoDe
<1>13. ASSUME RegistrarRecebido(d) PROVE Bem
  BY <1>13 DEF RegistrarRecebido, Responder, EventoDe
<1>14. ASSUME EstornarPorCancelamento(d) PROVE Bem
  BY <1>14 DEF EstornarPorCancelamento, Responder, EventoDe
<1>15. ASSUME EstornarEvento(d) PROVE Bem
  BY <1>15 DEF EstornarEvento, Responder, EventoDe
<1> QED
  BY <1>1, <1>2, <1>3, <1>4, <1>5, <1>6, <1>7, <1>8, <1>9, <1>10, <1>11,
     <1>12, <1>13, <1>14, <1>15 DEF Passo

\* A delivery after someone else's step: what it relies on is what nobody undoes.
LEMMA OutraEntrega ==
  ASSUME IInv, [Next]_vars, NEW o \in Entregas,
         pc'[o] = pc[o] \/ pc'[o] = "ociosa",
         tentativa'[o] = tentativa[o],
         desfecho'[o] = desfecho[o], destino'[o] = destino[o],
         codigo' = o => codigo = o,
         emails' = emails \/ codigo # o
  PROVE  /\ EntregaBem(o)' /\ EmailBem(o)'
         /\ pc'[o] # "ociosa" => EventoDe(o)' \in emitidos'
<1>1. EntregaBem(o) /\ EmailBem(o) /\ (pc[o] # "ociosa" => EventoDe(o) \in emitidos)
  BY DEF IInv, EntregasCoerentes, EventosCoerentes
<1>2. EntregaBem(o)'
  BY <1>1, LinhaAvanca, RazaoAvanca DEF EntregaBem, PaPagos, PaAprovacao
<1>3. EmailBem(o)'
  BY <1>1, LinhaAvanca, ConstantesAssumption DEF EmailBem
<1>4. pc'[o] # "ociosa" => EventoDe(o)' \in emitidos'
  BY <1>1, RazaoAvanca DEF EventoDe
<1> QED
  BY <1>2, <1>3, <1>4

\* Every delivery keeps its part of the invariant.
LEMMA EntregasStep ==
  ASSUME IInv, TypeOK', [Next]_vars
  PROVE  EntregasCoerentes' /\ EventosCoerentes'
<1>t. /\ pc \in [Entregas -> PcEntrega]
      /\ TypeOK
  BY DEF IInv, TypeOK
<1>e. \A e \in emitidos' : cobranca'[e.tentativa] # "NENHUMA"
  <2>1. CASE emitidos' = emitidos
    BY <2>1, LinhaAvanca DEF IInv, TypeOK, EventosCoerentes, Evento
  <2>2. ASSUME NEW t \in Tentativas, NEW s \in Desfechos, Emitir(t, s)
        PROVE  \A e \in emitidos' : cobranca'[e.tentativa] # "NENHUMA"
    BY <2>2 DEF Emitir, IInv, EventosCoerentes
  <2>3. ASSUME NEW d \in Entregas, Passo(d) \/ \E e \in emitidos : Receber(d, e)
        PROVE  emitidos' = emitidos
    BY <2>3 DEF Passo, Receber, LerReserva, VerificarLocatario,
       RecusarPorBloqueio, AtualizarVencida, AtualizarConflito,
       AtualizarJaAprovada, AtualizarInoperante, AtualizarGrava, GerarCodigo,
       RelerReserva, Notificar, RegistrarRecebido, EstornarPorCancelamento,
       EstornarEvento
  <2> QED
    BY <1>t, EntregaDoPasso, <2>1, <2>2, <2>3
       DEF PassoDasEntregas, EntregaParada, RazaoParada, Queda
<1>u. ultima' = Nada => \A t \in Tentativas : cobranca'[t] = "NENHUMA"
  <2> SUFFICES ASSUME ultima' = Nada, NEW t \in Tentativas
               PROVE  cobranca'[t] = "NENHUMA"
    OBVIOUS
  <2>1. ultima = Nada /\ cobranca[t] = "NENHUMA"
    BY LinhaAvanca DEF IInv, EventosCoerentes
  <2>2. CASE LinhaExpira
    BY <2>1, <2>2 DEF LinhaExpira, ExpirarNoTx
  <2>3. CASE cobranca' = cobranca
    BY <2>1, <2>3
  <2>4. ASSUME NEW u \in Tentativas, IniciarPagamento(u) PROVE FALSE
    BY <2>4, ConstantesAssumption DEF IniciarPagamento
  <2> QED
    BY <2>1, <2>2, <2>3, <2>4, LinhaDoPasso
       DEF PassoDaLinha, LinhaParada, LinhaGrava, LinhaEstorna, GerarCodigo,
           Cancelar, Desbloquear, Devolver
<1> DEFINE Bem(d) == /\ EntregaBem(d)' /\ EmailBem(d)'
                     /\ pc'[d] # "ociosa" => EventoDe(d)' \in emitidos'
<1>c. \A d \in Entregas : codigo' = d => codigo = d \/ GerarCodigo(d)
  BY LinhaDoPasso, LinhaAvanca, ConstantesAssumption
     DEF PassoDaLinha, LinhaParada, LinhaExpira, LinhaGrava, LinhaEstorna,
         ExpirarNoTx, GravarPagamento, IniciarPagamento, GerarCodigo, Cancelar,
         Desbloquear, Devolver
<1>1. ASSUME NEW o \in Entregas PROVE Bem(o)
  <2>1. CASE Passo(o) \/ \E e \in emitidos : Receber(o, e)
    BY <2>1, EntregaAgiu
  <2>2. CASE UNCHANGED <<entregaVars, emails>>
    <3>1. ~GerarCodigo(o)
      BY <1>t, <2>2 DEF GerarCodigo, IrPara
    <3> QED
      BY <1>c, <2>2, <3>1, OutraEntrega
  <2>3. CASE Queda
    <3>1. pc'[o] = "ociosa" /\ codigo' = codigo
      BY <2>3 DEF Queda
    <3> QED
      BY <2>3, <3>1, OutraEntrega DEF Queda
  <2>4. ASSUME NEW d \in Entregas \ {o}, Agiu(d), Quieta(d)
        PROVE  Bem(o)
    <3>1. ~GerarCodigo(o)
      BY <1>t, <2>4 DEF GerarCodigo, IrPara, Agiu
    <3>2. emails' = emails \/ codigo # o
      BY <2>4 DEF Quieta, IInv, EntregasCoerentes, EmailBem
    <3> QED
      BY <1>c, <2>4, <3>1, <3>2, OutraEntrega DEF Agiu
  <2> QED
    BY <1>t, EntregaDoPasso, <2>1, <2>2, <2>3, <2>4
       DEF PassoDasEntregas, EntregaParada, RazaoParada
<1> QED
  BY <1>e, <1>u, <1>1 DEF EntregasCoerentes, EventosCoerentes

\* A cancellation's refund stays due.
LEMMA CancelarStep ==
  ASSUME IInv, TypeOK', [Next]_vars
  PROVE  CancelarCoerente'
<1> DEFINE Devido == status' = "CANCELADA" /\ statusPagamento' = "SUCESSO"
<1> SUFFICES ASSUME NEW k \in Cancelamentos, pcCancelar'[k] = "estornar"
             PROVE  Devido
  BY DEF CancelarCoerente
<1>t. pcCancelar \in [Cancelamentos -> PcCancelamento]
  BY DEF IInv, TypeOK
<1>1. CASE pcCancelar[k] = "estornar"
  BY <1>1, LinhaAvanca DEF IInv, CancelarCoerente
<1>2. ASSUME pcCancelar[k] # "estornar",
             NEW c \in Cancelamentos, LerParaCancelar(c) \/ Cancelar(c)
      PROVE  Devido
  BY <1>t, <1>2 DEF LerParaCancelar, Cancelar
<1>3. ASSUME pcCancelar[k] # "estornar",
             ~\E c \in Cancelamentos : LerParaCancelar(c) \/ Cancelar(c)
      PROVE  FALSE
  BY <1>t, <1>3
     DEF Next, vars, IniciarPagamento, Emitir, Receber, Passo, LerReserva,
         VerificarLocatario, RecusarPorBloqueio, AtualizarVencida,
         AtualizarConflito, AtualizarJaAprovada, AtualizarInoperante,
         AtualizarGrava, GerarCodigo, RelerReserva, Notificar,
         RegistrarRecebido, EstornarPorCancelamento, EstornarEvento,
         CancelarConflito, EstornarCancelada, Expirar, Desbloquear, Devolver,
         VencerPrazo, MudarBloqueio, Indisponibilizar, Restaurar, Queda
<1> QED
  BY <1>1, <1>2, <1>3

\* What one more acknowledged approval must find in the ledger and the rows.
Acertado(e) ==
  e.desfecho = "SUCESSO" =>
    /\ e.tentativa \in recebidos
    /\ estorno[e.tentativa] = "NENHUM" => statusPagamento = "SUCESSO"
    /\ status = "CANCELADA" =>
         estorno[e.tentativa] # "NENHUM" \/ estornoCancelamento # "NENHUM"

LEMMA ReconhecidoStep ==
  ASSUME IInv, TypeOK', LinhaBem', [Next]_vars
  PROVE  ReconhecidoTemDestino'
<1>t. /\ TypeOK /\ CancelamentoCoerente /\ CancelamentoCoerente'
      /\ status' \in StatusReserva
  BY DEF IInv, LinhaBem, TypeOK
<1>1. ASSUME NEW e \in reconhecidos PROVE Acertado(e)'
  <2>1. e.tentativa \in Tentativas /\ Acertado(e)
    BY <1>1, <1>t DEF IInv, ReconhecidoTemDestino, Acertado, TypeOK, Evento
  <2> QED
    BY <1>t, <2>1, LinhaAvanca, RazaoAvanca DEF Acertado, CancelamentoCoerente
<1>2. ASSUME NEW d \in Entregas, Passo(d),
             NEW e \in reconhecidos', e \notin reconhecidos
      PROVE  Acertado(e)'
  <2>1. reconhecidos' # reconhecidos
    BY <1>2
  <2>2. e = EventoDe(d)
    BY <1>2 DEF Passo, LerReserva, VerificarLocatario, RecusarPorBloqueio,
       AtualizarVencida, AtualizarConflito, AtualizarJaAprovada,
       AtualizarInoperante, AtualizarGrava, GerarCodigo, RelerReserva,
       Notificar, RegistrarRecebido, EstornarPorCancelamento, EstornarEvento,
       Concluir, Responder
  <2>3. e.tentativa = tentativa[d] /\ e.desfecho = desfecho[d]
    BY <2>2 DEF EventoDe
  <2>4. EntregaBem(d) /\ estorno \in [Tentativas -> StatusEstorno]
    BY <1>t DEF IInv, EntregasCoerentes, TypeOK
  <2>5. CASE RegistrarRecebido(d)
    BY <1>t, <2>3, <2>4, <2>5
       DEF RegistrarRecebido, EntregaBem, Acertado, CancelamentoCoerente
  <2>6. CASE EstornarPorCancelamento(d)
    BY <1>t, <2>3, <2>4, <2>6
       DEF EstornarPorCancelamento, NovoEstorno, EntregaBem, Acertado
  <2>7. CASE EstornarEvento(d)
    <3>1. tentativa[d] \in Tentativas
      BY <2>7, EventoEmVoo DEF IInv, EstornarEvento
    <3> QED
      BY <2>3, <2>4, <2>7, <3>1 DEF EstornarEvento, NovoEstorno, Acertado
  <2>8. CASE ~RegistrarRecebido(d) /\ ~EstornarPorCancelamento(d) /\ ~EstornarEvento(d)
    <3>1. desfecho[d] # "SUCESSO"
      BY <1>2, <2>1, <2>8
         DEF Passo, LerReserva, VerificarLocatario, RecusarPorBloqueio,
             AtualizarVencida, AtualizarConflito, AtualizarJaAprovada,
             AtualizarInoperante, AtualizarGrava, GerarCodigo, RelerReserva,
             Notificar, Concluir, Responder, Sucesso, Terminal
    <3> QED
      BY <2>3, <3>1 DEF Acertado
  <2> QED
    BY <2>5, <2>6, <2>7, <2>8
<1>3. ASSUME NEW e \in reconhecidos' PROVE Acertado(e)'
  <2>1. CASE \E d \in Entregas : Passo(d)
    BY <1>1, <1>2, <2>1
  <2>2. CASE reconhecidos' = reconhecidos
    BY <1>1, <2>2
  <2> QED
    BY <1>t, <2>1, <2>2, EntregaDoPasso
       DEF PassoDasEntregas, EntregaParada, RazaoParada, Queda, Receber
<1> QED
  BY <1>3 DEF ReconhecidoTemDestino, Acertado

\* One e-mail at most.
LEMMA UmEmailStep ==
  ASSUME IInv, TypeOK', [Next]_vars
  PROVE  UmEmail'
<1>t. /\ TypeOK /\ UmEmail /\ emails \in Nat
      /\ codigo \in Entregas \cup {Nada} /\ Nada \notin Entregas
  BY ConstantesAssumption DEF IInv, TypeOK
<1>1. CASE UNCHANGED emails
  BY <1>t, <1>1, LinhaAvanca DEF UmEmail
<1>2. ASSUME NEW d \in Entregas, pc[d] = "notificar", emails' = emails + 1
      PROVE  UmEmail'
  <2>1. codigo = d /\ emails = 0
    BY <1>2, <1>t DEF IInv, EntregasCoerentes, EmailBem
  <2>2. codigo' = d
    BY <1>t, <2>1, LinhaAvanca
  <2> QED
    BY <1>2, <1>t, <2>1, <2>2 DEF UmEmail
<1> QED
  BY <1>t, <1>1, <1>2, EntregaDoPasso
     DEF PassoDasEntregas, EntregaParada, RazaoParada, Quieta, Queda

\* The invariant is inductive.
LEMMA IInvStep == IInv /\ [Next]_vars => IInv'
<1> SUFFICES ASSUME IInv, [Next]_vars PROVE IInv'
  OBVIOUS
<1>1. TypeOK'
  BY TypeOKStep DEF IInv
<1>2. LinhaBem'
  BY <1>1, LinhaStep
<1> QED
  BY <1>1, <1>2, EntregasStep, CancelarStep, ReconhecidoStep, UmEmailStep DEF IInv

-----------------------------------------------------------------------------
(* Theorems.                                                               *)

\* IInv holds in every reachable state.
THEOREM SpecIInv == Spec => []IInv
BY InitIInv, IInvStep, PTL DEF Spec

\* Every variable keeps its type (the columns of the rows, the handlers' places).
THEOREM SpecTypeOK == Spec => []TypeOK
<1>1. IInv => TypeOK
  BY DEF IInv
<1> QED
  BY <1>1, SpecIInv, PTL

\* A reservation is confirmed, and has a code, only after an approval.
THEOREM SpecConfirmadaPaga == Spec => []ConfirmadaPaga
<1>1. IInv => ConfirmadaPaga
  BY DEF IInv, LinhaBem
<1> QED
  BY <1>1, SpecIInv, PTL

\* An expired reservation has no payment, no code, no fee and no refund.
THEOREM SpecExpiradaSemEfeitos == Spec => []ExpiradaSemEfeitos
<1>1. IInv => ExpiradaSemEfeitos
  BY DEF IInv, LinhaBem
<1> QED
  BY <1>1, SpecIInv, PTL

\* The newest charge and the reservation tell the same payment status.
THEOREM SpecCobrancaEspelhaReserva == Spec => []CobrancaEspelhaReserva
<1>1. IInv => CobrancaEspelhaReserva
  BY DEF IInv, LinhaBem
<1> QED
  BY <1>1, SpecIInv, PTL

\* A cancelled reservation owes a fee or has a refund, never both.
THEOREM SpecCancelamentoCoerente == Spec => []CancelamentoCoerente
<1>1. IInv => CancelamentoCoerente
  BY DEF IInv, LinhaBem
<1> QED
  BY <1>1, SpecIInv, PTL

\* Money the gateway was told we have is in the ledger and paid for or refunded.
THEOREM SpecReconhecidoTemDestino == Spec => []ReconhecidoTemDestino
<1>1. IInv => ReconhecidoTemDestino
  BY DEF IInv
<1> QED
  BY <1>1, SpecIInv, PTL

\* The confirmation e-mail is sent at most once.
THEOREM SpecUmEmail == Spec => []UmEmail
<1>1. IInv => UmEmail
  BY DEF IInv
<1> QED
  BY <1>1, SpecIInv, PTL

\* Cancelled is final, an approval is final, a code is final.
THEOREM SpecHistoricoImutavel == Spec => HistoricoImutavel
<1> DEFINE Imutavel ==
      [ /\ status = "CANCELADA" => UNCHANGED <<reservaVars, cobrancaVars>>
        /\ statusPagamento = "SUCESSO" => statusPagamento' = "SUCESSO"
        /\ codigo # Nada => codigo' = codigo
      ]_<<reservaVars, cobrancaVars>>
<1>1. IInv /\ [Next]_vars => Imutavel
  BY LinhaAvanca
<1> QED
  BY <1>1, SpecIInv, PTL DEF Spec, HistoricoImutavel

\* Each step is a step of the life cycle, or leaves it as it is.
LEMMA CicloStep ==
  ASSUME IInv, [Next]_vars
  PROVE  [Ciclo!Next]_<<status, statusPagamento = "SUCESSO">>
<1> DEFINE Passou == [Ciclo!Next]_<<status, statusPagamento = "SUCESSO">>
<1>0. /\ status \in StatusReserva
      /\ codigo # Nada => statusPagamento = "SUCESSO"
      /\ Mantida => codigo # Nada
  BY DEF IInv, TypeOK, LinhaBem, ConfirmadaPaga
<1> USE <1>0 DEF Mantida, Ciclo!Next, Ciclo!Aprovar, Ciclo!Confirmar,
            Ciclo!Retirar, Ciclo!Devolver, Ciclo!Encerrar
<1>1. CASE LinhaParada
  BY <1>1 DEF LinhaParada
<1>2. CASE LinhaExpira
  BY <1>2 DEF LinhaExpira, Vencida, ExpirarNoTx
<1>3. CASE LinhaGrava
  <2>1. PICK s \in StatusEvento : ~Terminal(s) /\ GravarPagamento(s)
    BY <1>3 DEF LinhaGrava
  <2>2. CASE statusPagamento = "SUCESSO"
    BY <2>1, <2>2 DEF Terminal, GravarPagamento
  <2>3. CASE statusPagamento # "SUCESSO" /\ s = "SUCESSO"
    <3>1. status = "AGUARDANDO_PAGAMENTO"
      BY <2>1, <2>3 DEF Terminal
    <3> QED
      BY <2>1, <2>3, <3>1 DEF GravarPagamento
  <2>4. CASE statusPagamento # "SUCESSO" /\ s # "SUCESSO"
    BY <2>1, <2>4 DEF GravarPagamento
  <2> QED
    BY <2>2, <2>3, <2>4
<1>4. CASE LinhaEstorna
  BY <1>4 DEF LinhaEstorna
<1>5. ASSUME NEW t \in Tentativas, IniciarPagamento(t) PROVE Passou
  BY <1>5 DEF IniciarPagamento
<1>6. ASSUME NEW d \in Entregas, GerarCodigo(d) PROVE Passou
  <2>1. statusPagamento = "SUCESSO"
    BY <1>6 DEF GerarCodigo, IInv, EntregasCoerentes, EntregaBem, PaPagos
  <2> QED
    BY <1>6, <2>1 DEF GerarCodigo, PodeGerarCodigo
<1>7. ASSUME NEW c \in Cancelamentos, Cancelar(c) PROVE Passou
  BY <1>7 DEF Cancelar, Cancelaveis
<1>8. CASE Desbloquear
  BY <1>8 DEF Desbloquear
<1>9. CASE Devolver
  BY <1>9 DEF Devolver
<1> QED
  BY LinhaDoPasso, <1>1, <1>2, <1>3, <1>4, <1>5, <1>6, <1>7, <1>8, <1>9
     DEF PassoDaLinha

\* The two-phase confirmation, with everything that may interleave with it,
\* implements the life cycle of CicloReserva.
THEOREM SpecImplementaCiclo == Spec => ImplementaCiclo
<1>1. Init => Ciclo!Init
  BY DEF Init, Ciclo!Init
<1>2. IInv /\ [Next]_vars => [Ciclo!Next]_<<status, statusPagamento = "SUCESSO">>
  BY CicloStep
<1> QED
  BY <1>1, <1>2, SpecIInv, PTL DEF Spec, ImplementaCiclo, Ciclo!Spec

-----------------------------------------------------------------------------
(* A reservation that is kept rests on money that is kept, while deliveries  *)
(* are handled one at a time.                                                *)

EntregaUnica == \A d, o \in Entregas : d = o

\* Some approval was reported and its money was not given back.
TemPagamento ==
  \E t \in Tentativas :
    /\ [tentativa |-> t, desfecho |-> "SUCESSO"] \in emitidos
    /\ estorno[t] = "NENHUM"

\* What the only delivery may rely on: nobody else approves while it is past
\* the read of an unpaid reservation, an event on its way to an approval was
\* not refunded, and one on its way to its refund does not pay the reservation.
SerieBem(d) ==
  /\ pc[d] \in {"liberar", "recusar"} => statusPagamento # "SUCESSO"
  /\ pc[d] \in {"ler", "liberar", "atualizar"} /\ Sucesso(d) =>
       estorno[tentativa[d]] = "NENHUM" \/ statusPagamento = "SUCESSO"
  /\ pc[d] = "estornarEvento" =>
       estorno[tentativa[d]] # "NENHUM" \/ statusPagamento # "SUCESSO"

SerieInv ==
  /\ statusPagamento = "SUCESSO" => TemPagamento
  /\ \A t \in Tentativas : estorno[t] # "NENHUM" => t \in recebidos
  /\ \A d \in Entregas : SerieBem(d)

\* What a step that is not a delivery's leaves of it.
Alheio ==
  /\ estorno' = estorno /\ recebidos' = recebidos
  /\ emitidos \subseteq emitidos'
  /\ statusPagamento' = "SUCESSO" => statusPagamento = "SUCESSO"
  /\ \/ UNCHANGED <<pc, tentativa, desfecho>>
     \/ \A d \in Entregas : pc'[d] = "ociosa"

\* A step is one delivery's, or leaves payment and refunds of events alone.
LEMMA AlheioOuEntrega ==
  ASSUME IInv, [Next]_vars
  PROVE  \/ Alheio
         \/ \E d \in Entregas : Passo(d) \/ \E e \in emitidos : Receber(d, e)
<1> USE DEF Alheio
<1>1. ASSUME NEW t \in Tentativas, IniciarPagamento(t) PROVE Alheio
  BY <1>1 DEF IniciarPagamento
<1>2. ASSUME NEW t \in Tentativas, NEW s \in Desfechos, Emitir(t, s) PROVE Alheio
  BY <1>2 DEF Emitir
<1>3. ASSUME NEW c \in Cancelamentos,
             LerParaCancelar(c) \/ Cancelar(c) \/ CancelarConflito(c) \/ EstornarCancelada(c)
      PROVE  Alheio
  BY <1>3 DEF LerParaCancelar, Cancelar, CancelarConflito, EstornarCancelada,
              ExpirarAoLer, Vencida, ExpirarNoTx
<1>4. CASE Expirar \/ Desbloquear \/ Devolver
  BY <1>4 DEF Expirar, Desbloquear, Devolver, Vencida, ExpirarNoTx
<1>5. CASE VencerPrazo \/ MudarBloqueio \/ Indisponibilizar \/ Restaurar
  BY <1>5 DEF VencerPrazo, MudarBloqueio, Indisponibilizar, Restaurar
<1>6. CASE Queda
  BY <1>6 DEF Queda
<1>7. CASE UNCHANGED vars
  BY <1>7 DEF vars
<1> QED
  BY <1>1, <1>2, <1>3, <1>4, <1>5, <1>6, <1>7 DEF Next

\* The step of the only delivery.
LEMMA SerieEntrega ==
  ASSUME IInv, TypeOK', [Next]_vars, EntregaUnica, SerieInv, NEW d \in Entregas,
         Passo(d) \/ \E e \in emitidos : Receber(d, e)
  PROVE  SerieInv'
<1> USE DEF SerieInv
<1>t. /\ \A o \in Entregas : o = d
      /\ pc \in [Entregas -> PcEntrega] /\ desfecho \in [Entregas -> Desfechos \cup {Nada}]
      /\ tentativa \in [Entregas -> Tentativas \cup {Nada}]
      /\ estorno \in [Tentativas -> StatusEstorno]
      /\ statusPagamento = "SUCESSO" => statusPagamento' = "SUCESSO"
  BY LinhaAvanca DEF EntregaUnica, IInv, TypeOK
<1> SUFFICES /\ statusPagamento' = "SUCESSO" => TemPagamento'
             /\ \A t \in Tentativas : estorno'[t] # "NENHUM" => t \in recebidos'
             /\ SerieBem(d)'
  BY <1>t, Zenon
<1>v. pc[d] # "ociosa" => tentativa[d] \in Tentativas /\ EventoDe(d) \in emitidos
  BY EventoEmVoo DEF IInv
\* Steps that write neither an approval nor a refund.
<1> DEFINE Neutro == /\ estorno' = estorno /\ recebidos \subseteq recebidos'
                     /\ emitidos' = emitidos
                     /\ statusPagamento' = "SUCESSO" => statusPagamento = "SUCESSO"
<1>n. ASSUME Neutro
      PROVE  /\ statusPagamento' = "SUCESSO" => TemPagamento'
             /\ \A t \in Tentativas : estorno'[t] # "NENHUM" => t \in recebidos'
  BY <1>n DEF TemPagamento
<1>1. ASSUME NEW e \in emitidos, Receber(d, e)
      PROVE  /\ statusPagamento' = "SUCESSO" => TemPagamento'
             /\ \A t \in Tentativas : estorno'[t] # "NENHUM" => t \in recebidos'
             /\ SerieBem(d)'
  <2>1. e.tentativa \in Tentativas
    BY DEF IInv, TypeOK, Evento
  <2>2. /\ Neutro /\ statusPagamento' = statusPagamento
        /\ tentativa'[d] = e.tentativa /\ desfecho'[d] = e.desfecho
        /\ pc'[d] = IF e.desfecho = "SUCESSO" /\ JaBloqueado(e.tentativa)
                      THEN "estornarEvento" ELSE "ler"
    BY <1>1, <1>t DEF Receber, IrPara
  <2>3. CASE e.desfecho = "SUCESSO" /\ JaBloqueado(e.tentativa)
    <3>1. estorno[e.tentativa] # "NENHUM" \/ statusPagamento # "SUCESSO"
      BY <2>3 DEF JaBloqueado
    <3>2. SerieBem(d)'
      BY <2>2, <2>3, <3>1 DEF SerieBem
    <3> QED
      BY <1>n, <2>2, <3>2
  <2>4. CASE ~(e.desfecho = "SUCESSO" /\ JaBloqueado(e.tentativa))
    <3>1. e.desfecho = "SUCESSO" =>
            estorno[e.tentativa] = "NENHUM" \/ statusPagamento = "SUCESSO"
      BY <2>1, <2>4 DEF JaBloqueado
    <3>2. SerieBem(d)'
      BY <2>2, <2>4, <3>1 DEF SerieBem, Sucesso
    <3> QED
      BY <1>n, <2>2, <3>2
  <2> QED
    BY <2>3, <2>4
<1>2. CASE LerReserva(d)
  <2>1. /\ Neutro /\ tentativa' = tentativa /\ desfecho' = desfecho
        /\ pc[d] = "ler"
    BY <1>2 DEF LerReserva, ExpirarAoLer, ExpirarNoTx, Vencida
  <2>2. /\ pc'[d] \in {"liberar"} => statusPagamento' # "SUCESSO"
        /\ pc'[d] = "estornarEvento" => statusPagamento' # "SUCESSO"
        /\ pc'[d] # "recusar"
    BY <1>2, <1>t DEF LerReserva, Concluir, Responder, IrPara, DestinoDe, PcDoDestino
  <2>3. SerieBem(d)'
    BY <1>t, <2>1, <2>2 DEF SerieBem, Sucesso, Neutro
  <2> QED
    BY <1>n, <2>1, <2>3
<1>3. CASE VerificarLocatario(d)
  <2>1. /\ Neutro /\ tentativa' = tentativa /\ desfecho' = desfecho
        /\ pc[d] = "liberar" /\ pc'[d] \in {"recusar", "atualizar"}
        /\ statusPagamento' = statusPagamento
    BY <1>3, <1>t DEF VerificarLocatario, IrPara
  <2>2. SerieBem(d)'
    BY <2>1 DEF SerieBem, Sucesso
  <2> QED
    BY <1>n, <2>1, <2>2
<1>4. CASE RecusarPorBloqueio(d) \/ AtualizarInoperante(d)
  <2>1. Neutro /\ pc'[d] = "estornarEvento" /\ statusPagamento' # "SUCESSO"
    BY <1>4, <1>t DEF RecusarPorBloqueio, AtualizarInoperante, IrPara, ExpirarNoTx,
                      Vencida, GravarPagamento, RecusaOperacional, SerieBem
  <2>2. SerieBem(d)'
    BY <2>1 DEF SerieBem
  <2> QED
    BY <1>n, <2>1, <2>2
<1>5. CASE AtualizarVencida(d)
  <2>1. /\ Neutro /\ statusPagamento' # "SUCESSO"
        /\ pc'[d] \in {"ociosa", "receber", "estornarEvento"}
    BY <1>5, <1>t DEF AtualizarVencida, Vencida, ExpirarNoTx, Concluir, Responder,
                      IrPara, DestinoDe, PcDoDestino
  <2>2. SerieBem(d)'
    BY <2>1 DEF SerieBem
  <2> QED
    BY <1>n, <2>1, <2>2
<1>6. CASE AtualizarConflito(d) \/ AtualizarJaAprovada(d)
  <2>1. Neutro /\ pc'[d] = "ociosa"
    BY <1>6, <1>t DEF AtualizarConflito, AtualizarJaAprovada, Responder, IrPara
  <2>2. SerieBem(d)'
    BY <2>1 DEF SerieBem
  <2> QED
    BY <1>n, <2>1, <2>2
<1>7. CASE AtualizarGrava(d)
  <2>1. /\ estorno' = estorno /\ recebidos' = recebidos /\ emitidos' = emitidos
        /\ pc[d] = "atualizar" /\ statusPagamento' = desfecho[d]
        /\ pc'[d] \in {"codigo", "ociosa"}
    BY <1>7, <1>t DEF AtualizarGrava, GravarPagamento, IrPara, Responder
  <2>2. SerieBem(d)'
    BY <2>1 DEF SerieBem
  <2>3. statusPagamento' = "SUCESSO" => TemPagamento'
    <3>1. CASE statusPagamento = "SUCESSO"
      BY <2>1, <3>1 DEF TemPagamento
    <3>2. CASE statusPagamento # "SUCESSO" /\ desfecho[d] = "SUCESSO"
      <4>1. estorno[tentativa[d]] = "NENHUM"
        BY <2>1, <3>2 DEF SerieBem, Sucesso
      <4> QED
        BY <1>v, <2>1, <3>2, <4>1 DEF TemPagamento, EventoDe
    <3> QED
      BY <2>1, <3>1, <3>2
  <2> QED
    BY <2>1, <2>2, <2>3
<1>8. CASE GerarCodigo(d) \/ Notificar(d) \/ RegistrarRecebido(d) \/ EstornarPorCancelamento(d)
  <2>1. Neutro /\ statusPagamento' = statusPagamento
    BY <1>8 DEF GerarCodigo, Notificar, RegistrarRecebido, EstornarPorCancelamento
  <2>2. pc'[d] \in {"reler", "receber", "estornarEvento", "estornarCancelamento", "ociosa"}
    BY <1>8, <1>t DEF GerarCodigo, Notificar, RegistrarRecebido,
       EstornarPorCancelamento, IrPara, Responder, PcDoDestino
  <2>3. pc'[d] # "estornarEvento"
    BY <1>8, <1>t DEF GerarCodigo, Notificar, RegistrarRecebido,
       EstornarPorCancelamento, IrPara, Responder, PcDoDestino, IInv,
       EntregasCoerentes, EntregaBem
  <2>4. SerieBem(d)'
    BY <2>2, <2>3 DEF SerieBem
  <2> QED
    BY <1>n, <2>1, <2>4
<1>9. CASE RelerReserva(d)
  <2>1. /\ Neutro /\ statusPagamento' = statusPagamento
        /\ pc'[d] \in {"notificar", "receber", "estornarEvento"}
    BY <1>9, <1>t DEF RelerReserva, IrPara, PcDoDestino
  <2>2. pc'[d] # "estornarEvento"
    BY <1>9, <1>t DEF RelerReserva, IrPara, PcDoDestino, DestinoDe, IInv,
       EntregasCoerentes, EntregaBem, PaPagos
  <2>3. SerieBem(d)'
    BY <2>1, <2>2 DEF SerieBem
  <2> QED
    BY <1>n, <2>1, <2>3
<1>10. CASE EstornarEvento(d)
  <2>1. /\ recebidos' = recebidos \cup {tentativa[d]} /\ emitidos' = emitidos
        /\ \A t \in Tentativas : t # tentativa[d] => estorno'[t] = estorno[t]
        /\ statusPagamento' = statusPagamento /\ pc'[d] = "ociosa"
        /\ pc[d] = "estornarEvento"
    BY <1>10, <1>t DEF EstornarEvento, Responder, IrPara
  <2>2. SerieBem(d)'
    BY <2>1 DEF SerieBem
  <2>3. ASSUME statusPagamento = "SUCESSO" PROVE TemPagamento'
    <3>1. estorno[tentativa[d]] # "NENHUM"
      BY <2>1, <2>3 DEF SerieBem
    <3> QED
      BY <2>1, <2>3, <3>1 DEF TemPagamento
  <2> QED
    BY <2>1, <2>2, <2>3
<1> QED
  BY <1>1, <1>2, <1>3, <1>4, <1>5, <1>6, <1>7, <1>8, <1>9, <1>10 DEF Passo

\* The invariant of deliveries in series is inductive.
LEMMA SerieStep ==
  ASSUME IInv, IInv', [Next]_vars, EntregaUnica, SerieInv
  PROVE  SerieInv'
<1>1. CASE Alheio
  <2>1. statusPagamento = "SUCESSO" <=> statusPagamento' = "SUCESSO"
    BY <1>1, LinhaAvanca DEF Alheio
  <2>2. statusPagamento' = "SUCESSO" => TemPagamento'
    BY <1>1, <2>1 DEF SerieInv, Alheio, TemPagamento
  <2>3. \A d \in Entregas : SerieBem(d)'
    BY <1>1, <2>1 DEF SerieInv, Alheio, SerieBem, Sucesso
  <2> QED
    BY <1>1, <2>2, <2>3 DEF SerieInv, Alheio
<1>2. ASSUME NEW d \in Entregas, Passo(d) \/ \E e \in emitidos : Receber(d, e)
      PROVE  SerieInv'
  BY <1>2, SerieEntrega DEF IInv
<1> QED
  BY <1>1, <1>2, AlheioOuEntrega

\* With deliveries handled one at a time, a reservation that is kept rests on an
\* approval whose money was not given back, however often events are delivered
\* again, refunds fail and the backend stops.  (Two deliveries at once may
\* refund the payment they confirm: run estornada_confirmada.)
THEOREM SpecConfirmadaTemPagamento ==
  ASSUME EntregaUnica PROVE Spec => []ConfirmadaTemPagamento
<1>1. Init => IInv /\ SerieInv
  BY InitIInv, ConstantesAssumption DEF Init, SerieInv, SerieBem
<1>2. IInv /\ SerieInv /\ [Next]_vars => IInv' /\ SerieInv'
  BY IInvStep, SerieStep
<1>3. IInv /\ SerieInv => ConfirmadaTemPagamento
  BY DEF IInv, LinhaBem, ConfirmadaPaga, SerieInv, TemPagamento, ConfirmadaTemPagamento
<1> QED
  BY <1>1, <1>2, <1>3, PTL DEF Spec

=============================================================================
