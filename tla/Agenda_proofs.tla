---------------------------- MODULE Agenda_proofs ----------------------------
(***************************************************************************)
(* Proofs about Agenda for any reservations, garages and bounds.  What     *)
(* holds under every interleaving is proved of Spec alone.  Double booking,*)
(* the pick-up garage, the vehicle of a paid reservation and its price     *)
(* each rest on something a request in flight must not have outlived; runs *)
(* of TLC show that it can.  They are proved from that condition, stated   *)
(* as a hypothesis on every state, and from the scheduling that ensures it *)
(* (time standing still inside a confirmation, edits of the vehicle or     *)
(* changes of a period made one at a time).                                *)
(***************************************************************************)
EXTENDS Agenda, TLAPS

-----------------------------------------------------------------------------
(* The invariants the proofs add to the properties.                        *)

\* A change in flight is of a reservation that exists.
AlteracaoDeReserva ==
  \A a \in Alteracoes : alteracao[a] # SemAlteracao =>
    alteracao[a].reserva \in Reservas /\ Existe(alteracao[a].reserva)

\* What a reservation's status says of its payment and of its pick-up garage.
LinhaCoerente ==
  \A r \in Reservas :
    /\ status[r] \in {"NENHUMA", "PEDIDA"} => pago[r] = "AGUARDANDO_PAGAMENTO"
    /\ status[r] \in {"CONFIRMADA", "EM_ANDAMENTO", "REALIZADA"} => pago[r] = "SUCESSO"
    /\ status[r] # "NENHUMA" => retirada[r] \in Garagens
    /\ r \in confirmando =>
         status[r] = "AGUARDANDO_PAGAMENTO" /\ pago[r] \in {"PROCESSANDO", "FALHA"}

BaseInv == TypeOK /\ AlteracaoDeReserva /\ LinhaCoerente

\* A confirmation that passed the deadline check is still within the deadline.
ConfirmacaoNoPrazo == \A r \in confirmando : agora < criadaEm[r] + Prazo

\* The edit in flight has read the vehicle as it is.
EdicaoEmDia ==
  \A e \in Edicoes : edicao[e] # SemEdicao => edicao[e].lido = veiculo

\* A change in flight that carries a price changes the period of the row.
PrecoDeMudanca ==
  \A a \in Alteracoes :
    LET r == alteracao[a].reserva
        i == Dado(alteracao[a].ini, ini[r])
        f == Dado(alteracao[a].fim, fim[r])
    IN  alteracao[a] # SemAlteracao /\ alteracao[a].valorDe # Nada
          => <<i, f>> # <<ini[r], fim[r]>>

-----------------------------------------------------------------------------
(* Types, and what the rows say of themselves.                             *)

LEMMA AgendaInicio == Init => BaseInv
  BY ConstantesAssumption
     DEF Init, BaseInv, TypeOK, AlteracaoDeReserva, LinhaCoerente, Tempo,
         StatusReserva, StatusPagamento, StatusVeiculo, SemAlteracao, SemEdicao

\* Every action of a reservation keeps the types.
LEMMA ReservarTipos ==
  ASSUME BaseInv, Reservar
  PROVE  TypeOK'
<1> USE ConstantesAssumption DEF BaseInv, TypeOK, Tempo, StatusReserva, StatusPagamento,
        linhaVars, periodoVars, localVars, frotaVars, pedidoVars
<1>0. PICK r \in Reservas :
        \/ \E i, f \in Tempo, d \in Garagens \cup {Nada} : PedirReserva(r, i, f, d)
        \/ CriarReserva(r) \/ RecusarReserva(r)
        \/ IniciarPagamento(r) \/ RecusarPagamento(r)
        \/ IniciarConfirmacao(r) \/ Confirmar(r) \/ GerarCodigo(r)
        \/ Cancelar(r) \/ Expirar(r)
        \/ AceitarCodigo(r) \/ Desbloquear(r) \/ Devolver(r)
  BY DEF Reservar
<1>1. ASSUME NEW i \in Tempo, NEW f \in Tempo, NEW d \in Garagens \cup {Nada},
             PedirReserva(r, i, f, d)
      PROVE  TypeOK'
  BY <1>1 DEF PedirReserva
<1>2. CASE CriarReserva(r)
  BY <1>2 DEF CriarReserva
<1>3. CASE RecusarReserva(r)
  BY <1>3 DEF RecusarReserva
<1>4. CASE IniciarPagamento(r)
  BY <1>4 DEF IniciarPagamento
<1>5. CASE RecusarPagamento(r)
  BY <1>5 DEF RecusarPagamento
<1>6. CASE IniciarConfirmacao(r)
  BY <1>6 DEF IniciarConfirmacao
<1>7. CASE Confirmar(r)
  BY <1>7 DEF Confirmar
<1>8. CASE GerarCodigo(r)
  BY <1>8 DEF GerarCodigo
<1>9. CASE Cancelar(r)
  BY <1>9 DEF Cancelar
<1>10. CASE Expirar(r)
  BY <1>10 DEF Expirar, PagoExpirado
<1>11. CASE AceitarCodigo(r)
  BY <1>11 DEF AceitarCodigo
<1>12. CASE Desbloquear(r)
  BY <1>12 DEF Desbloquear
<1>13. CASE Devolver(r)
  BY <1>13 DEF Devolver
<1> QED BY <1>0, <1>1, <1>2, <1>3, <1>4, <1>5, <1>6, <1>7, <1>8, <1>9, <1>10, <1>11, <1>12, <1>13

LEMMA AtribuicaoTipada ==
  ASSUME NEW S, NEW T, NEW g \in [S -> T], NEW x, NEW v \in T
  PROVE  [g EXCEPT ![x] = v] \in [S -> T]
  OBVIOUS

\* The changes of period, the owner and the clock keep them too.
LEMMA AlterarTipos ==
  ASSUME BaseInv, Alterar
  PROVE  TypeOK'
<1> USE ConstantesAssumption DEF BaseInv, TypeOK, Tempo, linhaVars, periodoVars, localVars,
        frotaVars, pedidoVars, SemAlteracao, Dado
<1>1. ASSUME NEW a \in Alteracoes, NEW r \in Reservas,
             NEW i \in Tempo \cup {Nada}, NEW f \in Tempo \cup {Nada},
             NEW d \in Garagens \cup {Nada}, LerAlteracao(a, r, i, f, d)
      PROVE  TypeOK'
  <2> DEFINE i2 == Dado(i, ini[r])
             f2 == Dado(f, fim[r])
             muda == <<i2, f2>> # <<ini[r], fim[r]>>
             preco == IF muda THEN <<i2, f2>> ELSE Nada
  <2>1. preco \in (Tempo \X Tempo) \cup {Nada}
    OBVIOUS
  <2>2. alteracao' = [alteracao EXCEPT ![a] =
          [reserva |-> r, ini |-> i, fim |-> f, devolucao |-> d, valorDe |-> preco]]
    BY <1>1 DEF LerAlteracao
  <2> HIDE DEF preco
  <2>3. alteracao' \in [Alteracoes ->
       [reserva : Reservas \cup {Nada}, ini : Tempo \cup {Nada}, fim : Tempo \cup {Nada},
        devolucao : Garagens \cup {Nada}, valorDe : (Tempo \X Tempo) \cup {Nada}]]
    BY <2>1, <2>2
  <2> QED BY <1>1, <2>3 DEF LerAlteracao
<1>2. ASSUME NEW a \in Alteracoes, GravarAlteracao(a)
      PROVE  TypeOK'
  <2> DEFINE r == alteracao[a].reserva
  <2>1. r \in Reservas
    BY <1>2 DEF GravarAlteracao, AlteracaoDeReserva
  <2>2. /\ Dado(alteracao[a].ini, ini[r]) \in Tempo
        /\ Dado(alteracao[a].fim, fim[r]) \in Tempo
        /\ Dado(alteracao[a].devolucao, devolucao[r]) \in Garagens \cup {Nada}
        /\ Dado(alteracao[a].valorDe, valorDe[r]) \in Tempo \X Tempo
    BY <2>1
  <2>a. \/ /\ ini' = [ini EXCEPT ![r] = Dado(alteracao[a].ini, ini[r])]
           /\ fim' = [fim EXCEPT ![r] = Dado(alteracao[a].fim, fim[r])]
           /\ devolucao' = [devolucao EXCEPT ![r] = Dado(alteracao[a].devolucao, devolucao[r])]
           /\ valorDe' = [valorDe EXCEPT ![r] = Dado(alteracao[a].valorDe, valorDe[r])]
        \/ UNCHANGED <<periodoVars, devolucao>>
  BY <1>2 DEF GravarAlteracao
  <2>3. /\ ini' \in [Reservas -> Tempo] /\ fim' \in [Reservas -> Tempo]
        /\ devolucao' \in [Reservas -> Garagens \cup {Nada}]
        /\ valorDe' \in [Reservas -> Tempo \X Tempo]
    <3> HIDE DEF Dado, r, Tempo
    <3>1. CASE UNCHANGED <<periodoVars, devolucao>>
      BY <3>1
    <3>2. CASE ~UNCHANGED <<periodoVars, devolucao>>
      <4>1. /\ ini' = [ini EXCEPT ![r] = Dado(alteracao[a].ini, ini[r])]
            /\ fim' = [fim EXCEPT ![r] = Dado(alteracao[a].fim, fim[r])]
            /\ devolucao' =
                 [devolucao EXCEPT ![r] = Dado(alteracao[a].devolucao, devolucao[r])]
            /\ valorDe' = [valorDe EXCEPT ![r] = Dado(alteracao[a].valorDe, valorDe[r])]
        BY <2>a, <3>2
      <4> QED BY <2>2, <4>1, AtribuicaoTipada
    <3> QED BY <3>1, <3>2
  <2>4. alteracao' \in [Alteracoes ->
       [reserva : Reservas \cup {Nada}, ini : Tempo \cup {Nada}, fim : Tempo \cup {Nada},
        devolucao : Garagens \cup {Nada}, valorDe : (Tempo \X Tempo) \cup {Nada}]]
    BY <1>2 DEF GravarAlteracao
  <2> QED BY <1>2, <2>3, <2>4 DEF GravarAlteracao
<1> QED BY <1>1, <1>2 DEF Alterar

LEMMA FrotaTipos ==
  ASSUME BaseInv, AdministrarFrota \/ Passar
  PROVE  TypeOK'
<1> USE ConstantesAssumption DEF BaseInv, TypeOK, Tempo, StatusVeiculo, linhaVars, periodoVars, localVars,
        frotaVars, pedidoVars, SemEdicao, Dado
<1>1. ASSUME NEW e \in Edicoes, NEW s \in StatusEditaveis \cup {Nada},
             NEW g \in Garagens \cup {Nada, Mesma}, LerVeiculo(e, s, g)
      PROVE  TypeOK'
  BY <1>1 DEF LerVeiculo
<1>2. ASSUME NEW e \in Edicoes, GravarVeiculo(e)
      PROVE  TypeOK'
  BY <1>2 DEF GravarVeiculo
<1>3. ASSUME NEW g \in Garagens \cup {Nada}, Mover(g)
      PROVE  TypeOK'
  BY <1>3 DEF Mover
<1>4. ASSUME NEW g \in Garagens, DesativarGaragem(g) \/ AtivarGaragem(g)
      PROVE  TypeOK'
  BY <1>4 DEF DesativarGaragem, AtivarGaragem
<1>5. CASE Passar
  BY <1>5 DEF Passar
<1> QED BY <1>1, <1>2, <1>3, <1>4, <1>5 DEF AdministrarFrota

\* A change of the rows that only ever closes reservations keeps the changes in
\* flight on reservations that exist.
LEMMA AlteracaoPasso ==
  ASSUME BaseInv, [Next]_vars
  PROVE  AlteracaoDeReserva'
<1> USE ConstantesAssumption DEF BaseInv, TypeOK, AlteracaoDeReserva, Existe, StatusReserva
<1>1. ASSUME NEW a \in Alteracoes, NEW r \in Reservas,
             NEW i \in Tempo \cup {Nada}, NEW f \in Tempo \cup {Nada},
             NEW d \in Garagens \cup {Nada}, LerAlteracao(a, r, i, f, d)
      PROVE  AlteracaoDeReserva'
  BY <1>1 DEF LerAlteracao, linhaVars
<1>2. ASSUME NEW a \in Alteracoes, GravarAlteracao(a)
      PROVE  AlteracaoDeReserva'
  BY <1>2 DEF GravarAlteracao
<1>3. ASSUME UNCHANGED alteracao,
             \A r \in Reservas : Existe(r) => Existe(r)'
      PROVE  AlteracaoDeReserva'
  BY <1>3
<1>4. CASE Reservar
  <2>1. UNCHANGED alteracao
    BY <1>4 DEF Reservar, PedirReserva, CriarReserva, RecusarReserva, IniciarPagamento,
       RecusarPagamento, IniciarConfirmacao, Confirmar, GerarCodigo, Cancelar, Expirar,
       AceitarCodigo, Desbloquear, Devolver, pedidoVars
  <2>2. \A r \in Reservas : Existe(r) => Existe(r)'
    BY <1>4 DEF Reservar, PedirReserva, CriarReserva, RecusarReserva, IniciarPagamento,
       RecusarPagamento, IniciarConfirmacao, Confirmar, GerarCodigo, Cancelar, Expirar,
       AceitarCodigo, Desbloquear, Devolver, linhaVars
  <2> QED BY <1>3, <2>1, <2>2
<1>5. CASE AdministrarFrota \/ Passar \/ UNCHANGED vars
  <2>1. UNCHANGED <<alteracao, status>>
    BY <1>5 DEF AdministrarFrota, LerVeiculo, GravarVeiculo, Mover, DesativarGaragem,
       AtivarGaragem, Passar, vars, pedidoVars, linhaVars
  <2> QED BY <1>3, <2>1
<1> QED BY <1>1, <1>2, <1>4, <1>5 DEF Next, Alterar

\* The steps that leave the rows' statuses, payments and pick-up garages alone.
LEMMA LinhaParada ==
  ASSUME Alterar \/ AdministrarFrota \/ Passar \/ UNCHANGED vars
  PROVE  UNCHANGED <<status, pago, retirada, criadaEm, confirmando>>
  BY DEF Alterar, LerAlteracao, GravarAlteracao, AdministrarFrota, LerVeiculo,
     GravarVeiculo, Mover, DesativarGaragem, AtivarGaragem, Passar, vars, linhaVars,
     pedidoVars

LEMMA LinhaPasso ==
  ASSUME BaseInv, [Next]_vars
  PROVE  LinhaCoerente'
<1> USE ConstantesAssumption DEF BaseInv, TypeOK, LinhaCoerente, Tempo, StatusReserva,
        StatusPagamento, linhaVars, periodoVars, localVars, pedidoVars
<1>0. CASE Alterar \/ AdministrarFrota \/ Passar \/ UNCHANGED vars
  BY <1>0, LinhaParada
<1>a. CASE Reservar
  <2>0. PICK r \in Reservas :
          \/ \E i, f \in Tempo, d \in Garagens \cup {Nada} : PedirReserva(r, i, f, d)
          \/ CriarReserva(r) \/ RecusarReserva(r)
          \/ IniciarPagamento(r) \/ RecusarPagamento(r)
          \/ IniciarConfirmacao(r) \/ Confirmar(r) \/ GerarCodigo(r)
          \/ Cancelar(r) \/ Expirar(r)
          \/ AceitarCodigo(r) \/ Desbloquear(r) \/ Devolver(r)
    BY <1>a DEF Reservar
  <2>1. ASSUME NEW i \in Tempo, NEW f \in Tempo, NEW d \in Garagens \cup {Nada},
               PedirReserva(r, i, f, d)
        PROVE  LinhaCoerente'
    BY <2>1 DEF PedirReserva
  <2>2. CASE CriarReserva(r)
    BY <2>2 DEF CriarReserva
  <2>3. CASE RecusarReserva(r)
    BY <2>3 DEF RecusarReserva
  <2>4. CASE IniciarPagamento(r)
    BY <2>4 DEF IniciarPagamento, Livre
  <2>5. CASE RecusarPagamento(r)
    BY <2>5 DEF RecusarPagamento, Livre
  <2>6. CASE IniciarConfirmacao(r)
    BY <2>6 DEF IniciarConfirmacao
  <2>7. CASE Confirmar(r)
    BY <2>7 DEF Confirmar
  <2>8. CASE GerarCodigo(r)
    BY <2>8 DEF GerarCodigo
  <2>9. CASE Cancelar(r)
    BY <2>9 DEF Cancelar, Livre
  <2>10. CASE Expirar(r)
    BY <2>10 DEF Expirar, Vencida, Livre
  <2>11. CASE AceitarCodigo(r)
    BY <2>11 DEF AceitarCodigo
  <2>12. CASE Desbloquear(r)
    BY <2>12 DEF Desbloquear
  <2>13. CASE Devolver(r)
    BY <2>13 DEF Devolver
  <2> QED BY <2>0, <2>1, <2>2, <2>3, <2>4, <2>5, <2>6, <2>7, <2>8, <2>9, <2>10, <2>11,
             <2>12, <2>13
<1> QED BY <1>0, <1>a DEF Next

LEMMA AgendaPasso ==
  ASSUME BaseInv, [Next]_vars
  PROVE  BaseInv'
<1>1. TypeOK'
  <2>1. CASE UNCHANGED vars
    BY <2>1 DEF BaseInv, TypeOK, vars, linhaVars, frotaVars, pedidoVars
  <2> QED BY <2>1, ReservarTipos, AlterarTipos, FrotaTipos DEF Next
<1> QED BY <1>1, AlteracaoPasso, LinhaPasso DEF BaseInv

\* Every variable keeps its type and the clock its bound.
THEOREM AgendaTipos == Spec => []TypeOK
<1>1. Init => BaseInv
  BY AgendaInicio
<1>2. BaseInv /\ [Next]_vars => BaseInv'
  BY AgendaPasso
<1>3. BaseInv => TypeOK
  BY DEF BaseInv
<1> QED BY <1>1, <1>2, <1>3, PTL DEF Spec

-----------------------------------------------------------------------------
(* Double booking and the pick-up garage, while no payment confirmation      *)
(* outlives its deadline.                                                  *)

AgendaInv == BaseInv /\ SemDuplaReserva /\ NoLocal

\* The queries of the code, which leave overdue rows out, find the reservations
\* that hold the vehicle's time, and those that hold its place.
LEMMA OcupaEVale ==
  ASSUME TypeOK, NEW r \in Reservas
  PROVE  /\ Ocupa(r) <=> Vale(r)
         /\ FixaGaragem(r) <=> Vale(r) /\ status[r] # "REALIZADA"
  BY ConstantesAssumption
     DEF TypeOK, Ocupa, Existe, Vencida, Vale, FixaGaragem, StatusReserva, Tempo

\* A confirmation that time does not interrupt commits by its deadline.
LEMMA ConfirmacaoPasso ==
  ASSUME BaseInv, ConfirmacaoNoPrazo, ~PrazoNoMeio, [Next]_vars
  PROVE  ConfirmacaoNoPrazo'
<1> USE ConstantesAssumption DEF BaseInv, TypeOK, ConfirmacaoNoPrazo, Tempo
<1>1. ASSUME NEW r \in Reservas, IniciarConfirmacao(r)
      PROVE  ConfirmacaoNoPrazo'
  BY <1>1 DEF IniciarConfirmacao, Vencida, linhaVars
<1>2. ASSUME NEW r \in Reservas, CriarReserva(r)
      PROVE  ConfirmacaoNoPrazo'
  <2>1. r \notin confirmando
    BY <1>2 DEF CriarReserva, LinhaCoerente
  <2> QED BY <1>2, <2>1 DEF CriarReserva, pedidoVars
<1>3. CASE Passar
  BY <1>3 DEF Passar, pedidoVars
<1>4. ASSUME UNCHANGED <<agora, criadaEm>>, confirmando' \subseteq confirmando
      PROVE  ConfirmacaoNoPrazo'
  BY <1>4
<1>5. ASSUME NEW r \in Reservas, NEW i \in Tempo, NEW f \in Tempo,
             NEW d \in Garagens \cup {Nada},
             \/ PedirReserva(r, i, f, d) \/ RecusarReserva(r)
             \/ IniciarPagamento(r) \/ RecusarPagamento(r) \/ Confirmar(r)
             \/ GerarCodigo(r) \/ Cancelar(r) \/ Expirar(r)
             \/ AceitarCodigo(r) \/ Desbloquear(r) \/ Devolver(r)
      PROVE  UNCHANGED <<agora, criadaEm>> /\ confirmando' \subseteq confirmando
  BY <1>5 DEF PedirReserva, RecusarReserva, IniciarPagamento, RecusarPagamento, Confirmar,
     GerarCodigo, Cancelar, Expirar, AceitarCodigo, Desbloquear, Devolver, linhaVars,
     localVars, pedidoVars
<1>6. CASE Alterar \/ AdministrarFrota \/ UNCHANGED vars
  <2>1. UNCHANGED agora
    BY <1>6 DEF Alterar, LerAlteracao, GravarAlteracao, AdministrarFrota, LerVeiculo,
       GravarVeiculo, Mover, DesativarGaragem, AtivarGaragem, vars
  <2> QED BY <1>4, <1>6, <2>1, LinhaParada
<1>7. 0 \in Tempo
  OBVIOUS
<1> QED BY <1>1, <1>2, <1>3, <1>4, <1>5, <1>6, <1>7 DEF Next, Reservar

\* What moves neither periods nor the vehicle, and gives no reservation a right
\* to its time or place, keeps both properties.
LEMMA SemNovoDireito ==
  ASSUME SemDuplaReserva, NoLocal, UNCHANGED <<ini, fim, garagem, retirada>>,
         \A r \in Reservas : Vale(r)' => Vale(r),
         \A r \in Reservas : Vale(r)' /\ status'[r] # "REALIZADA" => status[r] # "REALIZADA"
  PROVE  SemDuplaReserva' /\ NoLocal'
  BY DEF SemDuplaReserva, NoLocal

\* The requests of a renter, one by one.
LEMMA ReservarPasso ==
  ASSUME AgendaInv, ConfirmacaoNoPrazo, Reservar, TypeOK'
  PROVE  SemDuplaReserva' /\ NoLocal'
<1> USE ConstantesAssumption DEF AgendaInv, BaseInv, TypeOK, Tempo, Vale, StatusReserva,
        linhaVars, periodoVars, localVars, frotaVars, pedidoVars
<1>0. PICK r \in Reservas :
        \/ \E i, f \in Tempo, d \in Garagens \cup {Nada} : PedirReserva(r, i, f, d)
        \/ CriarReserva(r) \/ RecusarReserva(r)
        \/ IniciarPagamento(r) \/ RecusarPagamento(r)
        \/ IniciarConfirmacao(r) \/ Confirmar(r) \/ GerarCodigo(r)
        \/ Cancelar(r) \/ Expirar(r)
        \/ AceitarCodigo(r) \/ Desbloquear(r) \/ Devolver(r)
  BY DEF Reservar
\* A reservation that is only asked for has no right yet.
<1>1. ASSUME NEW i \in Tempo, NEW f \in Tempo, NEW d \in Garagens \cup {Nada},
             PedirReserva(r, i, f, d) \/ RecusarReserva(r)
      PROVE  SemDuplaReserva' /\ NoLocal'
  <2>1. ~Vale(r)'
    BY <1>1 DEF PedirReserva, RecusarReserva
  <2>2. \A o \in Reservas \ {r} :
          /\ ini'[o] = ini[o] /\ fim'[o] = fim[o] /\ retirada'[o] = retirada[o]
          /\ status'[o] = status[o] /\ (Vale(o)' <=> Vale(o))
    BY <1>1 DEF PedirReserva, RecusarReserva
  <2>3. garagem' = garagem
    BY <1>1 DEF PedirReserva, RecusarReserva
  <2> HIDE DEF Vale
  <2> QED BY <2>1, <2>2, <2>3 DEF SemDuplaReserva, NoLocal
\* The transaction repeats the overlap and the place under the vehicle's lock.
<1>2. CASE CriarReserva(r)
  <2>1. \A o \in Reservas \ {r} : Vale(o) => fim[r] <= ini[o] \/ fim[o] <= ini[r]
    BY <1>2, OcupaEVale DEF CriarReserva, PodeCriar, Conflito, Sobrepoe
  <2>2. garagem = retirada[r]
    BY <1>2 DEF CriarReserva, PodeCriar, MesmaGaragem
  <2>3. \A o \in Reservas \ {r} : status'[o] = status[o] /\ (Vale(o)' <=> Vale(o))
    BY <1>2 DEF CriarReserva
  <2>4. UNCHANGED <<ini, fim, garagem, retirada>>
    BY <1>2 DEF CriarReserva
  <2> HIDE DEF Vale
  <2> QED BY <2>1, <2>2, <2>3, <2>4 DEF SemDuplaReserva, NoLocal
<1>3. CASE IniciarPagamento(r) \/ RecusarPagamento(r)
  <2>1. \A o \in Reservas : (Vale(o)' => Vale(o)) /\ status'[o] = status[o]
    BY <1>3 DEF IniciarPagamento, RecusarPagamento, Vencida
  <2>2. UNCHANGED <<ini, fim, garagem, retirada>>
    BY <1>3 DEF IniciarPagamento, RecusarPagamento
  <2> QED BY <2>1, <2>2, SemNovoDireito
<1>4. CASE IniciarConfirmacao(r)
  BY <1>4, SemNovoDireito DEF IniciarConfirmacao
\* The deadline was checked when the confirmation began, and no time has passed.
<1>5. CASE Confirmar(r)
  <2>1. Vale(r)
    BY <1>5 DEF Confirmar, ConfirmacaoNoPrazo, LinhaCoerente
  <2>2. \A o \in Reservas : (Vale(o)' => Vale(o)) /\ status'[o] = status[o]
    BY <1>5, <2>1 DEF Confirmar
  <2>3. UNCHANGED <<ini, fim, garagem, retirada>>
    BY <1>5 DEF Confirmar
  <2> QED BY <2>2, <2>3, SemNovoDireito
<1>6. CASE GerarCodigo(r) \/ Cancelar(r) \/ Expirar(r)
  <2>1. \A o \in Reservas : (Vale(o)' => Vale(o)) /\ (Vale(o)' /\ status'[o] # "REALIZADA" => status[o] # "REALIZADA")
    BY <1>6 DEF GerarCodigo, Cancelar, Expirar
  <2>2. UNCHANGED <<ini, fim, garagem, retirada>>
    BY <1>6 DEF GerarCodigo, Cancelar, Expirar
  <2> QED BY <2>1, <2>2, SemNovoDireito
<1>7. CASE AceitarCodigo(r) \/ Desbloquear(r) \/ Devolver(r)
  <2>1. \A o \in Reservas : (Vale(o)' => Vale(o)) /\ (Vale(o)' /\ status'[o] # "REALIZADA" => status[o] # "REALIZADA")
    BY <1>7 DEF AceitarCodigo, Desbloquear, Devolver
  <2>2. UNCHANGED <<ini, fim, garagem, retirada>>
    BY <1>7 DEF AceitarCodigo, Desbloquear, Devolver
  <2> QED BY <2>1, <2>2, SemNovoDireito
<1>8. 0 \in Tempo
  OBVIOUS
<1> QED BY <1>0, <1>1, <1>2, <1>3, <1>4, <1>5, <1>6, <1>7, <1>8

\* The change of a period, the owner's moves and the clock.
LEMMA RestoPasso ==
  ASSUME AgendaInv, Alterar \/ AdministrarFrota \/ Passar \/ UNCHANGED vars
  PROVE  SemDuplaReserva' /\ NoLocal'
<1> USE ConstantesAssumption DEF AgendaInv, BaseInv, TypeOK, Tempo, StatusReserva
<1>1. /\ UNCHANGED <<status, pago, criadaEm, retirada>>
  BY LinhaParada
<1>2. ASSUME UNCHANGED agora
      PROVE  \A r \in Reservas : Vale(r)' <=> Vale(r)
  BY <1>1, <1>2 DEF Vale
<1>3. ASSUME NEW a \in Alteracoes, NEW r \in Reservas,
             NEW i \in Tempo \cup {Nada}, NEW f \in Tempo \cup {Nada},
             NEW d \in Garagens \cup {Nada}, LerAlteracao(a, r, i, f, d)
      PROVE  SemDuplaReserva' /\ NoLocal'
  BY <1>1, <1>3, SemNovoDireito, <1>2 DEF LerAlteracao, linhaVars, frotaVars
<1>4. ASSUME NEW a \in Alteracoes, GravarAlteracao(a)
      PROVE  SemDuplaReserva' /\ NoLocal'
  <2> DEFINE r == alteracao[a].reserva
             i == Dado(alteracao[a].ini, ini[r])
             f == Dado(alteracao[a].fim, fim[r])
  <2>1. r \in Reservas
    BY <1>4 DEF GravarAlteracao, AlteracaoDeReserva
  <2>2. UNCHANGED <<agora, garagem>>
    BY <1>4 DEF GravarAlteracao, frotaVars
  <2>3. \A o \in Reservas : Vale(o)' <=> Vale(o)
    BY <1>2, <2>2
  <2>4. CASE UNCHANGED <<ini, fim>>
    BY <1>1, <2>2, <2>3, <2>4, SemNovoDireito
  <2>5. CASE ~UNCHANGED <<ini, fim>>
    <3>1. /\ AceitaAlteracao(r, i, f)
          /\ ini' = [ini EXCEPT ![r] = i] /\ fim' = [fim EXCEPT ![r] = f]
      BY <1>4, <2>5 DEF GravarAlteracao, periodoVars
    <3>2. i \in Tempo /\ f \in Tempo
      BY <2>1 DEF Dado
    <3> HIDE DEF r, i, f
    <3>3. <<i, f>> # <<ini[r], fim[r]>>
      BY <2>1, <2>5, <3>1
    <3>4. ~Conflito(r, i, f)
      BY <3>1, <3>3 DEF AceitaAlteracao
    <3>5. ASSUME NEW o \in Reservas \ {r}, Vale(o)
          PROVE  f <= ini[o] \/ fim[o] <= i
      <4>1. ~(ini[o] < f /\ i < fim[o])
        BY <3>4, <3>5, OcupaEVale DEF Conflito, Sobrepoe
      <4>2. ini[o] \in Tempo /\ fim[o] \in Tempo
        OBVIOUS
      <4> QED BY <3>2, <4>1, <4>2
    <3>6. SemDuplaReserva'
      BY <2>1, <2>3, <3>1, <3>5 DEF SemDuplaReserva
    <3>7. NoLocal'
      BY <1>1, <2>2, <2>3 DEF NoLocal
    <3> QED BY <3>6, <3>7
  <2> QED BY <2>4, <2>5
\* A move finds no reservation that pins the vehicle.
<1>5. ASSUME NEW g, PodeMover(g), garagem' = g, UNCHANGED <<agora, ini, fim>>
      PROVE  SemDuplaReserva' /\ NoLocal'
  <2>1. \A o \in Reservas : Vale(o)' <=> Vale(o)
    BY <1>2, <1>5
  <2>2. CASE g = garagem
    BY <1>1, <1>5, <2>1, <2>2, SemNovoDireito
  <2>3. CASE g # garagem
    <3>1. \A o \in Reservas : ~(Vale(o) /\ status[o] # "REALIZADA")
      BY <1>5, <2>3, OcupaEVale DEF PodeMover
    <3>2. NoLocal'
      BY <1>1, <2>1, <3>1 DEF NoLocal
    <3>3. SemDuplaReserva'
      BY <1>5, <2>1 DEF SemDuplaReserva
    <3> QED BY <3>2, <3>3
  <2> QED BY <2>2, <2>3
<1>6. CASE AdministrarFrota
  <2>1. UNCHANGED <<agora, ini, fim>>
    BY <1>6 DEF AdministrarFrota, LerVeiculo, GravarVeiculo, Mover, DesativarGaragem,
       AtivarGaragem, linhaVars
  <2>2. \A o \in Reservas : Vale(o)' <=> Vale(o)
    BY <1>2, <2>1
  <2>3. UNCHANGED garagem \/ PodeMover(garagem')
    BY <1>6 DEF AdministrarFrota, LerVeiculo, GravarVeiculo, Mover, DesativarGaragem,
       AtivarGaragem, frotaVars
  <2>4. CASE UNCHANGED garagem
    BY <1>1, <2>1, <2>2, <2>4, SemNovoDireito
  <2> QED BY <1>5, <2>1, <2>3, <2>4
<1>7. CASE Passar
  <2>1. UNCHANGED <<ini, fim, garagem>> /\ agora' = agora + 1
    BY <1>7 DEF Passar, linhaVars, frotaVars
  <2>2. \A o \in Reservas : Vale(o)' => Vale(o)
    BY <1>1, <2>1 DEF Vale
  <2> QED BY <1>1, <2>1, <2>2, SemNovoDireito
<1>8. CASE UNCHANGED vars
  BY <1>1, <1>2, <1>8, SemNovoDireito DEF vars, linhaVars, frotaVars
<1> QED BY <1>3, <1>4, <1>6, <1>7, <1>8 DEF Alterar

\* No vehicle is reserved twice for the same time, and it stays where its renters
\* were told to pick it up, as long as no confirmation that passed the deadline
\* check is still waiting when the deadline comes: nothing else can break either.
THEOREM SemAtrasoSemDupla ==
  Spec /\ []ConfirmacaoNoPrazo => [](SemDuplaReserva /\ NoLocal)
<1>1. Init => AgendaInv
  BY AgendaInicio DEF AgendaInv, Init, SemDuplaReserva, NoLocal, Vale
<1>2. AgendaInv /\ ConfirmacaoNoPrazo /\ [Next]_vars => AgendaInv'
  <2> SUFFICES ASSUME AgendaInv, ConfirmacaoNoPrazo, [Next]_vars PROVE AgendaInv'
    OBVIOUS
  <2>1. BaseInv' /\ TypeOK'
    BY AgendaPasso DEF AgendaInv, BaseInv
  <2> QED BY <2>1, ReservarPasso, RestoPasso DEF AgendaInv, Next
<1>3. AgendaInv => SemDuplaReserva /\ NoLocal
  BY DEF AgendaInv
<1> QED BY <1>1, <1>2, <1>3, PTL DEF Spec

LEMMA ConfirmacoesNoPrazo == ASSUME ~PrazoNoMeio PROVE Spec => []ConfirmacaoNoPrazo
<1>1. Init => BaseInv /\ ConfirmacaoNoPrazo
  BY AgendaInicio DEF Init, ConfirmacaoNoPrazo
<1>2. BaseInv /\ ConfirmacaoNoPrazo /\ [Next]_vars => BaseInv' /\ ConfirmacaoNoPrazo'
  BY AgendaPasso, ConfirmacaoPasso
<1> QED BY <1>1, <1>2, PTL DEF Spec

\* When time does not pass inside a payment confirmation, no vehicle is reserved
\* twice for the same time.
THEOREM SemReservaDupla == ASSUME ~PrazoNoMeio PROVE Spec => []SemDuplaReserva
  BY ConfirmacoesNoPrazo, SemAtrasoSemDupla, PTL

\* ... and the vehicle stays where its renters were told to pick it up.
THEOREM VeiculoNoLocal == ASSUME ~PrazoNoMeio PROVE Spec => []NoLocal
  BY ConfirmacoesNoPrazo, SemAtrasoSemDupla, PTL

-----------------------------------------------------------------------------
(* The calendar the rows implement.  Each step is one of the calendar's or   *)
(* changes nothing there; the lemmas say so of one kind of step each.      *)

PeriodoDe(r) == IF Vale(r) THEN <<ini[r], fim[r]>> ELSE <<0, 0>>
RetiradaDe(r) == IF Vale(r) THEN retirada[r] ELSE Nada

\* What the calendar shows of a reservation stays.
Parada(r) == UNCHANGED <<Fase(r), PeriodoDe(r), RetiradaDe(r)>>

Limpa(r) == Fase(r)' = "SOLTA" /\ PeriodoDe(r)' = <<0, 0>> /\ RetiradaDe(r)' = Nada

PassoDoPlano == Plano!Next \/ UNCHANGED Plano!vars

\* The row's words in the calendar's.
LEMMA Fases ==
  ASSUME BaseInv, NEW r \in Reservas
  PROVE  /\ Fase(r) \in {"NOVA", "SOLTA", "USADA", "FIRME", "PROVISORIA"}
         /\ Vale(r) <=> Fase(r) \in {"PROVISORIA", "FIRME", "USADA"}
         /\ FixaGaragem(r) <=> Fase(r) \in {"PROVISORIA", "FIRME"}
         /\ Fase(r) = "PROVISORIA" <=>
              /\ status[r] = "AGUARDANDO_PAGAMENTO" /\ pago[r] # "SUCESSO"
              /\ agora < criadaEm[r] + Prazo
         /\ Fase(r) = "FIRME" <=>
              /\ status[r] \in {"AGUARDANDO_PAGAMENTO", "CONFIRMADA", "EM_ANDAMENTO"}
              /\ pago[r] = "SUCESSO"
<1>1. FixaGaragem(r) <=> Vale(r) /\ status[r] # "REALIZADA"
  BY OcupaEVale DEF BaseInv
<1>2. status[r] \in StatusReserva \cup {"NENHUMA", "PEDIDA"}
  BY DEF BaseInv, TypeOK
<1>3. status[r] \in {"CONFIRMADA", "EM_ANDAMENTO", "REALIZADA"} => pago[r] = "SUCESSO"
  BY DEF BaseInv, LinhaCoerente
<1> QED BY <1>1, <1>2, <1>3 DEF Fase, Existe, Vale, StatusReserva

LEMMA NadaMuda ==
  ASSUME \A r \in Reservas : Parada(r), UNCHANGED garagem
  PROVE  PassoDoPlano
  BY DEF PassoDoPlano, Parada, PeriodoDe, RetiradaDe, Plano!vars

LEMMA NovoLugar ==
  ASSUME NEW r \in Reservas, NEW i \in Tempo, NEW f \in Tempo, BaseInv,
         Fase(r) = "NOVA", garagem # Nada,
         \A o \in Reservas \ {r} : Vale(o) => f <= ini[o] \/ fim[o] <= i,
         Fase(r)' = "PROVISORIA", PeriodoDe(r)' = <<i, f>>, RetiradaDe(r)' = garagem,
         \A o \in Reservas \ {r} : Parada(o), UNCHANGED garagem
  PROVE  PassoDoPlano
<1>1. Plano!Cabe(r, i, f)
  BY Fases DEF Plano!Cabe, Plano!Ocupa
<1>2. Plano!Ocupar(r)
  <2>1. ([o \in Reservas |-> PeriodoDe(o)])' = [[o \in Reservas |-> PeriodoDe(o)] EXCEPT ![r] = <<i, f>>]
    BY DEF Parada
  <2> QED BY <1>1, <2>1 DEF Plano!Ocupar, PeriodoDe
<1>3. Plano!Reservar(r)
  BY <1>2 DEF Plano!Reservar, Parada, PeriodoDe, RetiradaDe
<1> QED BY <1>3 DEF PassoDoPlano, Plano!Next

LEMMA OutroLugar ==
  ASSUME NEW r \in Reservas, NEW i \in Tempo, NEW f \in Tempo, BaseInv,
         Fase(r) = "PROVISORIA",
         \A o \in Reservas \ {r} : Vale(o) => f <= ini[o] \/ fim[o] <= i,
         PeriodoDe(r)' = <<i, f>>, UNCHANGED <<Fase(r), RetiradaDe(r)>>,
         \A o \in Reservas \ {r} : Parada(o), UNCHANGED garagem
  PROVE  PassoDoPlano
<1>1. Plano!Cabe(r, i, f)
  BY Fases DEF Plano!Cabe, Plano!Ocupa
<1>2. Plano!Ocupar(r)
  <2>1. ([o \in Reservas |-> PeriodoDe(o)])' = [[o \in Reservas |-> PeriodoDe(o)] EXCEPT ![r] = <<i, f>>]
    BY DEF Parada
  <2> QED BY <1>1, <2>1 DEF Plano!Ocupar, PeriodoDe
<1>3. Plano!Alterar(r)
  BY <1>2 DEF Plano!Alterar, Parada, PeriodoDe, RetiradaDe
<1> QED BY <1>3 DEF PassoDoPlano, Plano!Next

LEMMA FaseSegue ==
  ASSUME NEW r \in Reservas,
         \/ Fase(r) = "PROVISORIA" /\ Fase(r)' = "FIRME"
         \/ Fase(r) = "FIRME" /\ Fase(r)' = "USADA",
         UNCHANGED <<PeriodoDe(r), RetiradaDe(r)>>,
         \A o \in Reservas \ {r} : Parada(o), UNCHANGED garagem
  PROVE  PassoDoPlano
<1>1. Plano!Firmar(r) \/ Plano!Usar(r)
  BY DEF Plano!Firmar, Plano!Usar, Parada, PeriodoDe, RetiradaDe
<1> QED BY <1>1 DEF PassoDoPlano, Plano!Next

\* Places that become free: one by a cancellation, several by the clock.
LEMMA LugarLivre ==
  ASSUME NEW r \in Reservas, Fase(r) \in {"PROVISORIA", "FIRME"}, Limpa(r),
         \A o \in Reservas \ {r} : Parada(o), UNCHANGED garagem
  PROVE  PassoDoPlano
<1>1. Plano!Soltar({r})
  BY DEF Plano!Soltar, Plano!SemPeriodo, Parada, Limpa, PeriodoDe, RetiradaDe
<1> QED BY <1>1 DEF Plano!Cancelar, Plano!Espera, PassoDoPlano, Plano!Next

LEMMA LugaresVencidos ==
  ASSUME NEW rs \in SUBSET Reservas,
         \A r \in rs : Fase(r) = "PROVISORIA" /\ Limpa(r),
         \A o \in Reservas \ rs : Parada(o), UNCHANGED garagem
  PROVE  PassoDoPlano
<1>1. Plano!Soltar(rs)
  BY DEF Plano!Soltar, Plano!SemPeriodo, Parada, Limpa, PeriodoDe, RetiradaDe
<1> QED BY <1>1 DEF Plano!Vencer, PassoDoPlano, Plano!Next

LEMMA VeiculoMuda ==
  ASSUME \A r \in Reservas : Parada(r) /\ Fase(r) \notin {"PROVISORIA", "FIRME"},
         garagem' \in Garagens \cup {Nada}
  PROVE  PassoDoPlano
<1>1. Plano!Mover(garagem')
  BY DEF Plano!Mover, Plano!Espera, Parada, PeriodoDe, RetiradaDe
<1> QED BY <1>1 DEF PassoDoPlano, Plano!Next

\* A reservation whose row is not written is not moved in the calendar.
LEMMA LinhaAlheia ==
  ASSUME NEW r, UNCHANGED <<agora, status[r], pago[r], ini[r], fim[r], criadaEm[r],
                            retirada[r]>>
  PROVE  Parada(r) /\ (Vale(r)' <=> Vale(r))
  BY DEF Parada, Fase, PeriodoDe, RetiradaDe, Vale, Existe

\* What a renter and the payment do.
LEMMA CalendarioReservar ==
  ASSUME BaseInv, ConfirmacaoNoPrazo, BaseInv', Reservar
  PROVE  PassoDoPlano
<1> USE DEF linhaVars, periodoVars, localVars, frotaVars, pedidoVars
<1>0. PICK r \in Reservas :
        \/ \E i, f \in Tempo, d \in Garagens \cup {Nada} : PedirReserva(r, i, f, d)
        \/ CriarReserva(r) \/ RecusarReserva(r)
        \/ IniciarPagamento(r) \/ RecusarPagamento(r)
        \/ IniciarConfirmacao(r) \/ Confirmar(r) \/ GerarCodigo(r)
        \/ Cancelar(r) \/ Expirar(r)
        \/ AceitarCodigo(r) \/ Desbloquear(r) \/ Devolver(r)
  BY DEF Reservar
<1>1. UNCHANGED <<agora, garagem>>
  BY <1>0 DEF PedirReserva, CriarReserva, RecusarReserva, IniciarPagamento,
     RecusarPagamento, IniciarConfirmacao, Confirmar, GerarCodigo, Cancelar, Expirar,
     AceitarCodigo, Desbloquear, Devolver
<1>2. ASSUME NEW o \in Reservas \ {r} PROVE Parada(o)
  <2>1. /\ status'[o] = status[o] /\ pago'[o] = pago[o] /\ criadaEm'[o] = criadaEm[o]
        /\ ini'[o] = ini[o] /\ fim'[o] = fim[o] /\ retirada'[o] = retirada[o]
    BY <1>0 DEF PedirReserva, CriarReserva, RecusarReserva, IniciarPagamento,
       RecusarPagamento, IniciarConfirmacao, Confirmar, GerarCodigo, Cancelar, Expirar,
       AceitarCodigo, Desbloquear, Devolver, BaseInv, TypeOK
  <2> QED BY <1>1, <2>1, LinhaAlheia
<1>3. ASSUME Parada(r) PROVE PassoDoPlano
  BY <1>1, <1>2, <1>3, NadaMuda
\* A request and its refusal leave no row.
<1>4. ASSUME NEW i \in Tempo, NEW f \in Tempo, NEW d \in Garagens \cup {Nada},
             PedirReserva(r, i, f, d) \/ RecusarReserva(r)
      PROVE  PassoDoPlano
  <2>1. status[r] \in {"NENHUMA", "PEDIDA"} /\ status'[r] \in {"NENHUMA", "PEDIDA"}
    BY <1>4 DEF PedirReserva, RecusarReserva, BaseInv, TypeOK
  <2>2. Parada(r)
    BY <2>1 DEF Parada, Fase, PeriodoDe, RetiradaDe, Vale, Existe, StatusReserva
  <2> QED BY <1>3, <2>2
\* The place and the garage are looked at again under the vehicle's lock.
<1>5. CASE CriarReserva(r)
  <2>1. /\ status[r] = "PEDIDA" /\ pago[r] = "AGUARDANDO_PAGAMENTO"
        /\ garagem = retirada[r] /\ garagem # Nada
        /\ ~Conflito(r, ini[r], fim[r])
    BY <1>5, ConstantesAssumption
       DEF CriarReserva, PodeCriar, MesmaGaragem, BaseInv, TypeOK, LinhaCoerente
  <2>2. /\ status'[r] = "AGUARDANDO_PAGAMENTO" /\ criadaEm'[r] = agora
        /\ UNCHANGED <<agora, pago, ini, fim, retirada>>
    BY <1>5 DEF CriarReserva, BaseInv, TypeOK
  <2>3. agora \in Nat /\ ini[r] \in Tempo /\ fim[r] \in Tempo
    BY DEF BaseInv, TypeOK, Tempo
  <2>4. Vale(r)' /\ Fase(r)' = "PROVISORIA" /\ Fase(r) = "NOVA"
    BY <2>1, <2>2, <2>3, ConstantesAssumption DEF Vale, Fase, Existe, StatusReserva
  <2>5. PeriodoDe(r)' = <<ini[r], fim[r]>> /\ RetiradaDe(r)' = garagem
    BY <2>1, <2>2, <2>4 DEF PeriodoDe, RetiradaDe
  <2>6. ASSUME NEW o \in Reservas \ {r}, Vale(o)
        PROVE  fim[r] <= ini[o] \/ fim[o] <= ini[r]
    <3>1. ~(ini[o] < fim[r] /\ ini[r] < fim[o])
      BY <2>1, <2>6, OcupaEVale DEF Conflito, Sobrepoe, BaseInv
    <3> QED BY <3>1 DEF BaseInv, TypeOK, Tempo
  <2> QED BY <1>1, <1>2, <2>1, <2>3, <2>4, <2>5, <2>6, NovoLugar
\* Steps within a phase.
<1>6. CASE \/ IniciarPagamento(r) \/ RecusarPagamento(r) \/ IniciarConfirmacao(r)
           \/ GerarCodigo(r) \/ AceitarCodigo(r) \/ Desbloquear(r) \/ Expirar(r)
  <2>1. UNCHANGED <<ini[r], fim[r], criadaEm[r], retirada[r]>>
    BY <1>6 DEF IniciarPagamento, RecusarPagamento, IniciarConfirmacao, GerarCodigo,
       AceitarCodigo, Desbloquear, Expirar
  <2>2. Fase(r)' = Fase(r) /\ (Vale(r)' <=> Vale(r))
    BY <1>1, <1>6, <2>1, ConstantesAssumption
       DEF IniciarPagamento, RecusarPagamento, IniciarConfirmacao, GerarCodigo,
       AceitarCodigo, Desbloquear, Expirar, Vencida, Fase, Existe, Vale, StatusReserva,
       BaseInv, TypeOK, LinhaCoerente, Tempo
  <2>3. Parada(r)
    BY <2>1, <2>2 DEF Parada, PeriodoDe, RetiradaDe
  <2> QED BY <1>3, <2>3
\* The deadline was checked when the confirmation began, and has not passed.
<1>7. CASE Confirmar(r)
  <2>1. Fase(r) = "PROVISORIA" /\ Vale(r)
    BY <1>7, Fases DEF Confirmar, ConfirmacaoNoPrazo, BaseInv, LinhaCoerente
  <2>2. /\ UNCHANGED <<ini, fim, criadaEm, retirada, status>>
        /\ pago'[r] \in {"SUCESSO", "FALHA"}
    BY <1>7 DEF Confirmar, BaseInv, TypeOK
  <2>3. Vale(r)' /\ Fase(r)' = (IF pago'[r] = "SUCESSO" THEN "FIRME" ELSE "PROVISORIA")
    BY <1>1, <2>1, <2>2, Fases DEF Fase, Existe, Vale, StatusReserva
  <2>4. UNCHANGED <<PeriodoDe(r), RetiradaDe(r)>>
    BY <2>1, <2>2, <2>3 DEF PeriodoDe, RetiradaDe
  <2>5. CASE pago'[r] = "SUCESSO"
    BY <1>1, <1>2, <2>1, <2>3, <2>4, <2>5, FaseSegue
  <2>6. CASE pago'[r] = "FALHA"
    BY <1>3, <2>1, <2>3, <2>4, <2>6 DEF Parada
  <2> QED BY <2>2, <2>5, <2>6
\* An overdue reservation has no place to give back.
<1>8. CASE Cancelar(r)
  <2>1. /\ status[r] \in {"AGUARDANDO_PAGAMENTO", "CONFIRMADA"}
        /\ status'[r] = "CANCELADA"
    BY <1>8 DEF Cancelar, BaseInv, TypeOK
  <2>2. Limpa(r)
    BY <2>1 DEF Limpa, Fase, Existe, Vale, StatusReserva, PeriodoDe, RetiradaDe
  <2>3. CASE Vale(r)
    <3>1. Fase(r) \in {"PROVISORIA", "FIRME"}
      BY <2>1, <2>3, Fases DEF Fase, Existe, StatusReserva
    <3> QED BY <1>1, <1>2, <2>2, <3>1, LugarLivre
  <2>4. CASE ~Vale(r)
    <3>1. Fase(r) = "SOLTA" /\ PeriodoDe(r) = <<0, 0>> /\ RetiradaDe(r) = Nada
      BY <2>1, <2>4 DEF Fase, Existe, StatusReserva, PeriodoDe, RetiradaDe
    <3> QED BY <1>3, <2>2, <3>1 DEF Limpa, Parada
  <2> QED BY <2>3, <2>4
<1>9. CASE Devolver(r)
  <2>1. /\ status[r] = "EM_ANDAMENTO" /\ status'[r] = "REALIZADA" /\ pago[r] = "SUCESSO"
        /\ UNCHANGED <<ini, fim, retirada>>
    BY <1>9 DEF Devolver, BaseInv, TypeOK, LinhaCoerente
  <2>2. Fase(r) = "FIRME" /\ Fase(r)' = "USADA" /\ Vale(r) /\ Vale(r)'
    BY <2>1 DEF Fase, Existe, Vale, StatusReserva
  <2>3. UNCHANGED <<PeriodoDe(r), RetiradaDe(r)>>
    BY <2>1, <2>2 DEF PeriodoDe, RetiradaDe
  <2> QED BY <1>1, <1>2, <2>2, <2>3, FaseSegue
<1>10. 0 \in Tempo
  BY ConstantesAssumption DEF Tempo
<1> QED BY <1>0, <1>4, <1>5, <1>6, <1>7, <1>8, <1>9, <1>10

\* A change that is accepted finds its place again among the others.
LEMMA CalendarioAlterar ==
  ASSUME BaseInv, BaseInv', Alterar
  PROVE  PassoDoPlano
<1>0. UNCHANGED <<agora, garagem>>
  BY DEF Alterar, LerAlteracao, GravarAlteracao, frotaVars
<1>1. UNCHANGED <<agora, garagem, status, pago, criadaEm, retirada>>
  BY <1>0, LinhaParada
<1>2. CASE UNCHANGED <<ini, fim>>
  BY <1>1, <1>2, LinhaAlheia, NadaMuda
<1>3. CASE ~UNCHANGED <<ini, fim>>
  <2>1. PICK a \in Alteracoes : GravarAlteracao(a)
    BY <1>3 DEF Alterar, LerAlteracao, linhaVars
  <2>2. PICK r \in Reservas : r = alteracao[a].reserva
    BY <2>1 DEF GravarAlteracao, AlteracaoDeReserva, BaseInv
  <2> DEFINE i == Dado(alteracao[a].ini, ini[r])
             f == Dado(alteracao[a].fim, fim[r])
  <2>3. /\ AceitaAlteracao(r, i, f)
        /\ ini' = [ini EXCEPT ![r] = i] /\ fim' = [fim EXCEPT ![r] = f]
    BY <1>3, <2>1, <2>2 DEF GravarAlteracao, periodoVars
  <2>4. i \in Tempo /\ f \in Tempo
    BY <2>2 DEF Dado, BaseInv, TypeOK
  <2> HIDE DEF i, f
  <2>5. ini'[r] = i /\ fim'[r] = f
    BY <2>2, <2>3 DEF BaseInv, TypeOK
  <2>6. ASSUME NEW o \in Reservas \ {r} PROVE Parada(o)
    <3>1. ini'[o] = ini[o] /\ fim'[o] = fim[o]
      BY <2>2, <2>3 DEF BaseInv, TypeOK
    <3> QED BY <1>1, <3>1, LinhaAlheia
  <2>7. <<i, f>> # <<ini[r], fim[r]>>
    BY <1>3, <2>2, <2>3 DEF BaseInv, TypeOK
  <2>8. ~PeriodoFixo(r) /\ ~Conflito(r, i, f)
    BY <2>3, <2>7 DEF AceitaAlteracao
  <2>9. UNCHANGED <<Fase(r), RetiradaDe(r)>> /\ (Vale(r)' <=> Vale(r))
    BY <1>1 DEF Fase, Existe, RetiradaDe, Vale
  <2>10. CASE Vale(r)
    <3>1. Fase(r) = "PROVISORIA"
      BY <2>2, <2>8, <2>10, Fases DEF PeriodoFixo, BaseInv, LinhaCoerente, Vale
    <3>2. PeriodoDe(r)' = <<i, f>>
      BY <2>5, <2>9, <2>10 DEF PeriodoDe
    <3>3. ASSUME NEW o \in Reservas \ {r}, Vale(o)
          PROVE  f <= ini[o] \/ fim[o] <= i
      <4>1. ~(ini[o] < f /\ i < fim[o])
        BY <2>8, <3>3, OcupaEVale DEF Conflito, Sobrepoe, BaseInv
      <4> QED BY <2>4, <4>1 DEF BaseInv, TypeOK, Tempo
    <3> QED BY <1>1, <2>2, <2>4, <2>6, <2>9, <3>1, <3>2, <3>3, OutroLugar
  <2>11. CASE ~Vale(r)
    <3>1. Parada(r)
      BY <2>9, <2>11 DEF Parada, PeriodoDe
    <3> QED BY <1>1, <2>6, <3>1, NadaMuda
  <2> QED BY <2>10, <2>11
<1> QED BY <1>2, <1>3

\* The owner moves the vehicle only when nobody expects it.
LEMMA CalendarioFrota ==
  ASSUME BaseInv, BaseInv', AdministrarFrota
  PROVE  PassoDoPlano
<1>1. UNCHANGED <<agora, linhaVars>> /\ (UNCHANGED garagem \/ PodeMover(garagem'))
  BY DEF AdministrarFrota, LerVeiculo, GravarVeiculo, Mover, DesativarGaragem,
     AtivarGaragem, frotaVars
<1>2. \A r \in Reservas : Parada(r)
  BY <1>1, LinhaAlheia DEF linhaVars
<1>3. CASE UNCHANGED garagem
  BY <1>2, <1>3, NadaMuda
<1>4. CASE ~UNCHANGED garagem
  <2>1. \A r \in Reservas : Fase(r) \notin {"PROVISORIA", "FIRME"}
    BY <1>1, <1>4, Fases DEF PodeMover
  <2>2. garagem' \in Garagens \cup {Nada}
    BY DEF BaseInv, TypeOK
  <2> QED BY <1>2, <2>1, <2>2, VeiculoMuda
<1> QED BY <1>3, <1>4

\* Time takes the place of those whose deadline it reaches.
LEMMA CalendarioPassar ==
  ASSUME BaseInv, Passar
  PROVE  PassoDoPlano
<1>1. UNCHANGED <<status, pago, ini, fim, criadaEm, retirada, garagem>>
  BY DEF Passar, linhaVars, frotaVars
<1> DEFINE rs == {r \in Reservas : Vale(r) /\ ~Vale(r)'}
<1>2. agora' = agora + 1 /\ agora \in Nat
  BY DEF Passar, BaseInv, TypeOK, Tempo
<1>3. ASSUME NEW r \in rs PROVE Fase(r) = "PROVISORIA" /\ Limpa(r)
  <2>1. /\ status[r] = "AGUARDANDO_PAGAMENTO" /\ pago[r] # "SUCESSO"
        /\ Vale(r) /\ ~Vale(r)'
    BY <1>1 DEF Vale
  <2> QED BY <1>1, <2>1
          DEF Fase, Existe, StatusReserva, Limpa, PeriodoDe, RetiradaDe
<1>4. ASSUME NEW o \in Reservas \ rs PROVE Parada(o)
  <2>1. criadaEm[o] \in Nat
    BY DEF BaseInv, TypeOK, Tempo
  <2>2. Vale(o)' => Vale(o)
    BY <1>1, <1>2, <2>1, ConstantesAssumption DEF Vale
  <2>3. Vale(o)' <=> Vale(o)
    BY <2>2
  <2> HIDE DEF rs
  <2> QED BY <1>1, <2>3 DEF Parada, Fase, Existe, PeriodoDe, RetiradaDe
<1> HIDE DEF rs
<1>5. rs \in SUBSET Reservas
  BY DEF rs
<1> QED BY <1>1, <1>3, <1>4, <1>5, LugaresVencidos

\* However requests, payments, moves and the clock interleave, the rows behave as
\* the calendar, as long as no confirmation outlives its deadline.
THEOREM PrazoImplementaCalendario ==
  Spec /\ []ConfirmacaoNoPrazo => ImplementaCalendario
<1>1. Init => BaseInv /\ Plano!Init
  BY AgendaInicio
     DEF Init, Plano!Init, Plano!SemPeriodo, Fase, Existe, Vale, StatusReserva
<1>2. BaseInv /\ ConfirmacaoNoPrazo /\ [Next]_vars => BaseInv' /\ [Plano!Next]_(Plano!vars)
  <2> SUFFICES ASSUME BaseInv, ConfirmacaoNoPrazo, [Next]_vars
               PROVE  BaseInv' /\ PassoDoPlano
    BY DEF PassoDoPlano
  <2>1. BaseInv'
    BY AgendaPasso
  <2>2. CASE UNCHANGED vars
    <3>1. UNCHANGED <<agora, garagem, status, pago, ini, fim, criadaEm, retirada>>
      BY <2>2 DEF vars, linhaVars, frotaVars
    <3>2. ASSUME NEW r \in Reservas PROVE Parada(r)
      BY <3>1, LinhaAlheia
    <3> QED BY <2>1, <3>1, <3>2, NadaMuda
  <2> QED BY <2>1, <2>2, CalendarioReservar, CalendarioAlterar, CalendarioFrota,
             CalendarioPassar DEF Next
<1> QED BY <1>1, <1>2, PTL DEF Spec, ImplementaCalendario, Plano!Spec

\* When time does not pass inside a payment confirmation, nothing more is needed.
THEOREM CalendarioImplementado == ASSUME ~PrazoNoMeio PROVE Spec => ImplementaCalendario
  BY ConfirmacoesNoPrazo, PrazoImplementaCalendario, PTL

-----------------------------------------------------------------------------
(* Vehicle and garages of paid reservations, while the vehicle each edit in  *)
(* flight has read is still the vehicle.                                   *)

\* Requests that are made one at a time.
EmSerie(S) == \A x, y \in S : x = y

FrotaInv == BaseInv /\ PagaOperacional

\* The reservations PagaOperacional protects at this moment.
Protegida(r) ==
  /\ fim[r] > agora
  /\ \/ pago[r] = "SUCESSO" /\ status[r] \in {"AGUARDANDO_PAGAMENTO", "CONFIRMADA"}
     \/ status[r] = "EM_ANDAMENTO"

\* What it promises them.
Operante(r) ==
  /\ veiculo \notin {"MANUTENCAO", "INATIVO"}
  /\ ativa[LocalDevolucao(r)]
  /\ status[r] # "EM_ANDAMENTO" => ativa[retirada[r]]

LEMMA ProtegidaOperante ==
  PagaOperacional <=> \A r \in Reservas : Protegida(r) => Operante(r)
  BY DEF PagaOperacional, Protegida, Operante

\* The only edit in flight is the only one that writes the vehicle.
LEMMA EdicaoPasso ==
  ASSUME BaseInv, EdicaoEmDia, EmSerie(Edicoes), [Next]_vars
  PROVE  EdicaoEmDia'
<1> USE DEF BaseInv, TypeOK, EdicaoEmDia
<1>1. ASSUME NEW e \in Edicoes, NEW s \in StatusEditaveis \cup {Nada},
             NEW g \in Garagens \cup {Nada, Mesma}, LerVeiculo(e, s, g)
      PROVE  EdicaoEmDia'
  BY <1>1 DEF LerVeiculo, frotaVars
<1>2. ASSUME NEW e \in Edicoes, GravarVeiculo(e)
      PROVE  EdicaoEmDia'
  BY <1>2 DEF GravarVeiculo, EmSerie
<1>3. CASE UNCHANGED <<edicao, veiculo>>
  BY <1>3
<1>4. CASE Reservar
  BY <1>3, <1>4 DEF Reservar, PedirReserva, CriarReserva, RecusarReserva,
     IniciarPagamento, RecusarPagamento, IniciarConfirmacao, Confirmar, GerarCodigo,
     Cancelar, Expirar, AceitarCodigo, Desbloquear, Devolver, pedidoVars, frotaVars
<1>5. CASE Alterar
  BY <1>3, <1>5 DEF Alterar, LerAlteracao, GravarAlteracao, frotaVars
<1>6. ASSUME NEW g \in Garagens \cup {Nada}, Mover(g)
      PROVE  EdicaoEmDia'
  BY <1>3, <1>6 DEF Mover, pedidoVars
<1>7. ASSUME NEW g \in Garagens, DesativarGaragem(g) \/ AtivarGaragem(g)
      PROVE  EdicaoEmDia'
  BY <1>3, <1>7 DEF DesativarGaragem, AtivarGaragem, pedidoVars
<1>8. CASE Passar \/ UNCHANGED vars
  BY <1>3, <1>8 DEF Passar, vars, pedidoVars, frotaVars
<1> QED BY <1>1, <1>2, <1>4, <1>5, <1>6, <1>7, <1>8 DEF Next, AdministrarFrota

\* Without a change of the fleet or of the garages agreed, only a reservation
\* that becomes protected has anything to lose.
LEMMA SemNovaProtegida ==
  ASSUME PagaOperacional, UNCHANGED <<frotaVars, retirada, devolucao>>,
         \A r \in Reservas : Protegida(r)' => Protegida(r),
         \A r \in Reservas : Protegida(r)' /\ status'[r] # "EM_ANDAMENTO"
           => status[r] # "EM_ANDAMENTO"
  PROVE  PagaOperacional'
  BY DEF PagaOperacional, Protegida, frotaVars, LocalDevolucao

LEMMA ReservarProtege ==
  ASSUME FrotaInv, Reservar, TypeOK'
  PROVE  PagaOperacional'
<1> USE ConstantesAssumption DEF FrotaInv, BaseInv, TypeOK, Tempo, Protegida, LinhaCoerente,
        StatusReserva, StatusPagamento, linhaVars, periodoVars, localVars
<1>0. PICK r \in Reservas :
        \/ \E i, f \in Tempo, d \in Garagens \cup {Nada} : PedirReserva(r, i, f, d)
        \/ CriarReserva(r) \/ RecusarReserva(r)
        \/ IniciarPagamento(r) \/ RecusarPagamento(r)
        \/ IniciarConfirmacao(r) \/ Confirmar(r) \/ GerarCodigo(r)
        \/ Cancelar(r) \/ Expirar(r)
        \/ AceitarCodigo(r) \/ Desbloquear(r) \/ Devolver(r)
  BY DEF Reservar
\* Nothing was paid yet for a reservation asked for.
<1>1. ASSUME NEW i \in Tempo, NEW f \in Tempo, NEW d \in Garagens \cup {Nada},
             PedirReserva(r, i, f, d) \/ RecusarReserva(r)
      PROVE  PagaOperacional'
  <2>1. ~Protegida(r)'
    BY <1>1 DEF PedirReserva, RecusarReserva
  <2>2. \A o \in Reservas \ {r} :
          /\ (Protegida(o)' <=> Protegida(o)) /\ status'[o] = status[o]
          /\ retirada'[o] = retirada[o] /\ devolucao'[o] = devolucao[o]
    BY <1>1 DEF PedirReserva, RecusarReserva
  <2>3. UNCHANGED frotaVars
    BY <1>1 DEF PedirReserva, RecusarReserva
  <2>4. PagaOperacional' <=> \A o \in Reservas : Protegida(o)' => Operante(o)'
    BY DEF PagaOperacional, Operante
  <2> HIDE DEF Protegida
  <2> QED BY <2>1, <2>2, <2>3, <2>4, ProtegidaOperante
          DEF Operante, LocalDevolucao, frotaVars
<1>2. CASE CriarReserva(r) \/ IniciarPagamento(r) \/ RecusarPagamento(r)
  <2>1. \A o \in Reservas : (Protegida(o)' => Protegida(o)) /\
          (Protegida(o)' /\ status'[o] # "EM_ANDAMENTO" => status[o] # "EM_ANDAMENTO")
    BY <1>2 DEF CriarReserva, IniciarPagamento, RecusarPagamento
  <2>2. UNCHANGED <<frotaVars, retirada, devolucao>>
    BY <1>2 DEF CriarReserva, IniciarPagamento, RecusarPagamento
  <2> QED BY <2>1, <2>2, SemNovaProtegida
<1>3. CASE IniciarConfirmacao(r) \/ GerarCodigo(r) \/ Cancelar(r) \/ Expirar(r)
  <2>1. \A o \in Reservas : (Protegida(o)' => Protegida(o)) /\
          (Protegida(o)' /\ status'[o] # "EM_ANDAMENTO" => status[o] # "EM_ANDAMENTO")
    BY <1>3 DEF IniciarConfirmacao, GerarCodigo, Cancelar, Expirar
  <2>2. UNCHANGED <<frotaVars, retirada, devolucao>>
    BY <1>3 DEF IniciarConfirmacao, GerarCodigo, Cancelar, Expirar
  <2> QED BY <2>1, <2>2, SemNovaProtegida
\* The approval is refused unless vehicle and garages are operational.
<1>4. CASE Confirmar(r)
  <2>1. /\ UNCHANGED <<agora, status, fim, frotaVars, retirada, devolucao>>
        /\ status[r] = "AGUARDANDO_PAGAMENTO"
        /\ \A o \in Reservas \ {r} : pago'[o] = pago[o]
    BY <1>4 DEF Confirmar
  <2>2. CASE Operacional(r)
    <3>1. /\ veiculo \notin {"MANUTENCAO", "INATIVO"}
          /\ ativa[retirada[r]] /\ ativa[LocalDevolucao(r)]
      BY <2>1, <2>2 DEF Operacional, Indisponibiliza, LocalDevolucao
    <3> QED BY <2>1, <3>1 DEF PagaOperacional, frotaVars, LocalDevolucao
  <2>3. CASE ~Operacional(r)
    <3>1. pago'[r] = "FALHA"
      BY <1>4, <2>3 DEF Confirmar
    <3> QED BY <2>1, <3>1 DEF PagaOperacional, frotaVars, LocalDevolucao
  <2> QED BY <2>2, <2>3
\* What is unlocked was confirmed, and so paid.
<1>5. CASE AceitarCodigo(r) \/ Desbloquear(r) \/ Devolver(r)
  <2>1. \A o \in Reservas : (Protegida(o)' => Protegida(o)) /\
          (Protegida(o)' /\ status'[o] # "EM_ANDAMENTO" => status[o] # "EM_ANDAMENTO")
    BY <1>5 DEF AceitarCodigo, Desbloquear, Devolver
  <2>2. UNCHANGED <<frotaVars, retirada, devolucao>>
    BY <1>5 DEF AceitarCodigo, Desbloquear, Devolver
  <2> QED BY <2>1, <2>2, SemNovaProtegida
<1>6. 0 \in Tempo
  OBVIOUS
<1> QED BY <1>0, <1>1, <1>2, <1>3, <1>4, <1>5, <1>6

LEMMA AlterarProtege ==
  ASSUME FrotaInv, Alterar, TypeOK'
  PROVE  PagaOperacional'
<1> USE ConstantesAssumption DEF FrotaInv, BaseInv, TypeOK, Tempo, LinhaCoerente
<1>1. ASSUME NEW a \in Alteracoes, NEW r \in Reservas,
             NEW i \in Tempo \cup {Nada}, NEW f \in Tempo \cup {Nada},
             NEW d \in Garagens \cup {Nada}, LerAlteracao(a, r, i, f, d)
      PROVE  PagaOperacional'
  BY <1>1 DEF LerAlteracao, linhaVars, frotaVars, PagaOperacional, LocalDevolucao
\* A paid row keeps its end; its new return garage is read FOR SHARE and active.
<1>2. ASSUME NEW a \in Alteracoes, GravarAlteracao(a)
      PROVE  PagaOperacional'
  <2>1. PICK r \in Reservas : r = alteracao[a].reserva
    BY <1>2 DEF GravarAlteracao, AlteracaoDeReserva
  <2> DEFINE i == Dado(alteracao[a].ini, ini[r])
             f == Dado(alteracao[a].fim, fim[r])
             d == alteracao[a].devolucao
  <2>2. UNCHANGED <<agora, status, pago, retirada, frotaVars>>
    BY <1>2 DEF GravarAlteracao
  <2>3. CASE UNCHANGED <<periodoVars, devolucao>>
    BY <2>2, <2>3 DEF PagaOperacional, LocalDevolucao, frotaVars, periodoVars
  <2>4. CASE ~UNCHANGED <<periodoVars, devolucao>>
    <3>1. /\ AceitaAlteracao(r, i, f) /\ (d # Nada => ativa[d])
          /\ fim' = [fim EXCEPT ![r] = f]
          /\ devolucao' = [devolucao EXCEPT ![r] = Dado(d, devolucao[r])]
      BY <1>2, <2>1, <2>4 DEF GravarAlteracao
    <3>2. pago[r] = "SUCESSO" => fim' = fim
      <4>1. pago[r] = "SUCESSO" => <<i, f>> = <<ini[r], fim[r]>>
        BY <3>1 DEF AceitaAlteracao, PeriodoFixo
      <4>2. pago[r] = "SUCESSO" => f = fim[r]
        BY <4>1
      <4> HIDE DEF f
      <4> QED BY <2>1, <3>1, <4>2
    <3>3. \A o \in Reservas : o # r => fim'[o] = fim[o] /\ devolucao'[o] = devolucao[o]
      <4> HIDE DEF f, d
      <4> QED BY <3>1
    <3>4. LocalDevolucao(r)' = LocalDevolucao(r) \/ ativa[LocalDevolucao(r)']
      <4>1. devolucao'[r] = Dado(d, devolucao[r])
        BY <3>1
      <4>2. CASE d = Nada
        BY <2>2, <4>1, <4>2 DEF LocalDevolucao, Dado
      <4>3. CASE d # Nada
        BY <3>1, <4>1, <4>3 DEF LocalDevolucao, Dado
      <4> QED BY <4>2, <4>3
    <3> HIDE DEF i, f, d
    <3> USE <2>2 DEF Protegida, Operante, LocalDevolucao, frotaVars
    <3>5. \A o \in Reservas : Protegida(o)' => Protegida(o)
      BY <3>2, <3>3
    <3>6. \A o \in Reservas : Protegida(o)' => Operante(o)
      BY <3>5, ProtegidaOperante
    <3>7. ASSUME NEW o \in Reservas, o # r, Protegida(o)'
          PROVE  Operante(o)'
      BY <3>3, <3>6, <3>7
    <3>8. ASSUME Protegida(r)'
          PROVE  Operante(r)'
      <4>1. Operante(r)
        BY <3>6, <3>8
      <4> QED BY <3>4, <4>1
    <3>9. \A o \in Reservas : Protegida(o)' => Operante(o)'
      BY <3>7, <3>8
    <3>10. PagaOperacional' <=> \A o \in Reservas : Protegida(o)' => Operante(o)'
      BY DEF PagaOperacional, Protegida, Operante
    <3> QED BY <3>9, <3>10
  <2> QED BY <2>3, <2>4
<1> QED BY <1>1, <1>2 DEF Alterar

LEMMA FrotaProtege ==
  ASSUME FrotaInv, EdicaoEmDia, AdministrarFrota \/ Passar \/ UNCHANGED vars
  PROVE  PagaOperacional'
<1> USE ConstantesAssumption DEF FrotaInv, BaseInv, TypeOK, Tempo, LinhaCoerente, linhaVars
<1>0. UNCHANGED linhaVars
  BY DEF AdministrarFrota, LerVeiculo, GravarVeiculo, Mover, DesativarGaragem,
     AtivarGaragem, Passar, vars
<1>1. ASSUME NEW e \in Edicoes, NEW s \in StatusEditaveis \cup {Nada},
             NEW g \in Garagens \cup {Nada, Mesma}, LerVeiculo(e, s, g)
      PROVE  PagaOperacional'
  BY <1>0, <1>1 DEF LerVeiculo, frotaVars, PagaOperacional, LocalDevolucao
\* The status is compared with the one read, which is the vehicle's.
<1>2. ASSUME NEW e \in Edicoes, GravarVeiculo(e)
      PROVE  PagaOperacional'
  <2>0. UNCHANGED <<agora, ativa>>
    BY <1>2 DEF GravarVeiculo
  <2>1. CASE veiculo' = veiculo
    BY <1>0, <2>0, <2>1 DEF PagaOperacional, LocalDevolucao
  <2>2. CASE veiculo' # veiculo
    <3>1. /\ edicao[e].lido = veiculo /\ veiculo' = edicao[e].novo
          /\ edicao[e].novo # Nada /\ SemCompromisso(edicao[e].lido, edicao[e].novo)
      BY <1>2, <2>2 DEF GravarVeiculo, EdicaoEmDia, Dado
    <3>2. CASE ~Indisponibiliza(veiculo')
      BY <1>0, <2>0, <3>2 DEF PagaOperacional, LocalDevolucao, Indisponibiliza
    <3>3. CASE \A r \in Reservas : ~ImpedeIndisponibilizar(r)
      <4>1. \A r \in Reservas : status[r] # "EM_ANDAMENTO" /\ ~PagaFutura(r)
        BY <3>3 DEF ImpedeIndisponibilizar
      <4> QED BY <1>0, <2>0, <4>1 DEF PagaOperacional, PagaFutura
    <3> QED BY <2>2, <3>1, <3>2, <3>3 DEF SemCompromisso
  <2> QED BY <2>1, <2>2
<1>3. ASSUME NEW g \in Garagens \cup {Nada}, Mover(g)
      PROVE  PagaOperacional'
  BY <1>0, <1>3 DEF Mover, PagaOperacional, LocalDevolucao
\* No reservation that needs the garage is left when it closes.
<1>4. ASSUME NEW g \in Garagens, DesativarGaragem(g)
      PROVE  PagaOperacional'
  <2>1. /\ UNCHANGED <<agora, veiculo>> /\ ativa' = [ativa EXCEPT ![g] = FALSE]
        /\ \A r \in Reservas : ~PrecisaDaGaragem(r, g)
    BY <1>4 DEF DesativarGaragem
  <2>2. \A r \in Reservas : PagaFutura(r) =>
          /\ veiculo \notin {"MANUTENCAO", "INATIVO"}
          /\ ativa'[retirada[r]] /\ ativa'[LocalDevolucao(r)]
    BY <2>1 DEF PrecisaDaGaragem, PagaOperacional, PagaFutura
  <2>3. \A r \in Reservas : status[r] = "EM_ANDAMENTO" /\ fim[r] > agora =>
          veiculo \notin {"MANUTENCAO", "INATIVO"} /\ ativa'[LocalDevolucao(r)]
    BY <2>1 DEF PrecisaDaGaragem, PagaOperacional
  <2> QED BY <1>0, <2>1, <2>2, <2>3 DEF PagaOperacional, PagaFutura, LocalDevolucao
<1>5. ASSUME NEW g \in Garagens, AtivarGaragem(g)
      PROVE  PagaOperacional'
  BY <1>0, <1>5 DEF AtivarGaragem, PagaOperacional, LocalDevolucao
<1>6. CASE Passar
  BY <1>0, <1>6 DEF Passar, frotaVars, PagaOperacional, LocalDevolucao
<1>7. CASE UNCHANGED vars
  BY <1>7 DEF vars, frotaVars, PagaOperacional, LocalDevolucao
<1> QED BY <1>1, <1>2, <1>3, <1>4, <1>5, <1>6, <1>7 DEF AdministrarFrota

\* A paid or running reservation keeps a vehicle and garages that are in service,
\* as long as no edit in flight has read a vehicle another edit changed since.
THEOREM EdicaoEmDiaPagaOperacional == Spec /\ []EdicaoEmDia => []PagaOperacional
<1>1. Init => FrotaInv
  BY AgendaInicio, ConstantesAssumption DEF FrotaInv, Init, PagaOperacional
<1>2. FrotaInv /\ EdicaoEmDia /\ [Next]_vars => FrotaInv'
  <2> SUFFICES ASSUME FrotaInv, EdicaoEmDia, [Next]_vars PROVE FrotaInv'
    OBVIOUS
  <2>1. BaseInv' /\ TypeOK'
    BY AgendaPasso DEF FrotaInv, BaseInv
  <2> QED BY <2>1, ReservarProtege, AlterarProtege, FrotaProtege DEF FrotaInv, Next
<1>3. FrotaInv => PagaOperacional
  BY DEF FrotaInv
<1> QED BY <1>1, <1>2, <1>3, PTL DEF Spec

\* When edits of the vehicle are made one at a time, nothing more is needed.
THEOREM ReservaPagaOperacional ==
  ASSUME EmSerie(Edicoes) PROVE Spec => []PagaOperacional
<1>1. Init => BaseInv /\ EdicaoEmDia
  BY AgendaInicio DEF Init, EdicaoEmDia
<1>2. BaseInv /\ EdicaoEmDia /\ [Next]_vars => BaseInv' /\ EdicaoEmDia'
  BY AgendaPasso, EdicaoPasso
<1> QED BY <1>1, <1>2, EdicaoEmDiaPagaOperacional, PTL DEF Spec

-----------------------------------------------------------------------------
(* The period and the price of what is being paid or was paid.             *)

DatasPagasFixas ==
  \A r \in Reservas : PeriodoFixo(r) => ini'[r] = ini[r] /\ fim'[r] = fim[r]

PrecoPagoFixo == \A r \in Reservas : PeriodoFixo(r) => valorDe'[r] = valorDe[r]

\* Only a request, its refusal and a change of period write periods and prices.
LEMMA QuemMudaPeriodo ==
  ASSUME LinhaCoerente, [Next]_vars
  PROVE  \/ UNCHANGED periodoVars
         \/ \E r \in Reservas :
              /\ ~PeriodoFixo(r)
              /\ status[r] \notin StatusReserva
              /\ \A o \in Reservas \ {r} :
                   ini'[o] = ini[o] /\ fim'[o] = fim[o] /\ valorDe'[o] = valorDe[o]
              /\ UNCHANGED alteracao
         \/ \E a \in Alteracoes : GravarAlteracao(a)
<1> USE DEF periodoVars, linhaVars
<1>1. CASE Reservar
  <2>0. ASSUME NEW r \in Reservas,
               \/ CriarReserva(r) \/ IniciarPagamento(r) \/ RecusarPagamento(r)
               \/ IniciarConfirmacao(r) \/ Confirmar(r) \/ GerarCodigo(r)
               \/ Cancelar(r) \/ Expirar(r)
               \/ AceitarCodigo(r) \/ Desbloquear(r) \/ Devolver(r)
        PROVE  UNCHANGED periodoVars
    BY <2>0 DEF CriarReserva, IniciarPagamento, RecusarPagamento,
       IniciarConfirmacao, Confirmar, GerarCodigo, Cancelar, Expirar, AceitarCodigo,
       Desbloquear, Devolver
  <2> DEFINE Apenas(r) == /\ ~PeriodoFixo(r)
                          /\ status[r] \notin StatusReserva
                          /\ \A o \in Reservas \ {r} : ini'[o] = ini[o] /\ fim'[o] = fim[o]
                                                       /\ valorDe'[o] = valorDe[o]
                          /\ UNCHANGED alteracao
  <2>2. ASSUME NEW r \in Reservas, NEW i \in Tempo, NEW f \in Tempo,
               NEW d \in Garagens \cup {Nada}, PedirReserva(r, i, f, d)
        PROVE  Apenas(r)
    BY <2>2 DEF PedirReserva, LinhaCoerente, PeriodoFixo, StatusReserva, pedidoVars
  <2>3. ASSUME NEW r \in Reservas, RecusarReserva(r)
        PROVE  Apenas(r)
    BY <2>3 DEF RecusarReserva, LinhaCoerente, PeriodoFixo, StatusReserva, pedidoVars
  <2> HIDE DEF Apenas, periodoVars
  <2>4. UNCHANGED periodoVars \/ \E r \in Reservas : Apenas(r)
    BY <1>1, <2>0, <2>2, <2>3 DEF Reservar
  <2> QED BY <2>4 DEF Apenas
<1>2. CASE Alterar
  BY <1>2 DEF Alterar, LerAlteracao
<1>3. CASE AdministrarFrota \/ Passar \/ UNCHANGED vars
  BY <1>3 DEF AdministrarFrota, LerVeiculo, GravarVeiculo, Mover, DesativarGaragem,
     AtivarGaragem, Passar, vars
<1> QED BY <1>1, <1>2, <1>3 DEF Next

\* The dates are checked again under the locks, so no change reaches them.
LEMMA DatasPasso ==
  ASSUME BaseInv, [Next]_vars
  PROVE  DatasPagasFixas
<1> USE DEF BaseInv, DatasPagasFixas
<1>1. CASE UNCHANGED periodoVars
  BY <1>1 DEF periodoVars
<1>2. ASSUME NEW r \in Reservas, ~PeriodoFixo(r),
             \A o \in Reservas \ {r} : ini'[o] = ini[o] /\ fim'[o] = fim[o]
      PROVE  DatasPagasFixas
  BY <1>2
<1>3. ASSUME NEW a \in Alteracoes, GravarAlteracao(a)
      PROVE  DatasPagasFixas
  <2>1. PICK r \in Reservas : r = alteracao[a].reserva
    BY <1>3 DEF GravarAlteracao, AlteracaoDeReserva
  <2> DEFINE i == Dado(alteracao[a].ini, ini[r])
             f == Dado(alteracao[a].fim, fim[r])
  <2>2. CASE UNCHANGED periodoVars
    BY <2>2 DEF periodoVars
  <2>3. CASE ~UNCHANGED periodoVars
    <3>1. /\ AceitaAlteracao(r, i, f)
          /\ ini' = [ini EXCEPT ![r] = i] /\ fim' = [fim EXCEPT ![r] = f]
      BY <1>3, <2>1, <2>3 DEF GravarAlteracao
    <3>2. PeriodoFixo(r) => <<i, f>> = <<ini[r], fim[r]>>
      BY <3>1 DEF AceitaAlteracao
    <3> HIDE DEF i, f
    <3>3. PeriodoFixo(r) => i = ini[r] /\ f = fim[r]
      BY <3>2
    <3> QED BY <3>1, <3>3 DEF TypeOK
  <2> QED BY <2>2, <2>3
<1> QED BY <1>1, <1>2, <1>3, QuemMudaPeriodo

\* Whatever interleaves, the dates of a reservation whose payment began stay.
THEOREM DatasDoPagoFixas == Spec => [][DatasPagasFixas]_vars
<1>1. Init => BaseInv
  BY AgendaInicio
<1>2. BaseInv /\ [Next]_vars => BaseInv' /\ DatasPagasFixas
  BY AgendaPasso, DatasPasso
<1> QED BY <1>1, <1>2, PTL DEF Spec

\* A change that carries a price was read of a row whose dates it changes, and
\* while it is the only one in flight that row keeps its dates.
LEMMA PrecoPasso ==
  ASSUME BaseInv, PrecoDeMudanca, EmSerie(Alteracoes), [Next]_vars
  PROVE  PrecoDeMudanca'
<1> USE DEF BaseInv, PrecoDeMudanca
<1>1. ASSUME NEW a \in Alteracoes, NEW r \in Reservas,
             NEW i \in Tempo \cup {Nada}, NEW f \in Tempo \cup {Nada},
             NEW d \in Garagens \cup {Nada}, LerAlteracao(a, r, i, f, d)
      PROVE  PrecoDeMudanca'
  <2> DEFINE i2 == Dado(i, ini[r])
             f2 == Dado(f, fim[r])
             muda == <<i2, f2>> # <<ini[r], fim[r]>>
             preco == IF muda THEN <<i2, f2>> ELSE Nada
             nova == [reserva |-> r, ini |-> i, fim |-> f, devolucao |-> d, valorDe |-> preco]
  <2>1. alteracao' = [alteracao EXCEPT ![a] = nova] /\ UNCHANGED <<ini, fim>>
    BY <1>1 DEF LerAlteracao, linhaVars
  <2>2. alteracao'[a] = nova
    BY <2>1 DEF TypeOK
  <2>3. nova.reserva = r /\ nova.ini = i /\ nova.fim = f /\ nova.valorDe = preco
    OBVIOUS
  <2>4. preco # Nada => muda
    OBVIOUS
  <2> QED BY <2>1, <2>2, <2>3, <2>4 DEF EmSerie
<1>2. ASSUME NEW a \in Alteracoes, GravarAlteracao(a)
      PROVE  PrecoDeMudanca'
  <2>1. \A b \in Alteracoes : alteracao'[b] = SemAlteracao
    BY <1>2 DEF GravarAlteracao, TypeOK, EmSerie
  <2> QED BY <2>1 DEF SemAlteracao
<1>3. CASE Reservar \/ AdministrarFrota \/ Passar \/ UNCHANGED vars
  <2>1. UNCHANGED alteracao
    BY <1>3 DEF Reservar, PedirReserva, CriarReserva, RecusarReserva, IniciarPagamento,
       RecusarPagamento, IniciarConfirmacao, Confirmar, GerarCodigo, Cancelar, Expirar,
       AceitarCodigo, Desbloquear, Devolver, AdministrarFrota, LerVeiculo, GravarVeiculo,
       Mover, DesativarGaragem, AtivarGaragem, Passar, vars, pedidoVars
  <2>2. ASSUME NEW a \in Alteracoes, GravarAlteracao(a), alteracao[a] # SemAlteracao
        PROVE  PrecoDeMudanca'
    BY <1>2, <2>2
  <2>3. CASE UNCHANGED periodoVars
    BY <2>1, <2>3 DEF periodoVars
  <2>4. ASSUME NEW r \in Reservas, status[r] \notin StatusReserva,
               \A o \in Reservas \ {r} : ini'[o] = ini[o] /\ fim'[o] = fim[o]
        PROVE  PrecoDeMudanca'
    <3>1. \A a \in Alteracoes : alteracao[a] # SemAlteracao =>
            LET o == alteracao[a].reserva IN ini'[o] = ini[o] /\ fim'[o] = fim[o]
      BY <2>4 DEF AlteracaoDeReserva, Existe
    <3> QED BY <2>1, <3>1
  <2> QED BY <1>2, <2>3, <2>4, QuemMudaPeriodo
<1> QED BY <1>1, <1>2, <1>3 DEF Next, Alterar

LEMMA PrecoFixoPasso ==
  ASSUME BaseInv, PrecoDeMudanca, [Next]_vars
  PROVE  PrecoPagoFixo
<1> USE DEF BaseInv, PrecoPagoFixo
<1>1. CASE UNCHANGED periodoVars
  BY <1>1 DEF periodoVars
<1>2. ASSUME NEW r \in Reservas, ~PeriodoFixo(r),
             \A o \in Reservas \ {r} : valorDe'[o] = valorDe[o]
      PROVE  PrecoPagoFixo
  BY <1>2
<1>3. ASSUME NEW a \in Alteracoes, GravarAlteracao(a)
      PROVE  PrecoPagoFixo
  <2>1. PICK r \in Reservas : r = alteracao[a].reserva
    BY <1>3 DEF GravarAlteracao, AlteracaoDeReserva
  <2> DEFINE i == Dado(alteracao[a].ini, ini[r])
             f == Dado(alteracao[a].fim, fim[r])
             preco == alteracao[a].valorDe
  <2>2. CASE UNCHANGED periodoVars
    BY <2>2 DEF periodoVars
  <2>3. CASE ~UNCHANGED periodoVars
    <3>1. /\ AceitaAlteracao(r, i, f)
          /\ valorDe' = [valorDe EXCEPT ![r] = Dado(preco, valorDe[r])]
      BY <1>3, <2>1, <2>3 DEF GravarAlteracao
    <3>2. PeriodoFixo(r) => <<i, f>> = <<ini[r], fim[r]>>
      BY <3>1 DEF AceitaAlteracao
    <3>3. preco # Nada => <<i, f>> # <<ini[r], fim[r]>>
      BY <1>3, <2>1 DEF PrecoDeMudanca, GravarAlteracao
    <3> HIDE DEF i, f, preco
    <3>4. PeriodoFixo(r) => Dado(preco, valorDe[r]) = valorDe[r]
      BY <3>2, <3>3 DEF Dado
    <3> QED BY <3>1, <3>4 DEF TypeOK
  <2> QED BY <2>2, <2>3
<1> QED BY <1>1, <1>2, <1>3, QuemMudaPeriodo

\* What is being paid or was paid keeps its period and its price, as long as no
\* change in flight carries a price for the dates the row already has.
THEOREM MudancaComPrecoPagoFixo == Spec /\ []PrecoDeMudanca => PeriodoPagoFixo
<1>1. Init => BaseInv
  BY AgendaInicio
<1>2. BaseInv /\ PrecoDeMudanca /\ [Next]_vars
        => BaseInv' /\ DatasPagasFixas /\ PrecoPagoFixo
  BY AgendaPasso, DatasPasso, PrecoFixoPasso
<1>3. DatasPagasFixas /\ PrecoPagoFixo => \A r \in Reservas : PeriodoFixo(r) =>
        /\ ini'[r] = ini[r] /\ fim'[r] = fim[r] /\ valorDe'[r] = valorDe[r]
  BY DEF DatasPagasFixas, PrecoPagoFixo
<1> QED BY <1>1, <1>2, <1>3, PTL DEF Spec, PeriodoPagoFixo

\* When changes of period are made one at a time, nothing more is needed.
THEOREM PeriodoEPrecoFixos ==
  ASSUME EmSerie(Alteracoes) PROVE Spec => PeriodoPagoFixo
<1>1. Init => BaseInv /\ PrecoDeMudanca
  BY AgendaInicio DEF Init, PrecoDeMudanca
<1>2. BaseInv /\ PrecoDeMudanca /\ [Next]_vars => BaseInv' /\ PrecoDeMudanca'
  BY AgendaPasso, PrecoPasso
<1> QED BY <1>1, <1>2, MudancaComPrecoPagoFixo, PTL DEF Spec

=============================================================================
