------------------------------ MODULE Alocacao ------------------------------
(***************************************************************************)
(* One owner's vehicles and garages, and the locks under which their       *)
(* transactions run.                                                       *)
(*                                                                         *)
(* A transaction takes its locks one by one, in the order of its plan,     *)
(* waits for each and reads under it what it decides by; it writes and     *)
(* commits in one step, which releases everything.  It may end without an  *)
(* effect at any moment (a refusal, Prisma's timeout, a stop).             *)
(* Reservations are here for the rows and advisory locks that their        *)
(* transactions share with those of the fleet.                             *)
(***************************************************************************)
EXTENDS Integers, Sequences, FiniteSets

CONSTANTS
  Veiculos,
  Garagens,        \* identifiers, ordered as ORDER BY id orders them
  Modelos,
  Reservas,        \* identifiers, ordered likewise
  Processos,       \* transactions that may run at once
  Capacidades,     \* of the garages when they are created
  Pedidos,         \* the requests that may be made
  VeiculoDe,       \* [Reservas -> Veiculos]
  RetiradaDe, DevolucaoDe,   \* [Reservas -> Garagens]
  Nada, Mesma      \* no garage; none given in the request

DeReserva == {"RESERVAR", "PAGAR", "ALTERAR", "CANCELAR"}

StatusGaragem == {"ATIVA", "INATIVA", "MANUTENCAO"}

\* What a transaction reads of a garage.
Fotos == [alocados : Nat, capacidade : Nat, situacao : StatusGaragem]

\* What the routes let through.
Requisicoes ==
  [op : {"CRIAR"}, placas : SUBSET Veiculos, local : Garagens \cup {Nada},
   modelo : Modelos, lote : BOOLEAN] \cup
  [op : {"EDITAR"}, veiculo : Veiculos, local : Garagens \cup {Nada, Mesma},
   retira : BOOLEAN, modelo : Modelos \cup {Nada}] \cup
  [op : {"GARAGEM"}, garagem : Garagens, capacidade : Nat \cup {Nada},
   nova : StatusGaragem \cup {"MESMA"}] \cup
  [op : DeReserva, reserva : Reservas]

ASSUME ConstantesAssumption ==
  /\ Garagens \subseteq Nat /\ IsFiniteSet(Garagens)
  /\ Reservas \subseteq Nat /\ IsFiniteSet(Reservas)
  /\ IsFiniteSet(Veiculos)
  /\ Capacidades \subseteq Nat
  /\ VeiculoDe \in [Reservas -> Veiculos]
  /\ RetiradaDe \in [Reservas -> Garagens]
  /\ DevolucaoDe \in [Reservas -> Garagens]
  /\ Nada \notin Modelos \cup Nat \cup Fotos
  /\ Mesma \notin Nat \cup {Nada}
  /\ Pedidos \subseteq Requisicoes

VARIABLES
  existe,          \* the rows Veiculo
  local,           \* Veiculo.garagemId
  capacidade, alocados, situacao,   \* Garagem
  pedido,          \* the transaction of each process
  travas,          \* how many locks of its plan it holds
  lido             \* what it has read under them

frota == <<existe, local, capacidade, alocados, situacao>>
vars == <<frota, pedido, travas, lido>>

Livre == [op |-> "LIVRE"]
NadaLido == [origem |-> Mesma, novos |-> {}, vista |-> [g \in Garagens |-> Nada]]

Init ==
  /\ existe = {}
  /\ local = [v \in Veiculos |-> Nada]
  /\ capacidade \in [Garagens -> Capacidades]
  /\ alocados = [g \in Garagens |-> 0]
  /\ situacao = [g \in Garagens |-> "ATIVA"]
  /\ pedido = [p \in Processos |-> Livre]
  /\ travas = [p \in Processos |-> 0]
  /\ lido = [p \in Processos |-> NadaLido]

-----------------------------------------------------------------------------
(* Locks: advisory ones, rows FOR UPDATE (exclusive) and FOR SHARE.        *)

Trava(tipo, id, compartilhada) ==
  [tipo |-> tipo, id |-> id, compartilhada |-> compartilhada]

AdvReserva(r) == <<Trava("adv_reserva", r, FALSE)>>
AdvVeiculo(v) == <<Trava("adv_veiculo", v, FALSE)>>
LinhaVeiculo(v) == <<Trava("veiculo", v, FALSE)>>
LinhaModelo(m) == IF m = Nada THEN <<>> ELSE <<Trava("modelo", m, FALSE)>>

\* Rows in the order of their identifiers.
Anteriores(x, ids) == Cardinality({y \in ids : y < x})

LinhasEmOrdem(tipo, ids, compartilhada) ==
  [i \in 1..Cardinality(ids) |->
     Trava(tipo, CHOOSE x \in ids : Anteriores(x, ids) = i - 1, compartilhada)]

LinhasGaragens(gs, compartilhada) ==
  LinhasEmOrdem("garagem", gs \ {Nada}, compartilhada)
LinhasReservas(rs) == LinhasEmOrdem("reserva", rs, FALSE)

LocaisDe(r) == {RetiradaDe[r], DevolucaoDe[r]}
DoVeiculo(v) == {r \in Reservas : VeiculoDe[r] = v}
DaGaragem(g) == {r \in Reservas : g \in LocaisDe(r)}

\* Mutation: the garage the vehicle leaves is locked before the one it goes to.
MutGaragensDoMovimento(origem, g) ==
  LinhasGaragens({origem}, FALSE) \o LinhasGaragens({g}, FALSE)

GaragensDoMovimento(origem, g) == LinhasGaragens({origem, g}, FALSE)

\* moveVehicleInTransaction and desalocarVehicleInTransaction; the garage the
\* vehicle leaves is known under the vehicle's row lock.
PlanoMover(v, origem, g) ==
  AdvVeiculo(v) \o LinhaVeiculo(v) \o
  IF origem \in {Mesma, g} THEN <<>>
  ELSE GaragensDoMovimento(origem, g) \o LinhasReservas(DoVeiculo(v))

\* PrismaVeiculoRepository.update: the move, the check of the reservations if
\* the vehicle leaves service, the model, the row of the vehicle.
PlanoEditar(t, origem) ==
  LET move == t.local # Mesma
      parado == ~move \/ origem = t.local
  IN
  (IF move THEN PlanoMover(t.veiculo, origem, t.local)
   ELSE IF t.retira THEN AdvVeiculo(t.veiculo) ELSE <<>>) \o
  (IF t.retira /\ parado THEN LinhasReservas(DoVeiculo(t.veiculo)) ELSE <<>>) \o
  LinhaModelo(t.modelo) \o
  (IF move THEN <<>> ELSE LinhaVeiculo(t.veiculo))

\* PrismaVeiculoRepository.create and createLote; the vehicles that are new are
\* known once the model is there.
PlanoCriar(t, novos) ==
  LinhaModelo(t.modelo) \o
  IF novos = {} THEN <<>> ELSE LinhasGaragens({t.local}, FALSE)

\* The garage gets another status in which it serves no reservation.
Indisponibiliza(t, vista) ==
  /\ t.nova \notin {"MESMA", "ATIVA"}
  /\ vista[t.garagem] # Nada /\ vista[t.garagem].situacao # t.nova

\* PrismaGaragemRepository.update and delete.
PlanoGaragem(t, vista) ==
  LinhasGaragens({t.garagem}, FALSE) \o
  IF Indisponibiliza(t, vista) THEN LinhasReservas(DaGaragem(t.garagem)) ELSE <<>>

\* The insert of a reservation: its foreign keys share the rows of the garages,
\* the pick-up's key first.
LinhasDasChaves(r) ==
  LinhasGaragens({RetiradaDe[r]}, TRUE) \o
  LinhasGaragens({DevolucaoDe[r]} \ {RetiradaDe[r]}, TRUE)

\* PrismaReservaRepository: create, atualizarStatusPagamento (and
\* registrarPagamentoIniciado), update, cancelar (and the expiration).
PlanoReserva(t) ==
  LET r == t.reserva
      doVeiculo == AdvVeiculo(VeiculoDe[r])
  IN
  CASE t.op = "RESERVAR" -> doVeiculo \o LinhasDasChaves(r)
    [] t.op = "PAGAR"    -> AdvReserva(r) \o doVeiculo \o
                            LinhasGaragens(LocaisDe(r), TRUE) \o LinhasReservas({r})
    [] t.op = "ALTERAR"  -> AdvReserva(r) \o doVeiculo \o
                            LinhasGaragens({DevolucaoDe[r]}, TRUE) \o LinhasReservas({r})
    [] t.op = "CANCELAR" -> AdvReserva(r) \o LinhasReservas({r})

\* The locks of a transaction in the order it asks for them, as far as it knows.
Plano(p) ==
  LET t == pedido[p]  l == lido[p] IN
  IF t.op = "CRIAR" THEN PlanoCriar(t, l.novos)
  ELSE IF t.op = "EDITAR" THEN PlanoEditar(t, l.origem)
  ELSE IF t.op = "GARAGEM" THEN PlanoGaragem(t, l.vista)
  ELSE PlanoReserva(t)

EmCurso(p) == pedido[p] # Livre

Completo(p) == travas[p] = Len(Plano(p))

Proxima(p) == Plano(p)[travas[p] + 1]

Conflitam(a, b) ==
  a.tipo = b.tipo /\ a.id = b.id /\ ~(a.compartilhada /\ b.compartilhada)

\* p waits for a lock that q holds.
EsperaPor(p, q) ==
  /\ p # q /\ EmCurso(p) /\ EmCurso(q) /\ ~Completo(p)
  /\ \E i \in 1..travas[q] : Conflitam(Proxima(p), Plano(q)[i])

-----------------------------------------------------------------------------
(* The steps of a transaction.                                             *)

Pedir(p, t) ==
  /\ pedido[p] = Livre
  /\ t.op = "EDITAR" => t.veiculo \in existe
  /\ t.op \in DeReserva => VeiculoDe[t.reserva] \in existe
  /\ pedido' = [pedido EXCEPT ![p] = t]
  /\ lido' = [lido EXCEPT ![p].novos =
                IF t.op = "CRIAR" /\ ~t.lote THEN t.placas ELSE {}]
  /\ UNCHANGED <<frota, travas>>

\* What is read with a lock: the vehicle's garage, the plates of a lot that
\* are new, the garage's row.
Ler(p, trava) ==
  LET t == pedido[p]  g == trava.id IN
  IF trava.tipo = "veiculo" /\ t.local # Mesma
  THEN [lido[p] EXCEPT !.origem = local[t.veiculo]]
  ELSE IF trava.tipo = "modelo" /\ t.op = "CRIAR"
  THEN [lido[p] EXCEPT !.novos = IF t.lote THEN t.placas \ existe ELSE @]
  ELSE IF trava.tipo = "garagem"
  THEN [lido[p] EXCEPT !.vista[g] = [alocados |-> alocados[g],
                                     capacidade |-> capacidade[g],
                                     situacao |-> situacao[g]]]
  ELSE lido[p]

\* Mutation: the number of vehicles is forgotten.
MutCabe(vista, n) == vista.situacao = "ATIVA" /\ vista.alocados < vista.capacidade

\* assertGarageOperational and assertCapacity.
Cabe(vista, n) == vista.situacao = "ATIVA" /\ vista.alocados + n <= vista.capacidade

\* Mutation: the garage the vehicle goes to may be closed.
MutMovimentoAceito(p) ==
  LET g == pedido[p].local  vista == lido[p].vista[g] IN
  g \notin {Mesma, Nada, lido[p].origem} => vista.alocados < vista.capacidade

\* The move's checks have passed (the reservations' may fail besides).
MovimentoAceito(p) ==
  LET g == pedido[p].local IN
  g \notin {Mesma, Nada, lido[p].origem} => Cabe(lido[p].vista[g], 1)

\* The insert of a reservation is reached only if the vehicle is still where
\* it is to be picked up.
RetiradaAceita(p) ==
  LET r == pedido[p].reserva IN local[VeiculoDe[r]] = RetiradaDe[r]

Travar(p) ==
  /\ EmCurso(p) /\ ~Completo(p)
  /\ \A q \in Processos : ~EsperaPor(p, q)
  /\ pedido[p].op = "EDITAR" /\ Proxima(p).tipo = "modelo" => MovimentoAceito(p)
  /\ pedido[p].op = "RESERVAR" /\ Proxima(p).tipo = "garagem" => RetiradaAceita(p)
  /\ lido' = [lido EXCEPT ![p] = Ler(p, Proxima(p))]
  /\ travas' = [travas EXCEPT ![p] = @ + 1]
  /\ UNCHANGED <<frota, pedido>>

Encerrar(p) ==
  /\ pedido' = [pedido EXCEPT ![p] = Livre]
  /\ travas' = [travas EXCEPT ![p] = 0]
  /\ lido' = [lido EXCEPT ![p] = NadaLido]

\* Rollback.
Desfazer(p) == EmCurso(p) /\ Encerrar(p) /\ UNCHANGED frota

\* Mutation: a lot takes one place.
MutLugares(novos) == 1

Lugares(novos) == Cardinality(novos)

\* The unique plate refuses a vehicle another transaction has created since.
ConcluirCriacao(p) ==
  LET g == pedido[p].local  novos == lido[p].novos IN
  /\ pedido[p].op = "CRIAR" /\ Completo(p)
  /\ novos \cap existe = {}
  /\ g # Nada /\ novos # {} => Cabe(lido[p].vista[g], Lugares(novos))
  /\ existe' = existe \cup novos
  /\ local' = [v \in Veiculos |-> IF v \in novos THEN g ELSE local[v]]
  /\ alocados' = IF g = Nada \/ novos = {} THEN alocados
                 ELSE [alocados EXCEPT ![g] = @ + Lugares(novos)]
  /\ Encerrar(p)
  /\ UNCHANGED <<capacidade, situacao>>

Contagem(g, origem, destino) ==
  alocados[g] + (IF g = destino THEN 1 ELSE 0) - (IF g = origem THEN 1 ELSE 0)

ConcluirEdicao(p) ==
  LET t == pedido[p]  origem == lido[p].origem IN
  /\ t.op = "EDITAR" /\ Completo(p)
  /\ MovimentoAceito(p)
  /\ \/ /\ t.local \notin {Mesma, origem}
        /\ local' = [local EXCEPT ![t.veiculo] = t.local]
        /\ alocados' = [g \in Garagens |-> Contagem(g, origem, t.local)]
     \/ t.local \in {Mesma, origem} /\ UNCHANGED <<local, alocados>>
  /\ Encerrar(p)
  /\ UNCHANGED <<existe, capacidade, situacao>>

\* assertGarageCapacityUpdate, then capacity and status.
ConcluirGaragem(p) ==
  LET t == pedido[p]  g == t.garagem IN
  /\ t.op = "GARAGEM" /\ Completo(p)
  /\ t.capacidade # Nada => t.capacidade >= lido[p].vista[g].alocados
  /\ capacidade' = [capacidade EXCEPT ![g] = IF t.capacidade = Nada THEN @ ELSE t.capacidade]
  /\ situacao' = [situacao EXCEPT ![g] = IF t.nova = "MESMA" THEN @ ELSE t.nova]
  /\ Encerrar(p)
  /\ UNCHANGED <<existe, local, alocados>>

\* What a reservation's transaction writes is not of this module.
ConcluirReserva(p) ==
  /\ pedido[p].op \in DeReserva /\ Completo(p)
  /\ Encerrar(p)
  /\ UNCHANGED frota

Next ==
  \E p \in Processos :
    \/ \E t \in Pedidos : Pedir(p, t)
    \/ Travar(p) \/ Desfazer(p)
    \/ ConcluirCriacao(p) \/ ConcluirEdicao(p) \/ ConcluirGaragem(p)
    \/ ConcluirReserva(p)

Spec == Init /\ [][Next]_vars

-----------------------------------------------------------------------------
(* Properties                                                              *)

Garagem == Garagens \cup {Nada}

\* Every variable keeps its type; no garage ever counts fewer than no vehicles.
TypeOK ==
  /\ existe \subseteq Veiculos
  /\ local \in [Veiculos -> Garagem]
  /\ capacidade \in [Garagens -> Nat]
  /\ alocados \in [Garagens -> Nat]
  /\ situacao \in [Garagens -> StatusGaragem]
  /\ pedido \in [Processos -> Pedidos \cup {Livre}]
  /\ travas \in [Processos -> Nat]
  /\ lido \in [Processos -> [origem : Garagem \cup {Mesma}, novos : SUBSET Veiculos,
                             vista : [Garagens -> Fotos \cup {Nada}]]]

\* The counter veiculosAlocados of a garage, which creations, lots and moves
\* increment and decrement on their own, is at every commit the number of
\* vehicles whose row names that garage.
ContagemExata ==
  \A g \in Garagens : alocados[g] = Cardinality({v \in existe : local[v] = g})

\* However creations, moves and cuts of the capacity interleave, no garage
\* holds more vehicles than its capacity.
CapacidadeRespeitada == \A g \in Garagens : alocados[g] <= capacidade[g]

\* Among the transactions of fleet and reservations none wait for one another
\* in a circle: in every set of them one waits for none of the set.
SemEsperaCircular ==
  \A S \in SUBSET {p \in Processos : EmCurso(p)} :
    S # {} => \E p \in S : \A q \in S : ~EsperaPor(p, q)

\* A transaction that asks for a lock after one that comes later in the order
\* of all others: an edit that changes the model asks for its row after the
\* rows of garages or reservations; a reservation's keys ask for the garage of
\* the pick-up first, whichever comes first.
ForaDeOrdem(t) ==
  \/ /\ t.op = "EDITAR" /\ t.modelo # Nada
     /\ t.local # Mesma \/ t.retira
  \/ t.op = "RESERVAR" /\ DevolucaoDe[t.reserva] < RetiradaDe[t.reserva]

\* Whatever is asked for, transactions that wait for one another in a circle
\* have one of those two among them: nothing else can make them deadlock.
CirculoForaDeOrdem ==
  \A S \in SUBSET {p \in Processos : EmCurso(p) /\ ~ForaDeOrdem(pedido[p])} :
    S # {} => \E p \in S : \A q \in S : ~EsperaPor(p, q)

Abertas == [g \in Garagens |-> situacao[g] = "ATIVA"]

Atomica == INSTANCE Frota WITH
  aberta <- Abertas,
  Limites <- {t.capacidade : t \in {u \in Pedidos : u.op = "GARAGEM"}} \ {Nada}

\* However they interleave, transactions of the fleet behave as if each took
\* effect at once: what it read under its locks is what is there when it
\* commits, and the counter it decides by counts the vehicles.
ImplementaFrota == Atomica!Spec

=============================================================================
