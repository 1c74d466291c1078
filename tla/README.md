# Verification of the MOVA backend

MOVA is a backend for sharing adapted vehicles (TypeScript, Express, Prisma,
PostgreSQL). This directory holds TLA+ models of its core, the TLC runs that check
them on small instances, and proofs that TLAPS checks for every instance. Paths
below are relative to the repository; `REP` stands for
`src/repositories/prisma/prisma.reserva.repository.ts`, `ALO` for
`src/repositories/prisma/vehicle-garage-allocation.ts`.

To check: `tlc -config X.cfg M` for each run below, `tlapm M_proofs.tla` for each module of
proofs. `PROJECT.json` maps every definition to the lines it models and
lists the hazards, the runs, the mutants each property detects, and the findings.

## 1. The system

One Node process (or several, on one PostgreSQL) serves HTTP requests. Handlers are
async functions: between two `await`s any other request runs. State is in
PostgreSQL; consistency rests on transactions at READ COMMITTED, transaction-scoped
advisory locks (per reservation, per vehicle, per account), row locks
(`FOR UPDATE`, `FOR SHARE`) and conditional updates (`updateMany ... where`).
Two periodic jobs run in the process; the payment gateway calls back by webhook.

| Component | State | Operations | Interacts with | What is hard |
|---|---|---|---|---|
| Payment confirmation (`services/pagamento*.ts`, `services/reserva.ts`, `infra/payment/*`, `REP`) | `Reserva.status`, `statusPagamento`, `codigoDesbloqueio`, `expiradaEm`; `CobrancaReserva`; `EventoFinanceiroSandbox` | start an attempt, webhook, confirm, refuse, refund, cancel, expire | gateway (events, refunds), notifier, block list, fleet | two deliveries at once, late/duplicated/lost events, approval and code in two writes, a stop between them, expiration run by every read |
| Vehicle's agenda (`REP`, `expiracao-reserva.ts`, `services/reserva.ts`) | periods, garages and states of all reservations of a vehicle | create, change, pay, expire, unlock, return | vehicle, garages, clock | overlap without a constraint in the database, values validated before the lock, a deadline that passes while a lock is awaited |
| Fleet allocation (`ALO`, `prisma.veiculo.*`, `prisma.garagem.*`) | `Veiculo.status`, `garagemId`; `Garagem.status`, `capacidade`, `veiculosAlocados` | create, lot, edit, move, close, change capacity | reservations | a counter beside the rows it counts, several locks per transaction |
| Charges (`services/cobranca.ts`) | `CobrancaReserva` of cancellation and late return | pay, list, expire lazily | gateway, block | unconditional last update, a stop before it |
| Blocks (`services/bloqueio.ts`) | `BloqueioLocatario` | block, revoke, check | payment, creation | two queries that must add up, read before and used after |
| Interest and notice of availability (`services/interesse-veiculo.ts`, `services/notificacao-veiculo-disponivel.ts`) | `InteresseVeiculo`, `Notificacao` | subscribe, cancel, notify | edits of the vehicle, e-mail | the notifier walks over a list that changes, an e-mail between two writes |
| Report of a confirmed reservation (`services/notificacao-reserva.ts`) | `Notificacao` | send with retries | e-mail | an attempt that failed may have been accepted |
| Monitoring (`services/monitoramento-*.ts`) | `AlertaVeiculo` | tick, admin run, retry, resolve | advisory try-lock, e-mail | tick and admin run at once; a lock whose transaction ends before its work |
| Vehicle images (`services/veiculo-imagem.ts`, cleanup script) | rows, two buckets | add, remove, synchronise, clean up | storage, vehicle and garage state | three stores, compensations that fail |
| Password recovery, accounts, LGPD | tokens, hash, account | request, redeem, change, anonymise, delete | e-mail, reservations | single use under concurrency; deletion against creation |
| Additional drivers, shared trips | rows of a reservation | add, remove; share, revoke | reservation | limits counted in one statement and used in the next; a revocation without a lock |
| Price (`services/reserva.ts`) | total, fee, late charge | quote, create, change, cancel, return | vehicle's daily price | boundaries and rounding, values read before they are written |
| Access (`routes`, `middlewares`, `controllers`, checks of the services) | sessions | every request | everything | no layer is complete by itself |
| Geofence, reviews, reports, registrations, audit, presentation | rows without a protocol | arithmetic, single-row CRUD, read-only queries | — | little |

What makes each correct: a reservation follows its life cycle, is confirmed only when
approved, and every approved amount is either kept for a live reservation or
refunded; no vehicle is promised twice and what was promised stays available; the
garage counters are exact and within capacity and no transactions block each other for
ever; charges are paid once and never come back from a final state; nobody who left a list
is notified; at most one alert per problem; images are never left without a row or
public without permission; a token changes one password once.

## 2. Modules

| Module | Models |
|---|---|
| `CicloReserva` | abstract specification: life cycle of a reservation with its payment |
| `ConfirmacaoPagamento` | one reservation, its attempts, deliveries, cancellations, ledger; implements `CicloReserva` |
| `Calendario` | abstract specification: the places of one vehicle's reservations, with no clock and no requests in flight |
| `Agenda` | all reservations of one vehicle, vehicle and garages, on a clock; implements `Calendario` |
| `Frota` | abstract specification: vehicles and garages with no locks and no counters |
| `Alocacao` | vehicles and garages of an owner; every transaction with its locks, one by one; implements `Frota` |
| `CicloCobranca` | abstract specification: a charge is settled once |
| `Cobranca` | charges and the requests that pay them; implements `CicloCobranca` |
| `Bloqueio` | blocks and the check of a renter, on top of `Cobranca` |
| `Interesse` | watch list of a vehicle and the notifier of availability |
| `NotificacaoReserva` | report of a confirmed reservation, its record and its retries |
| `Monitoramento` | one rule of the monitoring: executions, lock, alerts |
| `VeiculoImagem` | rows and objects of a vehicle's images, synchronisation, cleanup |
| `Conta` | recovery tokens, password, anonymisation, deletion against reservation |
| `Condutores` | additional drivers of a reservation |
| `Compartilhamento` | public link of a reservation |
| `Precificacao` | price, fee and late charge of a reservation in cents and minutes |
| `Acesso` | every route, controller and ownership check; sessions and changing accounts |
| `ConfirmacaoPagamento_proofs`, `Agenda_proofs`, `Alocacao_proofs`, `VeiculoImagem_proofs` | inductive invariants and theorems about the module they are named after |
| `Avisos_proofs` | the same about `Interesse`, `NotificacaoReserva`, `Monitoramento` |
| `Reserva_proofs` | about `Condutores`, `Compartilhamento`, `Precificacao`, `Cobranca` and `Bloqueio` |
| `Conta_proofs` | about `Conta` and `Acesso` |
| `Servicos_proofs` | about `MCServicos`: what is proved of a service holds of their composition |
| `MC*` | instances for TLC |

### ConfirmacaoPagamento

One action is what a handler does between two awaits, or one transaction under the
reservation's advisory lock. What it carries across an await is in its process
variables (`pc`, `tentativa`, `desfecho`, `destino`); `Queda` forgets those of every process.

| Code | Actions |
|---|---|
| `iniciar` of `services/pagamento.ts`, `registrarPagamentoIniciado` | `IniciarPagamento`; the gateway's decision is `Emitir` (the same event may be delivered any number of times, in any order, or never) |
| `processar` of `services/pagamento-webhook.ts` | `Receber`, then `LerReserva`, `VerificarLocatario`, `RecusarPorBloqueio` / `Atualizar*` , `GerarCodigo`, `RelerReserva`, `Notificar`, `RegistrarRecebido`, `EstornarPorCancelamento`, `EstornarEvento` |
| `atualizarStatusPagamento` | `AtualizarVencida`, `AtualizarConflito`, `AtualizarJaAprovada`, `AtualizarInoperante`, `AtualizarGrava`: one action per outcome |
| `gerarCodigoDesbloqueio` | `GerarCodigo` (code and CONFIRMADA in one write) |
| `ReservaService.cancelar`, `REP.cancelar`, `estornar` | `LerParaCancelar`, `Cancelar`, `CancelarConflito`, `EstornarCancelada` |
| `expirarReservaNoTx` | `Expirar`, and `ExpirarAoLer` inside every read |
| unlock, return | `Desbloquear`, `Devolver` |
| surroundings | `VencerPrazo`, `MudarBloqueio`, `Indisponibilizar`, `Restaurar` |

Abstractions. The notifier is counted when it is called, whatever the preference or SMTP then
do. The two tries of a refund inside one transaction are one (`NovoEstorno`):
the built-in sandbox never fails twice; `EstornoPodeFalhar` stands for another gateway. The three reads of
`jaRegistrou` are one, as are the two of `assertLocatarioLiberado`: blocks come and go
freely, so the merged read sees any of the values. A debt is one of the reasons of `bloqueado`.
`Emitir` is only for started attempts, as the gateway has nothing else to report; the code would also accept a signed event for a reservation without a charge
(`prisma.reserva.repository.ts:456`). A reservation cancelled during an attempt keeps its charge PROCESSANDO for good: a late event is answered without effect or with 409, and
`ReconhecidoTemDestino` has the money of a late approval given back.
`atualizarStatusPagamento` is atomic here; the deadline that passes
while it waits for the vehicle is in `Agenda`. `Indisponibilizar` takes the checked path of
the owner's edit; the unchecked one is in `Agenda`.

### Agenda

Creation is `PedirReserva` (what the service reads: vehicle, garage, period, merged) and `CriarReserva` /
`RecusarReserva` (the transaction under the vehicle's lock). A change of the reservation is `LerAlteracao` and
`GravarAlteracao`; an edit of the vehicle is `LerVeiculo` (the read without a lock) and `GravarVeiculo` (move,
check of commitments, write); a confirmation is `IniciarConfirmacao` (up to the deadline check) and `Confirmar`
(under the vehicle's lock); unlocking is `AceitarCodigo` and `Desbloquear`. `Expirar`, `Cancelar`, `GerarCodigo`,
`Devolver`, `DesativarGaragem`, `AtivarGaragem` are one transaction each, `Passar` is the clock.

Abstractions. One unit of time is coarser than any of the real limits; their order is kept (a
reservation lasts at least one unit, the deadline is one unit, periods overlap or touch). The geofence is a choice.
MANUTENCAO and INATIVA of a garage are both "not active". With `PrazoNoMeio = FALSE` time does not pass between the deadline check of a
confirmation and its write: under that assumption `SemDuplaReserva` and `NoLocal` hold; without it see finding `agenda_prazo`.

`ImplementaCalendario` maps the agenda to `Calendario`. A reservation that counts is PROVISORIA until its payment is approved, then
FIRME, and USADA once returned; one that is cancelled or past its deadline unpaid is SOLTA and has no place (`Fase`). So the passing of a
deadline is a step of the calendar (`Vencer`) although nothing is written at that moment, and the expiration that is written later is none.

### Alocacao

`Plano(p)` is the sequence of locks of a transaction, in the order the code asks for them, as far as
it knows what it has read; `Travar` takes the next one when nobody holds a conflicting one and reads under it;
`Concluir*` writes and commits; `Desfazer` is a rollback (refusal, timeout, the victim of a deadlock, a stop) at any moment.

| Code | Plan |
|---|---|
| `PrismaVeiculoRepository.create`, `createLote` | model, garage |
| `update` | (move: vehicle advisory, vehicle row, garages by id, reservations), reservations if it leaves service, model, vehicle row |
| `alocarVeiculo`, `desalocarVeiculo` | the move |
| `PrismaGaragemRepository.update`, `delete` | garage, its reservations |
| `REP` create | vehicle advisory, then the garages' rows by the foreign keys of the insert, pick-up first |
| `REP` atualizarStatusPagamento, registrarPagamentoIniciado | reservation advisory, vehicle advisory, garages by id `FOR SHARE`, reservation row |
| `REP` update, cancelar | reservation advisory, (vehicle advisory, garage), reservation row |

Abstractions. The upsert of a model locks its row even when it updates nothing (it may not).
The lock of reservations follows `Indisponibiliza`: a garage that goes to INATIVA or MANUTENCAO from any other state, also from the one to the other.
The locks `conta:<id>` belong to accounts and are left out, as are the key-share locks on vehicles and
renters, which nothing here takes exclusively without the vehicle's advisory lock. What the reservations answer to a move or a closing is
`Agenda`'s; here any transaction may be refused at any point.
Order of foreign keys: PostgreSQL runs the checks of an insert in the order the constraints were created
(`prisma/migrations/20260626003039_add_pickup_and_return_locations`).

`ImplementaFrota` maps the rows to `Frota`, which knows neither locks nor counters and of a garage's state only whether it is ATIVA (`Abertas`): a step of `Frota` is a commit, and it decides by counting the vehicles.
`CirculoForaDeOrdem` says of any circle of waiting transactions that one of them asks for a lock after a later one (`ForaDeOrdem`).

### The services around the reservation

They share no state (but for `Bloqueio`, which extends `Cobranca`), so that `MCServicos` instantiates them together: the initial state chooses a `foco` and only its component
moves. One action is what happens between two awaits; a stop of the process is an action where it leaves something behind.

| Module | Code | Actions |
|---|---|---|
| `Cobranca` | `CobrancaService.listarPendentes`, `pagar`, `expirarVencidas` | `ListarPendentes`; `IniciarPedido`, `LerCobranca`, `MarcarProcessando` (the conditional update), `GravarDesfecho` (the unconditional one), `PararPedido` |
| `Bloqueio` | `create`, `revogar`, `assertLocatarioLiberado` | `CriarBloqueio`; `LerParaRevogar`, `Revogar`; `IniciarVerificacao`, `VerificarCobrancas`, `VerificarBloqueios`. `Acompanhar` records which obstacles lasted through a whole check |
| `Interesse` | `registrar`, `cancelar`, preferences, `atualizar` of the vehicle, `notificarInteressados` | `PedirInscricao`..`GravarInscricao`, `PedirCancelamento`, `CancelarInscricao`; `LerVeiculo`, `EditarVeiculo`, `ListarInteressados`, `ProximoInteressado`, `RegistrarAviso`, `EnviarAviso`, `MarcarEnviada`, `MarcarNotificado`, `MarcarFalha`, `PararAviso`. Each write and e-mail may fail; a write whose call fails may have been made, an e-mail accepted |
| `NotificacaoReserva` | `notificarReservaConfirmada`, `retryComBackoff` | `RegistrarRelatorio`, `EnviarRelatorio`, `RelatorioEnviado`, `RelatorioFalhou`, `PararNotificacao`. Writes and e-mails fail as in `Interesse` |
| `Monitoramento` | scheduler, `LOCK_MONITORAMENTO`, `executarRegra`, `processarCandidato`, `resolver` | `IniciarTick`, `IniciarAdmin`, `LerCandidatos`, `ProcurarAlerta`, `RegistrarAlerta`, `Despachar`, `MarcarEnviado`, `MarcarTentativa`, `ListarAtivos`, `Resolver`, `Terminar`, `Interromper`. `PerderTrava`: the transaction that holds the lock ends after 120 s, the function goes on |
| `VeiculoImagem` | upload, exclusion, `sincronizarVisibilidade`, `prisma/scripts/media-cleanup.ts` | `CriarLinha`, `GuardarPrivado`, `MarcarPronta`, `Desfazer`; `MarcarExclusao`..`ExcluirLinha`; `EntrarSinc`, `OperarSinc`; `GravarEdicao`, `EditarGaragem`; `ListarLinhas`, `ListarObjetos`, `ConfirmarAlvos`, `ApagarObjeto` |
| `Conta` | `RecuperacaoSenha`, `changePassword`, `anonimizarConta`, `deleteIfWithoutReservationHistory`, the locks of `REP` create | `CriarToken`, `EncontrarToken`, `ConsumirToken`, `RedefinirSenha`; `CompararSenha`, `AlterarSenha`; `LerParaAnonimizar`, `Anonimizar`; `IniciarExclusao`, `ContarReservas`, `ApagarConta`; `TrancarParaReserva`, `RelerContas`, `InserirReserva` |
| `Condutores` | `createWithinLimit`, `remover` | `BloquearReserva`, `ValidarReserva`, `ContarCondutores`, `InserirCondutor`; `LerParaRemover`, `ProcurarCondutor`, `ApagarCondutor` |
| `Compartilhamento` | `criarOuObterAtivo`, `revogar` | `LerLink`, `GravarLink`; `RevogarLink` |
| `Precificacao` | `precificar`, `create`, `update`, `cancelar`, `devolver` | `Cotar`; `LerPreco`, `CriarComPreco`; `LerParaRepreco`, `GravarRepreco`; `LerParaCancelar`, `CancelarComMulta`; `DevolverComAtraso`; `MudarDiaria` is the owner |
| `Acesso` | `routes/*`, `auth-middleware`, `authorize`, `controllers/*`, the checks in `services/*` | `Pedir` (middlewares and controller), `Executar` / `Recusar` (the service, one await later), `LoginA` |

Abstractions. The rules of the monitoring differ in the query that finds their candidates; the query is the set
`condicao`, which changes between any two steps. In `Interesse` an edit is only its change of status; a `marcarNotificado` that is made although its call fails leaves a
NOTIFICADO subscription beside a record that the error turns to FALHA, so `NotificadoTemAviso` speaks of what the server accepted.
In `Conta` the hash is where it comes from, and the two profiles and the vehicles are deleted with their account
(the cascade). In `VeiculoImagem` an image that is
uploaded while its exclusion runs, or whose compensation failed, is remembered in
`cruzadas`, and edits that overlap between read and write in `edicoesCruzadas`: for
them the properties do not hold, as the code itself concedes by having a cleanup script. In
`Precificacao` one unit is a minute and a cent, and `Arredondar` is `Math.round`, half up. In `Acesso` a handler is
a name, `Rotas` its roles, `Controles` the kind of the ids its controller passes on, `*Permite`
what its service compares; what it then does is in the other modules, except where it
changes an account (`Encerrada`). A listing stands for one of the rows it may return. `reserva.delete` always answers 405.

## 3. Runs

| Run | Bounds | Distinct states | Shows |
|---|---|---|---|
| `pagamento_concorrente` | 2 attempts, 2 deliveries at once, 1 cancellation, 1 crash, failing refunds | 1,150,620 | `ConfirmadaPaga`, `ExpiradaSemEfeitos`, `CobrancaEspelhaReserva`, `CancelamentoCoerente`, `ReconhecidoTemDestino`, `UmEmail`, `HistoricoImutavel`, refinement of `CicloReserva` |
| `pagamento_em_serie` | as above, one delivery at a time, no failing refund, fair | 54,200 | `ConfirmadaTemPagamento`, and liveness: approvals are acknowledged, an approved reservation gets its code |
| `agenda` | 2 reservations, 2 garages, times 0..2, 1 change, 1 edit | 386,351 | `SemDuplaReserva`, `PagaOperacional`, `NoLocal`, `PeriodoPagoFixo`, refinement of `Calendario` |
| `alocacao` | 2 vehicles, 2 garages, 3 transactions at once out of 14 requests, capacity 1, and 2 after an edit | 307,818 | `ContagemExata`, `CapacidadeRespeitada`, `CirculoForaDeOrdem`, refinement of `Frota` |
| `servicos` | one component at a time: 1 charge and 3 requests; 2 blocks, 1 check, 1 revocation, 2 days; 1 renter, 1 request and 2 edits; 3 attempts; 1 vehicle, 2 executions, 2 outbreaks, 1 interruption; 1 image, 2 edits or the cleanup; 2 tokens, 2 redemptions, 2 changes; both deletions and a creation; 3 additions to a limit of 2, 1 removal; 3 creations of links, 3 tokens; 5 margins around the limits of fee and delay; 5 accounts, 2 requests, 1 change of account | 396,624 | the 19 properties of the services, below |
| `alerta_duplicado` | as `servicos` | — | section 6 |
| five `violation` runs of payment and agenda, `alocacao_ordem` | the smallest instance that shows the finding | — | section 6 |

Why the bounds are enough to be of interest. Two attempts and two deliveries give every pair of
(late refusal, second approval, duplicate); one crash falls at every await. Two reservations are what overlap is
about; `MCAgenda` restricts the next-state relation, chosen in the initial state by `foco`: two reservations and
changes of dates while the fleet stands still, or one reservation while the owner edits, moves and closes. A property that
needs two reservations and the owner at once is therefore not explored. Three transactions
give circles of two and of three. Its requests include those that do deadlock (findings and hazards): edits that move or retire a
vehicle and change its model, and a reservation from garage 2 back to garage 1. A garage is enlarged and reopened, put in maintenance or made inactive, so that the step from one closed state
to the other is there; an edit of the capacity that leaves the state alone differs only in that, and the proofs have it. `TypeOK` of `Agenda` and of `Alocacao` are proved, for every value of the constants, and not run.

Why the bounds of `servicos` are enough: every property there needs at most two actors of a kind and
one row to be violated (a mutant of each is found under the same bounds), and the third charge request, addition
and link creation are there so that something still runs after two have met. The limit of drivers is 2 instead of 3: it is a parameter, and a removal,
a filling and an overflow fit. In `admin` an overlap is explored once, over one outbreak; `ticks` has the interruptions and the second outbreak. `acesso`
sends every handler from every session, next to one request that changes a tenant's or the administrator's account.

What the properties of `servicos` say: `ImplementaQuitacao` a charge is settled once; `ImpedimentoRecusa` nobody gets past one obstacle that lasted through
the whole check; `RegistroFielAoEnvio`, `NotificadoTemAviso`, `RelatorioRegistrado` records and e-mails agree through failures and stops; `AlertaSemRepeticao` one open
alert as long as executions do not overlap, `AlertaSeResolve` alerts end when their condition has; `ObjetosTemLinha`, `VisibilidadeEmDia` rows, objects and
publication agree; `TokenUnico`, `ExclusaoOuReserva`, `LimiteDeCondutores`, `CanceladaSemNovoCondutor`, `RevogacaoVale` as named; `TotalConfere`, `EncargoConfere` totals, fees and late
charges equal the documented formula for what was agreed, whoever changes the price meanwhile; `Isolamento` what took effect was asked for
by a party, `CodigoOculto` the owner never sees the unlock code.

`CHECK_DEADLOCK FALSE` appears in the runs of `Agenda` and of `MCServicos`: in the first the clock and the periods are bounded, so the end of the modelled
time is a state without steps; in the second requests finish and none follow.

Fairness. `FairSpec`, used by `pagamento_em_serie`: weak fairness of every step of a delivery: the event loop resumes a handler whose
promise is settled, and no lock is held for ever. Strong fairness of receiving an event that has not got its 200: a
real gateway delivers again until acknowledged. The built-in simulator delivers once and logs an error (`services/pagamento.ts:100`): for it liveness is
not claimed. `FairMonitor` (`MCFair` in `servicos`): weak fairness of a tick and of every step of an execution that began: `setInterval` fires for ever, and
the loop resumes what awaits. A tick whose lock is taken does nothing, so it is the lock's end that enables it.

Each property has a mutant, a definition changed as a plausible bug would change it (`Mut*`, before the definition it replaces), under
which TLC finds the property violated.

## 4. Proofs

Every theorem is for any sets of reservations, vehicles, accounts, requests and so on, from the named assumption of each module: the types of its
constants, the finiteness of a set that is counted, and that a null value is none of the others. Three say more: `MaxTentativas > 0` in `Monitoramento` (the code has 5; with 0 the first
failure would exceed the limit), `Prazo > 0` in `Agenda` (the code has 15 minutes; with 0 a reservation would be overdue when it is created) and `HandlersDe` in `Acesso` (a request is for a handler that has a route and a controller).
Of the properties the passing runs check, all that are not liveness are theorems.

No property here is inductive: what a handler writes after an await, or a transaction after a lock, rests on what it read before. Each
module of proofs adds what a suspended handler may still rely on, proves that each action keeps it (one lemma or step per action), and draws the property from it.

| Module | Proved without condition | Under a condition |
|---|---|---|
| `ConfirmacaoPagamento_proofs` | `TypeOK`, `ConfirmadaPaga`, `ExpiradaSemEfeitos`, `CobrancaEspelhaReserva`, `CancelamentoCoerente`, `ReconhecidoTemDestino`, `UmEmail`, `HistoricoImutavel`, refinement of `CicloReserva` | `ConfirmadaTemPagamento` if `EntregaUnica` |
| `Agenda_proofs` | `TypeOK`, `DatasPagasFixas` (the dates of what is being paid never change) | `SemDuplaReserva`, `NoLocal`, refinement of `Calendario` if `~PrazoNoMeio`; `PagaOperacional` if `EmSerie(Edicoes)`; `PeriodoPagoFixo` if `EmSerie(Alteracoes)` |
| `Alocacao_proofs` | `TypeOK`, `ContagemExata`, `CapacidadeRespeitada`, `CirculoForaDeOrdem`, refinement of `Frota` | `SemEsperaCircular` if `ChavesEmOrdem` and `ModeloPrimeiro` |
| `Avisos_proofs` | `RegistroFielAoEnvio`, `NotificadoTemAviso`, `RelatorioRegistrado`, `AlertaSemRepeticao`, `MonitorTypeOK`, `AlertasFicam` (no alert is removed, reopened or loses an attempt) | |
| `VeiculoImagem_proofs` | `ImagemTypeOK`, `ObjetosTemLinha`, `VisibilidadeEmDia` | |
| `Reserva_proofs` | `LimiteDeCondutores`, `CanceladaSemNovoCondutor`, `RevogacaoVale`, `TotalConfere`, `EncargoConfere`, `CobrancaTypeOK`, `ImpedimentoRecusa` | refinement of `CicloCobranca` (`ImplementaQuitacao`), `ProcessamentoExclusivo`, `QuitadaTemPagador` if `~PedidoLento` |
| `Conta_proofs` | `TokenUnico`, `ExclusaoOuReserva`, `ContaTypeOK`, `Isolamento`, `CodigoOculto`, `AcessoTypeOK` | |
| `Servicos_proofs` | `MCSpec` implies the specification of each service (of `Monitoramento`, its safety part); `ServicosTypeOK`, `ImpedimentoRecusa` | |

The conditions are where the code itself gives no guarantee, and the runs of section 6, or TLC with the condition removed, show the property fail without it:

- `EntregaUnica`: one delivery at a time. Two at once refund the payment they confirm (`estornada_confirmada`).
- `~PrazoNoMeio`: no time passes between a confirmation's check of the deadline and its write. It can, since the confirmation waits for the vehicle's lock (`agenda_prazo`). `SemAtrasoSemDupla` is sharper: in every
  behaviour in which each confirmation in flight is still within its deadline (`ConfirmacaoNoPrazo`), both properties hold, and by `PrazoImplementaCalendario` so does the refinement; nothing else can break them.
- `EmSerie(Edicoes)`: at most one edit of the vehicle in flight (`agenda_edicao`); sharper, `EdicaoEmDiaPagaOperacional`: no edit in flight has read a vehicle that changed since.
- `EmSerie(Alteracoes)`: at most one change of dates in flight (`agenda_alteracao`); sharper, `MudancaComPrecoPagoFixo`. The dates alone need no condition.
- `ChavesEmOrdem`, `ModeloPrimeiro`: each reservation's pick-up garage precedes its return, and an edit that changes the model neither moves the vehicle nor takes it out of service. Without the first, `alocacao_ordem`. Without the second a
  transaction holds garages or reservations and asks for the model's row, which a creation holds while it asks for the garage: a hazard of `PROJECT.json`, also with three transactions in a circle.
  `SemEsperaCircular` is a corollary of `CirculosForaDeOrdem`, which needs neither condition: every circle has such a transaction, and in the absence of both there is none to make it.
- `~PedidoLento`: no request for payment lives 15 minutes between its two writes. A slower one overtakes the lazy expiration, and its unconditional update breaks the refinement.

`AlertaSemRepeticao`, `VisibilidadeEmDia` and `TotalConfere` carry such a condition in themselves (`sobrepostas`, `edicoesCruzadas`, `cruzada`), and `ObjetosTemLinha` leaves out the images in `cruzadas`.

### Payment confirmation

`IInv` adds to the properties

- `EventosCoerentes`: an event in flight was emitted for a started attempt;
- `MultaCoerente`: no fee before the cancellation;
- `EntregasCoerentes`: for each place where a delivery may be suspended, what it may still rely on (`EntregaBem`:
  past the update the payment is approved, and stays so; a delivery that goes to the
  cancellation's refund has seen a cancelled reservation and recorded its receipt) and the
  ownership of the code (`EmailBem`: the delivery whose code is stored makes no other and has at most one e-mail ahead);
- `CancelarCoerente`: a cancellation reaches its refund only on a cancelled, paid reservation.

One lemma per action shows that it keeps `TypeOK` and the parts it can disturb; `IInvStep` puts them together. `HistoricoImutavel` and the refinement
follow from `IInv` by the same cases; every step maps to a step of `CicloReserva` or to a stutter. `SerieInv` adds what the one delivery in flight knows of the ledger.

### Agenda and fleet

`Agenda_proofs`: `BaseInv` says what a row's status says of its payment and of its pick-up garage (`LinhaCoerente`) and that a change in flight is of a reservation that exists. The argument for `SemDuplaReserva` is
that no step but creation, change and confirmation makes a reservation count, the first two look for overlaps under the vehicle's lock, and a reservation within its deadline counted already.
For `PagaOperacional`, an edit that is up to date either changes no status or checks the reservations.
The refinement of `Calendario` goes through the actions with lemmas on the mapped variables (`Fases`, `NovoLugar`, `OutroLugar`, `FaseSegue`, `LugarLivre`): a creation and a change
meet no place in their way because they looked under the vehicle's lock, a confirmation in time makes firm a place that was provisory, and the vehicle's row moves only when no place waits for it.

`Alocacao_proofs` has two halves. `FrotaInv`: two transactions hold no conflicting locks (`Exclusao`), a transaction that read a garage or a vehicle's garage still
holds that lock and what it read is what the row says (`VistaTravada`, `VistaEmDia`, `OrigemEmDia`); so the counter it writes is the number of vehicles, and the comparison with the capacity is with
the capacity there is. The lemmas before it say what each plan contains and that reading under a lock changes nothing of the plan up to that lock. From it each commit is one step of `Frota` and every other step a stutter (`FrotaAtomica`). The second half orders the locks by kind (`Grau`) and
garages and reservations by identifier, and shows that every plan of a transaction that is not `ForaDeOrdem` is in that order, but for the vehicle's advisory lock, which the edit that takes a vehicle out of service holds before all else (`OrdenadaMenosUma`): of
transactions that wait, the one that waits for the last lock waits for none of the others.

### Services

- Charges and blocks: whoever is about to write the outcome is alone with a charge that is PROCESSANDO and not old (`ProcessamentoExclusivo`): this is what makes the unconditional update
  harmless. A check that has asked for charges and goes on has met each open charge that was there all along (`VerificacaoInv`).
- Interest: a notifier comes to a renter once, and is the only one to write its records (`PassoDoAviso`); a closed subscription has a notifier that gave notice, an accepted e-mail or an internal record, and with internal notices has finished with it (`FechadaPorAviso`). Report: `RelatorioInv`. Monitoring: until two executions overlap, the one that
  runs may send the row it has in hand (`MonitorSozinho`, `NaMao`); and afterwards too the row in hand exists and is written field by field, so that
  no late execution undoes a resolution (`MonitorBase`, `LinhaExiste`).
- Images: `Fases` places row and objects by the steps of upload and exclusion; `AlvosDaLimpeza` says what the cleanup may delete without asking again; `EmDia` that, unless a synchronisation waits, the
  running one copies what it should and the last one did; `LidoEmDia` that an edit writes what it read.
- Drivers and links: what an addition validated and counted still holds because it holds the reservation's row (`LinhaDeQuemAdiciona`); a
  revocation without a lock cannot come between the read and the write of a creation, which only goes on without a live link (`CriacaoSozinha`).
- Price: `PrecoInv` relates each calculation under way to the row it read and to the quotation, with the lemmas on `Arredondar` and on days begun that the two formulas need.
- Accounts: a deletion or creation past its first statement holds the account's lock (`TrancaDeQuemSegue`) and what was read under it still holds (`LeituraVale`); a token that may be or is being redeemed
  is the last one asked for (`SoUltimo`), each is used once (`GastoUmaVez`).
- Access: the state is simple (`AcessoInv`: a request on its way was let through by its route, with ids of the kind its controller passes on; one that took effect was let through by its service). The work is in
  the tables: `RotaExige` and `ControleDoHandler` look up every handler, `ParteLegitima` goes through every comparison of every service, so that a handler whose route, controller and service together leave a gap would have
  no proof. The tables are joined by `Unir` for the sake of these lookups. A request's session was issued (`SessaoEmitida`), and issued sessions are never taken back.

- Composition: a step of `MCServicos` is one of the service in focus and moves no other (`ServicosPasso`), from which `ServicosSaoComponentes` and, with the types of each service, `ServicosTipados`.
  The blocks are the one service that shares state: their invariant holds in the focus that runs them, and in the others they are as in the beginning (`BloqueioEmFoco`).

### Only model-checked

- Liveness (approvals are acknowledged, codes are generated, `AlertaSeResolve`): fairness and ENABLED are out of the prover's reach.
- What the conditions above exclude, which is what the runs that expect a violation are about.

## 5. Not modelled

- Geofence (floating-point coordinates; its outcome is a choice in `Agenda`), contents of reports, dashboards and e-mails, validation of image bytes, schemas, translations,
  seeds, rate limits, CORS: no state, or arithmetic out of TLC's reach.
- Registrations, reviews, favourites, catalogues and audit rows: single-row operations behind unique constraints. Who may do them is in `Acesso`.
- Reordering of images and the choice of the cover, which touch neither objects nor states. The recording of a vehicle's status history.
- Registration of accounts, expiry of session tokens, and sessions after a change of role: the token keeps its role, and `Isolamento` speaks of that role.
- Prisma's limit on the duration of a transaction, except for `PerderTrava`. A stop between an anonymisation and the record of that access.
- Deletion of a bare profile, which takes no lock of the account. A change of password in flight restores a hash to an account anonymised meanwhile: the model has it, no property forbids it.
- Two revocations of a block (`src/src/services/bloqueio.ts:103`): the second overwrites who revoked it and when; the model has no author.
- A write to the database that is made although its call fails, outside `Interesse`, `NotificacaoReserva` and the compensations of `VeiculoImagem`: elsewhere an error is a write that was not made.
- Uploads crossed by an exclusion and edits of a vehicle that overlap are modelled and left out of the properties (`cruzadas`, `edicoesCruzadas`).

Hazards without a property are listed in `PROJECT.json` with the reason.

## 6. Where documents and code disagree

| Run | Documents | Code |
|---|---|---|
| `estornada_confirmada` | a refunded event's replay does not confirm (`test/pagamento/webhook.test.ts:332`) | two deliveries of one approval in flight: one is refused and refunded, the other confirms |
| `dois_recebimentos` | one receipt, one code (`test/reserva/expiracao-pagamento.test.ts:240`) | a duplicated refusal of an older attempt fails the running one, and both later approvals are kept |
| `agenda_prazo` | overlap is checked again inside the lock (`README.md:209`), a late webhook does not confirm (`README.md:169`) | the deadline is checked before the vehicle's lock is awaited, not after |
| `agenda_edicao` | a vehicle with a paid future reservation does not go to maintenance (`README.md:199`) | an edit that repeats the status read without a lock skips the check |
| `agenda_alteracao` | the period lasts 1 h to 30 days (`README.md:179`) | two concurrent changes are each validated against the row before the other |
| `alerta_duplicado` | one active alert per type and vehicle (`README.md:334`) | an execution asked for by an admin takes no lock and overlaps a tick; both look for an active alert, find none and register one (`src/services/monitoramento-veiculo.ts:216`) |
| `alocacao_ordem` | garages are locked by id (`README.md:213`) | the insert of a reservation locks them in the order of its foreign keys |

## 7. Plan

1. `ConfirmacaoPagamento`, `CicloReserva`, proofs; `Agenda`; `Alocacao` — done.
2. `CicloCobranca`, `Cobranca`, `Bloqueio`, `Condutores`, `Interesse`, `NotificacaoReserva`, `Monitoramento` — done.
3. `VeiculoImagem`, `Conta`, `Compartilhamento`, `Precificacao`, `Acesso`, composed one at a time in `MCServicos` — done.
4. Proofs of every safety property of the passing runs, and of the refinements of `CicloReserva`, `Calendario`, `Frota` and `CicloCobranca` — done (section 4).
5. Left: the hazards without a property (`PROJECT.json`), first the late return that lets the next reservation be started and the period changed between a failed attempt and its late approval.
   Also a run with two reservations of a vehicle and the owner's edits at once: the proofs of `Agenda` cover it, no run explores it.
