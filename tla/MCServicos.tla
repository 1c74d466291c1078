----------------------------- MODULE MCServicos -----------------------------
(***************************************************************************)
(* Small instances of the services around the reservation.  They share no  *)
(* state, so that one run explores them one at a time: the initial state   *)
(* chooses the focus and everything else keeps still.  A focus may leave   *)
(* out some of its component's inputs, named where it does.                *)
(***************************************************************************)
EXTENDS Bloqueio, Interesse, NotificacaoReserva, Monitoramento, VeiculoImagem, Conta,
        Condutores, Compartilhamento, Precificacao, Acesso

CONSTANTS p1, e1, loc1, loc2, dono1, dono2, adm, res1, vei1, mod1, gar1, q1, q2

\* The edges: at the limit of a late cancellation, one minute after it, late.
MCMargens == {-120, -119, 0, 61, 1500}

\* Two accounts of each role, and the resources of the first of each.
MCContas == {loc1, loc2, dono1, dono2, adm}
MCCargoInicial ==
  [c \in MCContas |-> IF c = adm THEN "ADMIN" ELSE IF c \in {loc1, loc2} THEN "LOCATARIO" ELSE "LOCADOR"]
MCLocatarioDe == [r \in {res1} |-> loc1]
MCHandlersDe == [q \in {q1, q2} |-> IF q = q2 THEN MudaConta ELSE Handlers \ MudaConta]
MCDonoDe == [x \in {res1, vei1, mod1, gar1} |-> dono1]

VARIABLE foco

Focos == {"cobranca", "bloqueio", "interesse", "relatorio", "ticks", "admin", "imagens",
          "limpeza", "senha", "exclusao", "condutores", "link", "preco", "acesso"}

servicosVars == <<foco, cobrancaVars, bloqueioVars, interesseVars, notificacaoVars, monitorVars,
                  imagemVars, contaVars, condutoresVars, compartilhamentoVars, precoVars,
                  acessoVars>>

(* What is not in focus begins in one of its initial states only. *)
MCInit ==
  /\ foco \in Focos
  /\ InitCobranca /\ InitBloqueio /\ InitInteresse /\ InitNotificacao /\ InitMonitor
  /\ InitImagem /\ InitConta /\ InitCondutores /\ InitCompartilhamento /\ InitPrecificacao
  /\ InitAcesso
  /\ foco # "interesse" => emailLigado
  /\ foco \notin {"ticks", "admin"} => emailAtivo
  /\ foco # "imagens" => disponivel
  /\ foco # "limpeza" => garagemAtiva
  /\ foco # "condutores" => adicao = CHOOSE a \in [Adicoes -> [passo : {"INICIO"}, cnh : Cnhs]] : TRUE
  /\ foco # "preco" => /\ diaria = CHOOSE d \in Diarias : TRUE
                       /\ servicos = CHOOSE s \in ValoresServico : TRUE
                       /\ \A ini \in Inicios : ini >= periodo.ini
                       /\ \A fim \in Fins : fim <= periodo.fim

Quietos ==
  /\ UNCHANGED foco
  /\ foco \notin {"cobranca", "bloqueio"} => UNCHANGED cobrancaVars
  /\ foco # "bloqueio" => UNCHANGED bloqueioVars
  /\ foco # "interesse" => UNCHANGED interesseVars
  /\ foco # "relatorio" => UNCHANGED notificacaoVars
  /\ foco \notin {"ticks", "admin"} => UNCHANGED monitorVars
  /\ foco \notin {"imagens", "limpeza"} => UNCHANGED imagemVars
  /\ foco \notin {"senha", "exclusao"} => UNCHANGED contaVars
  /\ foco # "condutores" => UNCHANGED condutoresVars
  /\ foco # "link" => UNCHANGED compartilhamentoVars
  /\ foco # "preco" => UNCHANGED precoVars
  /\ foco # "acesso" => UNCHANGED acessoVars

\* With blocks, one request to pay is enough.
SoUmPedido == \A p \in Pagamentos \ {p1} : passo'[p] = "INICIO"

\* The timer alone, which may be interrupted; or executions of an admin and
\* ticks that lose their lock, as long as none has overlapped another, over one
\* outbreak.
SemTrava(x) == execucao'[x].passo # "INICIO" /\ trava' # x
SemAdmin == \A x \in Execucoes : ~SemTrava(x)
PoucosAdmin ==
  /\ interrupcoes' = 0 /\ surtos' <= 1
  /\ sobrepostas => \A x \in Execucoes : SemTrava(x) => execucao[x].passo # "INICIO" /\ trava # x

\* Edits of the vehicle's status without the cleanup, the first of which is e1;
\* or the cleanup with one edit of the garage.
Editou(e) == edicaoImg'[e].passo # "INICIO"
SemLimpeza ==
  /\ varredura' = varredura /\ garagemAtiva'
  /\ (\E e \in EdicoesImg : Editou(e)) => Editou(e1)
UmaEdicao == disponivel' /\ \A e \in EdicoesImg \ {e1} : ~Editou(e)

\* One redemption and one change beside the deletions.
PoucosResgates ==
  /\ Cardinality({r \in Resgates : resgate'[r].passo # "INICIO"}) <= 1
  /\ Cardinality({p \in Trocas : trocaSenha'[p] # "INICIO"}) <= 1
  /\ Len(emitidosT') <= 1

\* One request that changes a tenant's or the administrator's account, beside
\* one for any other handler.
MudancasAoLado == requisicao'[q2].passo = "SERVICO" => requisicao'[q2].alvos \subseteq {loc1, adm}

MCNext ==
  /\ \/ foco = "cobranca" /\ NextCobranca
     \/ foco = "bloqueio" /\ NextBloqueio /\ SoUmPedido
     \/ foco = "interesse" /\ NextInteresse
     \/ foco = "relatorio" /\ NextNotificacao
     \/ foco = "ticks" /\ NextMonitor /\ SemAdmin
     \/ foco = "admin" /\ NextMonitor /\ PoucosAdmin
     \/ foco = "imagens" /\ NextImagem /\ SemLimpeza
     \/ foco = "limpeza" /\ NextImagem /\ UmaEdicao
     \/ foco = "senha" /\ NextSenha
     \/ foco = "exclusao" /\ NextConta /\ PoucosResgates
     \/ foco = "condutores" /\ NextCondutores
     \/ foco = "link" /\ NextCompartilhamento
     \/ foco = "preco" /\ NextPrecificacao
     \/ foco = "acesso" /\ NextAcesso /\ MudancasAoLado
  /\ Quietos

(* FairMonitor, in a focus where the monitoring runs. *)
Monitorando(A) == foco \in {"ticks", "admin"} /\ A /\ Quietos

MCFair ==
  /\ WF_servicosVars(Monitorando(TickOuRegra))
  /\ \A x \in Execucoes : WF_servicosVars(Monitorando(ExecutarRegra(x)))

MCSpec == MCInit /\ [][MCNext]_servicosVars /\ MCFair

-----------------------------------------------------------------------------
(* Every component's variables keep their types. *)
ServicosTypeOK ==
  /\ CobrancaTypeOK /\ BloqueioTypeOK /\ InteresseTypeOK /\ NotificacaoTypeOK
  /\ MonitorTypeOK /\ ImagemTypeOK /\ ContaTypeOK /\ CondutoresTypeOK
  /\ CompartilhamentoTypeOK /\ PrecificacaoTypeOK /\ AcessoTypeOK

=============================================================================
