---------------------------- MODULE Conta_proofs ----------------------------
(***************************************************************************)
(* Proofs about Conta and Acesso for any accounts, tokens, resources and   *)
(* requests: the account that is deleted or reserved, the one token that   *)
(* changes the password, and who is let through to what.  The two halves   *)
(* of Conta share the account and the row locks of the tokens only, and    *)
(* each has an inductive invariant of its own.                             *)
(***************************************************************************)
EXTENDS Conta, Acesso, FiniteSetTheorems, TLAPS

-----------------------------------------------------------------------------
(* Deletion and reservation. *)

ExclusaoTypeOK ==
  /\ conta \in [Contas -> {"ATIVA", "ANONIMIZADA", "EXCLUIDA"}]
  /\ trancaConta \in [Contas -> Requisicoes \cup {Livre}]
  /\ exclusaoConta \in [Contas -> {"INICIO", "CONTAR", "APAGAR", "FIM", "TEM_HISTORICO", "ERRO_FK"}]
  /\ reservada \in BOOLEAN

\* Who is past its first statement holds the account's lock.
TrancaDeQuemSegue ==
  /\ \A c \in Contas : trancaConta[c] = "EXCLUSAO" <=> exclusaoConta[c] \in {"CONTAR", "APAGAR"}
  /\ criacao = "TRANCAR" => trancaConta[Locatario] = "RESERVA"
  /\ criacao \in {"RELER", "INSERIR"} => \A c \in Contas : trancaConta[c] = "RESERVA"

\* What was read under the lock still holds when it is used.
LeituraVale ==
  /\ criacao = "INSERIR" => \A c \in Contas : conta[c] # "EXCLUIDA"
  /\ \A c \in Contas : exclusaoConta[c] = "APAGAR" => ~reservada

ExclusaoInv ==
  /\ ExclusaoTypeOK
  /\ TrancaDeQuemSegue
  /\ LeituraVale
  /\ ExclusaoOuReserva

LEMMA ExclusaoInicio == InitConta => ExclusaoInv
<1> SUFFICES ASSUME InitConta PROVE ExclusaoInv
  OBVIOUS
<1> USE ContaAssumption DEF InitConta, Contas, Requisicoes
<1>1. ExclusaoTypeOK
  BY DEF ExclusaoTypeOK
<1>2. TrancaDeQuemSegue
  BY DEF TrancaDeQuemSegue
<1>3. LeituraVale /\ ExclusaoOuReserva
  BY DEF LeituraVale, ExclusaoOuReserva
<1> QED BY <1>1, <1>2, <1>3 DEF ExclusaoInv

\* The password's side disturbs the account at most by anonymising it.
LEMMA SenhaNaoExclui ==
  ASSUME ExclusaoTypeOK, NextSenha
  PROVE  /\ UNCHANGED exclusaoVars
         /\ \/ conta' = conta
            \/ /\ conta[Locatario] # "EXCLUIDA"
               /\ conta' = [conta EXCEPT ![Locatario] = "ANONIMIZADA"]
<1>1. ASSUME NEW t \in Tokens, CriarToken(t) \/ VencerToken(t)
      PROVE  UNCHANGED exclusaoVars /\ conta' = conta
  BY <1>1 DEF CriarToken, VencerToken
<1>2. ASSUME NEW r \in Resgates, Resgatar(r)
      PROVE  UNCHANGED exclusaoVars /\ conta' = conta
  BY <1>2 DEF Resgatar, EncontrarToken, ConsumirToken, RedefinirSenha, DesistirResgate
<1>3. ASSUME NEW p \in Trocas, CompararSenha(p) \/ AlterarSenha(p) \/ LerParaAnonimizar(p)
      PROVE  UNCHANGED exclusaoVars /\ conta' = conta
  BY <1>3 DEF CompararSenha, AlterarSenha, LerParaAnonimizar, TrocaUnchanged
<1>4. ASSUME NEW p \in Trocas, Anonimizar(p)
      PROVE  /\ UNCHANGED exclusaoVars
             /\ conta[Locatario] # "EXCLUIDA"
             /\ conta' = [conta EXCEPT ![Locatario] = "ANONIMIZADA"]
  <2>1. /\ UNCHANGED exclusaoVars
        /\ conta' = [conta EXCEPT ![Locatario] = "ANONIMIZADA"]
        /\ conta[Locatario] # "EXCLUIDA"
    BY <1>4 DEF Anonimizar, TrocaUnchanged
  <2> QED BY <2>1
<1>5. CASE \E t \in Tokens : CriarToken(t) \/ VencerToken(t)
  BY <1>1, <1>5
<1>6. CASE \E r \in Resgates : Resgatar(r)
  BY <1>2, <1>6
<1>7. CASE \E p \in Trocas :
             CompararSenha(p) \/ AlterarSenha(p) \/ LerParaAnonimizar(p) \/ Anonimizar(p)
  <2>1. PICK p \in Trocas :
             (CompararSenha(p) \/ AlterarSenha(p) \/ LerParaAnonimizar(p)) \/ Anonimizar(p)
    BY <1>7
  <2>2. CASE CompararSenha(p) \/ AlterarSenha(p) \/ LerParaAnonimizar(p)
    BY <1>3, <2>2
  <2>3. CASE Anonimizar(p)
    BY <1>4, <2>3
  <2> QED BY <2>1, <2>2, <2>3
<1> QED BY <1>5, <1>6, <1>7 DEF NextSenha

LEMMA ExclusaoPasso ==
  ASSUME ExclusaoInv, [NextConta]_contaVars
  PROVE  ExclusaoInv'
<1> USE ContaAssumption
        DEF ExclusaoInv, ExclusaoTypeOK, TrancaDeQuemSegue, LeituraVale, ExclusaoOuReserva,
            Contas, Requisicoes
<1>1. CASE UNCHANGED contaVars
  BY <1>1 DEF contaVars, exclusaoVars
<1>2. CASE NextSenha
  BY <1>2, SenhaNaoExclui DEF exclusaoVars
<1>3. ASSUME NEW c \in Contas, IniciarExclusao(c) PROVE ExclusaoInv'
  BY <1>3 DEF IniciarExclusao, Trancar
<1>4. ASSUME NEW c \in Contas, ContarReservas(c) PROVE ExclusaoInv'
  <2>1. CASE reservada
    BY <1>4, <2>1 DEF ContarReservas, Destrancar
  <2>2. CASE ~reservada
    BY <1>4, <2>2 DEF ContarReservas
  <2> QED BY <2>1, <2>2
<1>5. ASSUME NEW c \in Contas, ApagarConta(c) PROVE ExclusaoInv'
  <2>1. ~reservada /\ trancaConta[c] = "EXCLUSAO" /\ criacao # "INSERIR"
    BY <1>5 DEF ApagarConta
  <2>2. /\ exclusaoConta' = [exclusaoConta EXCEPT ![c] = "FIM"]
        /\ conta' = [conta EXCEPT ![c] = "EXCLUIDA"]
        /\ Destrancar({c}, "EXCLUSAO")
        /\ UNCHANGED <<criacao, reservada>>
    BY <1>5, <2>1 DEF ApagarConta
  <2> QED BY <2>1, <2>2 DEF Destrancar
<1>6. CASE TrancarParaReserva(Locatario, "INICIO", "TRANCAR")
  BY <1>6 DEF TrancarParaReserva, Trancar
<1>7. CASE TrancarParaReserva(Locador, "TRANCAR", "RELER")
  BY <1>7 DEF TrancarParaReserva, Trancar
<1>8. CASE RelerContas
  <2>1. CASE \A c \in Contas : conta[c] # "EXCLUIDA"
    BY <1>8, <2>1 DEF RelerContas
  <2>2. CASE ~\A c \in Contas : conta[c] # "EXCLUIDA"
    BY <1>8, <2>2 DEF RelerContas, Destrancar
  <2> QED BY <2>1, <2>2
<1>9. CASE InserirReserva
  <2>1. \A c \in Contas : conta[c] # "EXCLUIDA" /\ trancaConta[c] = "RESERVA"
    BY <1>9 DEF InserirReserva
  <2>2. reservada' = TRUE /\ criacao' = "CRIADA" /\ UNCHANGED <<conta, exclusaoConta>>
    BY <1>9, <2>1 DEF InserirReserva
  <2>3. \A c \in Contas : trancaConta'[c] = Livre /\ trancaConta' \in [Contas -> {Livre}]
    BY <1>9, <2>1 DEF InserirReserva, Destrancar
  <2> QED BY <2>1, <2>2, <2>3
<1> QED BY <1>1, <1>2, <1>3, <1>4, <1>5, <1>6, <1>7, <1>8, <1>9 DEF NextConta, NextExclusao

(* An account is deleted or gets its reservation, never both, and the foreign *)
(* keys never decide (deleteIfWithoutReservationHistory, create).             *)
THEOREM ContaExclusaoOuReserva == SpecConta => []ExclusaoOuReserva
<1>1. ExclusaoInv => ExclusaoOuReserva
  BY DEF ExclusaoInv
<1> QED BY <1>1, ExclusaoInicio, ExclusaoPasso, PTL DEF SpecConta

-----------------------------------------------------------------------------
(* Recovery tokens. *)

Ultimo == emitidosT[Len(emitidosT)]

EmTroca == {r \in Resgates : resgate[r].passo = "TROCAR"}

SenhaTypeOK ==
  /\ emitidosT \in Seq(Tokens)
  /\ senha \in {"CADASTRO", "REDEFINIDA", "ALTERADA", "MORTA"}
  /\ vencidos \subseteq ToSet(emitidosT)
  /\ resgate \in [Resgates -> [passo : {"INICIO", "CONSUMIR", "TROCAR", "FIM"},
                               token : Tokens \cup {Livre}]]
  /\ trocadaPor \subseteq Resgates

\* A token that may be redeemed, or is being redeemed, is the last one that was
\* asked for, and while one is being redeemed none else may be.
SoUltimo ==
  /\ \A t \in vivos : emitidosT # <<>> /\ t = Ultimo
  /\ \A r \in EmTroca : emitidosT # <<>> /\ resgate[r].token = Ultimo /\ vivos = {}
  /\ \A q, r \in EmTroca : q = r

\* A token that changed the password is used up.
GastoUmaVez ==
  \A r \in trocadaPor :
    /\ resgate[r].passo = "FIM"
    /\ resgate[r].token \in ToSet(emitidosT) \ vivos
    /\ \A q \in EmTroca : resgate[q].token # resgate[r].token
    /\ \A q \in trocadaPor : resgate[q].token = resgate[r].token => q = r

TokenInv ==
  /\ SenhaTypeOK
  /\ SoUltimo
  /\ GastoUmaVez
  /\ trocaTardia = FALSE

\* What Append does to the tokens asked for so far.
LEMMA MaisUmToken ==
  ASSUME NEW s \in Seq(Tokens), NEW t \in Tokens
  PROVE  /\ Append(s, t) \in Seq(Tokens) /\ Append(s, t) # <<>>
         /\ Append(s, t)[Len(Append(s, t))] = t
         /\ ToSet(Append(s, t)) = ToSet(s) \cup {t}
<1>1. /\ Append(s, t) \in Seq(Tokens)
      /\ Len(Append(s, t)) = Len(s) + 1
      /\ DOMAIN Append(s, t) = 1..(Len(s) + 1)
      /\ DOMAIN s = 1..Len(s)
      /\ Len(s) \in Nat
      /\ \A i \in 1..Len(s) : Append(s, t)[i] = s[i]
      /\ Append(s, t)[Len(s) + 1] = t
  OBVIOUS
<1>2. Append(s, t) # <<>>
  BY <1>1
<1>3. 1..(Len(s) + 1) = 1..Len(s) \cup {Len(s) + 1}
  BY <1>1
<1>4. ToSet(Append(s, t)) = ToSet(s) \cup {t}
  BY <1>1, <1>3 DEF ToSet
<1> QED BY <1>1, <1>2, <1>4

\* The last token is one that was asked for.
LEMMA UltimoPedido ==
  ASSUME emitidosT \in Seq(Tokens), emitidosT # <<>>
  PROVE  Ultimo \in ToSet(emitidosT) /\ Ultimo \in Tokens
<1>1. Len(emitidosT) \in 1..Len(emitidosT) /\ DOMAIN emitidosT = 1..Len(emitidosT)
  OBVIOUS
<1> QED BY <1>1 DEF Ultimo, ToSet

LEMMA TokenInicio == InitConta => TokenInv
<1> SUFFICES ASSUME InitConta PROVE TokenInv
  OBVIOUS
<1>1. SenhaTypeOK
  BY DEF InitConta, SenhaTypeOK
<1>2. EmTroca = {}
  BY DEF InitConta, EmTroca
<1>3. SoUltimo /\ GastoUmaVez /\ trocaTardia = FALSE
  BY <1>2 DEF InitConta, SoUltimo, GastoUmaVez
<1> QED BY <1>1, <1>3 DEF TokenInv

LEMMA TokenPasso ==
  ASSUME TokenInv, [NextConta]_contaVars
  PROVE  TokenInv'
<1> USE ContaAssumption
        DEF TokenInv, SenhaTypeOK, SoUltimo, GastoUmaVez, EmTroca, Ultimo
<1>a. ASSUME UNCHANGED <<emitidosT, vivos, vencidos, resgate, trocadaPor, trocaTardia>>,
             senha' \in {"CADASTRO", "REDEFINIDA", "ALTERADA", "MORTA"}
      PROVE  TokenInv'
  BY <1>a
<1>1. CASE UNCHANGED contaVars
  BY <1>1, <1>a DEF contaVars, senhaVars
<1>2. CASE \E p \in Trocas :
             CompararSenha(p) \/ AlterarSenha(p) \/ LerParaAnonimizar(p) \/ Anonimizar(p)
  BY <1>2, <1>a DEF CompararSenha, AlterarSenha, LerParaAnonimizar, Anonimizar, TrocaUnchanged
<1>3. ASSUME NEW t \in Tokens, CriarToken(t) PROVE TokenInv'
  <2>1. EmTroca = {}
    BY <1>3 DEF CriarToken, Presos
  <2>2. /\ emitidosT' \in Seq(Tokens) /\ emitidosT' # <<>>
        /\ Ultimo' = t /\ t \notin ToSet(emitidosT)
        /\ ToSet(emitidosT)' = ToSet(emitidosT) \cup {t}
    BY <1>3, MaisUmToken DEF CriarToken
  <2>3. vivos' = {t} /\ UNCHANGED <<senha, vencidos, resgate, trocadaPor, trocaTardia>>
    BY <1>3 DEF CriarToken
  <2>4. SenhaTypeOK' /\ SoUltimo'
    BY <2>1, <2>2, <2>3
  <2>5. GastoUmaVez'
    BY <2>1, <2>2, <2>3
  <2> QED BY <2>3, <2>4, <2>5
<1>4. ASSUME NEW t \in Tokens, VencerToken(t) PROVE TokenInv'
  BY <1>4 DEF VencerToken
<1>5. ASSUME NEW r \in Resgates, NEW t \in Tokens, EncontrarToken(r, t) PROVE TokenInv'
  <2>1. /\ resgate[r].passo = "INICIO" /\ r \notin trocadaPor
        /\ UNCHANGED <<senha, emitidosT, vivos, vencidos, trocadaPor, trocaTardia>>
    BY <1>5 DEF EncontrarToken
  <2>2. /\ resgate' = [resgate EXCEPT ![r] = [passo |-> "CONSUMIR", token |-> t]]
    BY <1>5 DEF EncontrarToken
  <2>3. EmTroca' = EmTroca /\ \A q \in Resgates \ {r} : resgate'[q] = resgate[q]
    BY <2>1, <2>2
  <2>4. SenhaTypeOK' /\ SoUltimo'
    BY <2>1, <2>2, <2>3
  <2>5. GastoUmaVez'
    BY <2>1, <2>2, <2>3
  <2> QED BY <2>1, <2>4, <2>5
<1>6. ASSUME NEW r \in Resgates, ConsumirToken(r) PROVE TokenInv'
  <2>1. /\ resgate[r].passo = "CONSUMIR" /\ r \notin trocadaPor
        /\ UNCHANGED <<senha, emitidosT, vencidos, trocadaPor, trocaTardia>>
    BY <1>6 DEF ConsumirToken
  <2>2. CASE /\ resgate[r].token \in vivos
             /\ vivos' = vivos \ {resgate[r].token}
             /\ resgate' = [resgate EXCEPT ![r].passo = "TROCAR"]
    <3>1. EmTroca = {} /\ vivos' = {} /\ resgate[r].token = Ultimo
      BY <2>2
    <3>2. /\ EmTroca' = {r} /\ resgate'[r].token = resgate[r].token
          /\ \A q \in Resgates \ {r} : resgate'[q] = resgate[q]
      BY <2>2, <3>1
    <3>3. SenhaTypeOK' /\ SoUltimo'
      BY <2>1, <2>2, <3>1, <3>2
    <3>4. GastoUmaVez'
      BY <2>1, <2>2, <3>1, <3>2
    <3> QED BY <2>1, <3>3, <3>4
  <2>3. CASE UNCHANGED vivos /\ resgate' = [resgate EXCEPT ![r].passo = "FIM"]
    <3>1. EmTroca' = EmTroca /\ \A q \in Resgates \ {r} : resgate'[q] = resgate[q]
      BY <2>1, <2>3
    <3>2. SenhaTypeOK' /\ SoUltimo'
      BY <2>1, <2>3, <3>1
    <3>3. GastoUmaVez'
      BY <2>1, <2>3, <3>1
    <3> QED BY <2>1, <3>2, <3>3
  <2> QED BY <1>6, <2>2, <2>3 DEF ConsumirToken, Resgatavel
<1>7. ASSUME NEW r \in Resgates, RedefinirSenha(r) PROVE TokenInv'
  <2>1. /\ r \in EmTroca /\ r \notin trocadaPor
        /\ UNCHANGED <<emitidosT, vivos, vencidos>>
        /\ senha' = "REDEFINIDA" /\ trocadaPor' = trocadaPor \cup {r}
        /\ resgate' = [resgate EXCEPT ![r].passo = "FIM"]
    BY <1>7 DEF RedefinirSenha
  <2>2. EmTroca = {r} /\ vivos = {} /\ emitidosT # <<>> /\ resgate[r].token = Ultimo
    BY <2>1
  <2>7. trocaTardia' = FALSE
    BY <1>7, <2>2 DEF RedefinirSenha
  <2>3. /\ EmTroca' = {} /\ resgate'[r].token = resgate[r].token /\ resgate'[r].passo = "FIM"
        /\ \A q \in Resgates \ {r} : resgate'[q] = resgate[q]
    BY <2>1, <2>2
  <2>4. resgate[r].token \in ToSet(emitidosT)
    BY <2>2, UltimoPedido
  <2>5. SenhaTypeOK' /\ SoUltimo'
    BY <2>1, <2>2, <2>3
  <2>6. GastoUmaVez'
    BY <2>1, <2>2, <2>3, <2>4
  <2> QED BY <2>7, <2>5, <2>6
<1>8. ASSUME NEW r \in Resgates, DesistirResgate(r) PROVE TokenInv'
  <2>1. /\ resgate[r].passo \in {"CONSUMIR", "TROCAR"} /\ r \notin trocadaPor
        /\ UNCHANGED <<senha, emitidosT, vencidos, trocadaPor, trocaTardia>>
        /\ resgate' = [resgate EXCEPT ![r] = [passo |-> "INICIO", token |-> Livre]]
    BY <1>8 DEF DesistirResgate
  <2>2. /\ EmTroca' = EmTroca \ {r}
        /\ \A q \in Resgates \ {r} : resgate'[q] = resgate[q]
    BY <2>1
  <2>3. CASE resgate[r].passo = "TROCAR"
    <3>1. EmTroca = {r} /\ vivos' = {Ultimo} /\ resgate[r].token = Ultimo /\ emitidosT # <<>>
      BY <1>8, <2>3 DEF DesistirResgate
    <3>2. SenhaTypeOK' /\ SoUltimo'
      BY <2>1, <2>2, <3>1
    <3>3. GastoUmaVez'
      BY <2>1, <2>2, <3>1
    <3> QED BY <2>1, <3>2, <3>3
  <2>4. CASE resgate[r].passo # "TROCAR"
    <3>1. vivos' = vivos
      BY <1>8, <2>4 DEF DesistirResgate
    <3>2. SenhaTypeOK' /\ SoUltimo'
      BY <2>1, <2>2, <3>1
    <3>3. GastoUmaVez'
      BY <2>1, <2>2, <3>1
    <3> QED BY <2>1, <3>2, <3>3
  <2> QED BY <2>3, <2>4
<1>9. CASE NextExclusao
  <2>1. /\ UNCHANGED <<senha, emitidosT, vencidos, resgate, trocadaPor, trocaTardia>>
        /\ vivos' = vivos \/ vivos' = {}
    BY <1>9 DEF NextExclusao, IniciarExclusao, ContarReservas, ApagarConta, TrancarParaReserva,
                RelerContas, InserirReserva, senhaVars
  <2> QED BY <2>1
<1> QED BY <1>1, <1>2, <1>3, <1>4, <1>5, <1>6, <1>7, <1>8, <1>9
        DEF NextConta, NextSenha, Resgatar

(* One token at a time changes the password, once, and only if none newer was *)
(* asked for (criarNova, consumirComNovaSenha).                               *)
THEOREM ContaTokenUnico == SpecConta => []TokenUnico
<1>1. TokenInv => TokenUnico
  <2> SUFFICES ASSUME TokenInv PROVE TokenUnico
    OBVIOUS
  <2>1. vivos = {} \/ vivos = {Ultimo}
    BY DEF TokenInv, SoUltimo
  <2>2. Cardinality({}) = 0 /\ Cardinality({Ultimo}) = 1
    BY FS_EmptySet, FS_Singleton
  <2>3. Cardinality(vivos) <= 1
    BY <2>1, <2>2
  <2> QED BY <2>3 DEF TokenInv, GastoUmaVez, TokenUnico
<1> QED BY <1>1, TokenInicio, TokenPasso, PTL DEF SpecConta

(* Every variable keeps to its type; a token that may be redeemed was asked for. *)
THEOREM ContaTipada == SpecConta => []ContaTypeOK
<1>1. TokenInv /\ ExclusaoInv => ContaTypeOK
  <2> SUFFICES ASSUME TokenInv, ExclusaoInv PROVE ContaTypeOK
    OBVIOUS
  <2>1. vivos \subseteq ToSet(emitidosT)
    BY UltimoPedido DEF TokenInv, SenhaTypeOK, SoUltimo
  <2> QED BY <2>1 DEF TokenInv, SenhaTypeOK, ExclusaoInv, ExclusaoTypeOK, ContaTypeOK
<1> QED BY <1>1, TokenInicio, TokenPasso, ExclusaoInicio, ExclusaoPasso, PTL DEF SpecConta

-----------------------------------------------------------------------------
(* Who is let through (Acesso). *)

\* A handler of joined tables has the entry of one that has it.
LEMMA UnirDe ==
  ASSUME NEW F, NEW h \in DOMAIN Unir(F)
  PROVE  \E f \in F : h \in DOMAIN f /\ Unir(F)[h] = f[h]
<1>1. PICK g \in F : h \in DOMAIN g
  BY DEF Unir
<1>2. (CHOOSE f \in F : h \in DOMAIN f) \in F /\ h \in DOMAIN (CHOOSE f \in F : h \in DOMAIN f)
  BY <1>1
<1> QED
  BY <1>2 DEF Unir

\* Com gives every handler of S the entry v.
LEMMA ComDe ==
  ASSUME NEW S, NEW v
  PROVE DOMAIN Com(S, v) = S /\ \A h \in S : Com(S, v)[h] = v
BY DEF Com

\* The handlers of the tables that services and controllers name.
LEMMA Nomes ==
  /\ DOMAIN RotasAdmin =
       {"conta.index", "conta.findByEmail", "conta.findById", "conta.create",
        "conta.update", "conta.delete", "bloqueio.create", "bloqueio.listByLocatario",
        "bloqueio.findById", "bloqueio.revogar", "monitoramento.executar"}
  /\ DOMAIN RotasLocador =
       {"locador.index", "locador.findByCnpjOrEmpresa", "locador.create",
        "locador.findById", "locador.update", "locador.delete"}
  /\ DOMAIN RotasLocatario =
       {"locatario.index", "locatario.findByCpfOrCnh", "locatario.create",
        "locatario.findById", "locatario.update", "locatario.delete"}
  /\ DOMAIN RotasFavorito =
       {"favorito.index", "favorito.verificar", "favorito.create", "favorito.delete"}
  /\ DOMAIN RotasDashboard =
       {"dashboard.reservas", "dashboard.financeiro", "dashboard.utilizacao",
        "dashboard.frota"}
  /\ DOMAIN RotasLgpd =
       {"lgpd.exportar", "lgpd.acessos", "lgpd.anonimizar", "lgpd.exportar/id",
        "lgpd.acessos/id", "lgpd.anonimizar/id"}
  /\ DOMAIN RotasNotificacao =
       {"preferencia.listar", "preferencia.definir"}
  /\ DOMAIN RotasAuditoria =
       {"auditoria.listar"}
  /\ DOMAIN RotasCobranca =
       {"cobranca.listarPendentes", "cobranca.pagar"}
  /\ DOMAIN RotasServico =
       {"servicoOpcional.index", "servicoOpcional.findById"}
  /\ DOMAIN RotasWebhook =
       {"webhook.handle"}
  /\ DOMAIN RotasInteresse =
       {"interesse.descoberta", "interesse.notificacoes", "interesse.index",
        "interesse.create", "interesse.delete"}
  /\ DOMAIN ControleImagem =
       {"imagem.listar", "imagem.criar", "imagem.reordenar", "imagem.definirCapa",
        "imagem.excluir"}
  /\ DOMAIN ControleAvaliacaoRelatorio =
       {"avaliacaoRelatorio.dashboard"}
BY ComDe DEF RotasAdmin, RotasLocador, RotasLocatario, RotasFavorito, RotasDashboard,
             RotasLgpd, RotasNotificacao, RotasAuditoria, RotasCobranca,
             RotasServico, RotasWebhook, RotasInteresse, ControleImagem,
             ControleAvaliacaoRelatorio


\* The handlers without a comparison that act on the token's own account.
TokenProprio ==
  {"conta.getCurrentAccount", "conta.updateProfile", "conta.changePassword",
   "conta.deleteAccount", "interesse.notificacoes", "interesse.index", "interesse.create",
   "interesse.delete", "avaliacaoRelatorio.dashboard"}
  \cup DOMAIN RotasFavorito \cup DOMAIN RotasDashboard

\* What isolation needs of the roles v that the route of h lets through.
Exigido(h, v) ==
  /\ v \subseteq Cargos \cup {"NENHUM"}
  /\ h \in DOMAIN RotasAdmin
           \cup {"deficiencia.create", "deficiencia.update", "deficiencia.delete"}
       => v = {"ADMIN"}
  /\ h \in DoLocatario \cup {"reserva.create", "reserva.findByLocatarioId"}
       => "LOCADOR" \notin v
  /\ h \in TokenProprio \cup DOMAIN RotasLgpd \cup DOMAIN RotasNotificacao => "NENHUM" \notin v

LEMMA RotaExige ==
  ASSUME NEW h \in DOMAIN Rotas
  PROVE  Exigido(h, Rotas[h])
<1>1. \E f \in {RotasReserva, RotasAdmin, RotasConta, RotasVeiculo, RotasGaragem, RotasLocador,
             RotasLocatario, RotasFavorito, RotasInteresse, RotasAvaliacao, RotasDashboard,
             RotasLocalizacao, RotasDeficiencia, RotasLgpd, RotasCobranca, RotasAuditoria,
             RotasNotificacao, RotasServico, RotasCompartilhamento, RotasWebhook} :
        h \in DOMAIN f /\ Rotas[h] = f[h]
  BY UnirDe DEF Rotas
<1>2. ASSUME h \in DOMAIN RotasReserva PROVE Exigido(h, RotasReserva[h])
  <2>1. \/ /\ h \in {"reserva.findByLocatarioId", "estorno.consultar", "reserva.precificar",
                     "reserva.create", "reserva.iniciarPagamento", "reserva.desbloquear",
                     "reserva.gerarQrDesbloqueio", "reserva.desbloquearQr",
                     "reserva.adicionarCondutor", "reserva.removerCondutor"}
           /\ RotasReserva[h] = {"LOCATARIO", "ADMIN"}
        \/ /\ h \in {"reserva.findByVeiculoId"}
           /\ RotasReserva[h] = {"LOCADOR", "ADMIN"}
        \/ /\ h \in {"localizacao.ultimaDaReserva", "compartilhamento.criar",
                     "compartilhamento.revogar"}
           /\ RotasReserva[h] = {"LOCATARIO"}
        \/ /\ h \in {"reserva.index", "reserva.findById", "reserva.cancelar",
                     "reserva.devolver", "reserva.update", "reserva.delete",
                     "reserva.listarCondutores"}
           /\ RotasReserva[h] = Cargos
    <3>1. PICK f \in {Com({"reserva.findByLocatarioId", "estorno.consultar",
                        "reserva.precificar", "reserva.create", "reserva.iniciarPagamento",
                        "reserva.desbloquear", "reserva.gerarQrDesbloqueio",
                        "reserva.desbloquearQr", "reserva.adicionarCondutor",
                        "reserva.removerCondutor"}, {"LOCATARIO", "ADMIN"}),
                   Com({"reserva.findByVeiculoId"}, {"LOCADOR", "ADMIN"}),
                   Com({"localizacao.ultimaDaReserva", "compartilhamento.criar",
                        "compartilhamento.revogar"}, {"LOCATARIO"}),
                   Com({"reserva.index", "reserva.findById", "reserva.cancelar",
                        "reserva.devolver", "reserva.update", "reserva.delete",
                        "reserva.listarCondutores"}, Cargos)} :
            h \in DOMAIN f /\ RotasReserva[h] = f[h]
      BY <1>2, UnirDe DEF RotasReserva
    <3> QED BY <3>1, ComDe
  <2> QED BY <2>1, Nomes DEF Exigido, TokenProprio, DoLocatario, Cargos, Publico, Opcional
<1>3. ASSUME h \in DOMAIN RotasAdmin PROVE Exigido(h, RotasAdmin[h])
  <2>1. /\ h \in {"conta.index", "conta.findByEmail", "conta.findById", "conta.create",
                    "conta.update", "conta.delete", "bloqueio.create",
                    "bloqueio.listByLocatario", "bloqueio.findById", "bloqueio.revogar",
                    "monitoramento.executar"}
        /\ RotasAdmin[h] = {"ADMIN"}
    BY <1>3, ComDe DEF RotasAdmin
  <2> QED BY <2>1, Nomes DEF Exigido, TokenProprio, DoLocatario, Cargos, Publico, Opcional
<1>4. ASSUME h \in DOMAIN RotasConta PROVE Exigido(h, RotasConta[h])
  <2>1. \/ /\ h \in {"conta.getCurrentAccount", "conta.updateProfile",
                     "conta.changePassword", "conta.deleteAccount"}
           /\ RotasConta[h] = Cargos
        \/ /\ h \in {"senha.forgot", "senha.reset"}
           /\ RotasConta[h] = Publico
    BY <1>4, UnirDe, ComDe DEF RotasConta
  <2> QED BY <2>1, Nomes DEF Exigido, TokenProprio, DoLocatario, Cargos, Publico, Opcional
<1>5. ASSUME h \in DOMAIN RotasVeiculo PROVE Exigido(h, RotasVeiculo[h])
  <2>1. \/ /\ h \in {"veiculo.findByLocadorId"}
           /\ RotasVeiculo[h] = Publico
        \/ /\ h \in {"veiculo.frota", "veiculo.createLote", "veiculo.updateModelo",
                     "veiculo.updateModeloDoVeiculo", "veiculo.create", "veiculo.update",
                     "veiculo.delete", "imagem.criar", "imagem.reordenar",
                     "imagem.definirCapa", "imagem.excluir"}
           /\ RotasVeiculo[h] = {"LOCADOR", "ADMIN"}
        \/ /\ h \in {"veiculo.index", "veiculo.findById", "imagem.listar"}
           /\ RotasVeiculo[h] = Opcional
    <3>1. PICK f \in {Com({"veiculo.findByLocadorId"}, Publico),
                   Com({"veiculo.frota", "veiculo.createLote", "veiculo.updateModelo",
                        "veiculo.updateModeloDoVeiculo", "veiculo.create", "veiculo.update",
                        "veiculo.delete", "imagem.criar", "imagem.reordenar",
                        "imagem.definirCapa", "imagem.excluir"}, {"LOCADOR", "ADMIN"}),
                   Com({"veiculo.index", "veiculo.findById", "imagem.listar"}, Opcional)} :
            h \in DOMAIN f /\ RotasVeiculo[h] = f[h]
      BY <1>5, UnirDe DEF RotasVeiculo
    <3> QED BY <3>1, ComDe
  <2> QED BY <2>1, Nomes DEF Exigido, TokenProprio, DoLocatario, Cargos, Publico, Opcional
<1>6. ASSUME h \in DOMAIN RotasGaragem PROVE Exigido(h, RotasGaragem[h])
  <2>1. \/ /\ h \in {"garagem.findVeiculos", "garagem.create", "garagem.update",
                     "garagem.delete"}
           /\ RotasGaragem[h] = {"LOCADOR", "ADMIN"}
        \/ /\ h \in {"garagem.alocarVeiculo", "garagem.desalocarVeiculo"}
           /\ RotasGaragem[h] = {"LOCADOR"}
        \/ /\ h \in {"garagem.index", "garagem.findById"}
           /\ RotasGaragem[h] = Opcional
    <3>1. PICK f \in {Com({"garagem.findVeiculos", "garagem.create", "garagem.update",
                        "garagem.delete"}, {"LOCADOR", "ADMIN"}),
                   Com({"garagem.alocarVeiculo", "garagem.desalocarVeiculo"}, {"LOCADOR"}),
                   Com({"garagem.index", "garagem.findById"}, Opcional)} :
            h \in DOMAIN f /\ RotasGaragem[h] = f[h]
      BY <1>6, UnirDe DEF RotasGaragem
    <3> QED BY <3>1, ComDe
  <2> QED BY <2>1, Nomes DEF Exigido, TokenProprio, DoLocatario, Cargos, Publico, Opcional
<1>7. ASSUME h \in DOMAIN RotasLocador PROVE Exigido(h, RotasLocador[h])
  <2>1. /\ h \in {"locador.index", "locador.findByCnpjOrEmpresa", "locador.create",
                    "locador.findById", "locador.update", "locador.delete"}
        /\ RotasLocador[h] = {"LOCADOR", "ADMIN"}
    BY <1>7, ComDe DEF RotasLocador
  <2> QED BY <2>1, Nomes DEF Exigido, TokenProprio, DoLocatario, Cargos, Publico, Opcional
<1>8. ASSUME h \in DOMAIN RotasLocatario PROVE Exigido(h, RotasLocatario[h])
  <2>1. /\ h \in {"locatario.index", "locatario.findByCpfOrCnh", "locatario.create",
                    "locatario.findById", "locatario.update", "locatario.delete"}
        /\ RotasLocatario[h] = {"LOCATARIO", "ADMIN"}
    BY <1>8, ComDe DEF RotasLocatario
  <2> QED BY <2>1, Nomes DEF Exigido, TokenProprio, DoLocatario, Cargos, Publico, Opcional
<1>9. ASSUME h \in DOMAIN RotasFavorito PROVE Exigido(h, RotasFavorito[h])
  <2>1. /\ h \in {"favorito.index", "favorito.verificar", "favorito.create",
                    "favorito.delete"}
        /\ RotasFavorito[h] = {"LOCATARIO"}
    BY <1>9, ComDe DEF RotasFavorito
  <2> QED BY <2>1, Nomes DEF Exigido, TokenProprio, DoLocatario, Cargos, Publico, Opcional
<1>10. ASSUME h \in DOMAIN RotasInteresse PROVE Exigido(h, RotasInteresse[h])
  <2>1. /\ h \in {"interesse.descoberta", "interesse.notificacoes", "interesse.index",
                    "interesse.create", "interesse.delete"}
        /\ RotasInteresse[h] = {"LOCATARIO"}
    BY <1>10, ComDe DEF RotasInteresse
  <2> QED BY <2>1, Nomes DEF Exigido, TokenProprio, DoLocatario, Cargos, Publico, Opcional
<1>11. ASSUME h \in DOMAIN RotasAvaliacao PROVE Exigido(h, RotasAvaliacao[h])
  <2>1. \/ /\ h \in {"avaliacaoRelatorio.dashboard"}
           /\ RotasAvaliacao[h] = {"LOCADOR"}
        \/ /\ h \in {"avaliacao.findByReserva"}
           /\ RotasAvaliacao[h] = Cargos
        \/ /\ h \in {"avaliacao.create"}
           /\ RotasAvaliacao[h] = {"LOCATARIO", "ADMIN"}
    <3>1. PICK f \in {Com({"avaliacaoRelatorio.dashboard"}, {"LOCADOR"}),
                   Com({"avaliacao.findByReserva"}, Cargos),
                   Com({"avaliacao.create"}, {"LOCATARIO", "ADMIN"})} :
            h \in DOMAIN f /\ RotasAvaliacao[h] = f[h]
      BY <1>11, UnirDe DEF RotasAvaliacao
    <3> QED BY <3>1, ComDe
  <2> QED BY <2>1, Nomes DEF Exigido, TokenProprio, DoLocatario, Cargos, Publico, Opcional
<1>12. ASSUME h \in DOMAIN RotasDashboard PROVE Exigido(h, RotasDashboard[h])
  <2>1. /\ h \in {"dashboard.reservas", "dashboard.financeiro", "dashboard.utilizacao",
                    "dashboard.frota"}
        /\ RotasDashboard[h] = {"LOCADOR"}
    BY <1>12, ComDe DEF RotasDashboard
  <2> QED BY <2>1, Nomes DEF Exigido, TokenProprio, DoLocatario, Cargos, Publico, Opcional
<1>13. ASSUME h \in DOMAIN RotasLocalizacao PROVE Exigido(h, RotasLocalizacao[h])
  <2>1. \/ /\ h \in {"localizacao.ultima", "localizacao.historico"}
           /\ RotasLocalizacao[h] = Cargos
        \/ /\ h \in {"localizacao.registrar"}
           /\ RotasLocalizacao[h] = {"LOCADOR", "ADMIN"}
    BY <1>13, UnirDe, ComDe DEF RotasLocalizacao
  <2> QED BY <2>1, Nomes DEF Exigido, TokenProprio, DoLocatario, Cargos, Publico, Opcional
<1>14. ASSUME h \in DOMAIN RotasDeficiencia PROVE Exigido(h, RotasDeficiencia[h])
  <2>1. \/ /\ h \in {"deficiencia.index", "deficiencia.findByDescription",
                     "deficiencia.findById"}
           /\ RotasDeficiencia[h] = Publico
        \/ /\ h \in {"deficiencia.create", "deficiencia.update", "deficiencia.delete"}
           /\ RotasDeficiencia[h] = {"ADMIN"}
    <3>1. PICK f \in {Com({"deficiencia.index", "deficiencia.findByDescription",
                        "deficiencia.findById"}, Publico),
                   Com({"deficiencia.create", "deficiencia.update", "deficiencia.delete"}, {"ADMIN"})} :
            h \in DOMAIN f /\ RotasDeficiencia[h] = f[h]
      BY <1>14, UnirDe DEF RotasDeficiencia
    <3> QED BY <3>1, ComDe
  <2> QED BY <2>1, Nomes DEF Exigido, TokenProprio, DoLocatario, Cargos, Publico, Opcional
<1>15. ASSUME h \in DOMAIN RotasLgpd PROVE Exigido(h, RotasLgpd[h])
  <2>1. /\ h \in {"lgpd.exportar", "lgpd.acessos", "lgpd.anonimizar", "lgpd.exportar/id",
                    "lgpd.acessos/id", "lgpd.anonimizar/id"}
        /\ RotasLgpd[h] = Cargos
    BY <1>15, ComDe DEF RotasLgpd
  <2> QED BY <2>1, Nomes DEF Exigido, TokenProprio, DoLocatario, Cargos, Publico, Opcional
<1>16. ASSUME h \in DOMAIN RotasCobranca PROVE Exigido(h, RotasCobranca[h])
  <2>1. /\ h \in {"cobranca.listarPendentes", "cobranca.pagar"}
        /\ RotasCobranca[h] = {"LOCATARIO"}
    BY <1>16, ComDe DEF RotasCobranca
  <2> QED BY <2>1, Nomes DEF Exigido, TokenProprio, DoLocatario, Cargos, Publico, Opcional
<1>17. ASSUME h \in DOMAIN RotasAuditoria PROVE Exigido(h, RotasAuditoria[h])
  <2>1. /\ h \in {"auditoria.listar"}
        /\ RotasAuditoria[h] = {"LOCADOR", "ADMIN"}
    BY <1>17, ComDe DEF RotasAuditoria
  <2> QED BY <2>1, Nomes DEF Exigido, TokenProprio, DoLocatario, Cargos, Publico, Opcional
<1>18. ASSUME h \in DOMAIN RotasNotificacao PROVE Exigido(h, RotasNotificacao[h])
  <2>1. /\ h \in {"preferencia.listar", "preferencia.definir"}
        /\ RotasNotificacao[h] = Cargos
    BY <1>18, ComDe DEF RotasNotificacao
  <2> QED BY <2>1, Nomes DEF Exigido, TokenProprio, DoLocatario, Cargos, Publico, Opcional
<1>19. ASSUME h \in DOMAIN RotasServico PROVE Exigido(h, RotasServico[h])
  <2>1. /\ h \in {"servicoOpcional.index", "servicoOpcional.findById"}
        /\ RotasServico[h] = Publico
    BY <1>19, ComDe DEF RotasServico
  <2> QED BY <2>1, Nomes DEF Exigido, TokenProprio, DoLocatario, Cargos, Publico, Opcional
<1>20. ASSUME h \in DOMAIN RotasCompartilhamento PROVE Exigido(h, RotasCompartilhamento[h])
  <2>1. /\ h \in {"compartilhamento.publico"}
        /\ RotasCompartilhamento[h] = Publico
    BY <1>20, ComDe DEF RotasCompartilhamento
  <2> QED BY <2>1, Nomes DEF Exigido, TokenProprio, DoLocatario, Cargos, Publico, Opcional
<1>21. ASSUME h \in DOMAIN RotasWebhook PROVE Exigido(h, RotasWebhook[h])
  <2>1. /\ h \in {"webhook.handle"}
        /\ RotasWebhook[h] = Publico
    BY <1>21, ComDe DEF RotasWebhook
  <2> QED BY <2>1, Nomes DEF Exigido, TokenProprio, DoLocatario, Cargos, Publico, Opcional
<1> QED
  BY <1>1, <1>2, <1>3, <1>4, <1>5, <1>6, <1>7, <1>8, <1>9, <1>10, <1>11, <1>12, <1>13, <1>14,
     <1>15, <1>16, <1>17, <1>18, <1>19, <1>20, <1>21

\* What isolation needs of the kind v of the ids that the controller of h passes on.
Entregue(h, v) ==
  /\ h \in {"reserva.index", "reserva.findById", "reserva.update", "reserva.cancelar",
            "reserva.devolver", "reserva.listarCondutores", "reserva.desbloquear",
            "reserva.desbloquearQr", "avaliacao.findByReserva"} => v = "RESERVA"
  /\ h \in {"reserva.findByLocatarioId", "reserva.create", "veiculo.create",
            "veiculo.createLote", "garagem.create", "conta.update", "conta.delete"}
           \cup DOMAIN RotasAuditoria \cup DOMAIN RotasLocador \cup DOMAIN RotasLocatario
       => v = "CONTA"
  /\ h \in {"reserva.findByVeiculoId", "veiculo.index", "veiculo.frota", "veiculo.findById",
            "veiculo.update", "veiculo.delete", "localizacao.historico", "localizacao.ultima",
            "localizacao.registrar"} \cup DOMAIN ControleImagem => v = "VEICULO"
  /\ h = "veiculo.updateModelo" => v = "MODELO"
  /\ h = "veiculo.updateModeloDoVeiculo" => v = "VEICULO_E_CONTA"
  /\ h \in {"garagem.index", "garagem.findById", "garagem.findVeiculos", "garagem.update",
            "garagem.delete"} => v = "GARAGEM"
  /\ h \in {"garagem.alocarVeiculo", "garagem.desalocarVeiculo"} => v = "GARAGEM_E_VEICULO"
  /\ h \in DOMAIN RotasLgpd => v \in {"TOKEN", "CONTA"}
  /\ h \in DOMAIN RotasNotificacao \cup TokenProprio => v = "TOKEN"
  /\ v = "TOKEN" => h \in TokenProprio \cup DOMAIN RotasLgpd \cup DOMAIN RotasNotificacao
  /\ v \in {"NADA", "TOKEN", "SISTEMA", "CONTA", "RESERVA", "VEICULO", "MODELO", "GARAGEM",
            "VEICULO_E_CONTA", "GARAGEM_E_VEICULO"}
  /\ h \in {"senha.forgot", "senha.reset", "interesse.descoberta", "deficiencia.index",
            "deficiencia.findByDescription", "deficiencia.findById"} => v = "NADA"

LEMMA ControleDoHandler ==
  ASSUME NEW h \in DOMAIN Controles
  PROVE  Entregue(h, Controles[h])
<1>1. \E f \in {ControleReservaConsulta, ControleReservaEscrita, ControleReservaViagem,
             ControleVeiculoConsulta, ControleVeiculoEscrita, ControleImagem,
             ControleGaragemConsulta, ControleGaragemEscrita, ControleContaConsulta,
             ControleConta, ControleContaPropria, ControleSenha, ControleLocador,
             ControleLocatario, ControleFavorito, ControleInteresse, ControleAvaliacao,
             ControleAvaliacaoRelatorio, ControleDashboard, ControleLocalizacao,
             ControleDeficiencia, ControleLgpd, ControleBloqueio, ControleMonitoramento,
             ControleCobranca, ControleEstorno, ControleAuditoria, ControlePreferencia,
             ControleServico, ControleCompartilhamento, ControleWebhook} :
        h \in DOMAIN f /\ Controles[h] = f[h]
  BY UnirDe DEF Controles
<1>2. ASSUME h \in DOMAIN ControleReservaConsulta PROVE Entregue(h, ControleReservaConsulta[h])
  <2>1. \/ /\ h \in {"reserva.iniciarPagamento", "reserva.index", "reserva.findById"}
           /\ ControleReservaConsulta[h] = "RESERVA"
        \/ /\ h \in {"reserva.findByLocatarioId"}
           /\ ControleReservaConsulta[h] = "CONTA"
        \/ /\ h \in {"reserva.findByVeiculoId"}
           /\ ControleReservaConsulta[h] = "VEICULO"
    BY <1>2, UnirDe, ComDe DEF ControleReservaConsulta
  <2> QED BY <2>1, Nomes DEF Entregue, TokenProprio
<1>3. ASSUME h \in DOMAIN ControleReservaEscrita PROVE Entregue(h, ControleReservaEscrita[h])
  <2>1. \/ /\ h \in {"reserva.create"}
           /\ ControleReservaEscrita[h] = "CONTA"
        \/ /\ h \in {"reserva.precificar"}
           /\ ControleReservaEscrita[h] = "NADA"
        \/ /\ h \in {"reserva.update", "reserva.cancelar", "reserva.devolver",
                     "reserva.delete"}
           /\ ControleReservaEscrita[h] = "RESERVA"
    BY <1>3, UnirDe, ComDe DEF ControleReservaEscrita
  <2> QED BY <2>1, Nomes DEF Entregue, TokenProprio
<1>4. ASSUME h \in DOMAIN ControleReservaViagem PROVE Entregue(h, ControleReservaViagem[h])
  <2>1. /\ h \in {"reserva.desbloquear", "reserva.gerarQrDesbloqueio",
                    "reserva.desbloquearQr", "reserva.adicionarCondutor",
                    "reserva.listarCondutores", "reserva.removerCondutor"}
        /\ ControleReservaViagem[h] = "RESERVA"
    BY <1>4, ComDe DEF ControleReservaViagem
  <2> QED BY <2>1, Nomes DEF Entregue, TokenProprio
<1>5. ASSUME h \in DOMAIN ControleVeiculoConsulta PROVE Entregue(h, ControleVeiculoConsulta[h])
  <2>1. \/ /\ h \in {"veiculo.index", "veiculo.frota", "veiculo.findById"}
           /\ ControleVeiculoConsulta[h] = "VEICULO"
        \/ /\ h \in {"veiculo.findByLocadorId"}
           /\ ControleVeiculoConsulta[h] = "NADA"
    BY <1>5, UnirDe, ComDe DEF ControleVeiculoConsulta
  <2> QED BY <2>1, Nomes DEF Entregue, TokenProprio
<1>6. ASSUME h \in DOMAIN ControleVeiculoEscrita PROVE Entregue(h, ControleVeiculoEscrita[h])
  <2>1. \/ /\ h \in {"veiculo.create", "veiculo.createLote"}
           /\ ControleVeiculoEscrita[h] = "CONTA"
        \/ /\ h \in {"veiculo.update", "veiculo.delete"}
           /\ ControleVeiculoEscrita[h] = "VEICULO"
        \/ /\ h \in {"veiculo.updateModelo"}
           /\ ControleVeiculoEscrita[h] = "MODELO"
        \/ /\ h \in {"veiculo.updateModeloDoVeiculo"}
           /\ ControleVeiculoEscrita[h] = "VEICULO_E_CONTA"
    BY <1>6, UnirDe, ComDe DEF ControleVeiculoEscrita
  <2> QED BY <2>1, Nomes DEF Entregue, TokenProprio
<1>7. ASSUME h \in DOMAIN ControleImagem PROVE Entregue(h, ControleImagem[h])
  <2>1. /\ h \in {"imagem.listar", "imagem.criar", "imagem.reordenar",
                    "imagem.definirCapa", "imagem.excluir"}
        /\ ControleImagem[h] = "VEICULO"
    BY <1>7, ComDe DEF ControleImagem
  <2> QED BY <2>1, Nomes DEF Entregue, TokenProprio
<1>8. ASSUME h \in DOMAIN ControleGaragemConsulta PROVE Entregue(h, ControleGaragemConsulta[h])
  <2>1. /\ h \in {"garagem.index", "garagem.findById", "garagem.findVeiculos"}
        /\ ControleGaragemConsulta[h] = "GARAGEM"
    BY <1>8, ComDe DEF ControleGaragemConsulta
  <2> QED BY <2>1, Nomes DEF Entregue, TokenProprio
<1>9. ASSUME h \in DOMAIN ControleGaragemEscrita PROVE Entregue(h, ControleGaragemEscrita[h])
  <2>1. \/ /\ h \in {"garagem.create"}
           /\ ControleGaragemEscrita[h] = "CONTA"
        \/ /\ h \in {"garagem.update", "garagem.delete"}
           /\ ControleGaragemEscrita[h] = "GARAGEM"
        \/ /\ h \in {"garagem.alocarVeiculo", "garagem.desalocarVeiculo"}
           /\ ControleGaragemEscrita[h] = "GARAGEM_E_VEICULO"
    BY <1>9, UnirDe, ComDe DEF ControleGaragemEscrita
  <2> QED BY <2>1, Nomes DEF Entregue, TokenProprio
<1>10. ASSUME h \in DOMAIN ControleContaConsulta PROVE Entregue(h, ControleContaConsulta[h])
  <2>1. /\ h \in {"conta.index", "conta.findByEmail", "conta.findById"}
        /\ ControleContaConsulta[h] = "CONTA"
    BY <1>10, ComDe DEF ControleContaConsulta
  <2> QED BY <2>1, Nomes DEF Entregue, TokenProprio
<1>11. ASSUME h \in DOMAIN ControleConta PROVE Entregue(h, ControleConta[h])
  <2>1. \/ /\ h \in {"conta.update", "conta.delete"}
           /\ ControleConta[h] = "CONTA"
        \/ /\ h \in {"conta.create"}
           /\ ControleConta[h] = "SISTEMA"
    BY <1>11, UnirDe, ComDe DEF ControleConta
  <2> QED BY <2>1, Nomes DEF Entregue, TokenProprio
<1>12. ASSUME h \in DOMAIN ControleContaPropria PROVE Entregue(h, ControleContaPropria[h])
  <2>1. /\ h \in {"conta.getCurrentAccount", "conta.updateProfile",
                    "conta.changePassword", "conta.deleteAccount"}
        /\ ControleContaPropria[h] = "TOKEN"
    BY <1>12, ComDe DEF ControleContaPropria
  <2> QED BY <2>1, Nomes DEF Entregue, TokenProprio
<1>13. ASSUME h \in DOMAIN ControleSenha PROVE Entregue(h, ControleSenha[h])
  <2>1. /\ h \in {"senha.forgot", "senha.reset"}
        /\ ControleSenha[h] = "NADA"
    BY <1>13, ComDe DEF ControleSenha
  <2> QED BY <2>1, Nomes DEF Entregue, TokenProprio
<1>14. ASSUME h \in DOMAIN ControleLocador PROVE Entregue(h, ControleLocador[h])
  <2>1. /\ h \in {"locador.index", "locador.findByCnpjOrEmpresa", "locador.create",
                    "locador.findById", "locador.update", "locador.delete"}
        /\ ControleLocador[h] = "CONTA"
    BY <1>14, ComDe, Nomes DEF ControleLocador
  <2> QED BY <2>1, Nomes DEF Entregue, TokenProprio
<1>15. ASSUME h \in DOMAIN ControleLocatario PROVE Entregue(h, ControleLocatario[h])
  <2>1. /\ h \in {"locatario.index", "locatario.findByCpfOrCnh", "locatario.create",
                    "locatario.findById", "locatario.update", "locatario.delete"}
        /\ ControleLocatario[h] = "CONTA"
    BY <1>15, ComDe, Nomes DEF ControleLocatario
  <2> QED BY <2>1, Nomes DEF Entregue, TokenProprio
<1>16. ASSUME h \in DOMAIN ControleFavorito PROVE Entregue(h, ControleFavorito[h])
  <2>1. /\ h \in {"favorito.index", "favorito.verificar", "favorito.create",
                    "favorito.delete"}
        /\ ControleFavorito[h] = "TOKEN"
    BY <1>16, ComDe, Nomes DEF ControleFavorito
  <2> QED BY <2>1, Nomes DEF Entregue, TokenProprio
<1>17. ASSUME h \in DOMAIN ControleInteresse PROVE Entregue(h, ControleInteresse[h])
  <2>1. \/ /\ h \in {"interesse.descoberta"}
           /\ ControleInteresse[h] = "NADA"
        \/ /\ h \in {"interesse.notificacoes", "interesse.index", "interesse.create",
                     "interesse.delete"}
           /\ ControleInteresse[h] = "TOKEN"
    BY <1>17, UnirDe, ComDe DEF ControleInteresse
  <2> QED BY <2>1, Nomes DEF Entregue, TokenProprio
<1>18. ASSUME h \in DOMAIN ControleAvaliacao PROVE Entregue(h, ControleAvaliacao[h])
  <2>1. /\ h \in {"avaliacao.findByReserva", "avaliacao.create"}
        /\ ControleAvaliacao[h] = "RESERVA"
    BY <1>18, ComDe DEF ControleAvaliacao
  <2> QED BY <2>1, Nomes DEF Entregue, TokenProprio
<1>19. ASSUME h \in DOMAIN ControleAvaliacaoRelatorio
       PROVE  Entregue(h, ControleAvaliacaoRelatorio[h])
  <2>1. /\ h \in {"avaliacaoRelatorio.dashboard"}
        /\ ControleAvaliacaoRelatorio[h] = "TOKEN"
    BY <1>19, ComDe DEF ControleAvaliacaoRelatorio
  <2> QED BY <2>1, Nomes DEF Entregue, TokenProprio
<1>20. ASSUME h \in DOMAIN ControleDashboard PROVE Entregue(h, ControleDashboard[h])
  <2>1. /\ h \in {"dashboard.reservas", "dashboard.financeiro", "dashboard.utilizacao",
                    "dashboard.frota"}
        /\ ControleDashboard[h] = "TOKEN"
    BY <1>20, ComDe, Nomes DEF ControleDashboard
  <2> QED BY <2>1, Nomes DEF Entregue, TokenProprio
<1>21. ASSUME h \in DOMAIN ControleLocalizacao PROVE Entregue(h, ControleLocalizacao[h])
  <2>1. \/ /\ h \in {"localizacao.registrar", "localizacao.historico", "localizacao.ultima"}
           /\ ControleLocalizacao[h] = "VEICULO"
        \/ /\ h \in {"localizacao.ultimaDaReserva"}
           /\ ControleLocalizacao[h] = "RESERVA"
    BY <1>21, UnirDe, ComDe DEF ControleLocalizacao
  <2> QED BY <2>1, Nomes DEF Entregue, TokenProprio
<1>22. ASSUME h \in DOMAIN ControleDeficiencia PROVE Entregue(h, ControleDeficiencia[h])
  <2>1. \/ /\ h \in {"deficiencia.index", "deficiencia.findByDescription",
                     "deficiencia.findById"}
           /\ ControleDeficiencia[h] = "NADA"
        \/ /\ h \in {"deficiencia.create", "deficiencia.update", "deficiencia.delete"}
           /\ ControleDeficiencia[h] = "SISTEMA"
    BY <1>22, UnirDe, ComDe DEF ControleDeficiencia
  <2> QED BY <2>1, Nomes DEF Entregue, TokenProprio
<1>23. ASSUME h \in DOMAIN ControleLgpd PROVE Entregue(h, ControleLgpd[h])
  <2>1. \/ /\ h \in {"lgpd.exportar", "lgpd.acessos", "lgpd.anonimizar"}
           /\ ControleLgpd[h] = "TOKEN"
        \/ /\ h \in {"lgpd.exportar/id", "lgpd.acessos/id", "lgpd.anonimizar/id"}
           /\ ControleLgpd[h] = "CONTA"
    BY <1>23, UnirDe, ComDe DEF ControleLgpd
  <2> QED BY <2>1, Nomes DEF Entregue, TokenProprio
<1>24. ASSUME h \in DOMAIN ControleBloqueio PROVE Entregue(h, ControleBloqueio[h])
  <2>1. /\ h \in {"bloqueio.create", "bloqueio.listByLocatario", "bloqueio.findById",
                    "bloqueio.revogar"}
        /\ ControleBloqueio[h] = "CONTA"
    BY <1>24, ComDe DEF ControleBloqueio
  <2> QED BY <2>1, Nomes DEF Entregue, TokenProprio
<1>25. ASSUME h \in DOMAIN ControleMonitoramento PROVE Entregue(h, ControleMonitoramento[h])
  <2>1. /\ h \in {"monitoramento.executar"}
        /\ ControleMonitoramento[h] = "SISTEMA"
    BY <1>25, ComDe DEF ControleMonitoramento
  <2> QED BY <2>1, Nomes DEF Entregue, TokenProprio
<1>26. ASSUME h \in DOMAIN ControleCobranca PROVE Entregue(h, ControleCobranca[h])
  <2>1. /\ h \in {"cobranca.listarPendentes", "cobranca.pagar"}
        /\ ControleCobranca[h] = "RESERVA"
    BY <1>26, ComDe, Nomes DEF ControleCobranca
  <2> QED BY <2>1, Nomes DEF Entregue, TokenProprio
<1>27. ASSUME h \in DOMAIN ControleEstorno PROVE Entregue(h, ControleEstorno[h])
  <2>1. /\ h \in {"estorno.consultar"}
        /\ ControleEstorno[h] = "RESERVA"
    BY <1>27, ComDe DEF ControleEstorno
  <2> QED BY <2>1, Nomes DEF Entregue, TokenProprio
<1>28. ASSUME h \in DOMAIN ControleAuditoria PROVE Entregue(h, ControleAuditoria[h])
  <2>1. /\ h \in {"auditoria.listar"}
        /\ ControleAuditoria[h] = "CONTA"
    BY <1>28, ComDe, Nomes DEF ControleAuditoria
  <2> QED BY <2>1, Nomes DEF Entregue, TokenProprio
<1>29. ASSUME h \in DOMAIN ControlePreferencia PROVE Entregue(h, ControlePreferencia[h])
  <2>1. /\ h \in {"preferencia.listar", "preferencia.definir"}
        /\ ControlePreferencia[h] = "TOKEN"
    BY <1>29, ComDe, Nomes DEF ControlePreferencia
  <2> QED BY <2>1, Nomes DEF Entregue, TokenProprio
<1>30. ASSUME h \in DOMAIN ControleServico PROVE Entregue(h, ControleServico[h])
  <2>1. /\ h \in {"servicoOpcional.index", "servicoOpcional.findById"}
        /\ ControleServico[h] = "NADA"
    BY <1>30, ComDe, Nomes DEF ControleServico
  <2> QED BY <2>1, Nomes DEF Entregue, TokenProprio
<1>31. ASSUME h \in DOMAIN ControleCompartilhamento
       PROVE  Entregue(h, ControleCompartilhamento[h])
  <2>1. \/ /\ h \in {"compartilhamento.criar", "compartilhamento.revogar"}
           /\ ControleCompartilhamento[h] = "RESERVA"
        \/ /\ h \in {"compartilhamento.publico"}
           /\ ControleCompartilhamento[h] = "NADA"
    BY <1>31, UnirDe, ComDe DEF ControleCompartilhamento
  <2> QED BY <2>1, Nomes DEF Entregue, TokenProprio
<1>32. ASSUME h \in DOMAIN ControleWebhook PROVE Entregue(h, ControleWebhook[h])
  <2>1. /\ h \in {"webhook.handle"}
        /\ ControleWebhook[h] = "NADA"
    BY <1>32, ComDe, Nomes DEF ControleWebhook
  <2> QED BY <2>1, Nomes DEF Entregue, TokenProprio
<1> QED
  BY <1>1, <1>2, <1>3, <1>4, <1>5, <1>6, <1>7, <1>8, <1>9, <1>10, <1>11, <1>12, <1>13, <1>14,
     <1>15, <1>16, <1>17, <1>18, <1>19, <1>20, <1>21, <1>22, <1>23, <1>24, <1>25, <1>26,
     <1>27, <1>28, <1>29, <1>30, <1>31, <1>32

\* A service that compares nothing serves an administrator, the token's own
\* account, or nobody's data.
LEMMA SemComparacao ==
  ASSUME NEW h \in SemVerificacao
  PROVE  \/ h \in DOMAIN RotasAdmin \cup TokenProprio
         \/ h \in {"deficiencia.create", "deficiencia.update", "deficiencia.delete"}
         \/ h \in {"senha.forgot", "senha.reset", "interesse.descoberta", "deficiencia.index",
                   "deficiencia.findByDescription", "deficiencia.findById"}
<1>1. h \in DOMAIN RotasConta =>
        h \in {"conta.getCurrentAccount", "conta.updateProfile", "conta.changePassword",
              "conta.deleteAccount", "senha.forgot", "senha.reset"}
  BY UnirDe, ComDe DEF RotasConta
<1>2. h \in DOMAIN RotasDeficiencia =>
        h \in {"deficiencia.index", "deficiencia.findByDescription", "deficiencia.findById",
              "deficiencia.create", "deficiencia.update", "deficiencia.delete"}
  BY UnirDe, ComDe DEF RotasDeficiencia
<1> QED
  BY <1>1, <1>2, Nomes DEF SemVerificacao, TokenProprio

\* Who may send a request.
SessoesA == [id : ContasA, cargo : Cargos] \cup {Anonima}

\* The ids are of the kind that the controller passes on.
LEMMA AlvosDoTipo ==
  ASSUME NEW h, NEW s, NEW alvos \in Alvos(h, s)
  PROVE  /\ Controles[h] = "NADA" => alvos = {}
         /\ Controles[h] = "TOKEN" => alvos = {s.id}
         /\ Controles[h] = "CONTA" => \E c \in ContasA : alvos = {c}
         /\ Controles[h] = "RESERVA" => alvos \subseteq ReservasA
         /\ Controles[h] \in {"VEICULO", "MODELO", "GARAGEM", "GARAGEM_E_VEICULO"} =>
              alvos \subseteq Frota
         /\ Controles[h] = "VEICULO_E_CONTA" => alvos \subseteq Frota \cup ContasA
BY DEF Alvos, Frota

\* Who changes an account passes one on.
LEMMA UmaConta ==
  ASSUME NEW h \in MudaConta \cap DOMAIN Controles, NEW s \in SessoesA,
         NEW alvos \in Alvos(h, s)
  PROVE  alvos # {}
<1>1. Controles[h] \in {"TOKEN", "CONTA"}
  BY ControleDoHandler, Nomes DEF Entregue, MudaConta, TokenProprio
<1> QED
  BY <1>1, AlvosDoTipo

\* Route, controller and comparison together: who is permitted has a part in it.
LEMMA ParteLegitima ==
  ASSUME NEW h \in Handlers \cap DOMAIN Controles, NEW s \in SessoesA, Authorize(h, s),
         NEW alvos \in Alvos(h, s), NEW x \in alvos, Permite(h, s, x)
  PROVE  Legitimado(h, s, x)
<1> SUFFICES ASSUME s.cargo # "ADMIN"
             PROVE  s.id \in (IF h \in DoLocatario THEN {LocatarioDe[x]} ELSE Partes(x))
  BY DEF Legitimado
<1>1. Exigido(h, Rotas[h]) /\ s.cargo \in Rotas[h]
  BY RotaExige DEF Authorize, Handlers
<1>2. Entregue(h, Controles[h])
  BY ControleDoHandler
<1>3. s.cargo # "NENHUM" => s.id \in ContasA
  BY DEF SessoesA, Anonima
<1>4. /\ Controles[h] # "NADA"
      /\ Controles[h] = "TOKEN" => x = s.id
      /\ Controles[h] = "CONTA" => x \in ContasA
      /\ Controles[h] = "RESERVA" => x \in ReservasA
      /\ Controles[h] \in {"VEICULO", "MODELO", "GARAGEM", "GARAGEM_E_VEICULO"} => x \in Frota
      /\ Controles[h] = "VEICULO_E_CONTA" => x \in Frota \cup ContasA
  BY AlvosDoTipo
<1>5. /\ x \in ContasA => Partes(x) = {x}
      /\ x \in ReservasA => Partes(x) = {LocatarioDe[x], DonoDe[x]}
      /\ x \in Frota => Partes(x) = {DonoDe[x]}
  BY AcessoAssumption DEF Partes
<1>6. CASE h \in SemVerificacao
  <2>1. h \in TokenProprio
    BY <1>1, <1>2, <1>4, <1>6, SemComparacao DEF Exigido, Entregue
  <2>2. x = s.id /\ s.id \in ContasA
    BY <1>1, <1>2, <1>3, <1>4, <2>1 DEF Exigido, Entregue
  <2>3. h \notin DoLocatario
    BY <2>1, Nomes DEF TokenProprio, DoLocatario
  <2> QED BY <1>5, <2>2, <2>3
<1>7. CASE ReservaPermite(h, s, x)
  BY <1>1, <1>2, <1>4, <1>5, <1>7
     DEF ReservaPermite, AssertReservaAccess, Admin, Ou, Exigido, Entregue, DoLocatario
<1>8. CASE VeiculoPermite(h, s, x)
  BY <1>2, <1>4, <1>5, <1>8 DEF VeiculoPermite, Admin, Ou, Entregue, DoLocatario
<1>9. CASE ImagemPermite(h, s, x)
  BY <1>2, <1>4, <1>5, <1>9, Nomes DEF ImagemPermite, Admin, Ou, Entregue, DoLocatario
<1>10. CASE GaragemPermite(h, s, x)
  BY <1>2, <1>4, <1>5, <1>10 DEF GaragemPermite, Admin, Ou, Entregue, DoLocatario
<1>11. CASE LocadorPermite(h, s, x) \/ LocatarioPermite(h, s, x)
  BY <1>2, <1>4, <1>5, <1>11, Nomes
     DEF LocadorPermite, LocatarioPermite, Admin, Ou, Entregue, DoLocatario
<1>12. CASE AvaliacaoPermite(h, s, x)
  BY <1>2, <1>4, <1>5, <1>12
     DEF AvaliacaoPermite, AssertReservaAccess, Admin, Ou, Entregue, DoLocatario
<1>13. CASE LocalizacaoPermite(h, s, x)
  BY <1>2, <1>4, <1>5, <1>13 DEF LocalizacaoPermite, Admin, Ou, Entregue, DoLocatario
<1>14. CASE LgpdPermite(h, s, x)
  BY <1>1, <1>2, <1>3, <1>4, <1>5, <1>14, Nomes
     DEF LgpdPermite, Admin, Exigido, Entregue, DoLocatario
<1>15. CASE PreferenciaPermite(h, s, x)
  BY <1>1, <1>2, <1>3, <1>4, <1>5, <1>15, Nomes
     DEF PreferenciaPermite, Admin, Exigido, Entregue, DoLocatario
<1>16. CASE AuditoriaPermite(h, s, x)
  BY <1>2, <1>4, <1>5, <1>16, Nomes DEF AuditoriaPermite, Admin, Entregue, DoLocatario
<1>17. CASE PagamentoPermite(h, s, x) \/ EstornoPermite(h, s, x)
  BY <1>17 DEF PagamentoPermite, EstornoPermite, Admin, Ou, DoLocatario
<1>18. CASE CobrancaPermite(h, s, x) \/ CompartilhamentoPermite(h, s, x)
  BY <1>18, Nomes DEF CobrancaPermite, CompartilhamentoPermite, DoLocatario
<1> QED
  BY <1>6, <1>7, <1>8, <1>9, <1>10, <1>11, <1>12, <1>13, <1>14, <1>15, <1>16, <1>17, <1>18
     DEF Permite

\* An answer with the code goes to an administrator or to the reservation's tenant.
LEMMA CodigoSoDeQuemPode ==
  ASSUME NEW h \in Handlers \cap DOMAIN Controles, NEW s \in SessoesA, Authorize(h, s),
         NEW alvos \in Alvos(h, s), MostraCodigo(h, s),
         Catalogo(h, s) \/ \A x \in alvos : Permite(h, s, x)
  PROVE  /\ s.cargo # "LOCADOR"
         /\ s.cargo # "ADMIN" =>
              \A x \in alvos :
                s.id \in {x} \cup (IF x \in ReservasA THEN {LocatarioDe[x]} ELSE {})
<1>1. Exigido(h, Rotas[h]) /\ s.cargo \in Rotas[h]
  BY RotaExige DEF Authorize, Handlers
<1>2. s.cargo # "LOCADOR"
  BY <1>1 DEF MostraCodigo, Exigido, DoLocatario
<1>3. ASSUME s.cargo # "ADMIN", NEW x \in alvos
      PROVE  s.id \in {x} \cup (IF x \in ReservasA THEN {LocatarioDe[x]} ELSE {})
  <2>1. Permite(h, s, x)
    BY DEF Catalogo, MostraCodigo
  <2>2. ReservaPermite(h, s, x)
    <3>1. h \notin SemVerificacao
      BY SemComparacao, Nomes DEF MostraCodigo, TokenProprio
    <3> QED
      BY <2>1, <3>1, Nomes
         DEF MostraCodigo, Permite, VeiculoPermite, ImagemPermite, GaragemPermite,
             LocadorPermite, LocatarioPermite, AvaliacaoPermite, LocalizacaoPermite,
             LgpdPermite, PreferenciaPermite, AuditoriaPermite, PagamentoPermite,
             EstornoPermite, CobrancaPermite, CompartilhamentoPermite
  <2>3. (AssertReservaAccess(s, x) /\ x \in ReservasA) \/ s.id = x
    BY <1>3, <2>2, ControleDoHandler, AlvosDoTipo
       DEF ReservaPermite, MostraCodigo, Entregue, Admin
  <2> QED BY <1>2, <1>3, <2>3 DEF AssertReservaAccess, Admin
<1> QED BY <1>2, <1>3

-----------------------------------------------------------------------------
(* A request on its way was let through by its route, with ids of the kind *)
(* its controller passes on; one that took effect was let through by its   *)
(* service.                                                                *)

EmServico(h, s, alvos) == [passo |-> "SERVICO", handler |-> h, sessao |-> s, alvos |-> alvos]
Feita(h, s, alvos) == [passo |-> "FEITA", handler |-> h, sessao |-> s, alvos |-> alvos]

PedidoBem(p) ==
  \/ p \in {Ociosa, Recusada}
  \/ \E h \in Handlers \cap DOMAIN Controles, s \in SessoesA : \E alvos \in Alvos(h, s) :
       /\ Authorize(h, s)
       /\ \/ p = EmServico(h, s, alvos)
          \/ /\ p = Feita(h, s, alvos)
             /\ Catalogo(h, s) \/ \A x \in alvos : Permite(h, s, x)

ContasBem ==
  /\ contaA \in [ContasA -> [cargo : Cargos, estado : {"ATIVA", "ANONIMIZADA", "EXCLUIDA"}]]
  /\ sessoes \subseteq [id : ContasA, cargo : Cargos]

AcessoInv ==
  /\ ContasBem
  /\ DOMAIN requisicao = RequisicoesA
  /\ \A q \in RequisicoesA : PedidoBem(requisicao[q])

LEMMA AcessoInicio == InitAcesso => AcessoInv
BY AcessoAssumption DEF InitAcesso, AcessoInv, ContasBem, PedidoBem

LEMMA PedirPasso ==
  ASSUME AcessoInv, NEW q \in RequisicoesA, NEW s \in sessoes \cup {Anonima},
         NEW h \in HandlersDe[q], Pedir(q, h, s)
  PROVE  AcessoInv'
<1>1. h \in Handlers \cap DOMAIN Controles /\ s \in SessoesA
  BY HandlersAssumption DEF AcessoInv, ContasBem, SessoesA
<1>2. PICK alvos \in Alvos(h, s) :
        requisicao' = [requisicao EXCEPT ![q] = EmServico(h, s, alvos)]
  BY DEF Pedir, EmServico
<1>3. PedidoBem(EmServico(h, s, alvos))
  BY <1>1 DEF Pedir, PedidoBem
<1> QED
  BY <1>2, <1>3 DEF AcessoInv, ContasBem, Pedir

LEMMA ExecutarPasso ==
  ASSUME AcessoInv, NEW q \in RequisicoesA, Executar(q)
  PROVE  AcessoInv'
<1>1. PICK h \in Handlers \cap DOMAIN Controles, s \in SessoesA :
        \E alvos \in Alvos(h, s) :
          Authorize(h, s) /\ requisicao[q] = EmServico(h, s, alvos)
  BY DEF AcessoInv, PedidoBem, Executar, Ociosa, Recusada, Feita
<1>2. PICK alvos \in Alvos(h, s) : requisicao[q] = EmServico(h, s, alvos)
  BY <1>1
<1>3. /\ requisicao[q].handler = h /\ requisicao[q].sessao = s /\ requisicao[q].alvos = alvos
      /\ [requisicao[q] EXCEPT !.passo = "FEITA"] = Feita(h, s, alvos)
  BY <1>2 DEF EmServico, Feita
<1>4. requisicao' = [requisicao EXCEPT ![q] = Feita(h, s, alvos)]
  BY <1>3 DEF Executar
<1>5. PedidoBem(Feita(h, s, alvos))
  BY <1>1, <1>3 DEF Executar, PedidoBem
<1>6. ContasBem'
  <2>1. CASE h \in MudaConta
    <3>1. PICK c : c \in alvos
      BY <2>1, UmaConta
    <3>2. Encerrada(h, c)
      BY <1>3, <2>1, <3>1 DEF Executar
    <3> QED BY <3>2 DEF Encerrada, AcessoInv, ContasBem, Executar
  <2>2. CASE h \notin MudaConta
    BY <1>3, <2>2 DEF Executar, AcessoInv, ContasBem
  <2> QED BY <2>1, <2>2
<1> QED
  BY <1>4, <1>5, <1>6 DEF AcessoInv

LEMMA AcessoPasso == AcessoInv /\ [NextAcesso]_acessoVars => AcessoInv'
<1> SUFFICES ASSUME AcessoInv, [NextAcesso]_acessoVars PROVE AcessoInv'
  OBVIOUS
<1>1. ASSUME NEW q \in RequisicoesA, Recusar(q)
      PROVE  AcessoInv'
  <2>1. PedidoBem(Recusada)
    BY DEF PedidoBem
  <2> QED BY <1>1, <2>1 DEF AcessoInv, ContasBem, Recusar
<1>2. ASSUME NEW c \in ContasA, LoginA(c)
      PROVE  AcessoInv'
  BY <1>2 DEF AcessoInv, ContasBem, LoginA
<1>3. CASE UNCHANGED acessoVars
  BY <1>3 DEF AcessoInv, ContasBem, acessoVars
<1> QED
  BY <1>1, <1>2, <1>3, PedirPasso, ExecutarPasso DEF NextAcesso

LEMMA AcessoSempre == SpecAcesso => []AcessoInv
BY AcessoInicio, AcessoPasso, PTL DEF SpecAcesso

(* Ownership comes from the token: what took effect on an account, a        *)
(* reservation, a vehicle, a model or a garage was asked by an              *)
(* administrator or by a party to it, and by the tenant where only the      *)
(* tenant acts, for any accounts, resources and requests, whatever ids the  *)
(* request held (routes, authorize, controllers, checks of the services).   *)
THEOREM SempreIsolado == SpecAcesso => []Isolamento
<1>1. ASSUME AcessoInv PROVE Isolamento
  <2>1. ASSUME NEW q \in RequisicoesA, requisicao[q].passo = "FEITA",
               ~Catalogo(requisicao[q].handler, requisicao[q].sessao),
               NEW x \in requisicao[q].alvos
        PROVE  Legitimado(requisicao[q].handler, requisicao[q].sessao, x)
    <3>1. PICK h \in Handlers \cap DOMAIN Controles, s \in SessoesA :
            \E alvos \in Alvos(h, s) :
              /\ Authorize(h, s) /\ requisicao[q] = Feita(h, s, alvos)
              /\ Catalogo(h, s) \/ \A y \in alvos : Permite(h, s, y)
      BY <1>1, <2>1 DEF AcessoInv, PedidoBem, Ociosa, Recusada, EmServico
    <3>2. requisicao[q].handler = h /\ requisicao[q].sessao = s
      BY <3>1 DEF Feita
    <3>3. PICK alvos \in Alvos(h, s) :
            /\ requisicao[q].alvos = alvos
            /\ Catalogo(h, s) \/ \A y \in alvos : Permite(h, s, y)
      BY <3>1 DEF Feita
    <3> QED BY <2>1, <3>1, <3>2, <3>3, ParteLegitima
  <2> QED BY <2>1 DEF Isolamento
<1> QED
  BY <1>1, AcessoSempre, PTL

(* No answer to a session of the owner's side carries the unlock code, and  *)
(* one to a tenant is of the tenant's own reservation, for any accounts,    *)
(* resources and requests (the reservation's controllers and services).     *)
THEOREM CodigoSempreOculto == SpecAcesso => []CodigoOculto
<1>1. ASSUME AcessoInv PROVE CodigoOculto
  <2>1. ASSUME NEW q \in RequisicoesA, requisicao[q].passo = "FEITA",
               MostraCodigo(requisicao[q].handler, requisicao[q].sessao)
        PROVE  /\ requisicao[q].sessao.cargo # "LOCADOR"
               /\ requisicao[q].sessao.cargo # "ADMIN" =>
                    \A x \in requisicao[q].alvos :
                      requisicao[q].sessao.id
                        \in {x} \cup (IF x \in ReservasA THEN {LocatarioDe[x]} ELSE {})
    <3>1. PICK h \in Handlers \cap DOMAIN Controles, s \in SessoesA :
            \E alvos \in Alvos(h, s) :
              /\ Authorize(h, s) /\ requisicao[q] = Feita(h, s, alvos)
              /\ Catalogo(h, s) \/ \A y \in alvos : Permite(h, s, y)
      BY <1>1, <2>1 DEF AcessoInv, PedidoBem, Ociosa, Recusada, EmServico
    <3>2. requisicao[q].handler = h /\ requisicao[q].sessao = s
      BY <3>1 DEF Feita
    <3>3. PICK alvos \in Alvos(h, s) :
            /\ requisicao[q].alvos = alvos
            /\ Catalogo(h, s) \/ \A y \in alvos : Permite(h, s, y)
      BY <3>1 DEF Feita
    <3> QED BY <2>1, <3>1, <3>2, <3>3, CodigoSoDeQuemPode
  <2> QED BY <2>1 DEF CodigoOculto
<1> QED
  BY <1>1, AcessoSempre, PTL

\* The ids handed to a service are of resources; a visitor's request names none
\* through the token.
LEMMA AlvosSaoRecursos ==
  ASSUME NEW h \in Handlers \cap DOMAIN Controles, NEW s \in SessoesA, Authorize(h, s),
         NEW alvos \in Alvos(h, s)
  PROVE  alvos \subseteq Recursos
<1>1. Entregue(h, Controles[h])
  BY ControleDoHandler
<1>2. CASE Controles[h] = "TOKEN"
  <2>1. "NENHUM" \notin Rotas[h]
    BY <1>1, <1>2, RotaExige DEF Entregue, Exigido, Handlers
  <2>2. s # Anonima
    BY <2>1 DEF Authorize, Anonima
  <2> QED BY <1>2, <2>2, AlvosDoTipo DEF SessoesA, Recursos
<1>3. CASE Controles[h] = "SISTEMA"
  BY <1>3 DEF Alvos, Recursos
<1>4. CASE Controles[h] \notin {"TOKEN", "SISTEMA"}
  <2>1. Controles[h] \in {"NADA", "CONTA", "RESERVA", "VEICULO", "MODELO", "GARAGEM",
                         "VEICULO_E_CONTA", "GARAGEM_E_VEICULO"}
    BY <1>1, <1>4 DEF Entregue
  <2> QED BY <2>1, AlvosDoTipo DEF Recursos
<1> QED BY <1>2, <1>3, <1>4

\* A session is never taken back, so that of a request is one of those issued.
SessaoEmitida ==
  \A q \in RequisicoesA : requisicao[q] \notin {Ociosa, Recusada} =>
    requisicao[q].sessao \in sessoes \cup {Anonima}

LEMMA SessaoSegue ==
  ASSUME AcessoInv, SessaoEmitida, [NextAcesso]_acessoVars
  PROVE  SessaoEmitida'
<1>1. ASSUME NEW q \in RequisicoesA, NEW s \in sessoes \cup {Anonima}, NEW h \in HandlersDe[q],
             Pedir(q, h, s)
      PROVE  SessaoEmitida'
  <2>1. PICK alvos \in Alvos(h, s) : requisicao' = [requisicao EXCEPT ![q] = EmServico(h, s, alvos)]
    BY <1>1 DEF Pedir, EmServico
  <2>2. EmServico(h, s, alvos).sessao = s /\ sessoes' = sessoes
    BY <1>1 DEF EmServico, Pedir
  <2> HIDE DEF EmServico
  <2> QED BY <2>1, <2>2 DEF SessaoEmitida, AcessoInv
<1>2. ASSUME NEW q \in RequisicoesA, Executar(q) PROVE SessaoEmitida'
  <2>1. /\ requisicao[q].passo = "SERVICO" /\ sessoes' = sessoes
        /\ requisicao' = [requisicao EXCEPT ![q].passo = "FEITA"]
    BY <1>2 DEF Executar
  <2>2. requisicao[q] \notin {Ociosa, Recusada}
    BY <2>1 DEF Ociosa, Recusada
  <2>3. PICK h \in Handlers \cap DOMAIN Controles, s \in SessoesA :
          \E alvos \in Alvos(h, s) : requisicao[q] = EmServico(h, s, alvos)
    BY <2>1, <2>2 DEF AcessoInv, PedidoBem, Feita
  <2>4. PICK alvos \in Alvos(h, s) : requisicao[q] = EmServico(h, s, alvos)
    BY <2>3
  <2>5. /\ [requisicao[q] EXCEPT !.passo = "FEITA"] = Feita(h, s, alvos)
        /\ requisicao[q].sessao = s /\ Feita(h, s, alvos).sessao = s
    BY <2>4 DEF EmServico, Feita
  <2>6. requisicao' = [requisicao EXCEPT ![q] = Feita(h, s, alvos)]
    BY <2>1, <2>5
  <2> QED BY <2>1, <2>2, <2>5, <2>6 DEF SessaoEmitida, AcessoInv
<1>3. ASSUME NEW q \in RequisicoesA, Recusar(q) PROVE SessaoEmitida'
  BY <1>3 DEF Recusar, SessaoEmitida, AcessoInv
<1>4. ASSUME NEW c \in ContasA, LoginA(c) PROVE SessaoEmitida'
  BY <1>4 DEF LoginA, SessaoEmitida
<1>5. CASE UNCHANGED acessoVars
  BY <1>5 DEF acessoVars, SessaoEmitida
<1> QED BY <1>1, <1>2, <1>3, <1>4, <1>5 DEF NextAcesso

(* A request that reached a service names only resources there are, in a    *)
(* session that was issued or in none, for any accounts, resources and      *)
(* requests (controllers, auth-middleware).                                 *)
THEOREM AcessoTipado == SpecAcesso => []AcessoTypeOK
<1>1. InitAcesso => SessaoEmitida /\ mudancas \in Nat
  BY DEF InitAcesso, SessaoEmitida
<1>2. AcessoInv /\ SessaoEmitida /\ [NextAcesso]_acessoVars => SessaoEmitida'
  BY SessaoSegue
<1>3. mudancas \in Nat /\ [NextAcesso]_acessoVars => (mudancas \in Nat)'
  BY DEF NextAcesso, Pedir, Executar, Recusar, LoginA, acessoVars
<1>4. ASSUME AcessoInv, SessaoEmitida, mudancas \in Nat PROVE AcessoTypeOK
  <2>1. ASSUME NEW q \in RequisicoesA, requisicao[q] \notin {Ociosa, Recusada}
        PROVE  /\ requisicao[q].passo \in {"SERVICO", "FEITA"}
               /\ requisicao[q].handler \in Handlers
               /\ requisicao[q].sessao \in sessoes \cup {Anonima}
               /\ requisicao[q].alvos \subseteq Recursos
    <3>1. PICK h \in Handlers \cap DOMAIN Controles, s \in SessoesA : \E alvos \in Alvos(h, s) :
            Authorize(h, s) /\ requisicao[q] \in {EmServico(h, s, alvos), Feita(h, s, alvos)}
      BY <1>4, <2>1 DEF AcessoInv, PedidoBem
    <3>2. PICK alvos \in Alvos(h, s) :
            Authorize(h, s) /\ requisicao[q] \in {EmServico(h, s, alvos), Feita(h, s, alvos)}
      BY <3>1
    <3>3. alvos \subseteq Recursos
      BY <3>2, AlvosSaoRecursos
    <3>4. /\ requisicao[q].passo \in {"SERVICO", "FEITA"} /\ requisicao[q].handler = h
          /\ requisicao[q].alvos = alvos
      BY <3>2 DEF EmServico, Feita
    <3>5. requisicao[q].sessao \in sessoes \cup {Anonima}
      BY <1>4, <2>1 DEF SessaoEmitida
    <3> QED BY <3>3, <3>4, <3>5
  <2> QED BY <1>4, <2>1 DEF AcessoTypeOK, AcessoInv, ContasBem
<1> QED BY <1>1, <1>2, <1>3, <1>4, AcessoSempre, PTL DEF SpecAcesso

=============================================================================
