------------------------------- MODULE Conta -------------------------------
(***************************************************************************)
(* The renter's and the owner's account: recovery tokens and changes of    *)
(* the password, anonymisation, and deletion against the creation of a     *)
(* reservation between the two.  Requests overlap; a transaction that      *)
(* stops is rolled back.                                                   *)
(***************************************************************************)
EXTENDS Naturals, FiniteSets, SequencesExt

CONSTANTS
  Locatario, Locador,  \* the two accounts
  Tokens,              \* recovery tokens
  Resgates,            \* requests to redeem one
  Trocas,              \* requests to change or to anonymise
  Livre                \* no one

Contas == {Locatario, Locador}
Requisicoes == {"RESERVA", "EXCLUSAO"}

ASSUME ContaAssumption ==
  /\ Locatario # Locador
  /\ Livre \notin Contas \cup Requisicoes \cup Tokens \cup Resgates \cup Trocas

VARIABLES
  conta,          \* "ATIVA", "ANONIMIZADA" or "EXCLUIDA"
  senha,          \* where the renter's password hash comes from
  emitidosT,      \* the renter's tokens in the order of their requests
  vivos,          \* tokens with usadoEm = null that have not expired
  vencidos,       \* tokens past expiraEm
  resgate,        \* redemptions: their step and token
  trocadaPor,     \* redemptions that changed the password (history)
  trocaTardia,    \* one of them after a newer request (history)
  trocaSenha,     \* changes and anonymisations under way
  trancaConta,    \* advisory lock conta:<id>
  exclusaoConta,  \* deletion of each account
  criacao,        \* the creation of the reservation
  reservada       \* the reservation exists

senhaVars == <<senha, emitidosT, vivos, vencidos, resgate, trocadaPor, trocaTardia, trocaSenha>>
exclusaoVars == <<trancaConta, exclusaoConta, criacao, reservada>>
contaVars == <<conta, senhaVars, exclusaoVars>>

InitConta ==
  /\ conta = [c \in Contas |-> "ATIVA"]
  /\ senha = "CADASTRO"
  /\ emitidosT = <<>> /\ vivos = {} /\ vencidos = {}
  /\ resgate = [r \in Resgates |-> [passo |-> "INICIO", token |-> Livre]]
  /\ trocadaPor = {} /\ trocaTardia = FALSE
  /\ trocaSenha = [p \in Trocas |-> "INICIO"]
  /\ trancaConta = [c \in Contas |-> Livre]
  /\ exclusaoConta = [c \in Contas |-> "INICIO"]
  /\ criacao = "INICIO"
  /\ reservada = FALSE

-----------------------------------------------------------------------------
(* Recovery tokens, which belong to the renter. *)

Presos == {resgate[r].token : r \in {q \in Resgates : resgate[q].passo = "TROCAR"}}

\* Mutation: the others stay valid.
MutCriarToken(t) ==
  /\ conta[Locatario] # "EXCLUIDA" /\ t \notin ToSet(emitidosT)
  /\ Presos = {}
  /\ emitidosT' = Append(emitidosT, t)
  /\ vivos' = vivos \cup {t}
  /\ UNCHANGED <<conta, senha, vencidos, resgate, trocadaPor, trocaTardia, trocaSenha,
                 exclusaoVars>>

(* criarNova: under the account's lock it invalidates the others, waiting    *)
(* for a row that a redemption has updated.                                  *)
CriarToken(t) ==
  /\ conta[Locatario] # "EXCLUIDA" /\ t \notin ToSet(emitidosT)
  /\ Presos = {}
  /\ emitidosT' = Append(emitidosT, t)
  /\ vivos' = {t}
  /\ UNCHANGED <<conta, senha, vencidos, resgate, trocadaPor, trocaTardia, trocaSenha,
                 exclusaoVars>>

(* The token's minutes run out. *)
VencerToken(t) ==
  /\ t \in ToSet(emitidosT) \ vencidos
  /\ vencidos' = vencidos \cup {t}
  /\ UNCHANGED <<conta, senha, emitidosT, vivos, resgate, trocadaPor, trocaTardia, trocaSenha,
                 exclusaoVars>>

Resgatavel(t) == t \in vivos \ vencidos

(* consumirComNovaSenha, statement by statement in one transaction: the      *)
(* token is found, ...                                                       *)
EncontrarToken(r, t) ==
  /\ resgate[r].passo = "INICIO" /\ Resgatavel(t)
  /\ resgate' = [resgate EXCEPT ![r] = [passo |-> "CONSUMIR", token |-> t]]
  /\ UNCHANGED <<conta, senha, emitidosT, vivos, vencidos, trocadaPor, trocaTardia, trocaSenha,
                 exclusaoVars>>

(* ... marked if it is still unused, which locks its row, ... *)
ConsumirToken(r) ==
  LET t == resgate[r].token IN
  /\ resgate[r].passo = "CONSUMIR" /\ t \notin Presos
  /\ IF Resgatavel(t)
     THEN /\ vivos' = vivos \ {t}
          /\ resgate' = [resgate EXCEPT ![r].passo = "TROCAR"]
     ELSE /\ resgate' = [resgate EXCEPT ![r].passo = "FIM"]   \* 400
          /\ UNCHANGED vivos
  /\ UNCHANGED <<conta, senha, emitidosT, vencidos, trocadaPor, trocaTardia, trocaSenha,
                 exclusaoVars>>

(* ... and the account gets the new hash, whatever its state, with the commit. *)
RedefinirSenha(r) ==
  /\ resgate[r].passo = "TROCAR" /\ conta[Locatario] # "EXCLUIDA"
  /\ senha' = "REDEFINIDA"
  /\ trocadaPor' = trocadaPor \cup {r}
  /\ trocaTardia' = (trocaTardia \/ emitidosT[Len(emitidosT)] # resgate[r].token)
  /\ resgate' = [resgate EXCEPT ![r].passo = "FIM"]
  /\ UNCHANGED <<conta, emitidosT, vivos, vencidos, trocaSenha, exclusaoVars>>

(* The process stops before the commit: the token is unused again. *)
DesistirResgate(r) ==
  /\ resgate[r].passo \in {"CONSUMIR", "TROCAR"}
  /\ vivos' = IF resgate[r].passo = "TROCAR" THEN vivos \cup {resgate[r].token} ELSE vivos
  /\ resgate' = [resgate EXCEPT ![r] = [passo |-> "INICIO", token |-> Livre]]
  /\ UNCHANGED <<conta, senha, emitidosT, vencidos, trocadaPor, trocaTardia, trocaSenha,
                 exclusaoVars>>

-----------------------------------------------------------------------------
(* Requests that read the account and write it later. *)

TrocaUnchanged == UNCHANGED <<emitidosT, vivos, vencidos, resgate, trocadaPor, trocaTardia,
                              exclusaoVars>>

(* changePassword: the current hash is compared, the new one written without *)
(* a condition.  A request begins only with a session of a living account.   *)
CompararSenha(p) ==
  /\ trocaSenha[p] = "INICIO" /\ conta[Locatario] = "ATIVA"
  /\ trocaSenha' = [trocaSenha EXCEPT ![p] = "TROCAR"]
  /\ UNCHANGED <<conta, senha>> /\ TrocaUnchanged

AlterarSenha(p) ==
  /\ trocaSenha[p] = "TROCAR" /\ conta[Locatario] # "EXCLUIDA"
  /\ senha' = "ALTERADA"
  /\ trocaSenha' = [trocaSenha EXCEPT ![p] = "FIM"]
  /\ UNCHANGED conta /\ TrocaUnchanged

(* anonimizarConta: once only, as far as the first read can tell. *)
LerParaAnonimizar(p) ==
  /\ trocaSenha[p] = "INICIO" /\ conta[Locatario] = "ATIVA"
  /\ trocaSenha' = [trocaSenha EXCEPT ![p] = "ANONIMIZAR"]
  /\ UNCHANGED <<conta, senha>> /\ TrocaUnchanged

Anonimizar(p) ==
  /\ trocaSenha[p] = "ANONIMIZAR" /\ conta[Locatario] # "EXCLUIDA"
  /\ conta' = [conta EXCEPT ![Locatario] = "ANONIMIZADA"]
  /\ senha' = "MORTA"
  /\ trocaSenha' = [trocaSenha EXCEPT ![p] = "FIM"]
  /\ TrocaUnchanged

-----------------------------------------------------------------------------
(* deleteIfWithoutReservationHistory: lock, existence and count, deletion.   *)

Trancar(c, quem) ==
  /\ trancaConta[c] = Livre
  /\ trancaConta' = [trancaConta EXCEPT ![c] = quem]

IniciarExclusao(c) ==
  /\ exclusaoConta[c] = "INICIO"
  /\ Trancar(c, "EXCLUSAO")
  /\ exclusaoConta' = [exclusaoConta EXCEPT ![c] = "CONTAR"]
  /\ UNCHANGED <<conta, senhaVars, criacao, reservada>>

Destrancar(cs, quem) ==
  trancaConta' = [c \in Contas |->
                    IF c \in cs /\ trancaConta[c] = quem THEN Livre ELSE trancaConta[c]]

ContarReservas(c) ==
  /\ exclusaoConta[c] = "CONTAR"
  /\ IF reservada
     THEN /\ exclusaoConta' = [exclusaoConta EXCEPT ![c] = "TEM_HISTORICO"]
          /\ Destrancar({c}, "EXCLUSAO")
     ELSE /\ exclusaoConta' = [exclusaoConta EXCEPT ![c] = "APAGAR"]
          /\ UNCHANGED trancaConta
  /\ UNCHANGED <<conta, senhaVars, criacao, reservada>>

(* The deletion cascades over the account's profile, tokens and vehicles,    *)
(* waiting for a token that a redemption has updated; a reservation in the   *)
(* way is an error of the foreign key.                                       *)
ApagarConta(c) ==
  /\ exclusaoConta[c] = "APAGAR" /\ (c = Locatario => Presos = {})
  /\ Destrancar({c}, "EXCLUSAO")
  /\ IF reservada
     THEN /\ exclusaoConta' = [exclusaoConta EXCEPT ![c] = "ERRO_FK"]
          /\ UNCHANGED <<conta, vivos>>
     ELSE /\ exclusaoConta' = [exclusaoConta EXCEPT ![c] = "FIM"]
          /\ conta' = [conta EXCEPT ![c] = "EXCLUIDA"]
          /\ vivos' = IF c = Locatario THEN {} ELSE vivos
  /\ UNCHANGED <<senha, emitidosT, vencidos, resgate, trocadaPor, trocaTardia, trocaSenha,
                 criacao, reservada>>

(* The transaction of the reservation: the accounts' locks in the order of   *)
(* their ids, both read again, the insert, whose foreign keys need them.     *)
\* Mutation: no lock of the accounts.
MutTrancarParaReserva(c, de, para) ==
  /\ criacao = de /\ criacao' = para
  /\ UNCHANGED <<conta, senhaVars, trancaConta, exclusaoConta, reservada>>

TrancarParaReserva(c, de, para) ==
  /\ criacao = de
  /\ Trancar(c, "RESERVA")
  /\ criacao' = para
  /\ UNCHANGED <<conta, senhaVars, exclusaoConta, reservada>>

RelerContas ==
  /\ criacao = "RELER"
  /\ IF \A c \in Contas : conta[c] # "EXCLUIDA"
     THEN criacao' = "INSERIR" /\ UNCHANGED trancaConta
     ELSE criacao' = "RECUSADA" /\ Destrancar(Contas, "RESERVA")   \* 404
  /\ UNCHANGED <<conta, senhaVars, exclusaoConta, reservada>>

InserirReserva ==
  /\ criacao = "INSERIR"
  /\ Destrancar(Contas, "RESERVA")
  /\ reservada' = (\A c \in Contas : conta[c] # "EXCLUIDA")
  /\ criacao' = IF reservada' THEN "CRIADA" ELSE "ERRO_FK"
  /\ UNCHANGED <<conta, senhaVars, exclusaoConta>>

-----------------------------------------------------------------------------
Resgatar(r) ==
  \/ \E t \in Tokens : EncontrarToken(r, t)
  \/ ConsumirToken(r) \/ RedefinirSenha(r) \/ DesistirResgate(r)

NextSenha ==
  \/ \E t \in Tokens : CriarToken(t) \/ VencerToken(t)
  \/ \E r \in Resgates : Resgatar(r)
  \/ \E p \in Trocas :
       CompararSenha(p) \/ AlterarSenha(p) \/ LerParaAnonimizar(p) \/ Anonimizar(p)

NextExclusao ==
  \/ \E c \in Contas : IniciarExclusao(c) \/ ContarReservas(c) \/ ApagarConta(c)
  \/ TrancarParaReserva(Locatario, "INICIO", "TRANCAR")
  \/ TrancarParaReserva(Locador, "TRANCAR", "RELER")
  \/ RelerContas \/ InserirReserva

NextConta == NextSenha \/ NextExclusao

SpecConta == InitConta /\ [][NextConta]_contaVars

-----------------------------------------------------------------------------
(* Correctness. *)

ContaTypeOK ==
  /\ conta \in [Contas -> {"ATIVA", "ANONIMIZADA", "EXCLUIDA"}]
  /\ senha \in {"CADASTRO", "REDEFINIDA", "ALTERADA", "MORTA"}
  /\ vivos \subseteq ToSet(emitidosT) /\ vencidos \subseteq ToSet(emitidosT)
  /\ trancaConta \in [Contas -> Requisicoes \cup {Livre}]
  /\ exclusaoConta \in [Contas -> {"INICIO", "CONTAR", "APAGAR", "FIM", "TEM_HISTORICO", "ERRO_FK"}]
  /\ reservada \in BOOLEAN

(* At most one token can be redeemed at a time; each changes the password at *)
(* most once, and never once a newer one was asked for, although the search, *)
(* the mark and the new hash are three statements and redemptions and        *)
(* requests overlap (criarNova, consumirComNovaSenha).                       *)
TokenUnico ==
  /\ Cardinality(vivos) <= 1
  /\ \A q, r \in trocadaPor : resgate[q].token = resgate[r].token => q = r
  /\ ~trocaTardia

(* An account is deleted or gets its reservation, never both, and neither    *)
(* side runs into an error of the foreign keys: the lock conta:<id> and the  *)
(* second read under it decide first.                                        *)
ExclusaoOuReserva ==
  /\ reservada => \A c \in Contas : conta[c] # "EXCLUIDA"
  /\ criacao # "ERRO_FK"
  /\ \A c \in Contas : exclusaoConta[c] # "ERRO_FK"

=============================================================================
