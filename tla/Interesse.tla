----------------------------- MODULE Interesse -----------------------------
(***************************************************************************)
(* The watch list of one vehicle and the notices that leave when an edit   *)
(* makes it available: renters subscribe and cancel while the notifier     *)
(* walks over the list it read, one write or one e-mail at a time.  The    *)
(* database, the mail server and the process itself may fail at each, and  *)
(* a write may be there although its call ended in an error.               *)
(***************************************************************************)
CONSTANTS
  Interessados,
  Pedidos,         \* requests of renters in flight
  EdicoesVeiculo,  \* edits of the vehicle in flight
  Nenhum

VARIABLES
  situacao,        \* veiculo.status
  emailLigado,     \* mailProvider.isEnabled()
  optou,           \* renters whose preference allows these e-mails
  inscricao,       \* status of each renter's InteresseVeiculo
  pedido,          \* requests of renters
  aviso,           \* each edit and the notifier it runs
  registro,        \* NotificacaoInteresse of an edit and a renter
  aceito           \* the mail server accepted that e-mail

interesseVars == <<situacao, emailLigado, optou, inscricao, pedido, aviso, registro, aceito>>
envioVars == <<registro, aceito>>

SemPedido == [passo |-> "LIVRE", quem |-> Nenhum, achou |-> FALSE]
SemAviso == [passo |-> "INICIO", lido |-> "DISPONIVEL", fila |-> {}, quem |-> Nenhum]
Pares == EdicoesVeiculo \X Interessados

InitInteresse ==
  /\ situacao = "MANUTENCAO"
  /\ emailLigado \in BOOLEAN
  /\ optou = Interessados
  /\ inscricao = [l \in Interessados |-> "NENHUMA"]
  /\ pedido = [q \in Pedidos |-> SemPedido]
  /\ aviso = [e \in EdicoesVeiculo |-> SemAviso]
  /\ registro = [par \in Pares |-> "NENHUM"]
  /\ aceito = [par \in Pares |-> FALSE]

-----------------------------------------------------------------------------
(* The renter's side. *)

MudarPreferencia(l) ==
  /\ emailLigado
  /\ optou' = IF l \in optou THEN optou \ {l} ELSE optou \cup {l}
  /\ UNCHANGED <<situacao, emailLigado, inscricao, pedido, aviso, envioVars>>

IrPedido(q, destino) == pedido' = [pedido EXCEPT ![q] = destino]

(* registrar: an inactive vehicle takes no subscriptions, ... *)
PedirInscricao(q, l) ==
  /\ pedido[q].passo = "LIVRE" /\ situacao # "INATIVO"
  /\ IrPedido(q, [passo |-> "LER", quem |-> l, achou |-> FALSE])
  /\ UNCHANGED <<situacao, emailLigado, optou, inscricao, aviso, envioVars>>

(* ... a live one is refused, an old one will be reactivated, ... *)
LerInscricao(q) ==
  LET i == inscricao[pedido[q].quem] IN
  /\ pedido[q].passo = "LER"
  /\ IrPedido(q, IF i = "ATIVO" THEN SemPedido
                 ELSE [pedido[q] EXCEPT !.passo = "GRAVAR", !.achou = (i # "NENHUMA")])
  /\ UNCHANGED <<situacao, emailLigado, optou, inscricao, aviso, envioVars>>

(* ... by an unconditional update; the insert of a second row is a 409. *)
GravarInscricao(q) ==
  LET l == pedido[q].quem IN
  /\ pedido[q].passo = "GRAVAR"
  /\ inscricao' = [inscricao EXCEPT ![l] =
                     IF pedido[q].achou \/ inscricao[l] = "NENHUMA" THEN "ATIVO" ELSE @]
  /\ IrPedido(q, SemPedido)
  /\ UNCHANGED <<situacao, emailLigado, optou, aviso, envioVars>>

(* cancelar: 404 unless ATIVO, then an unconditional update. *)
PedirCancelamento(q, l) ==
  /\ pedido[q].passo = "LIVRE" /\ inscricao[l] = "ATIVO"
  /\ IrPedido(q, [passo |-> "CANCELAR", quem |-> l, achou |-> TRUE])
  /\ UNCHANGED <<situacao, emailLigado, optou, inscricao, aviso, envioVars>>

CancelarInscricao(q) ==
  /\ pedido[q].passo = "CANCELAR"
  /\ inscricao' = [inscricao EXCEPT ![pedido[q].quem] = "CANCELADO"]
  /\ IrPedido(q, SemPedido)
  /\ UNCHANGED <<situacao, emailLigado, optou, aviso, envioVars>>

-----------------------------------------------------------------------------
(* The owner's side: the edit, then the notifier. *)

IrAviso(e, passoNovo) == aviso' = [aviso EXCEPT ![e].passo = passoNovo]
Par(e) == <<e, aviso[e].quem>>
Registrado(e, s) == registro' = [registro EXCEPT ![Par(e)] = s]

LerVeiculo(e) ==
  /\ aviso[e].passo = "INICIO"
  /\ aviso' = [aviso EXCEPT ![e] = [@ EXCEPT !.passo = "EDITAR", !.lido = situacao]]
  /\ UNCHANGED <<situacao, emailLigado, optou, inscricao, pedido, envioVars>>

(* The notifier runs if the vehicle was not available as the service read it. *)
EditarVeiculo(e) ==
  /\ aviso[e].passo = "EDITAR"
  /\ situacao' \in {"DISPONIVEL", "MANUTENCAO", "INATIVO"}
  /\ IrAviso(e, IF aviso[e].lido # "DISPONIVEL" /\ situacao' = "DISPONIVEL"
                THEN "LISTAR" ELSE "FIM")
  /\ UNCHANGED <<emailLigado, optou, inscricao, pedido, envioVars>>

ListarInteressados(e) ==
  /\ aviso[e].passo = "LISTAR"
  /\ aviso' = [aviso EXCEPT ![e] =
       [@ EXCEPT !.passo = "PROXIMO", !.fila = {l \in Interessados : inscricao[l] = "ATIVO"}]]
  /\ UNCHANGED <<situacao, emailLigado, optou, inscricao, pedido, envioVars>>

(* The next of the list, unless the renter does not want these e-mails. *)
ProximoInteressado(e, l) ==
  /\ aviso[e].passo = "PROXIMO" /\ l \in aviso[e].fila
  /\ aviso' = [aviso EXCEPT ![e].fila = @ \ {l}, ![e].quem = l,
       ![e].passo = IF emailLigado /\ l \notin optou THEN "PROXIMO" ELSE "REGISTRAR"]
  /\ UNCHANGED <<situacao, emailLigado, optou, inscricao, pedido, envioVars>>

\* Mutation: without e-mail the error is swallowed.
MutAposErro == IF emailLigado THEN "FALHAR" ELSE "ENCERRAR"

(* Where an error leads: with e-mail the record is marked, without it the    *)
(* walk goes on.                                                             *)
AposErro == IF emailLigado THEN "FALHAR" ELSE "PROXIMO"

\* Mutation: the e-mail leaves although its record failed.
MutRegistrarAviso(e) ==
  /\ aviso[e].passo = "REGISTRAR"
  /\ Registrado(e, "PENDENTE") \/ UNCHANGED registro
  /\ IrAviso(e, IF emailLigado THEN "ENVIAR" ELSE "MARCAR")
  /\ UNCHANGED <<situacao, emailLigado, optou, inscricao, pedido, aceito>>

RegistrarAviso(e) ==
  /\ aviso[e].passo = "REGISTRAR"
  /\ \/ /\ Registrado(e, "PENDENTE")
        /\ IrAviso(e, IF emailLigado THEN "ENVIAR" ELSE "MARCAR")
     \/ IrAviso(e, "PROXIMO") /\ (Registrado(e, "PENDENTE") \/ UNCHANGED registro)
  /\ UNCHANGED <<situacao, emailLigado, optou, inscricao, pedido, aceito>>

(* An e-mail may be accepted although the call ends in an error. *)
EnviarAviso(e) ==
  /\ aviso[e].passo = "ENVIAR"
  /\ \/ IrAviso(e, "MARCAR") /\ aceito' = [aceito EXCEPT ![Par(e)] = TRUE]
     \/ IrAviso(e, "FALHAR") /\ aceito' \in {aceito, [aceito EXCEPT ![Par(e)] = TRUE]}
  /\ UNCHANGED <<situacao, emailLigado, optou, inscricao, pedido, registro>>

MarcarEnviada(e) ==
  /\ aviso[e].passo = "MARCAR"
  /\ \/ Registrado(e, "ENVIADA") /\ IrAviso(e, "ENCERRAR")
     \/ IrAviso(e, AposErro) /\ (Registrado(e, "ENVIADA") \/ UNCHANGED registro)
  /\ UNCHANGED <<situacao, emailLigado, optou, inscricao, pedido, aceito>>

Fechada(e) == inscricao' = [inscricao EXCEPT ![aviso[e].quem] = "NOTIFICADO"]

(* marcarNotificado: whatever the subscription is by now.  An error turns    *)
(* the record of an e-mail to FALHA, although the subscription may be closed.*)
MarcarNotificado(e) ==
  /\ aviso[e].passo = "ENCERRAR"
  /\ \/ Fechada(e) /\ IrAviso(e, "PROXIMO")
     \/ IrAviso(e, AposErro) /\ (Fechada(e) \/ UNCHANGED inscricao)
  /\ UNCHANGED <<situacao, emailLigado, optou, pedido, envioVars>>

MarcarFalha(e) ==
  /\ aviso[e].passo = "FALHAR"
  /\ Registrado(e, "FALHA") \/ UNCHANGED registro
  /\ IrAviso(e, "PROXIMO")
  /\ UNCHANGED <<situacao, emailLigado, optou, inscricao, pedido, aceito>>

PararAviso(e) ==
  /\ aviso[e].passo \notin {"INICIO", "FIM"}
  /\ IrAviso(e, "FIM")
  /\ UNCHANGED <<situacao, emailLigado, optou, inscricao, pedido, envioVars>>

-----------------------------------------------------------------------------
PedidoDeLocatario(q) ==
  \/ \E l \in Interessados : PedirInscricao(q, l) \/ PedirCancelamento(q, l)
  \/ LerInscricao(q) \/ GravarInscricao(q) \/ CancelarInscricao(q)

Notificar(e) ==
  \/ ListarInteressados(e)
  \/ \E l \in Interessados : ProximoInteressado(e, l)
  \/ RegistrarAviso(e) \/ EnviarAviso(e) \/ MarcarEnviada(e)
  \/ MarcarNotificado(e) \/ MarcarFalha(e)

NextInteresse ==
  \/ \E l \in Interessados : MudarPreferencia(l)
  \/ \E q \in Pedidos : PedidoDeLocatario(q)
  \/ \E e \in EdicoesVeiculo :
       LerVeiculo(e) \/ EditarVeiculo(e) \/ Notificar(e) \/ PararAviso(e)

SpecInteresse == InitInteresse /\ [][NextInteresse]_interesseVars

-----------------------------------------------------------------------------
(* Correctness. *)

InteresseTypeOK ==
  /\ situacao \in {"DISPONIVEL", "MANUTENCAO", "INATIVO"}
  /\ optou \subseteq Interessados /\ emailLigado \in BOOLEAN
  /\ inscricao \in [Interessados -> {"NENHUMA", "ATIVO", "CANCELADO", "NOTIFICADO"}]
  /\ pedido \in [Pedidos -> [passo : {"LIVRE", "LER", "GRAVAR", "CANCELAR"},
                             quem : Interessados \cup {Nenhum}, achou : BOOLEAN]]
  /\ aviso \in [EdicoesVeiculo ->
       [passo : {"INICIO", "EDITAR", "LISTAR", "PROXIMO", "REGISTRAR", "ENVIAR", "MARCAR",
                 "ENCERRAR", "FALHAR", "FIM"},
        lido : {"DISPONIVEL", "MANUTENCAO", "INATIVO"},
        fila : SUBSET Interessados, quem : Interessados \cup {Nenhum}]]
  /\ registro \in [Pares -> {"NENHUM", "PENDENTE", "ENVIADA", "FALHA"}]
  /\ aceito \in [Pares -> BOOLEAN]

(* Every e-mail the server accepted has its record, written before it left,  *)
(* also when the process stops or a write fails right after (notificar-      *)
(* Interessado); and no record says ENVIADA of an e-mail that never left.    *)
RegistroFielAoEnvio ==
  \A par \in Pares :
    /\ aceito[par] => registro[par] # "NENHUM"
    /\ registro[par] = "ENVIADA" /\ emailLigado => aceito[par]

\* The renter had a notice of that edit: an e-mail the server accepted or,
\* without e-mail, an internal notice recorded as sent.
Avisado(e, l) ==
  IF emailLigado THEN aceito[<<e, l>>] ELSE registro[<<e, l>>] = "ENVIADA"

(* A subscription is closed as NOTIFICADO only if the renter had a notice,   *)
(* whatever failed on the way and however many edits and requests overlap    *)
(* (marcarNotificado after send and marcarEnviada).                          *)
NotificadoTemAviso ==
  \A l \in Interessados : inscricao[l] = "NOTIFICADO" =>
    \E e \in EdicoesVeiculo : Avisado(e, l)

=============================================================================
