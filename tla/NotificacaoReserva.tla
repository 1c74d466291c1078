------------------------ MODULE NotificacaoReserva ------------------------
(***************************************************************************)
(* The report e-mailed when a reservation is confirmed: a record first,    *)
(* then up to MaxEnvios attempts with a growing pause, then the outcome in *)
(* the record.  The server may accept an e-mail whose call fails; the      *)
(* database and the process may fail at each step.                         *)
(***************************************************************************)
EXTENDS Naturals

CONSTANT MaxEnvios      \* retryComBackoff: attempts, the first one included
ASSUME NotificacaoAssumption == MaxEnvios \in Nat \ {0}

VARIABLES
  envio,       \* where the notifier is
  tentativaN,  \* attempts made
  relatorio,   \* status of the NotificacaoReserva row
  copias       \* e-mails the server accepted

notificacaoVars == <<envio, tentativaN, relatorio, copias>>

InitNotificacao ==
  /\ envio = "INICIO" /\ tentativaN = 0
  /\ relatorio = "NENHUM" /\ copias = 0

(* The reservation is paid.  A renter who opted out and a system without a   *)
(* provider get neither record nor e-mail.                                   *)
NotificarConfirmada ==
  /\ envio = "INICIO"
  /\ envio' \in {"FIM", "REGISTRAR"}
  /\ UNCHANGED <<tentativaN, relatorio, copias>>

RegistrarRelatorio ==
  /\ envio = "REGISTRAR"
  /\ \/ envio' = "ENVIAR" /\ relatorio' = "PENDENTE"
     \/ envio' = "FIM" /\ relatorio' \in {relatorio, "PENDENTE"}
  /\ UNCHANGED <<tentativaN, copias>>

\* Mutation: one attempt too many.
MutEnviarRelatorio ==
  /\ envio = "ENVIAR"
  /\ tentativaN' = tentativaN + 1
  /\ \/ envio' = "ENVIADO" /\ copias' = copias + 1
     \/ /\ envio' = IF tentativaN' <= MaxEnvios THEN "ENVIAR" ELSE "FALHOU"
        /\ copias' \in {copias, copias + 1}
  /\ UNCHANGED relatorio

EnviarRelatorio ==
  /\ envio = "ENVIAR"
  /\ tentativaN' = tentativaN + 1
  /\ \/ envio' = "ENVIADO" /\ copias' = copias + 1
     \/ /\ envio' = IF tentativaN' < MaxEnvios THEN "ENVIAR" ELSE "FALHOU"
        /\ copias' \in {copias, copias + 1}
  /\ UNCHANGED relatorio

(* marcarEnviada; when its call fails, the write made or not, the record     *)
(* becomes FALHA.                                                            *)
RelatorioEnviado ==
  /\ envio = "ENVIADO"
  /\ \/ relatorio' = "ENVIADA" /\ envio' = "FIM"
     \/ envio' = "FALHOU" /\ relatorio' \in {relatorio, "ENVIADA"}
  /\ UNCHANGED <<tentativaN, copias>>

RelatorioFalhou ==
  /\ envio = "FALHOU"
  /\ relatorio' \in {relatorio, "FALHA"}
  /\ envio' = "FIM"
  /\ UNCHANGED <<tentativaN, copias>>

PararNotificacao ==
  /\ envio \notin {"INICIO", "FIM"}
  /\ envio' = "FIM"
  /\ UNCHANGED <<tentativaN, relatorio, copias>>

NextNotificacao ==
  \/ NotificarConfirmada \/ RegistrarRelatorio \/ EnviarRelatorio
  \/ RelatorioEnviado \/ RelatorioFalhou \/ PararNotificacao

SpecNotificacao == InitNotificacao /\ [][NextNotificacao]_notificacaoVars

-----------------------------------------------------------------------------
NotificacaoTypeOK ==
  /\ envio \in {"INICIO", "REGISTRAR", "ENVIAR", "ENVIADO", "FALHOU", "FIM"}
  /\ relatorio \in {"NENHUM", "PENDENTE", "ENVIADA", "FALHA"}
  /\ tentativaN \in 0..MaxEnvios /\ copias \in 0..MaxEnvios

(* Retries and failures notwithstanding, every copy of the report has its    *)
(* record, a record says ENVIADA only of a report that left, and the renter  *)
(* gets at most as many copies as there are attempts, more than one only if  *)
(* the server accepted e-mails whose calls failed (notificarReserva-         *)
(* Confirmada, retryComBackoff).                                             *)
RelatorioRegistrado ==
  /\ copias > 0 => relatorio # "NENHUM"
  /\ relatorio = "ENVIADA" => copias > 0
  /\ copias <= tentativaN /\ tentativaN <= MaxEnvios

=============================================================================
