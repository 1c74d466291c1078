--------------------------- MODULE Monitoramento ---------------------------
(***************************************************************************)
(* One rule of the monitoring of vehicles: an execution reads which        *)
(* vehicles meet the rule, raises or retries the alert of each and then    *)
(* resolves the alerts of the others.  Scheduled executions exclude each   *)
(* other by a lock they only try and may outlive; the one an admin asks    *)
(* for takes none.                                                         *)
(***************************************************************************)
EXTENDS Naturals, Sequences

CONSTANTS
  Veiculos,
  Execucoes,
  MaxTentativas,     \* MAX_TENTATIVAS_ALERTA
  MaxSurtos,         \* bound on the times a vehicle comes to meet the rule
  MaxInterrupcoes,   \* bound on executions that stop in the middle
  Nulo

ASSUME MonitoramentoAssumption ==
  /\ MaxTentativas \in Nat \ {0} /\ MaxSurtos \in Nat /\ MaxInterrupcoes \in Nat
  /\ Nulo \notin Veiculos \cup Execucoes

VARIABLES
  condicao,       \* vehicles that meet the rule
  alerta,         \* rows AlertaVeiculo of each vehicle, oldest first
  reenviado,      \* an e-mail left for an alert already ENVIADA (history)
  execucao,
  trava,          \* execution that holds LOCK_MONITORAMENTO
  sobrepostas,    \* two executions have been running at once (history)
  emailAtivo,     \* the mail provider is configured
  surtos,         \* times a vehicle came to meet the rule
  interrupcoes

monitorVars == <<condicao, alerta, reenviado, execucao, trava, sobrepostas, emailAtivo,
                 surtos, interrupcoes>>

Parada == [passo |-> "INICIO", candidatos |-> {}, restam |-> {}, veiculo |-> Nulo,
           indice |-> 0, resolver |-> {}]

InitMonitor ==
  /\ condicao = {}
  /\ surtos = 0
  /\ alerta = [v \in Veiculos |-> <<>>]
  /\ reenviado = FALSE
  /\ execucao = [x \in Execucoes |-> Parada]
  /\ trava = Nulo
  /\ sobrepostas = FALSE
  /\ emailAtivo \in BOOLEAN
  /\ interrupcoes = 0

AlertaAberto(v, i) == alerta[v][i].aberto
Abertos(v) == {i \in DOMAIN alerta[v] : AlertaAberto(v, i)}
Correndo == {x \in Execucoes : execucao[x].passo # "INICIO"}

-----------------------------------------------------------------------------
CondicaoSurge(v) ==
  /\ v \notin condicao /\ surtos < MaxSurtos
  /\ condicao' = condicao \cup {v}
  /\ surtos' = surtos + 1
  /\ UNCHANGED <<alerta, reenviado, execucao, trava, sobrepostas, emailAtivo, interrupcoes>>

CondicaoSome(v) ==
  /\ v \in condicao
  /\ condicao' = condicao \ {v}
  /\ UNCHANGED <<alerta, reenviado, execucao, trava, sobrepostas, emailAtivo, surtos, interrupcoes>>

Iniciar(x) ==
  /\ execucao[x].passo = "INICIO"
  /\ execucao' = [execucao EXCEPT ![x].passo = "CANDIDATOS"]
  /\ sobrepostas' = (sobrepostas \/ Correndo # {})
  /\ UNCHANGED <<condicao, alerta, reenviado, emailAtivo, surtos, interrupcoes>>

(* tick: a lock that is taken skips it. *)
IniciarTick(x) == trava = Nulo /\ trava' = x /\ Iniciar(x)
IniciarAdmin(x) == Iniciar(x) /\ UNCHANGED trava

(* The end, also by an error of the rule: the lock goes with the transaction. *)
Largar(x) == trava' = IF trava = x THEN Nulo ELSE trava

Interromper(x) ==
  /\ x \in Correndo /\ interrupcoes < MaxInterrupcoes
  /\ interrupcoes' = interrupcoes + 1
  /\ execucao' = [execucao EXCEPT ![x] = Parada]
  /\ Largar(x)
  /\ UNCHANGED <<condicao, alerta, reenviado, sobrepostas, emailAtivo, surtos>>

(* The lock's transaction lasts 120 seconds at most; the execution goes on.   *)
PerderTrava(x) ==
  /\ trava = x /\ x \in Correndo
  /\ trava' = Nulo
  /\ UNCHANGED <<condicao, alerta, reenviado, execucao, sobrepostas, emailAtivo, surtos,
                 interrupcoes>>

Passo(x, p) == execucao[x].passo = p
Ir(x, p) ==
  execucao' = [execucao EXCEPT ![x] =
    IF p = "PROXIMO" THEN [@ EXCEPT !.passo = p, !.veiculo = Nulo, !.indice = 0]
    ELSE [@ EXCEPT !.passo = p]]
Resto == <<condicao, trava, sobrepostas, emailAtivo, surtos, interrupcoes>>

LerCandidatos(x) ==
  /\ Passo(x, "CANDIDATOS")
  /\ execucao' = [execucao EXCEPT ![x] =
       [@ EXCEPT !.passo = "PROXIMO", !.candidatos = condicao, !.restam = condicao]]
  /\ UNCHANGED <<alerta, reenviado, Resto>>

\* Mutation: one attempt too many.
MutDeixarAlerta(a) ==
  a.status = "ENVIADA" \/ (a.status = "FALHA" /\ a.tentativas > MaxTentativas)

(* Sent, or failed too often, an alert is left alone. *)
DeixarAlerta(a) ==
  a.status = "ENVIADA" \/ (a.status = "FALHA" /\ a.tentativas >= MaxTentativas)

(* findAlertaAtivo: the newest open alert. *)
ProcurarAlerta(x, v) ==
  LET i == CHOOSE n \in Abertos(v) : \A o \in Abertos(v) : o <= n
      segue == IF Abertos(v) = {} THEN "REGISTRAR"
               ELSE IF DeixarAlerta(alerta[v][i]) THEN "PROXIMO" ELSE "DESPACHAR"
  IN
  /\ Passo(x, "PROXIMO") /\ v \in execucao[x].restam
  /\ execucao' = [execucao EXCEPT ![x].restam = @ \ {v}, ![x].passo = segue,
       ![x].veiculo = IF segue = "PROXIMO" THEN Nulo ELSE v,
       ![x].indice = IF segue = "DESPACHAR" THEN i ELSE 0]
  /\ UNCHANGED <<alerta, reenviado, Resto>>

RegistrarAlerta(x) ==
  LET v == execucao[x].veiculo IN
  /\ Passo(x, "REGISTRAR")
  /\ alerta' = [alerta EXCEPT ![v] =
       Append(@, [status |-> "PENDENTE", tentativas |-> 0, aberto |-> TRUE])]
  /\ execucao' = [execucao EXCEPT ![x] =
       [@ EXCEPT !.passo = "DESPACHAR", !.indice = Len(alerta[v]) + 1]]
  /\ UNCHANGED <<reenviado, Resto>>

Status(x) == alerta[execucao[x].veiculo][execucao[x].indice].status

(* The owner opted out (marked as sent without an e-mail), there is no mail  *)
(* provider (left as it is), or the e-mail is sent, which may fail.          *)
Despachar(x) ==
  /\ Passo(x, "DESPACHAR")
  /\ \/ Ir(x, "DISPENSAR") /\ UNCHANGED reenviado
     \/ ~emailAtivo /\ Ir(x, "PROXIMO") /\ UNCHANGED reenviado
     \/ emailAtivo /\ Ir(x, "MARCAR") /\ reenviado' = (reenviado \/ Status(x) = "ENVIADA")
     \/ emailAtivo /\ Ir(x, "FALHAR") /\ UNCHANGED reenviado
  /\ UNCHANGED <<alerta, Resto>>

(* A write that fails: after an e-mail it counts as a failed attempt. *)
MarcarEnviado(x) ==
  /\ execucao[x].passo \in {"MARCAR", "DISPENSAR"}
  /\ \/ /\ alerta' = [alerta EXCEPT ![execucao[x].veiculo][execucao[x].indice].status = "ENVIADA"]
        /\ Ir(x, "PROXIMO")
     \/ /\ Ir(x, IF Passo(x, "MARCAR") THEN "FALHAR" ELSE "PROXIMO")
        /\ UNCHANGED alerta
  /\ UNCHANGED <<reenviado, Resto>>

MarcarTentativa(x) ==
  /\ Passo(x, "FALHAR")
  /\ Ir(x, "PROXIMO")
  /\ \/ alerta' = [alerta EXCEPT ![execucao[x].veiculo][execucao[x].indice].status = "FALHA",
                               ![execucao[x].veiculo][execucao[x].indice].tentativas = @ + 1]
     \/ UNCHANGED alerta
  /\ UNCHANGED <<reenviado, Resto>>

\* Mutation: only alerts that were sent are resolved.
MutListarAtivos(x) ==
  /\ Passo(x, "PROXIMO") /\ execucao[x].restam = {}
  /\ execucao' = [execucao EXCEPT ![x] =
       [@ EXCEPT !.passo = "RESOLVER",
                 !.resolver = UNION {{v} \X {i \in Abertos(v) : alerta[v][i].status = "ENVIADA"} :
                                       v \in Veiculos \ execucao[x].candidatos}]]
  /\ UNCHANGED <<alerta, reenviado, Resto>>

(* findAtivosByTipo, after the candidates: what is open and not a candidate. *)
ListarAtivos(x) ==
  /\ Passo(x, "PROXIMO") /\ execucao[x].restam = {}
  /\ execucao' = [execucao EXCEPT ![x] =
       [@ EXCEPT !.passo = "RESOLVER",
                 !.resolver = UNION {{v} \X Abertos(v) : v \in Veiculos \ execucao[x].candidatos}]]
  /\ UNCHANGED <<alerta, reenviado, Resto>>

Resolver(x) ==
  /\ Passo(x, "RESOLVER")
  /\ \E par \in execucao[x].resolver :
       /\ alerta' = [alerta EXCEPT ![par[1]][par[2]].aberto = FALSE]
       /\ execucao' = [execucao EXCEPT ![x].resolver = @ \ {par}]
  /\ UNCHANGED <<reenviado, Resto>>

Terminar(x) ==
  /\ Passo(x, "RESOLVER") /\ execucao[x].resolver = {}
  /\ execucao' = [execucao EXCEPT ![x] = Parada]
  /\ Largar(x)
  /\ UNCHANGED <<condicao, alerta, reenviado, sobrepostas, emailAtivo, surtos, interrupcoes>>

ExecutarRegra(x) ==
  \/ LerCandidatos(x)
  \/ \E v \in Veiculos : ProcurarAlerta(x, v)
  \/ RegistrarAlerta(x) \/ Despachar(x) \/ MarcarEnviado(x) \/ MarcarTentativa(x)
  \/ ListarAtivos(x) \/ Resolver(x) \/ Terminar(x)

NextMonitor ==
  \/ \E v \in Veiculos : CondicaoSurge(v) \/ CondicaoSome(v)
  \/ \E x \in Execucoes :
       IniciarTick(x) \/ IniciarAdmin(x) \/ ExecutarRegra(x) \/ Interromper(x)
       \/ PerderTrava(x)

(* The timer ticks for ever and an execution that began goes on. *)
TickOuRegra == \E x \in Execucoes : IniciarTick(x)
FairMonitor ==
  /\ WF_monitorVars(TickOuRegra)
  /\ \A x \in Execucoes : WF_monitorVars(ExecutarRegra(x))

SpecMonitor == InitMonitor /\ [][NextMonitor]_monitorVars /\ FairMonitor

-----------------------------------------------------------------------------
(* Correctness. *)

MonitorTypeOK ==
  /\ condicao \subseteq Veiculos
  /\ \A v \in Veiculos : \A i \in DOMAIN alerta[v] :
       alerta[v][i] \in [status : {"PENDENTE", "ENVIADA", "FALHA"},
                         tentativas : Nat, aberto : BOOLEAN]
  /\ \A x \in Execucoes :
       /\ execucao[x].passo \in {"INICIO", "CANDIDATOS", "PROXIMO", "REGISTRAR", "DESPACHAR",
                                 "MARCAR", "DISPENSAR", "FALHAR", "RESOLVER"}
       /\ execucao[x].candidatos \subseteq Veiculos
       /\ execucao[x].restam \subseteq execucao[x].candidatos
  /\ trava \in Execucoes \cup {Nulo}

(* "One active alert per type and vehicle": at most one row is open. *)
AlertaUnico == \A v \in Veiculos : \A i, j \in Abertos(v) : i = j

(* As long as no two executions have overlapped (the ticks' lock sees to it  *)
(* among those of less than 120 seconds), a vehicle has at most one open alert, none is sent     *)
(* again once ENVIADA and none fails more than MAX_TENTATIVAS_ALERTA times,  *)
(* wherever executions stop and whichever write or e-mail fails.             *)
AlertaSemRepeticao ==
  ~sobrepostas =>
    /\ AlertaUnico
    /\ ~reenviado
    /\ \A v \in Veiculos : \A i \in DOMAIN alerta[v] : alerta[v][i].tentativas <= MaxTentativas

(* An alert is resolved by itself: if its condition is gone for good, so are *)
(* its open alerts, also those that overlapping executions duplicated.       *)
AlertaSeResolve ==
  \A v \in Veiculos : <>[](v \notin condicao) => <>[](Abertos(v) = {})

=============================================================================
