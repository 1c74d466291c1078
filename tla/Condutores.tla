----------------------------- MODULE Condutores -----------------------------
(***************************************************************************)
(* The additional drivers of one reservation.  An addition holds the       *)
(* reservation's row from its first statement on (FOR UPDATE), validates,  *)
(* counts and inserts; a removal validates what it read without that lock; *)
(* the reservation is cancelled and begins meanwhile.                      *)
(***************************************************************************)
EXTENDS Naturals, FiniteSets

CONSTANTS
  Adicoes,         \* requests to add a driver
  Remocoes,        \* requests to remove one
  Cnhs,            \* driving licences
  MaxCondutores,   \* MAX_CONDUTORES_ADICIONAIS
  Solta            \* nobody holds the row

ASSUME CondutoresAssumption ==
  /\ MaxCondutores \in Nat
  /\ Solta \notin Adicoes \cup Remocoes \cup Cnhs

VARIABLES
  cancelada,       \* the reservation's status is CANCELADA
  iniciada,        \* dataHoraInicio has come
  condutores,      \* rows CondutorAdicional, by CNH
  linhaPresa,      \* the addition that holds the reservation's row
  adicao,          \* each addition: its step and licence
  remocao          \* each removal: its step and driver

condutoresVars == <<cancelada, iniciada, condutores, linhaPresa, adicao, remocao>>

InitCondutores ==
  /\ cancelada = FALSE /\ iniciada = FALSE
  /\ condutores = {}
  /\ linhaPresa = Solta
  /\ adicao \in [Adicoes -> [passo : {"INICIO"}, cnh : Cnhs]]
  /\ remocao = [r \in Remocoes |-> [passo |-> "INICIO", cnh |-> Solta]]

(* assertReservaAlteravel *)
Alteravel == ~cancelada /\ ~iniciada

-----------------------------------------------------------------------------
ChegarInicio ==
  /\ ~iniciada
  /\ iniciada' = TRUE
  /\ UNCHANGED <<cancelada, condutores, linhaPresa, adicao, remocao>>

(* cancelar updates the row, and waits for whoever holds it. *)
CancelarComCondutores ==
  /\ ~cancelada /\ linhaPresa = Solta
  /\ cancelada' = TRUE
  /\ UNCHANGED <<iniciada, condutores, linhaPresa, adicao, remocao>>

-----------------------------------------------------------------------------
(* adicionarCondutor: one transaction, statement by statement. *)

AvancarAdicao(a, p) == adicao' = [adicao EXCEPT ![a].passo = p]

(* A refusal or a violated unique index rolls back and lets the row go. *)
EncerrarAdicao(a) ==
  /\ AvancarAdicao(a, "FIM")
  /\ linhaPresa' = Solta

\* Mutation: the row is read without FOR UPDATE.
MutBloquearReserva(a) ==
  /\ adicao[a].passo = "INICIO"
  /\ AvancarAdicao(a, "VALIDAR")
  /\ UNCHANGED <<cancelada, iniciada, condutores, linhaPresa, remocao>>

BloquearReserva(a) ==
  /\ adicao[a].passo = "INICIO" /\ linhaPresa = Solta
  /\ linhaPresa' = a
  /\ AvancarAdicao(a, "VALIDAR")
  /\ UNCHANGED <<cancelada, iniciada, condutores, remocao>>

(* Access and assertReservaAlteravel, on the row just locked. *)
ValidarReserva(a) ==
  /\ adicao[a].passo = "VALIDAR"
  /\ IF Alteravel THEN AvancarAdicao(a, "CONTAR") /\ UNCHANGED linhaPresa
                  ELSE EncerrarAdicao(a)
  /\ UNCHANGED <<cancelada, iniciada, condutores, remocao>>

ContarCondutores(a) ==
  /\ adicao[a].passo = "CONTAR"
  /\ IF Cardinality(condutores) < MaxCondutores
     THEN AvancarAdicao(a, "INSERIR") /\ UNCHANGED linhaPresa
     ELSE EncerrarAdicao(a)
  /\ UNCHANGED <<cancelada, iniciada, condutores, remocao>>

(* The same CNH is refused by the search or by the unique index. *)
InserirCondutor(a) ==
  /\ adicao[a].passo = "INSERIR"
  /\ condutores' = condutores \cup {adicao[a].cnh}
  /\ EncerrarAdicao(a)
  /\ UNCHANGED <<cancelada, iniciada, remocao>>

Adicionar(a) ==
  BloquearReserva(a) \/ ValidarReserva(a) \/ ContarCondutores(a) \/ InserirCondutor(a)

-----------------------------------------------------------------------------
(* removerCondutor: no transaction.  The reservation as read decides; the    *)
(* driver is found, and then deleted (an error if another removal was first).*)

LerParaRemover(r) ==
  /\ remocao[r].passo = "INICIO" /\ Alteravel
  /\ remocao' = [remocao EXCEPT ![r].passo = "PROCURAR"]
  /\ UNCHANGED <<cancelada, iniciada, condutores, linhaPresa, adicao>>

ProcurarCondutor(r) ==
  /\ remocao[r].passo = "PROCURAR"
  /\ \/ \E c \in condutores : remocao' = [remocao EXCEPT ![r] = [passo |-> "APAGAR", cnh |-> c]]
     \/ remocao' = [remocao EXCEPT ![r].passo = "FIM"]   \* 404
  /\ UNCHANGED <<cancelada, iniciada, condutores, linhaPresa, adicao>>

ApagarCondutor(r) ==
  /\ remocao[r].passo = "APAGAR"
  /\ condutores' = condutores \ {remocao[r].cnh}
  /\ remocao' = [remocao EXCEPT ![r].passo = "FIM"]
  /\ UNCHANGED <<cancelada, iniciada, linhaPresa, adicao>>

Remover(r) == LerParaRemover(r) \/ ProcurarCondutor(r) \/ ApagarCondutor(r)

NextCondutores ==
  \/ ChegarInicio \/ CancelarComCondutores
  \/ \E a \in Adicoes : Adicionar(a)
  \/ \E r \in Remocoes : Remover(r)

SpecCondutores == InitCondutores /\ [][NextCondutores]_condutoresVars

-----------------------------------------------------------------------------
(* Correctness. *)

CondutoresTypeOK ==
  /\ {cancelada, iniciada} \subseteq BOOLEAN
  /\ condutores \subseteq Cnhs
  /\ linhaPresa \in Adicoes \cup {Solta}
  /\ adicao \in [Adicoes -> [passo : {"INICIO", "VALIDAR", "CONTAR", "INSERIR", "FIM"}, cnh : Cnhs]]
  /\ remocao \in [Remocoes -> [passo : {"INICIO", "PROCURAR", "APAGAR", "FIM"},
                               cnh : Cnhs \cup {Solta}]]

(* However many requests add drivers at once, the reservation never has more *)
(* than MAX_CONDUTORES_ADICIONAIS (createWithinLimit counts and inserts      *)
(* under one lock).                                                          *)
LimiteDeCondutores == Cardinality(condutores) <= MaxCondutores

(* The drivers of a cancelled reservation only become fewer: an addition     *)
(* that validated before the cancellation makes it wait, one after it is     *)
(* refused (the row lock also orders them against cancelar).                 *)
CanceladaSemNovoCondutor ==
  [][cancelada => condutores' \subseteq condutores]_condutoresVars

=============================================================================
