----------------------------- MODULE Bloqueio -----------------------------
(***************************************************************************)
(* What keeps a renter from reserving and paying: blocks the admins create *)
(* and revoke, which may expire, and open charges.  The check asks for the *)
(* charges and for the blocks in two queries; a revocation reads the block *)
(* and writes it later, without a condition.                               *)
(***************************************************************************)
EXTENDS Cobranca

CONSTANTS
  Bloqueios,
  Verificacoes,    \* checks of the renter
  Revogacoes,      \* requests to revoke
  MaxDia           \* bound of the clock

ASSUME BloqueioAssumption ==
  /\ MaxDia \in Nat
  /\ Ninguem \notin Bloqueios
  /\ Bloqueios \cap Cobrancas = {}

VARIABLES
  dia,
  bloqueio,        \* rows BloqueioLocatario
  verificacao,     \* each check: where it is, its verdict
  impedimentos,    \* what has impeded the renter ever since the check began
  revogacao        \* each request to revoke: the block it read, if any

bloqueioVars == <<dia, bloqueio, verificacao, impedimentos, revogacao>>

SemPrazo == MaxDia + 1
Ausente == [existe |-> FALSE, expiraEm |-> SemPrazo, revogado |-> FALSE]

InitBloqueio ==
  /\ dia = 0
  /\ bloqueio = [b \in Bloqueios |-> Ausente]
  /\ verificacao = [v \in Verificacoes |-> "INICIO"]
  /\ impedimentos = [v \in Verificacoes |-> {}]
  /\ revogacao = [q \in Revogacoes |-> Ninguem]

(* whereAtivo: neither revoked nor expired. *)
Ativo(b) == /\ bloqueio[b].existe /\ ~bloqueio[b].revogado
            /\ bloqueio[b].expiraEm = SemPrazo \/ bloqueio[b].expiraEm > dia

\* Mutation: a charge whose payment failed is not open.
MutTemCobrancaPendente ==
  \E c \in Cobrancas : cobranca[c] \in {"AGUARDANDO_PAGAMENTO", "PROCESSANDO"}

TemCobrancaPendente == \E c \in Cobrancas : cobranca[c] \in Pendentes
TemBloqueioAtivo == \E b \in Bloqueios : Ativo(b)

Impeditivos ==
  {b \in Bloqueios : Ativo(b)} \cup
  {c \in Cobrancas : cobranca[c] \notin {"NENHUMA", "SUCESSO"}}

EmCurso(v) == verificacao[v] \in {"COBRANCAS", "BLOQUEIOS"}

-----------------------------------------------------------------------------
(* The day ends. *)
PassarDia ==
  /\ dia < MaxDia
  /\ dia' = dia + 1
  /\ UNCHANGED <<bloqueio, verificacao, revogacao, cobrancaVars>>

(* create: an expiration in the future, or none. *)
CriarBloqueio(b) ==
  /\ ~bloqueio[b].existe
  /\ \E e \in (dia + 1)..SemPrazo :
       bloqueio' = [bloqueio EXCEPT ![b] = [Ausente EXCEPT !.existe = TRUE, !.expiraEm = e]]
  /\ UNCHANGED <<dia, verificacao, revogacao, cobrancaVars>>

(* revogar: 404 without the block, 409 when it is revoked already ... *)
LerParaRevogar(q, b) ==
  /\ revogacao[q] = Ninguem
  /\ bloqueio[b].existe /\ ~bloqueio[b].revogado
  /\ revogacao' = [revogacao EXCEPT ![q] = b]
  /\ UNCHANGED <<dia, bloqueio, verificacao, cobrancaVars>>

(* ... and writes without looking again. *)
Revogar(q) ==
  /\ revogacao[q] # Ninguem
  /\ bloqueio' = [bloqueio EXCEPT ![revogacao[q]].revogado = TRUE]
  /\ revogacao' = [revogacao EXCEPT ![q] = Ninguem]
  /\ UNCHANGED <<dia, verificacao, cobrancaVars>>

(* assertLocatarioLiberado begins. *)
IniciarVerificacao(v) ==
  /\ verificacao[v] = "INICIO"
  /\ verificacao' = [verificacao EXCEPT ![v] = "COBRANCAS"]
  /\ UNCHANGED <<dia, bloqueio, revogacao, cobrancaVars>>

VerificarCobrancas(v) ==
  /\ verificacao[v] = "COBRANCAS"
  /\ verificacao' = [verificacao EXCEPT ![v] =
                       IF TemCobrancaPendente THEN "RECUSADO" ELSE "BLOQUEIOS"]
  /\ UNCHANGED <<dia, bloqueio, revogacao, cobrancaVars>>

VerificarBloqueios(v) ==
  /\ verificacao[v] = "BLOQUEIOS"
  /\ verificacao' = [verificacao EXCEPT ![v] =
                       IF TemBloqueioAtivo THEN "RECUSADO" ELSE "LIBERADO"]
  /\ UNCHANGED <<dia, bloqueio, revogacao, cobrancaVars>>

(* What has impeded all along: everything when the check begins, and what    *)
(* still does after each of the steps until its verdict.                     *)
Acompanhar ==
  impedimentos' = [v \in Verificacoes |->
    IF verificacao[v] = "INICIO" THEN Impeditivos'
    ELSE IF EmCurso(v) THEN impedimentos[v] \cap Impeditivos'
    ELSE impedimentos[v]]

Verificar(v) == IniciarVerificacao(v) \/ VerificarCobrancas(v) \/ VerificarBloqueios(v)

NextBloqueio ==
  /\ \/ PassarDia
     \/ \E b \in Bloqueios : CriarBloqueio(b)
     \/ \E q \in Revogacoes : Revogar(q) \/ \E b \in Bloqueios : LerParaRevogar(q, b)
     \/ \E v \in Verificacoes : Verificar(v)
     \/ NextCobranca /\ UNCHANGED <<dia, bloqueio, verificacao, revogacao>>
  /\ Acompanhar

SpecBloqueio ==
  InitCobranca /\ InitBloqueio /\ [][NextBloqueio]_<<cobrancaVars, bloqueioVars>>

-----------------------------------------------------------------------------
(* Correctness. *)

BloqueioTypeOK ==
  /\ dia \in 0..MaxDia
  /\ bloqueio \in [Bloqueios -> [existe : BOOLEAN, expiraEm : 0..SemPrazo, revogado : BOOLEAN]]
  /\ verificacao \in [Verificacoes ->
                        {"INICIO", "COBRANCAS", "BLOQUEIOS", "RECUSADO", "LIBERADO"}]
  /\ impedimentos \in [Verificacoes -> SUBSET (Bloqueios \cup Cobrancas)]
  /\ revogacao \in [Revogacoes -> Bloqueios \cup {Ninguem}]

(* A renter is let through (assertLocatarioLiberado) only if no single block *)
(* and no single charge stood in the way from the beginning of the check to  *)
(* its end, whatever expires, is revoked or is paid between its two queries. *)
ImpedimentoRecusa ==
  \A v \in Verificacoes : verificacao[v] = "LIBERADO" => impedimentos[v] = {}

=============================================================================
