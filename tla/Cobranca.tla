----------------------------- MODULE Cobranca -----------------------------
(***************************************************************************)
(* The charges outside a reservation's price (cancellation fee, late       *)
(* return), paid by several requests at once.  A request expires what has  *)
(* been PROCESSANDO for 15 minutes, reads the charge, takes it to          *)
(* PROCESSANDO under a condition and writes the outcome without one.  The  *)
(* process may stop between any two of those writes.                       *)
(***************************************************************************)
EXTENDS Naturals, FiniteSets

CONSTANTS
  Cobrancas,
  Pagamentos,     \* requests to pay that may be in flight at once
  Ninguem,
  PedidoLento     \* may 15 minutes pass between two writes of a live request?

ASSUME CobrancaAssumption ==
  /\ PedidoLento \in BOOLEAN
  /\ Ninguem \notin Cobrancas \cup Pagamentos

StatusCobranca == {"NENHUMA", "AGUARDANDO_PAGAMENTO", "PROCESSANDO", "SUCESSO", "FALHA"}
Pendentes == {"AGUARDANDO_PAGAMENTO", "PROCESSANDO", "FALHA"}
Desfechos == {"SUCESSO", "FALHA", "PROCESSANDO"}

VARIABLES
  cobranca,      \* statusPagamento of each charge; "NENHUMA" before it exists
  antiga,        \* atualizadoEm is 15 minutes ago or more
  quitadaPor,    \* the request whose SUCESSO was written (history)
  passo,         \* where each request is; "MORTO" when its process stopped
  alvo, desfecho

cobrancaVars == <<cobranca, antiga, quitadaPor, passo, alvo, desfecho>>
pedidoCobrancaVars == <<passo, alvo, desfecho>>

InitCobranca ==
  /\ cobranca = [c \in Cobrancas |-> "NENHUMA"]
  /\ antiga = [c \in Cobrancas |-> FALSE]
  /\ quitadaPor = [c \in Cobrancas |-> Ninguem]
  /\ passo = [p \in Pagamentos |-> "INICIO"]
  /\ alvo = [p \in Pagamentos |-> Ninguem]
  /\ desfecho = [p \in Pagamentos |-> "FALHA"]

-----------------------------------------------------------------------------
(* A cancellation with a fee or a late return creates the charge; a          *)
(* cancellation without one leaves a row that is settled from the beginning, *)
(* which nobody pays and which is left out.                                  *)
CriarCobranca(c) ==
  /\ cobranca[c] = "NENHUMA"
  /\ cobranca' = [cobranca EXCEPT ![c] = "AGUARDANDO_PAGAMENTO"]
  /\ UNCHANGED <<antiga, quitadaPor, pedidoCobrancaVars>>

Processando(p, c) == passo[p] = "GRAVAR" /\ alvo[p] = c

(* 15 minutes pass over a charge that is being processed. *)
Envelhecer(c) ==
  /\ cobranca[c] = "PROCESSANDO" /\ ~antiga[c]
  /\ PedidoLento \/ \A p \in Pagamentos : ~Processando(p, c)
  /\ antiga' = [antiga EXCEPT ![c] = TRUE]
  /\ UNCHANGED <<cobranca, quitadaPor, pedidoCobrancaVars>>

Expiradas(cs) ==
  [c \in Cobrancas |-> IF c \in cs /\ cobranca[c] = "PROCESSANDO" /\ antiga[c]
                       THEN "FALHA" ELSE cobranca[c]]

(* The renter lists what is pending: all that is overdue expires first. *)
ListarPendentes ==
  /\ cobranca' = Expiradas(Cobrancas)
  /\ UNCHANGED <<antiga, quitadaPor, pedidoCobrancaVars>>

-----------------------------------------------------------------------------
(* The request to pay, await by await. *)

IniciarPedido(p, c) ==
  /\ passo[p] = "INICIO"
  /\ cobranca' = Expiradas({c})
  /\ alvo' = [alvo EXCEPT ![p] = c]
  /\ passo' = [passo EXCEPT ![p] = "LER"]
  /\ UNCHANGED <<antiga, quitadaPor, desfecho>>

(* No such charge, one that is already paid, or an invalid card end the      *)
(* request; otherwise the card decides the outcome.                          *)
LerCobranca(p) ==
  /\ passo[p] = "LER"
  /\ \/ passo' = [passo EXCEPT ![p] = "FIM"] /\ UNCHANGED desfecho
     \/ /\ cobranca[alvo[p]] \in Pendentes
        /\ \E d \in Desfechos : desfecho' = [desfecho EXCEPT ![p] = d]
        /\ passo' = [passo EXCEPT ![p] = "MARCAR"]
  /\ UNCHANGED <<cobranca, antiga, quitadaPor, alvo>>

\* Mutation: an update without a condition on the status.
MutMarcarProcessando(p) ==
  LET c == alvo[p] IN
  /\ passo[p] = "MARCAR"
  /\ cobranca' = [cobranca EXCEPT ![c] = "PROCESSANDO"]
  /\ antiga' = [antiga EXCEPT ![c] = FALSE]
  /\ passo' = [passo EXCEPT ![p] = "GRAVAR"]
  /\ UNCHANGED <<quitadaPor, alvo, desfecho>>

(* updateMany: whoever finds the charge waiting or failed takes it. *)
MarcarProcessando(p) ==
  LET c == alvo[p] IN
  /\ passo[p] = "MARCAR"
  /\ IF cobranca[c] \in {"AGUARDANDO_PAGAMENTO", "FALHA"}
     THEN /\ cobranca' = [cobranca EXCEPT ![c] = "PROCESSANDO"]
          /\ antiga' = [antiga EXCEPT ![c] = FALSE]
          /\ passo' = [passo EXCEPT ![p] = "GRAVAR"]
     ELSE /\ passo' = [passo EXCEPT ![p] = "FIM"]   \* 409
          /\ UNCHANGED <<cobranca, antiga>>
  /\ UNCHANGED <<quitadaPor, alvo, desfecho>>

(* update: the outcome is written whatever the row says by now. *)
GravarDesfecho(p) ==
  LET c == alvo[p] IN
  /\ passo[p] = "GRAVAR"
  /\ cobranca' = [cobranca EXCEPT ![c] = desfecho[p]]
  /\ antiga' = [antiga EXCEPT ![c] = FALSE]
  /\ quitadaPor' = IF desfecho[p] = "SUCESSO"
                   THEN [quitadaPor EXCEPT ![c] = p] ELSE quitadaPor
  /\ passo' = [passo EXCEPT ![p] = "FIM"]
  /\ UNCHANGED <<alvo, desfecho>>

(* The process stops; what it wrote stays. *)
PararPedido(p) ==
  /\ passo[p] \in {"LER", "MARCAR", "GRAVAR"}
  /\ passo' = [passo EXCEPT ![p] = "MORTO"]
  /\ UNCHANGED <<cobranca, antiga, quitadaPor, alvo, desfecho>>

Pagar(p) ==
  \/ \E c \in Cobrancas : IniciarPedido(p, c)
  \/ LerCobranca(p)
  \/ MarcarProcessando(p)
  \/ GravarDesfecho(p)
  \/ PararPedido(p)

NextCobranca ==
  \/ \E c \in Cobrancas : CriarCobranca(c) \/ Envelhecer(c)
  \/ ListarPendentes
  \/ \E p \in Pagamentos : Pagar(p)

SpecCobranca == InitCobranca /\ [][NextCobranca]_cobrancaVars

-----------------------------------------------------------------------------
(* Correctness. *)

CobrancaTypeOK ==
  /\ cobranca \in [Cobrancas -> StatusCobranca]
  /\ antiga \in [Cobrancas -> BOOLEAN]
  /\ quitadaPor \in [Cobrancas -> Pagamentos \cup {Ninguem}]
  /\ passo \in [Pagamentos -> {"INICIO", "LER", "MARCAR", "GRAVAR", "FIM", "MORTO"}]
  /\ alvo \in [Pagamentos -> Cobrancas \cup {Ninguem}]
  /\ desfecho \in [Pagamentos -> Desfechos]
  /\ \A p \in Pagamentos : passo[p] # "INICIO" => alvo[p] \in Cobrancas

(* A request that is about to write its outcome is alone with a charge that  *)
(* cannot have expired meanwhile.                                            *)
ProcessamentoExclusivo ==
  \A p \in Pagamentos : passo[p] = "GRAVAR" =>
    /\ cobranca[alvo[p]] = "PROCESSANDO"
    /\ ~antiga[alvo[p]]
    /\ \A q \in Pagamentos \ {p} : ~Processando(q, alvo[p])

(* A charge is settled exactly when a request wrote SUCESSO. *)
QuitadaTemPagador ==
  \A c \in Cobrancas : (cobranca[c] = "SUCESSO") <=> (quitadaPor[c] # Ninguem)

Ciclo == INSTANCE CicloCobranca

(* Requests to pay the same charge, repeated, simultaneous or interrupted,   *)
(* settle it at most once, and no later write unsettles it, although the     *)
(* outcome is written without a condition (CobrancaService.pagar).           *)
ImplementaQuitacao == Ciclo!Spec

=============================================================================
