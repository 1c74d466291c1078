---------------------------- MODULE CicloReserva ----------------------------
(***************************************************************************)
(* What MOVA promises of one reservation, whoever acts and in whatever     *)
(* order: the life cycle its README draws (src/README.md:155-157), with    *)
(* the payment.  The detailed modules implement this one.                  *)
(*                                                                         *)
(* An approval happens only to a waiting reservation and is never undone;  *)
(* only an approved reservation is confirmed; only a confirmed one is      *)
(* used; an ended one never changes again.                                 *)
(***************************************************************************)
VARIABLES situacao, pago

Init ==
  /\ situacao = "AGUARDANDO_PAGAMENTO"
  /\ pago = FALSE

Aprovar ==
  /\ situacao = "AGUARDANDO_PAGAMENTO"
  /\ ~pago
  /\ pago' = TRUE
  /\ UNCHANGED situacao

Confirmar ==
  /\ situacao = "AGUARDANDO_PAGAMENTO"
  /\ pago
  /\ situacao' = "CONFIRMADA"
  /\ UNCHANGED pago

Retirar ==
  /\ situacao = "CONFIRMADA"
  /\ situacao' = "EM_ANDAMENTO"
  /\ UNCHANGED pago

Devolver ==
  /\ situacao = "EM_ANDAMENTO"
  /\ situacao' = "REALIZADA"
  /\ UNCHANGED pago

\* Cancellation by a person, or expiration of an unpaid reservation.
Encerrar ==
  /\ situacao \in {"AGUARDANDO_PAGAMENTO", "CONFIRMADA"}
  /\ situacao' = "CANCELADA"
  /\ UNCHANGED pago

Next == Aprovar \/ Confirmar \/ Retirar \/ Devolver \/ Encerrar

Spec == Init /\ [][Next]_<<situacao, pago>>

=============================================================================
