--------------------------- MODULE CicloCobranca ---------------------------
(***************************************************************************)
(* What the charges promise: each one is settled at most once, by one      *)
(* payment, and stays settled.  Nothing is said of the attempts that fail. *)
(***************************************************************************)
CONSTANTS Cobrancas, Pagamentos, Ninguem

VARIABLE quitadaPor

Init == quitadaPor = [c \in Cobrancas |-> Ninguem]

(* The payment p settles the charge c. *)
Quitar(p, c) ==
  /\ quitadaPor[c] = Ninguem
  /\ quitadaPor' = [quitadaPor EXCEPT ![c] = p]

Next == \E p \in Pagamentos, c \in Cobrancas : Quitar(p, c)

Spec == Init /\ [][Next]_quitadaPor

=============================================================================
