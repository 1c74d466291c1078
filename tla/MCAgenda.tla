------------------------------ MODULE MCAgenda ------------------------------
(* Instances of Agenda for TLC. *)
EXTENDS Agenda, TLC

CONSTANTS r1, r2, g1, g2, a1, e1

\* The states that matter to a check: reservable, and out of order.
Editaveis == {"DISPONIVEL", "MANUTENCAO"}
SimetriaReservas == Permutations({r1, r2})
Simetria == Permutations({g1, g2}) \cup SimetriaReservas

-----------------------------------------------------------------------------
(* The whole of Next over two reservations is too much for one run, so the  *)
(* run follows two restrictions of it, chosen in the initial state: two     *)
(* reservations while the fleet stands still, and one reservation, without  *)
(* changes of its period, which ends at 2, while the owner works on the      *)
(* fleet.                                                                   *)

VARIABLE foco

focoVars == <<vars, foco>>

FocoInit == Init /\ foco \in {"periodos", "frota"}

DatasApenas == \A a \in Alteracoes : alteracao'[a].devolucao = Nada

GaragensApenas ==
  /\ \A a \in Alteracoes : {alteracao'[a].ini, alteracao'[a].fim} = {Nada}
  /\ \A r \in Reservas : fim'[r] \in {0, 2}
  /\ \E r \in Reservas : \A o \in Reservas \ {r} : status'[o] = "NENHUMA"

FocoNext ==
  /\ UNCHANGED foco
  /\ \/ foco = "periodos" /\ (Reservar \/ Alterar \/ Passar) /\ DatasApenas
        /\ UNCHANGED devolucao
     \/ foco = "frota" /\ Next /\ GaragensApenas

FocoSpec == FocoInit /\ [][FocoNext]_focoVars

=============================================================================
