------------------------------ MODULE Calendario ------------------------------
(***************************************************************************)
(* What MOVA promises about the calendar of one vehicle, with no clock and *)
(* no requests in flight.                                                  *)
(*                                                                         *)
(* A reservation occupies its period from its creation on, always beside   *)
(* all the others; the period moves only until it is firm (paid); once it  *)
(* has lost its place it never gets it back.  The vehicle stays where it   *)
(* is to be picked up until then.  The detailed module implements this one.*)
(***************************************************************************)
EXTENDS Naturals

CONSTANTS Reservas, Garagens,
  Instantes,       \* when a period may begin and end
  Nada             \* no garage

VARIABLES fase, periodo, retirada, onde

vars == <<fase, periodo, retirada, onde>>

SemPeriodo == <<0, 0>>

Init ==
  /\ fase = [r \in Reservas |-> "NOVA"]
  /\ periodo = [r \in Reservas |-> SemPeriodo]
  /\ retirada = [r \in Reservas |-> Nada]
  /\ onde \in Garagens

Ocupa(r) == fase[r] \in {"PROVISORIA", "FIRME", "USADA"}

\* The vehicle is kept for it.
Espera(r) == fase[r] \in {"PROVISORIA", "FIRME"}

Cabe(r, i, f) ==
  \A o \in Reservas \ {r} : Ocupa(o) => f <= periodo[o][1] \/ periodo[o][2] <= i

Ocupar(r) ==
  \E i, f \in Instantes :
    /\ Cabe(r, i, f)
    /\ periodo' = [periodo EXCEPT ![r] = <<i, f>>]

Reservar(r) ==
  /\ fase[r] = "NOVA" /\ onde # Nada
  /\ Ocupar(r)
  /\ fase' = [fase EXCEPT ![r] = "PROVISORIA"]
  /\ retirada' = [retirada EXCEPT ![r] = onde]
  /\ UNCHANGED onde

Alterar(r) ==
  /\ fase[r] = "PROVISORIA"
  /\ Ocupar(r)
  /\ UNCHANGED <<fase, retirada, onde>>

Firmar(r) ==
  /\ fase[r] = "PROVISORIA"
  /\ fase' = [fase EXCEPT ![r] = "FIRME"]
  /\ UNCHANGED <<periodo, retirada, onde>>

Usar(r) ==
  /\ fase[r] = "FIRME"
  /\ fase' = [fase EXCEPT ![r] = "USADA"]
  /\ UNCHANGED <<periodo, retirada, onde>>

\* Their places are free again.
Soltar(rs) ==
  /\ fase' = [r \in Reservas |-> IF r \in rs THEN "SOLTA" ELSE fase[r]]
  /\ periodo' = [r \in Reservas |-> IF r \in rs THEN SemPeriodo ELSE periodo[r]]
  /\ retirada' = [r \in Reservas |-> IF r \in rs THEN Nada ELSE retirada[r]]
  /\ UNCHANGED onde

Cancelar(r) == Espera(r) /\ Soltar({r})

\* The deadlines of several may pass at once.
Vencer(rs) == (\A r \in rs : fase[r] = "PROVISORIA") /\ Soltar(rs)

Mover(g) ==
  /\ \A r \in Reservas : ~Espera(r)
  /\ onde' = g
  /\ UNCHANGED <<fase, periodo, retirada>>

Next ==
  \/ \E rs \in SUBSET Reservas : Vencer(rs)
  \/ \E r \in Reservas : Reservar(r) \/ Alterar(r) \/ Firmar(r) \/ Usar(r) \/ Cancelar(r)
  \/ \E g \in Garagens \cup {Nada} : Mover(g)

Spec == Init /\ [][Next]_vars

==============================================================================
