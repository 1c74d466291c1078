-------------------------------- MODULE Frota --------------------------------
(***************************************************************************)
(* What MOVA promises an owner of the fleet, with no locks and no counter: *)
(* vehicles are created, moved and garages resized one at a time, and each *)
(* operation decides by what is there when it takes effect.  The detailed  *)
(* module, whose transactions interleave, implements this one.             *)
(***************************************************************************)
EXTENDS Naturals, FiniteSets

CONSTANTS
  Veiculos, Garagens,
  Capacidades,     \* of the garages when they are created
  Limites,         \* capacities a garage may be given later
  Nada             \* no garage

VARIABLES existe, local, capacidade, aberta

vars == <<existe, local, capacidade, aberta>>

Init ==
  /\ existe = {}
  /\ local = [v \in Veiculos |-> Nada]
  /\ capacidade \in [Garagens -> Capacidades]
  /\ aberta = [g \in Garagens |-> TRUE]

\* How many vehicles are in a garage.
Ocupacao(g) == Cardinality({v \in existe : local[v] = g})

\* n more vehicles may be put there.
Recebe(g, n) == g # Nada => aberta[g] /\ Ocupacao(g) + n <= capacidade[g]

\* All of a lot or none of it; a plate exists once.
Criar(novos, g) ==
  /\ novos \cap existe = {}
  /\ Recebe(g, Cardinality(novos))
  /\ existe' = existe \cup novos
  /\ local' = [v \in Veiculos |-> IF v \in novos THEN g ELSE local[v]]
  /\ UNCHANGED <<capacidade, aberta>>

Mover(v, g) ==
  /\ v \in existe /\ local[v] # g
  /\ Recebe(g, 1)
  /\ local' = [local EXCEPT ![v] = g]
  /\ UNCHANGED <<existe, capacidade, aberta>>

Limitar(g, n) ==
  /\ Ocupacao(g) <= n
  /\ capacidade' = [capacidade EXCEPT ![g] = n]

Editar(g) ==
  /\ UNCHANGED <<existe, local>>
  /\ \E b \in BOOLEAN : aberta' = [aberta EXCEPT ![g] = b]
  /\ \/ UNCHANGED capacidade
     \/ \E n \in Limites : Limitar(g, n)

Next ==
  \/ \E g \in Garagens : Editar(g)
  \/ \E novos \in (SUBSET Veiculos) \ {{}}, g \in Garagens \cup {Nada} : Criar(novos, g)
  \/ \E v \in Veiculos, g \in Garagens \cup {Nada} : Mover(v, g)

Spec == Init /\ [][Next]_vars

==============================================================================
