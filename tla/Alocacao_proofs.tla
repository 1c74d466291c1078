-------------------------- MODULE Alocacao_proofs --------------------------
(***************************************************************************)
(* Proofs about the owner's fleet, for any number of vehicles, garages,    *)
(* reservations and transactions.                                          *)
(*                                                                         *)
(* 1. What the plans of the transactions are made of, and that reading     *)
(*    under a lock changes nothing of the plan up to that lock.            *)
(* 2. FrotaInv: what is held excludes what conflicts with it, so what a    *)
(*    transaction has read of a garage or of its vehicle stays so until it *)
(*    ends; hence the counters are exact and no capacity is exceeded.      *)
(* 3. The order in which the locks of every plan come, and that no         *)
(*    transactions wait in a circle where that order is kept.              *)
(***************************************************************************)
EXTENDS Alocacao, FiniteSetTheorems, SequenceTheorems, TLAPS

-----------------------------------------------------------------------------
(* Sequences of locks.                                                     *)

Tipos == {"adv_reserva", "adv_veiculo", "modelo", "veiculo", "garagem", "reserva"}

Travas == [tipo : Tipos, id : Nat \cup Veiculos \cup Modelos, compartilhada : BOOLEAN]

Contem(s, l) == \E i \in 1..Len(s) : s[i] = l

\* A lock of each type is a lock, and alone it is a sequence of one.
LEMMA TravaTipada ==
  ASSUME NEW tipo \in Tipos, NEW id \in Nat \cup Veiculos \cup Modelos, NEW c \in BOOLEAN
  PROVE  /\ Trava(tipo, id, c) \in Travas
         /\ <<Trava(tipo, id, c)>> \in Seq(Travas)
         /\ Len(<<Trava(tipo, id, c)>>) = 1
  BY DEF Trava, Travas

\* Two sequences of locks one after the other hold the locks of both.
LEMMA Concatenadas ==
  ASSUME NEW s \in Seq(Travas), NEW u \in Seq(Travas), NEW l
  PROVE  /\ s \o u \in Seq(Travas)
         /\ Len(s \o u) = Len(s) + Len(u)
         /\ Contem(s \o u, l) <=> Contem(s, l) \/ Contem(u, l)
<1>1. /\ s \o u \in Seq(Travas)
      /\ Len(s \o u) = Len(s) + Len(u)
      /\ \A i \in 1 .. Len(s) + Len(u) : (s \o u)[i] =
           IF i <= Len(s) THEN s[i] ELSE u[i - Len(s)]
  BY ConcatProperties
<1>2. Len(s) \in Nat /\ Len(u) \in Nat
  OBVIOUS
<1>3. ASSUME Contem(s, l) PROVE Contem(s \o u, l)
  BY <1>1, <1>2, <1>3 DEF Contem
<1>4. ASSUME Contem(u, l) PROVE Contem(s \o u, l)
  <2>1. PICK i \in 1..Len(u) : u[i] = l
    BY <1>4 DEF Contem
  <2>2. Len(s) + i \in 1..Len(s \o u) /\ (s \o u)[Len(s) + i] = l
    BY <1>1, <1>2, <2>1
  <2> QED BY <2>2 DEF Contem
<1>5. ASSUME Contem(s \o u, l) PROVE Contem(s, l) \/ Contem(u, l)
  <2>1. PICK i \in 1..Len(s \o u) : (s \o u)[i] = l
    BY <1>5 DEF Contem
  <2>2. CASE i <= Len(s)
    BY <1>1, <1>2, <2>1, <2>2 DEF Contem
  <2>3. CASE ~(i <= Len(s))
    <3>1. i - Len(s) \in 1..Len(u) /\ u[i - Len(s)] = l
      BY <1>1, <1>2, <2>1, <2>3
    <3> QED BY <3>1 DEF Contem
  <2> QED BY <2>2, <2>3
<1> QED BY <1>1, <1>3, <1>4, <1>5

\* id[i] is the i-th of a set of identifiers, whose rows are locked in that order.
Numera(tipo, ids, c, id) ==
  /\ id \in [1..Cardinality(ids) -> ids]
  /\ LinhasEmOrdem(tipo, ids, c)
       = [i \in 1..Cardinality(ids) |-> Trava(tipo, id[i], c)]
  /\ \A x \in ids : \E i \in 1..Cardinality(ids) : id[i] = x
  /\ \A i, j \in 1..Cardinality(ids) : i < j => id[i] < id[j]

\* The rows of a set of identifiers, in order, are each of them once.
LEMMA EmOrdem ==
  ASSUME NEW tipo, NEW c, NEW ids \in SUBSET Nat, IsFiniteSet(ids)
  PROVE  Cardinality(ids) \in Nat /\ \E id : Numera(tipo, ids, c, id)
<1>0. PICK n \in Nat : n = Cardinality(ids)
  BY FS_CardinalityType
<1> DEFINE X(x) == {y \in ids : y < x}
<1>1. \A x \in ids : x \in Nat
  OBVIOUS
<1>2. \A x, z \in ids : x = z \/ x < z \/ z < x
  BY <1>1
<1>3. ASSUME NEW x \in ids
      PROVE  /\ IsFiniteSet(X(x)) /\ Cardinality(X(x)) \in 0..(n - 1)
  <2>1. X(x) \in SUBSET ids /\ x \notin X(x)
    BY <1>1
  <2> HIDE DEF X
  <2>2. /\ IsFiniteSet(X(x)) /\ Cardinality(X(x)) <= n
        /\ n = Cardinality(X(x)) => ids = X(x)
    BY <1>0, <2>1, FS_Subset
  <2>3. Cardinality(X(x)) \in Nat
    BY <2>2, FS_CardinalityType
  <2> QED BY <2>1, <2>2, <2>3
\* The position of each identifier; the smaller one has fewer before it.
<1>4. PICK ordem \in [ids -> 1..n] :
        \A x \in ids : /\ ordem[x] = Anteriores(x, ids) + 1
                       /\ Anteriores(x, ids) \in 0..(n - 1)
  <2>1. \A x \in ids : /\ Anteriores(x, ids) \in 0..(n - 1)
                       /\ Anteriores(x, ids) + 1 \in 1..n
    <3> TAKE x \in ids
    <3>1. Cardinality(X(x)) \in 0..(n - 1) /\ Anteriores(x, ids) = Cardinality(X(x))
      BY <1>3 DEF Anteriores
    <3> HIDE DEF X
    <3> QED BY <3>1
  <2> DEFINE o == [x \in ids |-> Anteriores(x, ids) + 1]
  <2>2. o \in [ids -> 1..n]
    BY <2>1
  <2>3. \A x \in ids : o[x] = Anteriores(x, ids) + 1
    OBVIOUS
  <2> HIDE DEF o
  <2> QED BY <2>1, <2>2, <2>3
<1>5. \A x, z \in ids : x < z => ordem[x] < ordem[z]
  <2> SUFFICES ASSUME NEW x \in ids, NEW z \in ids, x < z
               PROVE  ordem[x] < ordem[z]
    OBVIOUS
  <2>1. X(x) \in SUBSET X(z) /\ x \in X(z) /\ x \notin X(x)
    <3>1. ASSUME NEW y \in ids, y < x PROVE y < z
      BY <1>1, <3>1
    <3>2. \A y \in ids : y < x => y < z
      BY <3>1
    <3>3. ~(x < x)
      BY <1>1
    <3> QED BY <3>2, <3>3
  <2>2. IsFiniteSet(X(z)) /\ Cardinality(X(x)) \in Nat /\ Cardinality(X(z)) \in Nat
    BY <1>3
  <2>3. Anteriores(x, ids) = Cardinality(X(x)) /\ Anteriores(z, ids) = Cardinality(X(z))
    BY DEF Anteriores
  <2> HIDE DEF X
  <2>4. /\ Cardinality(X(x)) <= Cardinality(X(z))
        /\ Cardinality(X(z)) = Cardinality(X(x)) => X(z) = X(x)
    BY <2>1, <2>2, FS_Subset
  <2>5. Cardinality(X(x)) < Cardinality(X(z))
    BY <2>1, <2>2, <2>4
  <2> QED BY <1>4, <2>2, <2>3, <2>5
\* So the positions are those of the set, each once.
<1>6. \A i \in 1..n : \E x \in ids : ordem[x] = i
  <2>1. \A x, z \in ids : ordem[x] = ordem[z] => x = z
    <3> SUFFICES ASSUME NEW x \in ids, NEW z \in ids, ordem[x] = ordem[z], x # z
                 PROVE  FALSE
      OBVIOUS
    <3>1. ordem[x] \in Nat /\ ordem[z] \in Nat
      BY <1>4
    <3>2. ordem[x] < ordem[z] \/ ordem[z] < ordem[x]
      BY <1>2, <1>5
    <3> QED BY <3>1, <3>2
  <2>2. ordem \in Injection(ids, 1..n)
    BY <1>4, <2>1 DEF Injection, IsInjective
  <2>3. IsFiniteSet(1..n) /\ Cardinality(1..n) = n
    BY FS_Interval
  <2>4. Cardinality(ids) = Cardinality(1..n)
    BY <1>0, <2>3
  <2>5. ordem \in Surjection(ids, 1..n)
    BY <2>2, <2>3, <2>4, FS_Injection
  <2> QED BY <2>5 DEF Surjection
<1> DEFINE id == [i \in 1..n |-> CHOOSE x \in ids : Anteriores(x, ids) = i - 1]
<1>7. \A i \in 1..n : id[i] \in ids /\ ordem[id[i]] = i
  <2> TAKE i \in 1..n
  <2>1. PICK x \in ids : ordem[x] = i
    BY <1>6
  <2>2. \A z \in ids : Anteriores(z, ids) = i - 1 <=> ordem[z] = i
    <3> TAKE z \in ids
    <3>1. PICK k \in 1..n : k = ordem[z]
      BY <1>4
    <3>2. PICK m \in 0..(n - 1) : m = Anteriores(z, ids)
      BY <1>4
    <3>3. k = m + 1
      BY <1>4, <3>1, <3>2
    <3>4. m = i - 1 <=> k = i
      BY <3>3
    <3> QED BY <3>1, <3>2, <3>4
  <2>3. id[i] = CHOOSE z \in ids : Anteriores(z, ids) = i - 1
    OBVIOUS
  <2>4. id[i] \in ids /\ Anteriores(id[i], ids) = i - 1
    BY <2>1, <2>2, <2>3
  <2> QED BY <2>2, <2>4
<1>8. LinhasEmOrdem(tipo, ids, c) = [i \in 1..n |-> Trava(tipo, id[i], c)]
  BY <1>0 DEF LinhasEmOrdem
<1>9. id \in [1..n -> ids]
  <2>1. id = [i \in 1..n |-> id[i]]
    OBVIOUS
  <2> HIDE DEF id
  <2> QED BY <1>7, <2>1
<1> HIDE DEF id
<1>10. \A x \in ids : \E i \in 1..n : id[i] = x
  <2> TAKE x \in ids
  <2>1. ordem[x] \in 1..n
    BY <1>4
  <2> DEFINE z == id[ordem[x]]
  <2>2. z \in ids /\ ordem[z] = ordem[x]
    BY <1>7, <2>1
  <2>3. z = x
    <3> HIDE DEF z
    <3>1. ~(z < x) /\ ~(x < z)
      BY <1>5, <2>1, <2>2
    <3> QED BY <1>2, <2>2, <3>1
  <2> QED BY <2>1, <2>3
<1>11. \A i, j \in 1..n : i < j => id[i] < id[j]
  <2> SUFFICES ASSUME NEW i \in 1..n, NEW j \in 1..n, i < j PROVE id[i] < id[j]
    OBVIOUS
  <2>1. id[i] \in ids /\ id[j] \in ids /\ ordem[id[i]] = i /\ ordem[id[j]] = j
    BY <1>7
  <2>2. id[i] # id[j]
    BY <2>1
  <2>3. ~(id[j] < id[i])
    <3>1. id[j] < id[i] => j < i
      BY <1>5, <2>1
    <3> QED BY <3>1
  <2> QED BY <1>2, <2>1, <2>2, <2>3
<1>12. Numera(tipo, ids, c, id)
  BY <1>0, <1>8, <1>9, <1>10, <1>11 DEF Numera
<1> QED BY <1>0, <1>12

\* A function on 1..n is a sequence of length n.
LEMMA SequenciaDe ==
  ASSUME NEW S, NEW n \in Nat, NEW f \in [1..n -> S]
  PROVE  f \in Seq(S) /\ Len(f) = n
  OBVIOUS

\* The rows of a set of identifiers are a sequence of their locks.
LEMMA LinhasTipadas ==
  ASSUME NEW tipo \in Tipos, NEW ids \in SUBSET Nat, IsFiniteSet(ids), NEW c \in BOOLEAN
  PROVE  /\ LinhasEmOrdem(tipo, ids, c) \in Seq(Travas)
         /\ \A l : Contem(LinhasEmOrdem(tipo, ids, c), l)
                     <=> \E x \in ids : l = Trava(tipo, x, c)
<1>1. PICK n \in Nat : n = Cardinality(ids)
  BY EmOrdem
<1>2. PICK id : Numera(tipo, ids, c, id)
  BY EmOrdem
<1>a. /\ id \in [1..n -> ids]
      /\ LinhasEmOrdem(tipo, ids, c) = [i \in 1..n |-> Trava(tipo, id[i], c)]
      /\ \A x \in ids : \E i \in 1..n : id[i] = x
  BY <1>1, <1>2 DEF Numera
<1> DEFINE s == [i \in 1..n |-> Trava(tipo, id[i], c)]
<1>3. \A i \in 1..n : Trava(tipo, id[i], c) \in Travas
  <2> TAKE i \in 1..n
  <2>1. id[i] \in Nat
    BY <1>a
  <2> QED BY <2>1, TravaTipada
<1>4. s \in Seq(Travas) /\ Len(s) = n
  <2>1. s \in [1..n -> Travas]
    BY <1>3
  <2> HIDE DEF s
  <2> QED BY <2>1, SequenciaDe
<1>5. \A i \in 1..n : s[i] = Trava(tipo, id[i], c)
  OBVIOUS
<1> HIDE DEF s
<1>6. \A l : Contem(s, l) <=> \E x \in ids : l = Trava(tipo, x, c)
  <2> TAKE l
  <2>1. ASSUME Contem(s, l) PROVE \E x \in ids : l = Trava(tipo, x, c)
    <3>1. PICK i \in 1..n : l = Trava(tipo, id[i], c)
      BY <1>a, <1>4, <1>5, <2>1 DEF Contem
    <3> QED BY <1>a, <3>1
  <2>2. ASSUME NEW x \in ids, l = Trava(tipo, x, c) PROVE Contem(s, l)
    <3>1. PICK i \in 1..n : id[i] = x
      BY <1>a
    <3> QED BY <1>4, <1>5, <2>2, <3>1 DEF Contem
  <2> QED BY <2>1, <2>2
<1>7. LinhasEmOrdem(tipo, ids, c) = s
  BY <1>a DEF s
<1> QED BY <1>4, <1>6, <1>7

\* The empty sequence holds no lock.
LEMMA VaziaTipada ==
  /\ <<>> \in Seq(Travas) /\ Len(<<>>) = 0
  /\ \A l : ~Contem(<<>>, l)
<1>1. <<>> \in Seq(Travas) /\ Len(<<>>) = 0
  BY EmptySeq
<1>2. \A i : i \notin 1..0
  OBVIOUS
<1> QED BY <1>1, <1>2 DEF Contem

\* The sequence of one lock holds that one.
LEMMA UnicaTipada ==
  ASSUME NEW tipo \in Tipos, NEW id \in Nat \cup Veiculos \cup Modelos, NEW c \in BOOLEAN
  PROVE  /\ <<Trava(tipo, id, c)>> \in Seq(Travas)
         /\ Len(<<Trava(tipo, id, c)>>) = 1
         /\ \A l : Contem(<<Trava(tipo, id, c)>>, l) <=> l = Trava(tipo, id, c)
<1> DEFINE t == Trava(tipo, id, c)
<1>1. t \in Travas
  BY TravaTipada
<1> HIDE DEF t
<1>2. <<t>> \in Seq(Travas) /\ Len(<<t>>) = 1 /\ <<t>>[1] = t
  BY <1>1
<1>3. \A l : Contem(<<t>>, l) <=> l = t
  BY <1>2 DEF Contem
<1> QED BY <1>2, <1>3 DEF t

\* The rows of garages, Nada left out.
LEMMA GaragensTipadas ==
  ASSUME NEW gs \in SUBSET (Garagens \cup {Nada}), NEW c \in BOOLEAN
  PROVE  /\ LinhasGaragens(gs, c) \in Seq(Travas)
         /\ \A l : Contem(LinhasGaragens(gs, c), l)
                     <=> \E g \in gs \ {Nada} : l = Trava("garagem", g, c)
<1>1. gs \ {Nada} \in SUBSET Garagens
  OBVIOUS
<1>2. gs \ {Nada} \in SUBSET Nat /\ IsFiniteSet(gs \ {Nada})
  BY <1>1, ConstantesAssumption, FS_Subset
<1>0. "garagem" \in Tipos
  BY DEF Tipos
<1>3. /\ LinhasEmOrdem("garagem", gs \ {Nada}, c) \in Seq(Travas)
      /\ \A l : Contem(LinhasEmOrdem("garagem", gs \ {Nada}, c), l)
                  <=> \E x \in gs \ {Nada} : l = Trava("garagem", x, c)
  BY <1>0, <1>2, FALSE \in BOOLEAN, LinhasTipadas, Zenon
<1> QED BY <1>3 DEF LinhasGaragens

\* The rows of reservations.
LEMMA ReservasTipadas ==
  ASSUME NEW rs \in SUBSET Reservas
  PROVE  /\ LinhasReservas(rs) \in Seq(Travas)
         /\ \A l : Contem(LinhasReservas(rs), l)
                     <=> \E r \in rs : l = Trava("reserva", r, FALSE)
<1>2. rs \in SUBSET Nat /\ IsFiniteSet(rs)
  BY ConstantesAssumption, FS_Subset
<1>0. "reserva" \in Tipos
  BY DEF Tipos
<1>3. /\ LinhasEmOrdem("reserva", rs, FALSE) \in Seq(Travas)
      /\ \A l : Contem(LinhasEmOrdem("reserva", rs, FALSE), l)
                  <=> \E x \in rs : l = Trava("reserva", x, FALSE)
  BY <1>0, <1>2, FALSE \in BOOLEAN, LinhasTipadas, Zenon
<1> QED BY <1>3 DEF LinhasReservas

\* What stands in a sequence of locks is a lock it holds.
LEMMA IndiceContido ==
  ASSUME NEW s \in Seq(Travas), NEW i \in 1..Len(s)
  PROVE  s[i] \in Travas /\ Contem(s, s[i])
  BY DEF Contem

\* Of two sequences one after the other, which position is whose.
LEMMA Emendadas ==
  ASSUME NEW s \in Seq(Travas), NEW u \in Seq(Travas)
  PROVE  /\ Len(s) \in Nat /\ Len(u) \in Nat /\ Len(s \o u) = Len(s) + Len(u)
         /\ \A i \in 1..Len(s) : (s \o u)[i] = s[i]
         /\ \A i \in (Len(s) + 1)..Len(s \o u) :
              (s \o u)[i] = u[i - Len(s)] /\ Contem(u, (s \o u)[i])
<1>1. /\ Len(s) \in Nat /\ Len(u) \in Nat /\ Len(s \o u) = Len(s) + Len(u)
      /\ \A i \in 1 .. Len(s) + Len(u) : (s \o u)[i] =
           IF i <= Len(s) THEN s[i] ELSE u[i - Len(s)]
  BY ConcatProperties
<1>2. \A i \in 1..Len(s) : (s \o u)[i] = s[i]
  BY <1>1
<1>3. ASSUME NEW i \in (Len(s) + 1)..Len(s \o u)
      PROVE  (s \o u)[i] = u[i - Len(s)] /\ Contem(u, (s \o u)[i])
  <2>1. i - Len(s) \in 1..Len(u) /\ (s \o u)[i] = u[i - Len(s)]
    BY <1>1
  <2> QED BY <2>1 DEF Contem
<1> QED BY <1>1, <1>2, <1>3

-----------------------------------------------------------------------------
(* The requests and their plans.                                           *)

\* What the fields of a well-formed request are.
LEMMA Campos ==
  ASSUME NEW t \in Requisicoes
  PROVE  /\ t.op \in {"CRIAR", "EDITAR", "GARAGEM"} \cup DeReserva
         /\ t.op = "CRIAR" =>
              /\ t.placas \in SUBSET Veiculos /\ t.local \in Garagens \cup {Nada}
              /\ t.modelo \in Modelos /\ t.lote \in BOOLEAN
         /\ t.op = "EDITAR" =>
              /\ t.veiculo \in Veiculos /\ t.local \in Garagens \cup {Nada, Mesma}
              /\ t.retira \in BOOLEAN /\ t.modelo \in Modelos \cup {Nada}
         /\ t.op = "GARAGEM" =>
              /\ t.garagem \in Garagens /\ t.capacidade \in Nat \cup {Nada}
              /\ t.nova \in StatusGaragem \cup {"MESMA"}
         /\ t.op \in DeReserva => t.reserva \in Reservas
         /\ t # Livre
  BY DEF Requisicoes, DeReserva, Livre

\* The row of the model, if the request has one.
LEMMA ModeloTipado ==
  ASSUME NEW m \in Modelos \cup {Nada}
  PROVE  /\ LinhaModelo(m) \in Seq(Travas)
         /\ \A l : Contem(LinhaModelo(m), l) <=> m # Nada /\ l = Trava("modelo", m, FALSE)
<1>1. CASE m = Nada
  BY <1>1, VaziaTipada DEF LinhaModelo
<1>2. CASE m # Nada
  <2>1. "modelo" \in Tipos /\ FALSE \in BOOLEAN /\ m \in Modelos
    BY <1>2 DEF Tipos
  <2>2. LinhaModelo(m) = <<Trava("modelo", m, FALSE)>>
    BY <1>2 DEF LinhaModelo
  <2> QED BY <1>2, <2>1, <2>2, UnicaTipada
<1> QED BY <1>1, <1>2

\* The advisory locks and the row of a vehicle.
LEMMA AvulsasTipadas ==
  /\ \A r \in Reservas : /\ AdvReserva(r) \in Seq(Travas) /\ Len(AdvReserva(r)) = 1
                         /\ \A l : Contem(AdvReserva(r), l) <=> l = Trava("adv_reserva", r, FALSE)
  /\ \A v \in Veiculos : /\ AdvVeiculo(v) \in Seq(Travas) /\ Len(AdvVeiculo(v)) = 1
                         /\ \A l : Contem(AdvVeiculo(v), l) <=> l = Trava("adv_veiculo", v, FALSE)
                         /\ LinhaVeiculo(v) \in Seq(Travas) /\ Len(LinhaVeiculo(v)) = 1
                         /\ \A l : Contem(LinhaVeiculo(v), l) <=> l = Trava("veiculo", v, FALSE)
<1>0. {"adv_reserva", "adv_veiculo", "veiculo"} \subseteq Tipos /\ FALSE \in BOOLEAN
  BY DEF Tipos
<1>1. ASSUME NEW r \in Reservas
      PROVE  /\ AdvReserva(r) \in Seq(Travas) /\ Len(AdvReserva(r)) = 1
             /\ \A l : Contem(AdvReserva(r), l) <=> l = Trava("adv_reserva", r, FALSE)
  <2>1. r \in Nat
    BY ConstantesAssumption
  <2> QED BY <1>0, <2>1, UnicaTipada DEF AdvReserva
<1>2. ASSUME NEW v \in Veiculos
      PROVE  /\ AdvVeiculo(v) \in Seq(Travas) /\ Len(AdvVeiculo(v)) = 1
             /\ \A l : Contem(AdvVeiculo(v), l) <=> l = Trava("adv_veiculo", v, FALSE)
             /\ LinhaVeiculo(v) \in Seq(Travas) /\ Len(LinhaVeiculo(v)) = 1
             /\ \A l : Contem(LinhaVeiculo(v), l) <=> l = Trava("veiculo", v, FALSE)
  BY <1>0, UnicaTipada DEF AdvVeiculo, LinhaVeiculo
<1> QED BY <1>1, <1>2

\* A creation: the model, then the garage if there is something to put there.
LEMMA PlanoDaCriacao ==
  ASSUME NEW t \in Requisicoes, t.op = "CRIAR", NEW novos
  PROVE  LET s == PlanoCriar(t, novos) IN
         /\ s \in Seq(Travas) /\ Len(s) >= 1
         /\ s[1] = Trava("modelo", t.modelo, FALSE)
         /\ \A i \in 2..Len(s) : s[i] = Trava("garagem", t.local, FALSE) /\ t.local # Nada
         /\ novos # {} /\ t.local # Nada => Contem(s, Trava("garagem", t.local, FALSE))
<1> DEFINE m == LinhaModelo(t.modelo)
           g == IF novos = {} THEN <<>> ELSE LinhasGaragens({t.local}, FALSE)
<1>1. t.modelo \in Modelos /\ t.modelo # Nada /\ t.local \in Garagens \cup {Nada}
  BY Campos, ConstantesAssumption
<1>2. m = <<Trava("modelo", t.modelo, FALSE)>>
  BY <1>1 DEF LinhaModelo
<1>3. m \in Seq(Travas) /\ Len(m) = 1 /\ m[1] = Trava("modelo", t.modelo, FALSE)
  <2>1. m \in Seq(Travas)
    BY <1>1, ModeloTipado
  <2> DEFINE x == Trava("modelo", t.modelo, FALSE)
  <2>2. m = <<x>>
    BY <1>2
  <2> HIDE DEF m, x
  <2>3. Len(m) = 1 /\ m[1] = x
    BY <2>2
  <2> QED BY <2>1, <2>3 DEF x
<1>4. {t.local} \in SUBSET (Garagens \cup {Nada}) /\ FALSE \in BOOLEAN
  BY <1>1
<1>5. /\ LinhasGaragens({t.local}, FALSE) \in Seq(Travas)
      /\ \A l : Contem(LinhasGaragens({t.local}, FALSE), l)
                  <=> \E x \in {t.local} \ {Nada} : l = Trava("garagem", x, FALSE)
  BY <1>4, GaragensTipadas, Zenon
<1>6. /\ g \in Seq(Travas)
      /\ \A l : Contem(g, l) => l = Trava("garagem", t.local, FALSE) /\ t.local # Nada
      /\ novos # {} /\ t.local # Nada => Contem(g, Trava("garagem", t.local, FALSE))
  BY <1>5, VaziaTipada
<1>7. PlanoCriar(t, novos) = m \o g
  BY DEF PlanoCriar
<1> HIDE DEF m, g
<1>8. /\ m \o g \in Seq(Travas) /\ Len(m \o g) >= 1
      /\ (m \o g)[1] = Trava("modelo", t.modelo, FALSE)
  <2>1. m \o g \in Seq(Travas)
    BY <1>3, <1>6, Concatenadas
  <2>2. /\ Len(g) \in Nat /\ Len(m \o g) = Len(m) + Len(g)
        /\ \A i \in 1..Len(m) : (m \o g)[i] = m[i]
    BY <1>3, <1>6, Emendadas
  <2>3. 1 \in 1..Len(m)
    BY <1>3
  <2>4. (m \o g)[1] = m[1]
    BY <2>2, <2>3
  <2>5. Len(m \o g) >= 1
    BY <1>3, <2>2
  <2>6. (m \o g)[1] = Trava("modelo", t.modelo, FALSE)
    BY <1>3, <2>4, Zenon
  <2> QED BY <2>1, <2>5, <2>6
<1>9. \A i \in 2..Len(m \o g) : Contem(g, (m \o g)[i])
  BY <1>3, <1>6, Emendadas
<1>10. novos # {} /\ t.local # Nada => Contem(m \o g, Trava("garagem", t.local, FALSE))
  BY <1>3, <1>6, Concatenadas
<1> QED BY <1>6, <1>7, <1>8, <1>9, <1>10

\* The locks of a plan that name garages name some, and a vehicle's row is
\* locked by an edit.
Garantida(s, op) ==
  /\ s \in Seq(Travas)
  /\ \A l : Contem(s, l) => /\ l.tipo = "garagem" => l.id \in Garagens
                            /\ l.tipo = "veiculo" => op = "EDITAR"

\* Garantida passes to a sequence from its two parts.
LEMMA GarantidasEmendadas ==
  ASSUME NEW s, NEW u, NEW op, Garantida(s, op), Garantida(u, op)
  PROVE  Garantida(s \o u, op)
<1>1. s \in Seq(Travas) /\ u \in Seq(Travas)
  BY DEF Garantida
<1>2. s \o u \in Seq(Travas) /\ \A l : Contem(s \o u, l) => Contem(s, l) \/ Contem(u, l)
  BY <1>1, Concatenadas
<1> QED BY <1>2 DEF Garantida

\* Each part of the plans is Garantida.
LEMMA GarantidasAsPartes ==
  /\ \A op : Garantida(<<>>, op)
  /\ \A op : \A m \in Modelos \cup {Nada} : Garantida(LinhaModelo(m), op)
  /\ \A op : \A r \in Reservas : Garantida(AdvReserva(r), op)
  /\ \A op : \A v \in Veiculos : Garantida(AdvVeiculo(v), op)
  /\ \A v \in Veiculos : Garantida(LinhaVeiculo(v), "EDITAR")
  /\ \A op : \A gs \in SUBSET (Garagens \cup {Nada}) : \A c \in BOOLEAN :
       Garantida(LinhasGaragens(gs, c), op)
  /\ \A op : \A rs \in SUBSET Reservas : Garantida(LinhasReservas(rs), op)
<1>0. \A tipo, id, c : /\ Trava(tipo, id, c).tipo = tipo
                       /\ Trava(tipo, id, c).id = id
  BY DEF Trava
<1>1. \A op : Garantida(<<>>, op)
  BY VaziaTipada DEF Garantida
<1>a. ASSUME NEW op, NEW s \in Seq(Travas), NEW tipo,
             \A l : Contem(s, l) => l.tipo = tipo,
             tipo = "garagem" => \A l : Contem(s, l) => l.id \in Garagens,
             tipo = "veiculo" => op = "EDITAR"
      PROVE  Garantida(s, op)
  BY <1>a DEF Garantida
<1>2. ASSUME NEW op, NEW m \in Modelos \cup {Nada} PROVE Garantida(LinhaModelo(m), op)
  <2>1. LinhaModelo(m) \in Seq(Travas)
    BY ModeloTipado
  <2>2. \A l : Contem(LinhaModelo(m), l) => l.tipo = "modelo"
    <3>1. \A l : Contem(LinhaModelo(m), l) => l = Trava("modelo", m, FALSE)
      BY ModeloTipado
    <3>2. Trava("modelo", m, FALSE).tipo = "modelo"
      BY DEF Trava
    <3> QED BY <3>1, <3>2
  <2>3. "modelo" # "garagem" /\ "modelo" # "veiculo"
    OBVIOUS
  <2> QED BY <1>a, <2>1, <2>2, <2>3
<1>3. ASSUME NEW op, NEW r \in Reservas PROVE Garantida(AdvReserva(r), op)
  <2>1. AdvReserva(r) \in Seq(Travas)
    BY AvulsasTipadas
  <2>2. \A l : Contem(AdvReserva(r), l) => l.tipo = "adv_reserva"
    <3>1. \A l : Contem(AdvReserva(r), l) => l = Trava("adv_reserva", r, FALSE)
      BY AvulsasTipadas
    <3>2. Trava("adv_reserva", r, FALSE).tipo = "adv_reserva"
      BY DEF Trava
    <3> QED BY <3>1, <3>2
  <2>3. "adv_reserva" # "garagem" /\ "adv_reserva" # "veiculo"
    OBVIOUS
  <2> QED BY <1>a, <2>1, <2>2, <2>3
<1>4. ASSUME NEW op, NEW v \in Veiculos PROVE Garantida(AdvVeiculo(v), op)
  <2>1. AdvVeiculo(v) \in Seq(Travas)
    BY AvulsasTipadas
  <2>2. \A l : Contem(AdvVeiculo(v), l) => l.tipo = "adv_veiculo"
    <3>1. \A l : Contem(AdvVeiculo(v), l) => l = Trava("adv_veiculo", v, FALSE)
      BY AvulsasTipadas
    <3>2. Trava("adv_veiculo", v, FALSE).tipo = "adv_veiculo"
      BY DEF Trava
    <3> QED BY <3>1, <3>2
  <2>3. "adv_veiculo" # "garagem" /\ "adv_veiculo" # "veiculo"
    OBVIOUS
  <2> QED BY <1>a, <2>1, <2>2, <2>3
<1>5. ASSUME NEW v \in Veiculos PROVE Garantida(LinhaVeiculo(v), "EDITAR")
  <2>1. LinhaVeiculo(v) \in Seq(Travas)
    BY AvulsasTipadas
  <2>2. \A l : Contem(LinhaVeiculo(v), l) => l.tipo = "veiculo"
    <3>1. \A l : Contem(LinhaVeiculo(v), l) => l = Trava("veiculo", v, FALSE)
      BY AvulsasTipadas
    <3>2. Trava("veiculo", v, FALSE).tipo = "veiculo"
      BY DEF Trava
    <3> QED BY <3>1, <3>2
  <2>3. "veiculo" # "garagem"
    OBVIOUS
  <2> QED BY <1>a, <2>1, <2>2, <2>3
<1>6. ASSUME NEW op, NEW gs \in SUBSET (Garagens \cup {Nada}), NEW c \in BOOLEAN
      PROVE  Garantida(LinhasGaragens(gs, c), op)
  <2>1. /\ LinhasGaragens(gs, c) \in Seq(Travas)
        /\ \A l : Contem(LinhasGaragens(gs, c), l)
                    <=> \E g \in gs \ {Nada} : l = Trava("garagem", g, c)
    BY GaragensTipadas, Zenon
  <2> QED BY <1>0, <2>1 DEF Garantida
<1>7. ASSUME NEW op, NEW rs \in SUBSET Reservas PROVE Garantida(LinhasReservas(rs), op)
  <2>1. /\ LinhasReservas(rs) \in Seq(Travas)
        /\ \A l : Contem(LinhasReservas(rs), l)
                    <=> \E r \in rs : l = Trava("reserva", r, FALSE)
    BY ReservasTipadas, Zenon
  <2>2. \A l : Contem(LinhasReservas(rs), l) => l.tipo = "reserva"
    <3>1. \A r \in rs : Trava("reserva", r, FALSE).tipo = "reserva"
      BY DEF Trava
    <3> QED BY <2>1, <3>1
  <2>3. "reserva" # "garagem" /\ "reserva" # "veiculo"
    OBVIOUS
  <2> QED BY <1>a, <2>1, <2>2, <2>3
<1> QED BY <1>1, <1>2, <1>3, <1>4, <1>5, <1>6, <1>7

\* The plan of a move that goes on from the vehicle's row.
RestoDoMovimento(v, origem, g) ==
  IF origem \in {Mesma, g} THEN <<>>
  ELSE GaragensDoMovimento(origem, g) \o LinhasReservas(DoVeiculo(v))

\* The rest of a move locks the garage it leaves and the one it goes to.
LEMMA RestoGarantido ==
  ASSUME NEW v \in Veiculos, NEW origem \in Garagem \cup {Mesma}, NEW g \in Garagem
  PROVE  /\ Garantida(RestoDoMovimento(v, origem, g), "EDITAR")
         /\ origem \notin {Mesma, g} =>
              \A x \in {origem, g} \ {Nada} :
                Contem(RestoDoMovimento(v, origem, g), Trava("garagem", x, FALSE))
<1>1. CASE origem \in {Mesma, g}
  BY <1>1, GarantidasAsPartes DEF RestoDoMovimento
<1>2. CASE origem \notin {Mesma, g}
  <2>1. {origem, g} \in SUBSET (Garagens \cup {Nada}) /\ FALSE \in BOOLEAN
    BY <1>2 DEF Garagem
  <2>2. DoVeiculo(v) \in SUBSET Reservas
    BY DEF DoVeiculo
  <2> DEFINE a == GaragensDoMovimento(origem, g)
             b == LinhasReservas(DoVeiculo(v))
  <2>3. /\ Garantida(a, "EDITAR") /\ Garantida(b, "EDITAR")
        /\ \A x \in {origem, g} \ {Nada} : Contem(a, Trava("garagem", x, FALSE))
    <3>1. \A l : Contem(LinhasGaragens({origem, g}, FALSE), l)
                   <=> \E x \in {origem, g} \ {Nada} : l = Trava("garagem", x, FALSE)
      BY <2>1, GaragensTipadas, Zenon
    <3>2. Garantida(LinhasGaragens({origem, g}, FALSE), "EDITAR")
      BY <2>1, GarantidasAsPartes, Zenon
    <3>3. Garantida(b, "EDITAR")
      BY <2>2, GarantidasAsPartes, Zenon
    <3> QED BY <3>1, <3>2, <3>3 DEF GaragensDoMovimento
  <2>4. RestoDoMovimento(v, origem, g) = a \o b
    BY <1>2 DEF RestoDoMovimento
  <2> HIDE DEF a, b
  <2>5. Garantida(a \o b, "EDITAR")
    BY <2>3, GarantidasEmendadas
  <2>6. \A l : Contem(a, l) => Contem(a \o b, l)
    BY <2>3, Concatenadas DEF Garantida
  <2> QED BY <2>3, <2>4, <2>5, <2>6
<1> QED BY <1>1, <1>2

\* Of an edit only the row of the vehicle and the garages matter: a move has its
\* vehicle first, as a lock and as a row, then the garages it touches.
LEMMA PlanoDaEdicao ==
  ASSUME NEW t \in Requisicoes, t.op = "EDITAR", NEW origem \in Garagem \cup {Mesma}
  PROVE  LET s == PlanoEditar(t, origem) IN
         /\ Garantida(s, "EDITAR")
         /\ t.local # Mesma =>
              /\ Len(s) >= 2
              /\ s[1] = Trava("adv_veiculo", t.veiculo, FALSE)
              /\ s[2] = Trava("veiculo", t.veiculo, FALSE)
              /\ origem \notin {Mesma, t.local} =>
                   \A x \in {origem, t.local} \ {Nada} : Contem(s, Trava("garagem", x, FALSE))
<1> DEFINE v == t.veiculo
           move == t.local # Mesma
           a == IF move THEN PlanoMover(v, origem, t.local)
                ELSE IF t.retira THEN AdvVeiculo(v) ELSE <<>>
           b == IF t.retira /\ (~move \/ origem = t.local)
                THEN LinhasReservas(DoVeiculo(v)) ELSE <<>>
           c == LinhaModelo(t.modelo)
           d == IF move THEN <<>> ELSE LinhaVeiculo(v)
<1>1. /\ v \in Veiculos /\ t.modelo \in Modelos \cup {Nada}
      /\ t.local \in Garagens \cup {Nada, Mesma}
      /\ move => t.local \in Garagem
  BY Campos DEF Garagem
<1>2. PlanoEditar(t, origem) = ((a \o b) \o c) \o d
  BY DEF PlanoEditar
<1>3. Garantida(b, "EDITAR") /\ Garantida(c, "EDITAR") /\ Garantida(d, "EDITAR")
  <2>1. DoVeiculo(v) \in SUBSET Reservas
    BY DEF DoVeiculo
  <2> QED BY <1>1, <2>1, GarantidasAsPartes
<1> DEFINE adv == AdvVeiculo(v)
           linha == LinhaVeiculo(v)
           resto == RestoDoMovimento(v, origem, t.local)
<1>4. /\ Garantida(adv, "EDITAR") /\ Garantida(linha, "EDITAR")
      /\ Len(adv) = 1 /\ Len(linha) = 1
      /\ adv[1] = Trava("adv_veiculo", v, FALSE) /\ linha[1] = Trava("veiculo", v, FALSE)
  <2>1. /\ Garantida(adv, "EDITAR") /\ Garantida(linha, "EDITAR")
        /\ Len(adv) = 1 /\ Len(linha) = 1
    BY <1>1, GarantidasAsPartes, AvulsasTipadas
  <2>2. \A x : <<x>>[1] = x
    OBVIOUS
  <2> QED BY <2>1, <2>2 DEF AdvVeiculo, LinhaVeiculo
<1>5. ASSUME move
      PROVE  /\ a = (adv \o linha) \o resto
             /\ Garantida(resto, "EDITAR")
             /\ origem \notin {Mesma, t.local} =>
                  \A x \in {origem, t.local} \ {Nada} : Contem(resto, Trava("garagem", x, FALSE))
  BY <1>1, <1>5, RestoGarantido DEF PlanoMover, RestoDoMovimento
<1>6. ~move => Garantida(a, "EDITAR")
  BY <1>4, GarantidasAsPartes
<1>7. move => Garantida(a, "EDITAR")
  <2> HIDE DEF adv, linha, resto, a
  <2> QED BY <1>4, <1>5, GarantidasEmendadas
<1> HIDE DEF a, b, c, d, adv, linha, resto
<1>8. Garantida(a, "EDITAR") /\ Garantida(a \o b, "EDITAR") /\ Garantida((a \o b) \o c, "EDITAR")
      /\ Garantida(((a \o b) \o c) \o d, "EDITAR")
  BY <1>3, <1>6, <1>7, GarantidasEmendadas
<1> DEFINE s == ((a \o b) \o c) \o d
<1>9. /\ Len(s) >= Len(a) /\ Len(a) \in Nat /\ \A i \in 1..Len(a) : s[i] = a[i]
      /\ \A l : Contem(a, l) => Contem(s, l)
  <2>1. /\ a \in Seq(Travas) /\ b \in Seq(Travas) /\ c \in Seq(Travas) /\ d \in Seq(Travas)
        /\ a \o b \in Seq(Travas) /\ (a \o b) \o c \in Seq(Travas)
    BY <1>3, <1>8 DEF Garantida
  <2>2. ASSUME NEW x \in Seq(Travas), NEW y \in Seq(Travas)
        PROVE  /\ Len(x) \in Nat /\ Len(x \o y) \in Nat /\ Len(x \o y) >= Len(x)
               /\ \A i \in 1..Len(x) : (x \o y)[i] = x[i]
               /\ \A l : Contem(x, l) => Contem(x \o y, l)
    BY Emendadas, Concatenadas
  <2>3. /\ Len(a) \in Nat /\ Len(a \o b) \in Nat /\ Len(a \o b) >= Len(a)
        /\ \A i \in 1..Len(a) : (a \o b)[i] = a[i]
        /\ \A l : Contem(a, l) => Contem(a \o b, l)
    BY <2>1, <2>2
  <2>4. /\ Len((a \o b) \o c) \in Nat /\ Len((a \o b) \o c) >= Len(a \o b)
        /\ \A i \in 1..Len(a \o b) : ((a \o b) \o c)[i] = (a \o b)[i]
        /\ \A l : Contem(a \o b, l) => Contem((a \o b) \o c, l)
    BY <2>1, <2>2
  <2>5. /\ Len(s) \in Nat /\ Len(s) >= Len((a \o b) \o c)
        /\ \A i \in 1..Len((a \o b) \o c) : s[i] = ((a \o b) \o c)[i]
        /\ \A l : Contem((a \o b) \o c, l) => Contem(s, l)
    BY <2>1, <2>2
  <2> HIDE DEF s
  <2> QED BY <2>3, <2>4, <2>5
<1>10. ASSUME move
       PROVE  /\ Len(a) >= 2
              /\ a[1] = Trava("adv_veiculo", v, FALSE)
              /\ a[2] = Trava("veiculo", v, FALSE)
              /\ \A l : Contem(resto, l) => Contem(a, l)
  <2>1. adv \in Seq(Travas) /\ linha \in Seq(Travas) /\ resto \in Seq(Travas)
    BY <1>4, <1>5, <1>10 DEF Garantida
  <2>2. /\ adv \o linha \in Seq(Travas) /\ Len(adv \o linha) = 2
        /\ (adv \o linha)[1] = adv[1]
        /\ (adv \o linha)[2] = linha[1]
    <3>1. adv \o linha \in Seq(Travas) /\ Len(adv \o linha) = 2
      <4>1. adv \o linha \in Seq(Travas) /\ Len(adv \o linha) = Len(adv) + Len(linha)
        BY <2>1, Concatenadas
      <4> QED BY <1>4, <4>1
    <3>2. \A i \in 1..Len(adv) : (adv \o linha)[i] = adv[i]
      BY <2>1, Emendadas
    <3>3. \A i \in (Len(adv) + 1)..Len(adv \o linha) : (adv \o linha)[i] = linha[i - Len(adv)]
      BY <2>1, Emendadas
    <3>4. 1 \in 1..Len(adv) /\ 2 \in (Len(adv) + 1)..Len(adv \o linha) /\ 2 - Len(adv) = 1
      BY <1>4, <3>1
    <3> QED BY <3>1, <3>2, <3>3, <3>4
  <2>3. /\ Len(a) = 2 + Len(resto) /\ Len(resto) \in Nat
        /\ \A i \in 1..2 : a[i] = (adv \o linha)[i]
        /\ \A l : Contem(resto, l) => Contem(a, l)
    <3>1. /\ Len(a) = Len(adv \o linha) + Len(resto) /\ Len(resto) \in Nat
          /\ \A i \in 1..Len(adv \o linha) : a[i] = (adv \o linha)[i]
      <4> DEFINE x == adv \o linha
      <4>1. x \in Seq(Travas) /\ a = x \o resto
        BY <1>5, <1>10, <2>2
      <4> HIDE DEF x
      <4>2. /\ Len(a) = Len(x) + Len(resto) /\ Len(resto) \in Nat
            /\ \A i \in 1..Len(x) : a[i] = x[i]
        BY <2>1, <4>1, Emendadas
      <4> QED BY <4>2 DEF x
    <3>2. \A l : Contem(resto, l) => Contem(a, l)
      <4> DEFINE x == adv \o linha
      <4>1. x \in Seq(Travas) /\ a = x \o resto
        BY <1>5, <1>10, <2>2
      <4> HIDE DEF x
      <4> QED BY <2>1, <4>1, Concatenadas
    <3> QED BY <2>2, <3>1, <3>2
  <2>4. 1 \in 1..2 /\ 2 \in 1..2 /\ Len(a) >= 2
    BY <2>3
  <2> QED BY <1>4, <2>2, <2>3, <2>4
<1>11. ASSUME move
       PROVE  /\ Len(s) >= 2
              /\ s[1] = Trava("adv_veiculo", v, FALSE)
              /\ s[2] = Trava("veiculo", v, FALSE)
  <2>0. s \in Seq(Travas)
    BY <1>8 DEF Garantida
  <2> HIDE DEF s
  <2>a. Len(a) \in Nat /\ Len(a) >= 2 /\ Len(s) >= Len(a)
    BY <1>9, <1>10, <1>11
  <2>b. Len(s) \in Nat
    BY <2>0
  <2>1. 1 \in 1..Len(a) /\ 2 \in 1..Len(a) /\ Len(s) \in Nat /\ Len(s) >= 2
    BY <2>a, <2>b
  <2> QED BY <1>9, <1>10, <1>11, <2>1
<1>12. Garantida(s, "EDITAR")
  BY <1>8
<1> HIDE DEF s
<1>13. PlanoEditar(t, origem) = s
  BY <1>2 DEF s
<1> QED BY <1>5, <1>9, <1>10, <1>11, <1>12, <1>13

\* The plan of an update of a garage is its row, then reservations.
LEMMA PlanoDaGaragem ==
  ASSUME NEW t \in Requisicoes, t.op = "GARAGEM", NEW vista
  PROVE  LET s == PlanoGaragem(t, vista) IN
         /\ Garantida(s, "GARAGEM") /\ Len(s) >= 1
         /\ s[1] = Trava("garagem", t.garagem, FALSE)
         /\ \A i \in 2..Len(s) : s[i].tipo = "reserva"
<1> DEFINE g == t.garagem
           a == LinhasGaragens({g}, FALSE)
           b == IF Indisponibiliza(t, vista) THEN LinhasReservas(DaGaragem(g)) ELSE <<>>
           s == a \o b
<1>1. g \in Garagens /\ g \in Nat /\ g # Nada
  BY Campos, ConstantesAssumption
<1>2. PlanoGaragem(t, vista) = s
  BY DEF PlanoGaragem
<1>3. /\ Garantida(a, "GARAGEM") /\ Garantida(b, "GARAGEM")
      /\ \A l : Contem(b, l) => l.tipo = "reserva"
  <2>1. {g} \in SUBSET (Garagens \cup {Nada}) /\ FALSE \in BOOLEAN
    BY <1>1
  <2>2. Garantida(a, "GARAGEM")
    BY <2>1, GarantidasAsPartes, Zenon
  <2> DEFINE x == LinhasReservas(DaGaragem(g))
  <2>3. DaGaragem(g) \in SUBSET Reservas
    BY DEF DaGaragem
  <2>4. Garantida(x, "GARAGEM")
    BY <2>3, GarantidasAsPartes, Zenon
  <2>5. \A l : Contem(x, l) => \E r \in DaGaragem(g) : l = Trava("reserva", r, FALSE)
    BY <2>3, ReservasTipadas, Zenon
  <2>6. \A r \in DaGaragem(g) : Trava("reserva", r, FALSE).tipo = "reserva"
    BY DEF Trava
  <2>7. \A l : Contem(x, l) => l.tipo = "reserva"
    BY <2>5, <2>6
  <2>8. b = x \/ b = <<>>
    OBVIOUS
  <2>9. Garantida(<<>>, "GARAGEM") /\ \A l : ~Contem(<<>>, l)
    BY GarantidasAsPartes, VaziaTipada
  <2> HIDE DEF a, b, x
  <2> QED BY <2>2, <2>4, <2>7, <2>8, <2>9
<1>4. Len(a) = 1 /\ a[1] = Trava("garagem", g, FALSE)
  <2>1. {g} \in SUBSET Nat /\ IsFiniteSet({g}) /\ Cardinality({g}) = 1
    BY <1>1, FS_Singleton
  <2>2. PICK id : Numera("garagem", {g}, FALSE, id)
    BY <2>1, EmOrdem
  <2>3. /\ id \in [1..1 -> {g}]
        /\ LinhasEmOrdem("garagem", {g}, FALSE) = [i \in 1..1 |-> Trava("garagem", id[i], FALSE)]
    BY <2>1, <2>2 DEF Numera
  <2>4. id[1] = g
    BY <2>3
  <2>5. {g} \ {Nada} = {g}
    BY <1>1
  <2>6. a = [i \in 1..1 |-> Trava("garagem", id[i], FALSE)]
    BY <2>3, <2>5 DEF LinhasGaragens
  <2> DEFINE x == Trava("garagem", g, FALSE)
  <2>7. \A i \in 1..1 : Trava("garagem", id[i], FALSE) = x
    <3>1. \A i \in 1..1 : id[i] = g
      BY <2>4
    <3> QED BY <3>1
  <2> HIDE DEF a, x
  <2>a. [i \in 1..1 |-> Trava("garagem", id[i], FALSE)] = [i \in 1..1 |-> x]
    BY <2>7, Zenon
  <2>8. a \in [1..1 -> {x}] /\ 1 \in 1..1
    <3>1. a = [i \in 1..1 |-> x]
      BY <2>6, <2>a, Zenon
    <3> QED BY <3>1
  <2>9. Len(a) = 1
    <3> DEFINE S == {x}
    <3>1. a \in [1..1 -> S] /\ 1 \in Nat
      BY <2>8
    <3> HIDE DEF S
    <3> QED BY <3>1, SequenciaDe
  <2>10. a[1] = x
    BY <2>8
  <2> QED BY <2>9, <2>10 DEF x
<1> HIDE DEF a, b
<1>5. a \in Seq(Travas) /\ b \in Seq(Travas)
  BY <1>3 DEF Garantida
<1>6. /\ Len(s) = Len(a) + Len(b) /\ Len(b) \in Nat
      /\ \A i \in 1..Len(a) : s[i] = a[i]
      /\ \A i \in (Len(a) + 1)..Len(s) : Contem(b, s[i])
  BY <1>5, Emendadas
<1>7. Garantida(s, "GARAGEM")
  BY <1>3, GarantidasEmendadas
<1> HIDE DEF s
<1>8. 1 \in 1..Len(a) /\ Len(s) >= 1 /\ Len(a) + 1 = 2
  BY <1>4, <1>6
<1>9. \A i \in 2..Len(s) : Contem(b, s[i])
  BY <1>6, <1>8
<1> QED BY <1>2, <1>3, <1>4, <1>6, <1>7, <1>8, <1>9

\* The plans of the reservations' transactions are Garantida.
LEMMA PlanoDaReserva ==
  ASSUME NEW t \in Requisicoes, t.op \in DeReserva
  PROVE  Garantida(PlanoReserva(t), t.op)
<1> DEFINE r == t.reserva
           v == VeiculoDe[r]
<1>1. r \in Reservas /\ v \in Veiculos /\ RetiradaDe[r] \in Garagens /\ DevolucaoDe[r] \in Garagens
  BY Campos, ConstantesAssumption
<1>2. /\ Garantida(AdvVeiculo(v), t.op) /\ Garantida(AdvReserva(r), t.op)
      /\ Garantida(LinhasReservas({r}), t.op)
  BY <1>1, GarantidasAsPartes
<1>3. \A gs \in SUBSET Garagens : Garantida(LinhasGaragens(gs, TRUE), t.op)
  <2> TAKE gs \in SUBSET Garagens
  <2>1. gs \in SUBSET (Garagens \cup {Nada}) /\ TRUE \in BOOLEAN
    OBVIOUS
  <2> QED BY <2>1, GarantidasAsPartes, Zenon
<1>4. /\ Garantida(LinhasGaragens(LocaisDe(r), TRUE), t.op)
      /\ Garantida(LinhasGaragens({DevolucaoDe[r]}, TRUE), t.op)
      /\ Garantida(LinhasGaragens({RetiradaDe[r]}, TRUE), t.op)
      /\ Garantida(LinhasGaragens({DevolucaoDe[r]} \ {RetiradaDe[r]}, TRUE), t.op)
  <2>1. /\ LocaisDe(r) \in SUBSET Garagens /\ {DevolucaoDe[r]} \in SUBSET Garagens
        /\ {RetiradaDe[r]} \in SUBSET Garagens
        /\ {DevolucaoDe[r]} \ {RetiradaDe[r]} \in SUBSET Garagens
    BY <1>1 DEF LocaisDe
  <2> QED BY <1>3, <2>1
<1>5. CASE t.op = "RESERVAR"
  <2>1. PlanoReserva(t) = AdvVeiculo(v) \o LinhasDasChaves(r)
    BY <1>5 DEF PlanoReserva
  <2> QED BY <1>2, <1>4, <2>1, GarantidasEmendadas DEF LinhasDasChaves
<1>6. CASE t.op = "PAGAR"
  <2>1. PlanoReserva(t) = ((AdvReserva(r) \o AdvVeiculo(v)) \o
            LinhasGaragens(LocaisDe(r), TRUE)) \o LinhasReservas({r})
    BY <1>6 DEF PlanoReserva
  <2> QED BY <1>2, <1>4, <2>1, GarantidasEmendadas
<1>7. CASE t.op = "ALTERAR"
  <2>1. PlanoReserva(t) = ((AdvReserva(r) \o AdvVeiculo(v)) \o
            LinhasGaragens({DevolucaoDe[r]}, TRUE)) \o LinhasReservas({r})
    BY <1>7 DEF PlanoReserva
  <2> QED BY <1>2, <1>4, <2>1, GarantidasEmendadas
<1>8. CASE t.op = "CANCELAR"
  <2>1. PlanoReserva(t) = AdvReserva(r) \o LinhasReservas({r})
    BY <1>8 DEF PlanoReserva
  <2> QED BY <1>2, <2>1, GarantidasEmendadas
<1> QED BY <1>5, <1>6, <1>7, <1>8 DEF DeReserva

LidoTipado(l) ==
  l \in [origem : Garagem \cup {Mesma}, novos : SUBSET Veiculos,
         vista : [Garagens -> Fotos \cup {Nada}]]

\* The plan of a transaction, given what it has read.
PlanoCom(t, l) ==
  IF t.op = "CRIAR" THEN PlanoCriar(t, l.novos)
  ELSE IF t.op = "EDITAR" THEN PlanoEditar(t, l.origem)
  ELSE IF t.op = "GARAGEM" THEN PlanoGaragem(t, l.vista)
  ELSE PlanoReserva(t)

\* Every plan is Garantida, whatever has been read.
LEMMA PlanoGarantido ==
  ASSUME NEW t \in Requisicoes, NEW l, LidoTipado(l)
  PROVE  Garantida(PlanoCom(t, l), t.op)
<1>0. t.op \in {"CRIAR", "EDITAR", "GARAGEM"} \cup DeReserva /\ l.origem \in Garagem \cup {Mesma}
  BY Campos DEF LidoTipado
<1>1. CASE t.op = "CRIAR"
  <2> DEFINE s == PlanoCriar(t, l.novos)
  <2>1. /\ s \in Seq(Travas)
        /\ s[1] = Trava("modelo", t.modelo, FALSE)
        /\ \A i \in 2..Len(s) : s[i] = Trava("garagem", t.local, FALSE) /\ t.local # Nada
    BY <1>1, PlanoDaCriacao
  <2>2. t.local \in Garagens \cup {Nada}
    BY <1>1, Campos
  <2>3. PlanoCom(t, l) = s
    BY <1>1 DEF PlanoCom
  <2> HIDE DEF s
  <2>4. ASSUME NEW x, Contem(s, x)
        PROVE  /\ x.tipo = "garagem" => x.id \in Garagens
               /\ x.tipo # "veiculo"
    <3>1. PICK i \in 1..Len(s) : s[i] = x
      BY <2>4 DEF Contem
    <3>2. CASE i = 1
      BY <2>1, <3>1, <3>2 DEF Trava
    <3>3. CASE i # 1
      <4>1. i \in 2..Len(s)
        BY <2>1, <3>1, <3>3
      <4> QED BY <2>1, <2>2, <3>1, <4>1 DEF Trava
    <3> QED BY <3>2, <3>3
  <2> QED BY <2>1, <2>3, <2>4 DEF Garantida
<1>2. CASE t.op = "EDITAR"
  BY <1>0, <1>2, PlanoDaEdicao DEF PlanoCom
<1>3. CASE t.op = "GARAGEM"
  BY <1>3, PlanoDaGaragem DEF PlanoCom
<1>4. CASE t.op \in DeReserva
  BY <1>4, PlanoDaReserva DEF PlanoCom, DeReserva
<1> QED BY <1>0, <1>1, <1>2, <1>3, <1>4

-----------------------------------------------------------------------------
(* What holds of each transaction, and between two.                        *)

Foto(g) ==
  [alocados |-> alocados[g], capacidade |-> capacidade[g], situacao |-> situacao[g]]

\* It holds no more locks than its plan has.
PlanoCabe(p) == travas[p] <= Len(Plano(p))

\* It has seen the garages whose rows it holds, and no other.
VistaTravada(p) ==
  \A g \in Garagens : lido[p].vista[g] # Nada <=>
    \E i \in 1..travas[p] : Plano(p)[i].tipo = "garagem" /\ Plano(p)[i].id = g

\* What it has seen of them is still so.
VistaEmDia(p) ==
  \A g \in Garagens : lido[p].vista[g] # Nada => lido[p].vista[g] = Foto(g)

Movimenta(p) == pedido[p].op = "EDITAR" /\ pedido[p].local # Mesma

\* A move knows where its vehicle is from the vehicle's row on, its second lock.
OrigemEmDia(p) ==
  lido[p].origem = IF Movimenta(p) /\ travas[p] >= 2 THEN local[pedido[p].veiculo]
                   ELSE Mesma

TransacaoInv(p) ==
  /\ PlanoCabe(p) /\ VistaTravada(p) /\ VistaEmDia(p) /\ OrigemEmDia(p)
  /\ pedido[p].op = "EDITAR" => pedido[p].veiculo \in existe

\* No two transactions hold locks that conflict.
Exclusao ==
  \A p, q \in Processos : p # q /\ EmCurso(p) /\ EmCurso(q) =>
    \A i \in 1..travas[p], j \in 1..travas[q] : ~Conflitam(Plano(p)[i], Plano(q)[j])

LivreLimpo ==
  \A p \in Processos : ~EmCurso(p) => travas[p] = 0 /\ lido[p] = NadaLido

TravasInv ==
  /\ TypeOK /\ LivreLimpo /\ Exclusao
  /\ \A p \in Processos : EmCurso(p) => TransacaoInv(p)

FrotaInv == TravasInv /\ ContagemExata /\ CapacidadeRespeitada

\* The plan of a transaction under way, and the types of what it is made from.
LEMMA PlanoTipado ==
  ASSUME TypeOK, NEW p \in Processos, EmCurso(p)
  PROVE  /\ pedido[p] \in Requisicoes /\ LidoTipado(lido[p])
         /\ Plano(p) = PlanoCom(pedido[p], lido[p])
         /\ Plano(p) \in Seq(Travas) /\ Len(Plano(p)) \in Nat
         /\ \A i \in 1..Len(Plano(p)) :
              /\ Plano(p)[i] \in Travas
              /\ Plano(p)[i].tipo = "garagem" => Plano(p)[i].id \in Garagens
              /\ Plano(p)[i].tipo = "veiculo" => pedido[p].op = "EDITAR"
<1>1. pedido[p] \in Requisicoes /\ LidoTipado(lido[p])
  BY ConstantesAssumption DEF TypeOK, EmCurso, LidoTipado
<1>2. Plano(p) = PlanoCom(pedido[p], lido[p])
  BY DEF Plano, PlanoCom
<1>3. Garantida(Plano(p), pedido[p].op)
  BY <1>1, <1>2, PlanoGarantido
<1>4. Plano(p) \in Seq(Travas)
  BY <1>3 DEF Garantida
<1>5. ASSUME NEW i \in 1..Len(Plano(p))
      PROVE  Plano(p)[i] \in Travas /\ Contem(Plano(p), Plano(p)[i])
  BY <1>4, IndiceContido
<1> QED BY <1>1, <1>2, <1>3, <1>4, <1>5 DEF Garantida

\* What the next lock brings, before the plan is looked at again.
LEMMA LeituraTipada ==
  ASSUME TypeOK, NEW p \in Processos, EmCurso(p), travas[p] + 1 \in 1..Len(Plano(p))
  PROVE  LidoTipado(Ler(p, Proxima(p)))
<1> DEFINE x == Proxima(p)
<1>1. /\ x.tipo = "garagem" => x.id \in Garagens
      /\ x.tipo = "veiculo" => pedido[p].op = "EDITAR"
  BY PlanoTipado DEF Proxima
<1>2. pedido[p] \in Requisicoes /\ LidoTipado(lido[p])
  BY PlanoTipado
<1>3. pedido[p].op = "CRIAR" => pedido[p].placas \in SUBSET Veiculos
  BY <1>2, Campos
<1>4. pedido[p].op = "EDITAR" => pedido[p].veiculo \in Veiculos
  BY <1>2, Campos
<1>5. \A v \in Veiculos : local[v] \in Garagem
  BY DEF TypeOK
<1>6. \A g \in Garagens : [alocados |-> alocados[g], capacidade |-> capacidade[g],
                           situacao |-> situacao[g]] \in Fotos
  BY DEF TypeOK, Fotos
<1> HIDE DEF x
<1>7. CASE x.tipo = "veiculo" /\ pedido[p].local # Mesma
  <2>1. Ler(p, x) = [lido[p] EXCEPT !.origem = local[pedido[p].veiculo]]
    BY <1>7 DEF Ler
  <2> QED BY <1>1, <1>2, <1>4, <1>5, <1>7, <2>1 DEF LidoTipado, x
<1>8. CASE ~(x.tipo = "veiculo" /\ pedido[p].local # Mesma)
           /\ x.tipo = "modelo" /\ pedido[p].op = "CRIAR"
  <2>1. Ler(p, x) = [lido[p] EXCEPT !.novos =
           IF pedido[p].lote THEN pedido[p].placas \ existe ELSE @]
    BY <1>8 DEF Ler
  <2> QED BY <1>2, <1>3, <1>8, <2>1 DEF LidoTipado, x
<1>9. CASE x.tipo = "garagem"
  <2> DEFINE f == [alocados |-> alocados[x.id], capacidade |-> capacidade[x.id],
                   situacao |-> situacao[x.id]]
  <2>1. Ler(p, x) = [lido[p] EXCEPT !.vista[x.id] = f]
    BY <1>9 DEF Ler
  <2>2. f \in Fotos
    BY <1>1, <1>6, <1>9
  <2> HIDE DEF f
  <2> QED BY <1>2, <2>1, <2>2 DEF LidoTipado, x
<1>10. CASE /\ ~(x.tipo = "veiculo" /\ pedido[p].local # Mesma)
            /\ ~(x.tipo = "modelo" /\ pedido[p].op = "CRIAR")
            /\ x.tipo # "garagem"
  <2>1. Ler(p, x) = lido[p]
    BY <1>10 DEF Ler
  <2> QED BY <1>2, <2>1 DEF x
<1> QED BY <1>7, <1>8, <1>9, <1>10

\* What is read with a lock changes nothing of the plan up to that lock: the
\* plates of a lot are known with the first, the vehicle's garage with the
\* second, and the garage of an update with the first.
LEMMA PrefixoMantido ==
  ASSUME TypeOK, NEW p \in Processos, EmCurso(p), OrigemEmDia(p),
         travas[p] + 1 \in 1..Len(Plano(p))
  PROVE  LET s == PlanoCom(pedido[p], Ler(p, Proxima(p))) IN
         /\ s \in Seq(Travas) /\ travas[p] + 1 <= Len(s)
         /\ \A i \in 1..(travas[p] + 1) : s[i] = Plano(p)[i]
<1> DEFINE t == pedido[p]
           x == Proxima(p)
           l == Ler(p, x)
           s == PlanoCom(t, l)
<1>0. PICK n \in Nat : n = travas[p]
  BY DEF TypeOK
<1>1. /\ t \in Requisicoes /\ LidoTipado(lido[p]) /\ LidoTipado(l)
      /\ Plano(p) = PlanoCom(t, lido[p])
      /\ n + 1 \in 1..Len(Plano(p)) /\ Len(Plano(p)) \in Nat
  BY <1>0, PlanoTipado, LeituraTipada
<1>2. s \in Seq(Travas) /\ Len(s) \in Nat
  <2>1. s \in Seq(Travas)
    BY <1>1, PlanoGarantido DEF Garantida
  <2> HIDE DEF s
  <2> QED BY <2>1
<1>3. s = Plano(p) => /\ n + 1 <= Len(s)
                      /\ \A i \in 1..(n + 1) : s[i] = Plano(p)[i]
  <2> HIDE DEF s
  <2> QED BY <1>1
<1>4. x = Plano(p)[n + 1]
  BY <1>0 DEF Proxima
<1>b. l = Ler(p, x)
  OBVIOUS
<1>c. n = 0 => \A i \in 1..(n + 1) : i = 1
  OBVIOUS
<1> SUFFICES /\ n + 1 <= Len(s)
             /\ \A i \in 1..(n + 1) : s[i] = Plano(p)[i]
  BY <1>0, <1>2
<1> HIDE DEF x, l, s
<1>5. CASE t.op = "CRIAR"
  <2>1. s = PlanoCriar(t, l.novos) /\ Plano(p) = PlanoCriar(t, lido[p].novos)
    BY <1>1, <1>5 DEF PlanoCom, s
  <2>2. CASE n = 0
    <3>1. s[1] = Plano(p)[1] /\ Len(s) >= 1
      BY <1>1, <1>5, <2>1, PlanoDaCriacao
    <3> QED BY <1>2, <1>c, <2>2, <3>1
  <2>3. CASE n # 0
    <3>1. n + 1 \in 2..Len(Plano(p))
      BY <1>1, <2>3
    <3>2. x = Trava("garagem", t.local, FALSE)
      <4>1. \A i \in 2..Len(Plano(p)) : Plano(p)[i] = Trava("garagem", t.local, FALSE)
        <5> DEFINE w == lido[p].novos
        <5>1. \A i \in 2..Len(PlanoCriar(t, w)) :
                PlanoCriar(t, w)[i] = Trava("garagem", t.local, FALSE)
          <6> HIDE DEF w
          <6> QED BY <1>1, <1>5, PlanoDaCriacao
        <5> QED BY <2>1, <5>1
      <4> QED BY <1>4, <3>1, <4>1
    <3>3. x.tipo = "garagem"
      BY <3>2 DEF Trava
    <3>4. l.novos = lido[p].novos
      BY <1>1, <1>5, <1>b, <3>3 DEF Ler, LidoTipado
    <3> QED BY <1>2, <1>3, <2>1, <3>4
  <2> QED BY <2>2, <2>3
<1>6. CASE t.op = "EDITAR"
  <2>1. s = PlanoEditar(t, l.origem) /\ Plano(p) = PlanoEditar(t, lido[p].origem)
    BY <1>1, <1>6 DEF PlanoCom, s
  <2>a. l.origem \in Garagem \cup {Mesma} /\ lido[p].origem \in Garagem \cup {Mesma}
    BY <1>1 DEF LidoTipado
  <2>2. l.origem = lido[p].origem
          => s = Plano(p)
    BY <2>1
  <2>3. \/ l.origem = lido[p].origem
        \/ l.origem = local[t.veiculo] /\ x.tipo = "veiculo" /\ t.local # Mesma
    <3>1. CASE x.tipo = "veiculo" /\ t.local # Mesma
      <4>1. l = [lido[p] EXCEPT !.origem = local[t.veiculo]]
        BY <1>b, <3>1 DEF Ler
      <4> QED BY <1>1, <3>1, <4>1 DEF LidoTipado
    <3>2. CASE ~(x.tipo = "veiculo" /\ t.local # Mesma)
      <4>1. CASE x.tipo = "garagem"
        <5>1. l = [lido[p] EXCEPT !.vista[x.id] = [alocados |-> alocados[x.id],
                     capacidade |-> capacidade[x.id], situacao |-> situacao[x.id]]]
          BY <1>b, <1>6, <3>2, <4>1 DEF Ler
        <5> QED BY <1>1, <5>1 DEF LidoTipado
      <4>2. CASE x.tipo # "garagem"
        BY <1>b, <1>6, <3>2, <4>2 DEF Ler
      <4> QED BY <4>1, <4>2
    <3> QED BY <3>1, <3>2
  <2>4. CASE l.origem # lido[p].origem
    <3>1. t.local # Mesma /\ x.tipo = "veiculo" /\ l.origem = local[t.veiculo]
      BY <2>3, <2>4
    <3>2. ~(n >= 2)
      BY <1>0, <1>6, <2>4, <3>1 DEF OrigemEmDia, Movimenta
    <3>3. /\ s[1] = Plano(p)[1] /\ s[2] = Plano(p)[2] /\ Len(s) >= 2
      BY <1>1, <1>6, <2>1, <2>a, <3>1, PlanoDaEdicao
    <3>4. n = 0 \/ n = 1
      BY <1>1, <3>2
    <3>5. n + 1 <= Len(s)
      BY <1>2, <3>3, <3>4
    <3>6. \A i \in 1..(n + 1) : i = 1 \/ i = 2
      BY <3>4
    <3> QED BY <1>2, <3>3, <3>5, <3>6
  <2> QED BY <1>2, <1>3, <2>2, <2>4
<1>7. CASE t.op = "GARAGEM"
  <2>1. s = PlanoGaragem(t, l.vista) /\ Plano(p) = PlanoGaragem(t, lido[p].vista)
    BY <1>1, <1>7 DEF PlanoCom, s
  <2>2. CASE n = 0
    <3>1. s[1] = Plano(p)[1] /\ Len(s) >= 1
      BY <1>1, <1>7, <2>1, PlanoDaGaragem
    <3> QED BY <1>2, <1>c, <2>2, <3>1
  <2>3. CASE n # 0
    <3>1. n + 1 \in 2..Len(Plano(p))
      BY <1>1, <2>3
    <3>2. x.tipo = "reserva"
      <4>1. \A i \in 2..Len(Plano(p)) : Plano(p)[i].tipo = "reserva"
        <5> DEFINE w == lido[p].vista
        <5>1. \A i \in 2..Len(PlanoGaragem(t, w)) : PlanoGaragem(t, w)[i].tipo = "reserva"
          <6> HIDE DEF w
          <6> QED BY <1>1, <1>7, PlanoDaGaragem
        <5> QED BY <2>1, <5>1
      <4> QED BY <1>4, <3>1, <4>1
    <3>4. l = lido[p]
      BY <1>1, <1>7, <1>b, <3>2 DEF Ler
    <3> QED BY <1>1, <1>2, <1>3, <3>4 DEF s
  <2> QED BY <2>2, <2>3
<1>8. CASE t.op \notin {"CRIAR", "EDITAR", "GARAGEM"}
  <2>1. s = Plano(p)
    BY <1>1, <1>8 DEF PlanoCom, s
  <2> QED BY <1>2, <1>3, <2>1
<1> QED BY <1>5, <1>6, <1>7, <1>8

Segura(p, l) == \E i \in 1..travas[p] : Plano(p)[i] = l

\* A transaction with all its locks holds each lock of its plan.
LEMMA SegurasNoFim ==
  ASSUME NEW p, Completo(p), NEW l, Contem(Plano(p), l)
  PROVE  Segura(p, l)
  BY DEF Completo, Contem, Segura

\* While a transaction holds a garage, no other has seen the garage.
LEMMA GaragemSoDeUm ==
  ASSUME TravasInv, NEW p \in Processos, NEW q \in Processos, p # q, EmCurso(p), EmCurso(q),
         NEW g \in Garagens, Segura(q, Trava("garagem", g, FALSE))
  PROVE  lido[p].vista[g] = Nada
<1> SUFFICES ASSUME lido[p].vista[g] # Nada PROVE FALSE
  OBVIOUS
<1>1. PICK i \in 1..travas[p] : Plano(p)[i].tipo = "garagem" /\ Plano(p)[i].id = g
  BY DEF TravasInv, TransacaoInv, VistaTravada
<1>2. PICK j \in 1..travas[q] : Plano(q)[j] = Trava("garagem", g, FALSE)
  BY DEF Segura
<1>3. ~Conflitam(Plano(p)[i], Plano(q)[j])
  BY DEF TravasInv, Exclusao
<1>4. /\ Plano(q)[j].tipo = "garagem" /\ Plano(q)[j].id = g
      /\ Plano(q)[j].compartilhada = FALSE
  BY <1>2 DEF Trava
<1> QED BY <1>1, <1>3, <1>4 DEF Conflitam

\* What it has seen of the garage is so.
LEMMA GaragemVista ==
  ASSUME TravasInv, NEW q \in Processos, EmCurso(q),
         NEW g \in Garagens, Segura(q, Trava("garagem", g, FALSE))
  PROVE  /\ lido[q].vista[g].alocados = alocados[g]
         /\ lido[q].vista[g].capacidade = capacidade[g]
         /\ lido[q].vista[g].situacao = situacao[g]
<1>1. PICK j \in 1..travas[q] : Plano(q)[j] = Trava("garagem", g, FALSE)
  BY DEF Segura
<1>2. Plano(q)[j].tipo = "garagem" /\ Plano(q)[j].id = g
  BY <1>1 DEF Trava
<1>3. lido[q].vista[g] # Nada
  BY <1>1, <1>2 DEF TravasInv, TransacaoInv, VistaTravada
<1>4. lido[q].vista[g] = Foto(g)
  BY <1>3 DEF TravasInv, TransacaoInv, VistaEmDia
<1> QED BY <1>4 DEF Foto

\* The first locks of a move are its vehicle's, advisory and row.
LEMMA TravasDaMudanca ==
  ASSUME TravasInv, NEW p \in Processos, EmCurso(p), Movimenta(p)
  PROVE  /\ Len(Plano(p)) >= 2
         /\ Plano(p)[1] = Trava("adv_veiculo", pedido[p].veiculo, FALSE)
         /\ Plano(p)[2] = Trava("veiculo", pedido[p].veiculo, FALSE)
         /\ lido[p].origem \notin {Mesma, pedido[p].local} =>
              \A x \in {lido[p].origem, pedido[p].local} \ {Nada} :
                Contem(Plano(p), Trava("garagem", x, FALSE))
<1>1. /\ pedido[p] \in Requisicoes /\ LidoTipado(lido[p])
      /\ Plano(p) = PlanoCom(pedido[p], lido[p])
  BY PlanoTipado DEF TravasInv
<1>2. lido[p].origem \in Garagem \cup {Mesma} /\ pedido[p].local # Mesma
  BY <1>1 DEF LidoTipado, Movimenta
<1>3. Plano(p) = PlanoEditar(pedido[p], lido[p].origem)
  BY <1>1 DEF PlanoCom, Movimenta
<1> DEFINE t == pedido[p]
           o == lido[p].origem
<1>4. t.op = "EDITAR" /\ t.local # Mesma /\ t \in Requisicoes /\ o \in Garagem \cup {Mesma}
  BY <1>1, <1>2 DEF Movimenta
<1>5. Plano(p) = PlanoEditar(t, o)
  BY <1>3
<1> HIDE DEF t, o
<1>6. /\ Len(PlanoEditar(t, o)) >= 2
      /\ PlanoEditar(t, o)[1] = Trava("adv_veiculo", t.veiculo, FALSE)
      /\ PlanoEditar(t, o)[2] = Trava("veiculo", t.veiculo, FALSE)
      /\ o \notin {Mesma, t.local} =>
           \A x \in {o, t.local} \ {Nada} :
             Contem(PlanoEditar(t, o), Trava("garagem", x, FALSE))
  BY <1>4, PlanoDaEdicao
<1> QED BY <1>5, <1>6 DEF t, o

\* While a move holds its vehicle's row, no other move knows the vehicle.
LEMMA VeiculoSoDeUm ==
  ASSUME TravasInv, NEW p \in Processos, NEW q \in Processos, p # q, EmCurso(p), EmCurso(q),
         Movimenta(p), travas[p] >= 2, Movimenta(q), travas[q] >= 2
  PROVE  pedido[p].veiculo # pedido[q].veiculo
<1>1. travas[p] \in Nat /\ travas[q] \in Nat
  BY DEF TravasInv, TypeOK
<1>2. 2 \in 1..travas[p] /\ 2 \in 1..travas[q]
  BY <1>1
<1>3. ~Conflitam(Plano(p)[2], Plano(q)[2])
  BY <1>2 DEF TravasInv, Exclusao
<1>4. /\ Plano(p)[2] = Trava("veiculo", pedido[p].veiculo, FALSE)
      /\ Plano(q)[2] = Trava("veiculo", pedido[q].veiculo, FALSE)
  BY TravasDaMudanca
<1> QED BY <1>3, <1>4 DEF Conflitam, Trava

\* A transaction ends: the others go on as before if what they have seen of the
\* fleet is still so.
LEMMA FimDeUma ==
  ASSUME TravasInv, TypeOK', NEW q \in Processos, Encerrar(q), existe \subseteq existe',
         \A p \in Processos \ {q} : EmCurso(p) =>
           /\ \A g \in Garagens : lido[p].vista[g] # Nada =>
                /\ alocados'[g] = alocados[g]
                /\ capacidade'[g] = capacidade[g]
                /\ situacao'[g] = situacao[g]
           /\ Movimenta(p) /\ travas[p] >= 2 =>
                local'[pedido[p].veiculo] = local[pedido[p].veiculo]
  PROVE  TravasInv'
<1>1. /\ pedido'[q] = Livre /\ travas'[q] = 0 /\ lido'[q] = NadaLido
      /\ \A p \in Processos \ {q} : /\ pedido'[p] = pedido[p] /\ travas'[p] = travas[p]
                                    /\ lido'[p] = lido[p]
  BY DEF Encerrar, TravasInv, TypeOK
<1>2. \A p \in Processos \ {q} : (EmCurso(p)' <=> EmCurso(p)) /\ Plano(p)' = Plano(p)
  BY <1>1 DEF EmCurso, Plano
<1>3. ~EmCurso(q)'
  BY <1>1 DEF EmCurso
<1>4. LivreLimpo'
  <2>1. ASSUME NEW p \in Processos, ~EmCurso(p)'
        PROVE  travas'[p] = 0 /\ lido'[p] = NadaLido
    BY <1>1, <1>2, <2>1 DEF TravasInv, LivreLimpo
  <2>2. NadaLido' = NadaLido
    BY DEF NadaLido
  <2> QED BY <2>1, <2>2 DEF LivreLimpo
<1>5. Exclusao'
  <2> SUFFICES ASSUME NEW p \in Processos, NEW u \in Processos, p # u, EmCurso(p)', EmCurso(u)'
               PROVE  \A i \in 1..travas'[p], j \in 1..travas'[u] :
                        ~Conflitam(Plano(p)[i], Plano(u)[j])'
    BY DEF Exclusao
  <2>1. p # q /\ u # q
    BY <1>3
  <2>2. EmCurso(p) /\ EmCurso(u) /\ travas'[p] = travas[p] /\ travas'[u] = travas[u]
        /\ Plano(p)' = Plano(p) /\ Plano(u)' = Plano(u)
    BY <1>1, <1>2, <2>1
  <2>3. \A i \in 1..travas[p], j \in 1..travas[u] : ~Conflitam(Plano(p)[i], Plano(u)[j])
    BY <2>2 DEF TravasInv, Exclusao
  <2> QED BY <2>2, <2>3 DEF Conflitam
<1>6. ASSUME NEW p \in Processos, EmCurso(p)' PROVE TransacaoInv(p)'
  <2>0. p # q
    BY <1>3, <1>6
  <2>1. /\ EmCurso(p) /\ pedido'[p] = pedido[p] /\ travas'[p] = travas[p]
        /\ lido'[p] = lido[p] /\ Plano(p)' = Plano(p)
    BY <1>1, <1>2, <1>6, <2>0
  <2>2. TransacaoInv(p)
    BY <2>1 DEF TravasInv
  <2>3. PlanoCabe(p)'
    BY <2>1, <2>2 DEF TransacaoInv, PlanoCabe
  <2>4. VistaTravada(p)'
    BY <2>1, <2>2 DEF TransacaoInv, VistaTravada
  <2>5. VistaEmDia(p)'
    BY <2>0, <2>1, <2>2 DEF TransacaoInv, VistaEmDia, Foto
  <2>6. OrigemEmDia(p)'
    BY <2>0, <2>1, <2>2 DEF TransacaoInv, OrigemEmDia, Movimenta
  <2> QED BY <2>1, <2>2, <2>3, <2>4, <2>5, <2>6 DEF TransacaoInv
<1> QED BY <1>4, <1>5, <1>6 DEF TravasInv

\* A request starts with no lock and nothing read.
LEMMA PedirMantem ==
  ASSUME TravasInv, NEW q \in Processos, NEW t \in Pedidos, Pedir(q, t)
  PROVE  TravasInv'
<1>0. t \in Requisicoes /\ t # Livre
  BY ConstantesAssumption, Campos
<1>1. /\ pedido'[q] = t /\ travas'[q] = 0 /\ travas[q] = 0 /\ ~EmCurso(q)
      /\ lido[q] = NadaLido
      /\ \A p \in Processos \ {q} : /\ pedido'[p] = pedido[p] /\ travas'[p] = travas[p]
                                    /\ lido'[p] = lido[p]
      /\ lido'[q].origem = Mesma /\ lido'[q].vista = [g \in Garagens |-> Nada]
  BY DEF Pedir, TravasInv, TypeOK, LivreLimpo, EmCurso, NadaLido
<1>2. TypeOK'
  <2>1. t.op = "CRIAR" => t.placas \in SUBSET Veiculos
    BY <1>0, Campos
  <2>2. lido' \in [Processos -> [origem : Garagem \cup {Mesma}, novos : SUBSET Veiculos,
                                 vista : [Garagens -> Fotos \cup {Nada}]]]
    BY <2>1 DEF Pedir, TravasInv, TypeOK
  <2> QED BY <2>2 DEF Pedir, TravasInv, TypeOK, frota
<1>3. \A p \in Processos \ {q} : (EmCurso(p)' <=> EmCurso(p)) /\ Plano(p)' = Plano(p)
  BY <1>1 DEF EmCurso, Plano
<1>4. LivreLimpo'
  <2>1. EmCurso(q)'
    BY <1>0, <1>1 DEF EmCurso
  <2>2. NadaLido' = NadaLido
    BY DEF NadaLido
  <2> QED BY <1>1, <1>3, <2>1, <2>2 DEF TravasInv, LivreLimpo
<1>5. Exclusao'
  <2> SUFFICES ASSUME NEW p \in Processos, NEW u \in Processos, p # u, EmCurso(p)', EmCurso(u)',
                      NEW i \in 1..travas'[p], NEW j \in 1..travas'[u]
               PROVE  ~Conflitam(Plano(p)[i], Plano(u)[j])'
    BY DEF Exclusao
  <2>1. p # q /\ u # q
    <3>1. \A k : k \notin 1..0
      OBVIOUS
    <3> QED BY <1>1, <3>1
  <2>2. EmCurso(p) /\ EmCurso(u) /\ travas'[p] = travas[p] /\ travas'[u] = travas[u]
        /\ Plano(p)' = Plano(p) /\ Plano(u)' = Plano(u)
    BY <1>1, <1>3, <2>1
  <2>3. ~Conflitam(Plano(p)[i], Plano(u)[j])
    BY <2>2 DEF TravasInv, Exclusao
  <2> QED BY <2>2, <2>3 DEF Conflitam
<1>6. ASSUME NEW p \in Processos \ {q}, EmCurso(p)' PROVE TransacaoInv(p)'
  <2>1. /\ EmCurso(p) /\ pedido'[p] = pedido[p] /\ travas'[p] = travas[p]
        /\ lido'[p] = lido[p] /\ Plano(p)' = Plano(p) /\ UNCHANGED frota
    BY <1>1, <1>3, <1>6 DEF Pedir
  <2>2. TransacaoInv(p)
    BY <2>1 DEF TravasInv
  <2> QED BY <2>1, <2>2 DEF TransacaoInv, PlanoCabe, VistaTravada, VistaEmDia, Foto,
             OrigemEmDia, Movimenta, frota
<1>7. TransacaoInv(q)'
  <2>1. Len(Plano(q)') \in Nat
    <3>1. EmCurso(q)'
      BY <1>0, <1>1 DEF EmCurso
    <3>2. Len(Plano(q))' \in Nat
      BY <1>2, <3>1, PlanoTipado
    <3> QED BY <3>2
  <2>2. PlanoCabe(q)'
    BY <1>1, <2>1 DEF PlanoCabe
  <2>3. VistaTravada(q)' /\ VistaEmDia(q)' /\ OrigemEmDia(q)'
    BY <1>1 DEF VistaTravada, VistaEmDia, OrigemEmDia
  <2>4. pedido'[q].op = "EDITAR" => pedido'[q].veiculo \in existe'
    BY <1>1 DEF Pedir, frota
  <2> QED BY <2>2, <2>3, <2>4 DEF TransacaoInv
<1> QED BY <1>2, <1>4, <1>5, <1>6, <1>7 DEF TravasInv

\* A lock is granted only when no other transaction holds one that conflicts.
LEMMA TravarMantem ==
  ASSUME TravasInv, NEW q \in Processos, Travar(q)
  PROVE  TravasInv'
<1>0. PICK n \in Nat : n = travas[q]
  BY DEF TravasInv, TypeOK
<1> DEFINE x == Proxima(q)
           l == Ler(q, x)
<1>1. /\ TypeOK /\ EmCurso(q) /\ TransacaoInv(q)
      /\ n + 1 \in 1..Len(Plano(q)) /\ Len(Plano(q)) \in Nat
  <2>1. TypeOK /\ EmCurso(q) /\ TransacaoInv(q) /\ n # Len(Plano(q))
    BY <1>0 DEF Travar, TravasInv, Completo
  <2>2. Len(Plano(q)) \in Nat
    BY <2>1, PlanoTipado
  <2> QED BY <1>0, <2>1, <2>2 DEF TransacaoInv, PlanoCabe
<1>2. /\ pedido' = pedido /\ UNCHANGED frota
      /\ travas'[q] = n + 1 /\ lido'[q] = l
      /\ \A p \in Processos \ {q} : travas'[p] = travas[p] /\ lido'[p] = lido[p]
  BY <1>0, <1>1 DEF Travar, TypeOK
<1>3. LidoTipado(l)
  BY <1>0, <1>1, LeituraTipada
<1>4. TypeOK'
  <2>1. travas' \in [Processos -> Nat]
    BY <1>0, <1>1 DEF Travar, TypeOK
  <2>2. lido' \in [Processos -> [origem : Garagem \cup {Mesma}, novos : SUBSET Veiculos,
                                 vista : [Garagens -> Fotos \cup {Nada}]]]
    <3> HIDE DEF l
    <3>1. lido' = [lido EXCEPT ![q] = l]
      BY DEF Travar, l
    <3> QED BY <1>1, <1>3, <3>1 DEF TypeOK, LidoTipado
  <2> QED BY <1>1, <1>2, <2>1, <2>2 DEF TypeOK, frota
<1>5. \A p \in Processos \ {q} : Plano(p)' = Plano(p)
  BY <1>2 DEF Plano
<1>6. \A p \in Processos : EmCurso(p)' <=> EmCurso(p)
  BY <1>2 DEF EmCurso
<1>7. /\ n + 1 <= Len(Plano(q)')
      /\ \A i \in 1..(n + 1) : Plano(q)'[i] = Plano(q)[i]
  <2>1. Plano(q)' = PlanoCom(pedido[q], l)
    BY <1>2 DEF Plano, PlanoCom, PlanoCriar, PlanoEditar, PlanoGaragem, PlanoReserva
  <2>2. /\ n + 1 <= Len(PlanoCom(pedido[q], l))
        /\ \A i \in 1..(n + 1) : PlanoCom(pedido[q], l)[i] = Plano(q)[i]
    BY <1>0, <1>1, PrefixoMantido DEF TransacaoInv
  <2> QED BY <2>1, <2>2
\* What q holds, with the lock it takes, conflicts with nothing the others hold.
<1>8. ASSUME NEW u \in Processos \ {q}, EmCurso(u),
             NEW i \in 1..(n + 1), NEW j \in 1..travas[u]
      PROVE  ~Conflitam(Plano(q)[i], Plano(u)[j])
  <2>1. CASE i = n + 1
    <3>1. ~EsperaPor(q, u)
      BY DEF Travar
    <3>2. ~Completo(q)
      BY DEF Travar
    <3>3. ~Conflitam(Proxima(q), Plano(u)[j])
      BY <1>1, <1>8, <3>1, <3>2 DEF EsperaPor
    <3> QED BY <1>0, <2>1, <3>3 DEF Proxima
  <2>2. CASE i # n + 1
    <3>1. i \in 1..travas[q]
      BY <1>0, <2>2
    <3> QED BY <1>1, <1>8, <3>1 DEF TravasInv, Exclusao
  <2> QED BY <2>1, <2>2
<1>9. Exclusao'
  <2> SUFFICES ASSUME NEW p \in Processos, NEW u \in Processos, p # u, EmCurso(p)', EmCurso(u)',
                      NEW i \in 1..travas'[p], NEW j \in 1..travas'[u]
               PROVE  ~Conflitam(Plano(p)[i], Plano(u)[j])'
    BY DEF Exclusao
  <2>0. EmCurso(p) /\ EmCurso(u)
    BY <1>6
  <2>1. CASE p = q
    <3>1. /\ i \in 1..(n + 1) /\ j \in 1..travas[u] /\ u \in Processos \ {q}
          /\ Plano(p)'[i] = Plano(q)[i] /\ Plano(u)' = Plano(u)
      BY <1>2, <1>5, <1>7, <2>1
    <3> QED BY <1>8, <2>0, <3>1 DEF Conflitam
  <2>2. CASE u = q
    <3>1. /\ j \in 1..(n + 1) /\ i \in 1..travas[p] /\ p \in Processos \ {q}
          /\ Plano(u)'[j] = Plano(q)[j] /\ Plano(p)' = Plano(p)
      BY <1>2, <1>5, <1>7, <2>2
    <3>2. ~Conflitam(Plano(q)[j], Plano(p)[i])
      BY <1>8, <2>0, <3>1
    <3> QED BY <3>1, <3>2 DEF Conflitam
  <2>3. CASE p # q /\ u # q
    <3>1. /\ i \in 1..travas[p] /\ j \in 1..travas[u]
          /\ Plano(p)' = Plano(p) /\ Plano(u)' = Plano(u)
      BY <1>2, <1>5, <2>3
    <3>2. ~Conflitam(Plano(p)[i], Plano(u)[j])
      BY <2>0, <3>1 DEF TravasInv, Exclusao
    <3> QED BY <3>1, <3>2 DEF Conflitam
  <2> QED BY <2>1, <2>2, <2>3
<1>10. ASSUME NEW p \in Processos \ {q}, EmCurso(p)' PROVE TransacaoInv(p)'
  <2>1. /\ EmCurso(p) /\ pedido'[p] = pedido[p] /\ travas'[p] = travas[p]
        /\ lido'[p] = lido[p] /\ Plano(p)' = Plano(p) /\ UNCHANGED frota
    BY <1>2, <1>5, <1>6, <1>10
  <2>2. TransacaoInv(p)
    BY <2>1 DEF TravasInv
  <2> QED BY <2>1, <2>2 DEF TransacaoInv, PlanoCabe, VistaTravada, VistaEmDia, Foto,
             OrigemEmDia, Movimenta, frota
<1>11. LivreLimpo'
  <2>1. NadaLido' = NadaLido
    BY DEF NadaLido
  <2>2. ASSUME NEW p \in Processos, ~EmCurso(p)'
        PROVE  travas'[p] = 0 /\ lido'[p] = NadaLido
    <3>1. p # q /\ ~EmCurso(p)
      BY <1>1, <1>6, <2>2
    <3> QED BY <1>2, <3>1 DEF TravasInv, LivreLimpo
  <2> QED BY <2>1, <2>2 DEF LivreLimpo
<1>12. PlanoCabe(q)'
  BY <1>2, <1>7 DEF PlanoCabe
\* A garage's row is the only lock with which a garage is seen, and the one to
\* which the plan's garages belong.
<1>13. /\ x = Plano(q)[n + 1]
       /\ x.tipo = "garagem" => x.id \in Garagens
       /\ x.tipo = "veiculo" => pedido[q].op = "EDITAR"
  BY <1>0, <1>1, PlanoTipado DEF Proxima
<1>14. LidoTipado(lido[q]) /\ pedido[q] \in Requisicoes
  BY <1>1, PlanoTipado
<1>15. /\ x.tipo = "garagem" => l = [lido[q] EXCEPT !.vista[x.id] = Foto(x.id)]
       /\ x.tipo # "garagem" => l.vista = lido[q].vista
       /\ x.tipo = "veiculo" /\ pedido[q].local # Mesma =>
            l.origem = local[pedido[q].veiculo]
       /\ ~(x.tipo = "veiculo" /\ pedido[q].local # Mesma) => l.origem = lido[q].origem
  <2> HIDE DEF x
  <2>1. CASE x.tipo = "veiculo" /\ pedido[q].local # Mesma
    <3>1. l = [lido[q] EXCEPT !.origem = local[pedido[q].veiculo]]
      BY <2>1 DEF Ler
    <3> HIDE DEF l
    <3> QED BY <1>14, <2>1, <3>1 DEF LidoTipado
  <2>2. CASE ~(x.tipo = "veiculo" /\ pedido[q].local # Mesma)
             /\ x.tipo = "modelo" /\ pedido[q].op = "CRIAR"
    <3>1. l = [lido[q] EXCEPT !.novos = IF pedido[q].lote THEN pedido[q].placas \ existe ELSE @]
      BY <2>2 DEF Ler
    <3> HIDE DEF l
    <3> QED BY <1>14, <2>2, <3>1 DEF LidoTipado
  <2>3. CASE x.tipo = "garagem"
    <3>1. l = [lido[q] EXCEPT !.vista[x.id] = Foto(x.id)]
      BY <2>3 DEF Ler, Foto
    <3> HIDE DEF l
    <3> QED BY <1>14, <2>3, <3>1 DEF LidoTipado
  <2>4. CASE /\ ~(x.tipo = "veiculo" /\ pedido[q].local # Mesma)
             /\ ~(x.tipo = "modelo" /\ pedido[q].op = "CRIAR")
             /\ x.tipo # "garagem"
    <3>1. l = lido[q]
      BY <2>4 DEF Ler
    <3> HIDE DEF l
    <3> QED BY <2>4, <3>1
  <2> QED BY <2>1, <2>2, <2>3, <2>4
<1> HIDE DEF x, l
<1>16. \A g \in Garagens : /\ Foto(g) \in Fotos /\ Foto(g) # Nada
                           /\ Foto(g)' = Foto(g)
  BY <1>1, <1>2, ConstantesAssumption DEF Foto, Fotos, TypeOK, frota
<1>17. VistaTravada(q)' /\ VistaEmDia(q)'
  <2> SUFFICES ASSUME NEW g \in Garagens
               PROVE  /\ lido'[q].vista[g] # Nada <=>
                           \E i \in 1..travas'[q] : /\ Plano(q)'[i].tipo = "garagem"
                                                    /\ Plano(q)'[i].id = g
                      /\ lido'[q].vista[g] # Nada => lido'[q].vista[g] = Foto(g)'
    BY DEF VistaTravada, VistaEmDia
  <2> DEFINE A(i) == Plano(q)[i].tipo = "garagem" /\ Plano(q)[i].id = g
  <2>1. /\ lido[q].vista[g] # Nada <=> \E i \in 1..n : A(i)
        /\ lido[q].vista[g] # Nada => lido[q].vista[g] = Foto(g)
    BY <1>0, <1>1 DEF TransacaoInv, VistaTravada, VistaEmDia
  <2>2. (\E i \in 1..travas'[q] : Plano(q)'[i].tipo = "garagem" /\ Plano(q)'[i].id = g)
          <=> \E i \in 1..(n + 1) : A(i)
    BY <1>2, <1>7
  <2>3. (\E i \in 1..(n + 1) : A(i)) <=> (\E i \in 1..n : A(i)) \/ A(n + 1)
    <3> HIDE DEF A
    <3>1. \A i \in 1..(n + 1) : i \in 1..n \/ i = n + 1
      OBVIOUS
    <3>2. n + 1 \in 1..(n + 1) /\ \A i \in 1..n : i \in 1..(n + 1)
      OBVIOUS
    <3> QED BY <3>1, <3>2
  <2>4. CASE A(n + 1)
    <3>1. x.tipo = "garagem" /\ x.id = g
      BY <1>13, <2>4
    <3>2. l.vista[g] = Foto(g)
      BY <1>14, <1>15, <3>1 DEF LidoTipado
    <3> QED BY <1>2, <1>16, <2>2, <2>3, <2>4, <3>2
  <2>5. CASE ~A(n + 1)
    <3>1. ~(x.tipo = "garagem" /\ x.id = g)
      BY <1>13, <2>5
    <3>2. l.vista[g] = lido[q].vista[g]
      BY <1>14, <1>15, <3>1 DEF LidoTipado
    <3> HIDE DEF A
    <3> QED BY <1>2, <1>16, <2>1, <2>2, <2>3, <2>5, <3>2
  <2> QED BY <2>4, <2>5
<1>18. OrigemEmDia(q)'
  <2>1. lido[q].origem = IF Movimenta(q) /\ n >= 2 THEN local[pedido[q].veiculo] ELSE Mesma
    BY <1>0, <1>1 DEF TransacaoInv, OrigemEmDia
  <2>2. Movimenta(q) /\ n = 1 => x.tipo = "veiculo"
    <3>1. Movimenta(q) => Plano(q)[2] = Trava("veiculo", pedido[q].veiculo, FALSE)
      BY <1>1, TravasDaMudanca
    <3> QED BY <1>13, <3>1 DEF Trava
  <2>3. Movimenta(q) /\ n = 0 => x.tipo # "veiculo"
    <3>1. Movimenta(q) => Plano(q)[1] = Trava("adv_veiculo", pedido[q].veiculo, FALSE)
      BY <1>1, TravasDaMudanca
    <3> QED BY <1>13, <3>1 DEF Trava
  <2>4. x.tipo = "veiculo" /\ pedido[q].local # Mesma => Movimenta(q)
    BY <1>13 DEF Movimenta
  <2>5. Movimenta(q) => pedido[q].local # Mesma
    BY DEF Movimenta
  <2>6. l.origem = IF Movimenta(q) /\ n + 1 >= 2 THEN local[pedido[q].veiculo] ELSE Mesma
    <3>1. n = 0 \/ n = 1 \/ n >= 2
      OBVIOUS
    <3> QED BY <1>15, <2>1, <2>2, <2>3, <2>4, <2>5, <3>1
  <2> QED BY <1>2, <2>6 DEF OrigemEmDia, Movimenta, frota
<1>19. TransacaoInv(q)'
  <2>1. pedido'[q].op = "EDITAR" => pedido'[q].veiculo \in existe'
    BY <1>1, <1>2 DEF TransacaoInv, frota
  <2> QED BY <1>12, <1>17, <1>18, <2>1 DEF TransacaoInv
<1> QED BY <1>4, <1>9, <1>10, <1>11, <1>19 DEF TravasInv

-----------------------------------------------------------------------------
(* The ends of the transactions.                                           *)

\* The invariant holds at the start.
LEMMA IniciaFrota == Init => FrotaInv
<1> SUFFICES ASSUME Init PROVE FrotaInv
  OBVIOUS
<1>1. Garagens \subseteq Nat /\ Capacidades \subseteq Nat /\ Nada \notin Nat
  BY ConstantesAssumption
<1>2. TypeOK
  <2>1. NadaLido \in [origem : Garagem \cup {Mesma}, novos : SUBSET Veiculos,
                      vista : [Garagens -> Fotos \cup {Nada}]]
    BY DEF NadaLido
  <2>2. situacao \in [Garagens -> StatusGaragem]
    BY DEF Init, StatusGaragem
  <2> QED BY <1>1, <2>1, <2>2 DEF Init, TypeOK, Garagem
<1>3. \A p \in Processos : ~EmCurso(p) /\ travas[p] = 0 /\ lido[p] = NadaLido
  BY DEF Init, EmCurso
<1>4. ContagemExata
  <2> SUFFICES ASSUME NEW g \in Garagens
               PROVE  alocados[g] = Cardinality({v \in existe : local[v] = g})
    BY DEF ContagemExata
  <2>1. {v \in existe : local[v] = g} = {} /\ alocados[g] = 0
    BY DEF Init
  <2> QED BY <2>1, FS_EmptySet
<1>5. CapacidadeRespeitada
  <2> SUFFICES ASSUME NEW g \in Garagens PROVE alocados[g] <= capacidade[g]
    BY DEF CapacidadeRespeitada
  <2>1. alocados[g] = 0 /\ capacidade[g] \in Nat
    BY <1>1 DEF Init
  <2> QED BY <2>1
<1> QED BY <1>2, <1>3, <1>4, <1>5 DEF FrotaInv, TravasInv, LivreLimpo, Exclusao

\* A set of vehicles has a number of elements.
LEMMA FrotaFinita ==
  ASSUME NEW S \in SUBSET Veiculos
  PROVE  IsFiniteSet(S) /\ Cardinality(S) \in Nat
<1>1. IsFiniteSet(S)
  BY ConstantesAssumption, FS_Subset
<1> QED BY <1>1, FS_CardinalityType

\* Two sets of vehicles without a vehicle in common are counted apart.
LEMMA Disjuntos ==
  ASSUME NEW S \in SUBSET Veiculos, NEW T \in SUBSET Veiculos, S \cap T = {}
  PROVE  Cardinality(S \cup T) = Cardinality(S) + Cardinality(T)
<1>1. /\ IsFiniteSet(S) /\ IsFiniteSet(T)
      /\ Cardinality(S) \in Nat /\ Cardinality(T) \in Nat
  BY FrotaFinita
<1>2. Cardinality(S \cup T) = Cardinality(S) + Cardinality(T) - Cardinality(S \cap T)
  BY <1>1, FS_Union
<1>3. Cardinality(S \cap T) = 0
  BY FS_EmptySet
<1> QED BY <1>1, <1>2, <1>3

\* What a transaction that ends leaves of the types, but for the fleet.
LEMMA TiposDoFim ==
  ASSUME TypeOK, NEW q \in Processos, Encerrar(q)
  PROVE  /\ pedido' \in [Processos -> Pedidos \cup {Livre}]
         /\ travas' \in [Processos -> Nat]
         /\ lido' \in [Processos -> [origem : Garagem \cup {Mesma}, novos : SUBSET Veiculos,
                                     vista : [Garagens -> Fotos \cup {Nada}]]]
<1>1. NadaLido \in [origem : Garagem \cup {Mesma}, novos : SUBSET Veiculos,
                    vista : [Garagens -> Fotos \cup {Nada}]]
  BY DEF NadaLido
<1> HIDE DEF NadaLido
<1> QED BY <1>1 DEF Encerrar, TypeOK

\* A rollback and the end of a reservation's transaction leave the fleet.
LEMMA SemEfeitoMantem ==
  ASSUME FrotaInv, NEW q \in Processos, Desfazer(q) \/ ConcluirReserva(q)
  PROVE  FrotaInv'
<1>1. Encerrar(q) /\ UNCHANGED frota
  BY DEF Desfazer, ConcluirReserva
<1>2. TypeOK'
  BY <1>1, TiposDoFim DEF FrotaInv, TravasInv, TypeOK, frota
<1>3. TravasInv'
  BY <1>1, <1>2, FimDeUma DEF FrotaInv, frota
<1> QED BY <1>1, <1>3 DEF FrotaInv, ContagemExata, CapacidadeRespeitada, frota

\* A creation has locked the garage where it puts the vehicles.
LEMMA CriacaoTrava ==
  ASSUME TravasInv, NEW q \in Processos, pedido[q].op = "CRIAR", Completo(q),
         pedido[q].local # Nada, lido[q].novos # {}
  PROVE  Segura(q, Trava("garagem", pedido[q].local, FALSE))
<1>1. EmCurso(q)
  BY DEF EmCurso, Livre
<1>2. /\ pedido[q] \in Requisicoes
      /\ Plano(q) = PlanoCom(pedido[q], lido[q])
  BY <1>1, PlanoTipado DEF TravasInv
<1> DEFINE t == pedido[q]
           w == lido[q].novos
<1>3. Plano(q) = PlanoCriar(t, w) /\ t \in Requisicoes /\ t.op = "CRIAR" /\ t.local # Nada
      /\ w # {}
  BY <1>2 DEF PlanoCom
<1> HIDE DEF t, w
<1>4. Contem(PlanoCriar(t, w), Trava("garagem", t.local, FALSE))
  BY <1>3, PlanoDaCriacao
<1>5. Contem(Plano(q), Trava("garagem", pedido[q].local, FALSE))
  BY <1>3, <1>4 DEF t
<1> QED BY <1>5, SegurasNoFim

\* A creation adds vehicles that did not exist to a garage it has locked.
LEMMA ConcluirCriacaoMantem ==
  ASSUME FrotaInv, NEW q \in Processos, ConcluirCriacao(q)
  PROVE  FrotaInv'
<1> DEFINE g == pedido[q].local
           novos == lido[q].novos
<1>0. /\ TravasInv /\ TypeOK /\ EmCurso(q) /\ TransacaoInv(q)
      /\ pedido[q].op = "CRIAR" /\ Completo(q) /\ Encerrar(q)
  BY DEF FrotaInv, TravasInv, ConcluirCriacao, EmCurso, Livre
<1>1. pedido[q] \in Requisicoes /\ LidoTipado(lido[q])
  BY <1>0, PlanoTipado
<1>2. /\ g \in Garagens \cup {Nada} /\ novos \in SUBSET Veiculos /\ novos \cap existe = {}
      /\ Nada \notin Garagens
  BY <1>0, <1>1, Campos, ConstantesAssumption DEF LidoTipado, ConcluirCriacao
<1>3. PICK k \in Nat : k = Cardinality(novos) /\ IsFiniteSet(novos) /\ (novos = {} => k = 0)
  <2>1. IsFiniteSet(novos)
    BY <1>2, ConstantesAssumption, FS_Subset
  <2> QED BY <2>1, FS_CardinalityType, FS_EmptySet
<1>4. /\ existe' = existe \cup novos
      /\ local' = [v \in Veiculos |-> IF v \in novos THEN g ELSE local[v]]
      /\ alocados' = IF g = Nada \/ novos = {} THEN alocados
                     ELSE [alocados EXCEPT ![g] = @ + k]
      /\ capacidade' = capacidade /\ situacao' = situacao
  BY <1>3 DEF ConcluirCriacao, Lugares
<1>5. g # Nada /\ novos # {} =>
        /\ Segura(q, Trava("garagem", g, FALSE)) /\ g \in Garagens
        /\ alocados[g] + k <= capacidade[g]
  <2> SUFFICES ASSUME g # Nada, novos # {}
               PROVE  /\ Segura(q, Trava("garagem", g, FALSE)) /\ g \in Garagens
                      /\ alocados[g] + k <= capacidade[g]
    OBVIOUS
  <2>1. Segura(q, Trava("garagem", g, FALSE)) /\ g \in Garagens
    BY <1>0, <1>2, CriacaoTrava
  <2>2. /\ lido[q].vista[g].alocados = alocados[g]
        /\ lido[q].vista[g].capacidade = capacidade[g]
    BY <1>0, <2>1, GaragemVista
  <2>3. Cabe(lido[q].vista[g], k)
    BY <1>3 DEF ConcluirCriacao, Lugares
  <2> QED BY <2>1, <2>2, <2>3 DEF Cabe
<1> HIDE DEF g, novos
\* The new vehicles are counted once.
<1>6. ContagemExata'
  <2> SUFFICES ASSUME NEW h \in Garagens
               PROVE  alocados'[h] = Cardinality({v \in existe' : local'[v] = h})
    BY DEF ContagemExata
  <2> DEFINE S == {v \in existe : local[v] = h}
             T == {v \in existe' : local'[v] = h}
  <2>1. alocados[h] = Cardinality(S) /\ alocados \in [Garagens -> Nat] /\ existe \subseteq Veiculos
    BY <1>0 DEF FrotaInv, ContagemExata, TypeOK
  <2>2. S \in SUBSET Veiculos /\ Cardinality(S) \in Nat
    <3>1. S \in SUBSET Veiculos
      BY <2>1
    <3> HIDE DEF S
    <3> QED BY <3>1, FrotaFinita
  <2>3. CASE h = g /\ novos # {}
    <3>1. T = S \cup novos /\ S \cap novos = {}
      BY <1>2, <1>4, <2>1, <2>3
    <3> HIDE DEF S, T
    <3>2. Cardinality(T) = Cardinality(S) + k
      BY <1>2, <1>3, <2>2, <3>1, Disjuntos
    <3>3. alocados'[h] = alocados[h] + k
      BY <1>2, <1>4, <2>1, <2>3
    <3> QED BY <2>1, <3>2, <3>3 DEF T
  <2>4. CASE ~(h = g /\ novos # {})
    <3>1. T = S
      BY <1>2, <1>4, <2>1, <2>4
    <3>2. alocados'[h] = alocados[h]
      BY <1>2, <1>4, <2>1, <2>4
    <3> QED BY <2>1, <3>1, <3>2
  <2> QED BY <2>3, <2>4
<1>7. TypeOK'
  <2>1. local' \in [Veiculos -> Garagem]
    BY <1>0, <1>2, <1>4 DEF TypeOK, Garagem
  <2>2. alocados' \in [Garagens -> Nat]
    BY <1>0, <1>2, <1>4 DEF TypeOK
  <2> QED BY <1>0, <1>2, <1>4, <2>1, <2>2, TiposDoFim DEF TypeOK
<1>8. TravasInv'
  <2> SUFFICES ASSUME NEW p \in Processos \ {q}, EmCurso(p)
               PROVE  /\ \A h \in Garagens : lido[p].vista[h] # Nada =>
                           /\ alocados'[h] = alocados[h]
                           /\ capacidade'[h] = capacidade[h]
                           /\ situacao'[h] = situacao[h]
                      /\ Movimenta(p) /\ travas[p] >= 2 =>
                           local'[pedido[p].veiculo] = local[pedido[p].veiculo]
    BY <1>0, <1>4, <1>7, FimDeUma
  <2>1. ASSUME NEW h \in Garagens, lido[p].vista[h] # Nada
        PROVE  alocados'[h] = alocados[h]
    <3>1. ~(h = g /\ novos # {})
      BY <1>0, <1>2, <1>5, <2>1, GaragemSoDeUm
    <3> QED BY <1>0, <1>2, <1>4, <3>1 DEF TypeOK
  <2>2. ASSUME Movimenta(p)
        PROVE  local'[pedido[p].veiculo] = local[pedido[p].veiculo]
    <3>1. pedido[p].veiculo \in existe
      BY <2>2 DEF Movimenta, FrotaInv, TravasInv, TransacaoInv
    <3>2. pedido[p].veiculo \in Veiculos /\ pedido[p].veiculo \notin novos
      BY <1>0, <1>2, <3>1 DEF TypeOK
    <3> QED BY <1>4, <3>2
  <2> QED BY <1>4, <2>1, <2>2
<1>9. CapacidadeRespeitada'
  <2> SUFFICES ASSUME NEW h \in Garagens PROVE alocados'[h] <= capacidade'[h]
    BY DEF CapacidadeRespeitada
  <2>1. alocados[h] <= capacidade[h]
    BY DEF FrotaInv, CapacidadeRespeitada
  <2> QED BY <1>0, <1>2, <1>4, <1>5, <2>1 DEF TypeOK
<1> QED BY <1>6, <1>8, <1>9 DEF FrotaInv

\* A move that is about to be written has locked its vehicle and both garages: it
\* leaves the garage the vehicle is in, and there is room where it goes.
LEMMA MudancaEmDia ==
  ASSUME TravasInv, NEW q \in Processos, ConcluirEdicao(q),
         pedido[q].local \notin {Mesma, lido[q].origem}
  PROVE  /\ Movimenta(q) /\ travas[q] >= 2
         /\ lido[q].origem = local[pedido[q].veiculo] /\ lido[q].origem \in Garagem
         /\ pedido[q].local \in Garagem
         /\ \A g \in {lido[q].origem, pedido[q].local} \ {Nada} :
              Segura(q, Trava("garagem", g, FALSE))
         /\ pedido[q].local # Nada =>
              /\ situacao[pedido[q].local] = "ATIVA"
              /\ alocados[pedido[q].local] + 1 <= capacidade[pedido[q].local]
<1> DEFINE t == pedido[q]
           origem == lido[q].origem
           destino == t.local
<1>0. /\ TypeOK /\ EmCurso(q) /\ TransacaoInv(q) /\ t.op = "EDITAR" /\ Completo(q)
  BY DEF TravasInv, ConcluirEdicao, EmCurso, Livre
<1>1. /\ t.veiculo \in Veiculos /\ destino \in Garagem \cup {Mesma}
  <2>1. t \in Requisicoes
    BY <1>0, PlanoTipado
  <2> QED BY <1>0, <2>1, Campos DEF Garagem
<1>2. Movimenta(q)
  BY <1>0 DEF Movimenta
<1>3. /\ Len(Plano(q)) >= 2
      /\ origem \notin {Mesma, destino} =>
           \A g \in {origem, destino} \ {Nada} : Contem(Plano(q), Trava("garagem", g, FALSE))
  BY <1>0, <1>2, TravasDaMudanca
<1>4. travas[q] >= 2
  BY <1>0, <1>3 DEF Completo
<1>5. origem = local[t.veiculo]
  BY <1>0, <1>2, <1>4 DEF TransacaoInv, OrigemEmDia
<1>6. origem \in Garagem /\ Mesma \notin Garagem
  BY <1>0, <1>1, <1>5, ConstantesAssumption DEF TypeOK, Garagem
<1>7. /\ origem \notin {Mesma, destino} /\ destino \in Garagem
  BY <1>1, <1>6
<1>8. \A g \in {origem, destino} \ {Nada} : Segura(q, Trava("garagem", g, FALSE))
  BY <1>0, <1>3, <1>7, SegurasNoFim
<1>9. ASSUME destino # Nada
      PROVE  situacao[destino] = "ATIVA" /\ alocados[destino] + 1 <= capacidade[destino]
  <2>1. destino \in Garagens /\ Segura(q, Trava("garagem", destino, FALSE))
    BY <1>7, <1>8, <1>9 DEF Garagem
  <2>2. /\ lido[q].vista[destino].alocados = alocados[destino]
        /\ lido[q].vista[destino].capacidade = capacidade[destino]
        /\ lido[q].vista[destino].situacao = situacao[destino]
    BY <1>0, <2>1, GaragemVista
  <2>3. Cabe(lido[q].vista[destino], 1)
    BY <1>9 DEF ConcluirEdicao, MovimentoAceito
  <2> QED BY <2>2, <2>3 DEF Cabe
<1> QED BY <1>2, <1>4, <1>5, <1>6, <1>7, <1>8, <1>9

\* A move that completes leaves one garage for another, both locked.
LEMMA ConcluirEdicaoMantem ==
  ASSUME FrotaInv, NEW q \in Processos, ConcluirEdicao(q)
  PROVE  FrotaInv'
<1> DEFINE t == pedido[q]
           v == t.veiculo
           origem == lido[q].origem
           destino == t.local
           muda == destino \notin {Mesma, origem}
<1>0. /\ TravasInv /\ TypeOK /\ EmCurso(q) /\ TransacaoInv(q)
      /\ t.op = "EDITAR" /\ Completo(q) /\ Encerrar(q)
  BY DEF FrotaInv, TravasInv, ConcluirEdicao, EmCurso, Livre
<1>1. t \in Requisicoes /\ LidoTipado(lido[q])
  BY <1>0, PlanoTipado
<1>2. /\ v \in Veiculos /\ v \in existe /\ destino \in Garagem \cup {Mesma}
      /\ Nada \notin Garagens
  BY <1>0, <1>1, Campos, ConstantesAssumption DEF TransacaoInv, Garagem
<1>3. /\ existe' = existe /\ capacidade' = capacidade /\ situacao' = situacao
      /\ muda => /\ local' = [local EXCEPT ![v] = destino]
                 /\ alocados' = [g \in Garagens |-> Contagem(g, origem, destino)]
      /\ ~muda => UNCHANGED <<local, alocados>>
  BY DEF ConcluirEdicao
<1>4. ASSUME muda
      PROVE  /\ Movimenta(q) /\ travas[q] >= 2 /\ origem = local[v] /\ origem \in Garagem
             /\ destino \in Garagem /\ origem # destino
             /\ \A g \in {origem, destino} \ {Nada} : Segura(q, Trava("garagem", g, FALSE))
             /\ destino # Nada => alocados[destino] + 1 <= capacidade[destino]
  BY <1>0, <1>4, MudancaEmDia
<1>a. \A g \in Garagens : alocados[g] \in Nat /\ alocados[g] <= capacidade[g]
                          /\ capacidade[g] \in Nat
  BY <1>0 DEF FrotaInv, CapacidadeRespeitada, TypeOK
<1> HIDE DEF t, v, origem, destino, muda
<1>b. muda => \A g \in Garagens : /\ g = destino => alocados'[g] = alocados[g] + 1
                                  /\ g = origem => alocados'[g] = alocados[g] - 1
                                  /\ g \notin {origem, destino} => alocados'[g] = alocados[g]
  BY <1>3, <1>4, <1>a DEF Contagem
\* The vehicle is counted where it goes and no longer where it was.
<1>5. \A g \in Garagens : /\ alocados'[g] = Cardinality({x \in existe' : local'[x] = g})
                          /\ alocados'[g] \in Nat
  <2> TAKE g \in Garagens
  <2> DEFINE S == {x \in existe : local[x] = g}
             T == {x \in existe' : local'[x] = g}
  <2>1. alocados[g] = Cardinality(S) /\ S \in SUBSET Veiculos /\ T \in SUBSET Veiculos
    BY <1>0, <1>3 DEF FrotaInv, ContagemExata, TypeOK
  <2>2. existe \subseteq Veiculos /\ local \in [Veiculos -> Garagem]
    BY <1>0 DEF TypeOK
  <2>3. alocados'[g] = Cardinality(T)
    <3>1. CASE muda /\ g = destino
      <4>1. T = S \cup {v} /\ v \notin S
        BY <1>2, <1>3, <1>4, <2>2, <3>1
      <4> HIDE DEF S, T
      <4>2. Cardinality(T) = Cardinality(S) + 1
        BY <2>1, <4>1, FrotaFinita, FS_AddElement
      <4> QED BY <1>b, <2>1, <3>1, <4>2
    <3>2. CASE muda /\ g = origem
      <4>1. T = S \ {v} /\ v \in S
        BY <1>2, <1>3, <1>4, <2>2, <3>2
      <4> HIDE DEF S, T
      <4>2. Cardinality(T) = Cardinality(S) - 1
        BY <2>1, <4>1, FrotaFinita, FS_RemoveElement
      <4> QED BY <1>b, <2>1, <3>2, <4>2
    <3>3. CASE muda /\ g \notin {origem, destino}
      <4>1. T = S
        BY <1>2, <1>3, <1>4, <2>2, <3>3
      <4> QED BY <1>b, <2>1, <3>3, <4>1
    <3>4. CASE ~muda
      <4>1. T = S /\ alocados'[g] = alocados[g]
        BY <1>3, <3>4
      <4> QED BY <2>1, <4>1
    <3> QED BY <3>1, <3>2, <3>3, <3>4
  <2>4. Cardinality(T) \in Nat
    <3> HIDE DEF T
    <3> QED BY <2>1, FrotaFinita
  <2> QED BY <2>3, <2>4
<1>6. ContagemExata'
  BY <1>5 DEF ContagemExata
<1>7. TypeOK'
  <2>1. local' \in [Veiculos -> Garagem]
    BY <1>0, <1>2, <1>3, <1>4 DEF TypeOK
  <2>2. alocados' \in [Garagens -> Nat]
    <3>1. muda => alocados' = [g \in Garagens |-> alocados'[g]]
      BY <1>3
    <3>2. ~muda => alocados' = [g \in Garagens |-> alocados'[g]]
      BY <1>0, <1>3 DEF TypeOK
    <3> QED BY <1>5, <3>1, <3>2
  <2> QED BY <1>0, <1>3, <2>1, <2>2, TiposDoFim DEF TypeOK
<1>8. TravasInv'
  <2> SUFFICES ASSUME NEW p \in Processos \ {q}, EmCurso(p)
               PROVE  /\ \A h \in Garagens : lido[p].vista[h] # Nada =>
                           /\ alocados'[h] = alocados[h]
                           /\ capacidade'[h] = capacidade[h]
                           /\ situacao'[h] = situacao[h]
                      /\ Movimenta(p) /\ travas[p] >= 2 =>
                           local'[pedido[p].veiculo] = local[pedido[p].veiculo]
    BY <1>0, <1>3, <1>7, FimDeUma
  <2>1. ASSUME NEW h \in Garagens, lido[p].vista[h] # Nada
        PROVE  alocados'[h] = alocados[h]
    <3>1. CASE muda
      <4>1. h \notin {origem, destino}
        BY <1>0, <1>2, <1>4, <2>1, <3>1, GaragemSoDeUm
      <4> QED BY <1>b, <3>1, <4>1
    <3>2. CASE ~muda
      BY <1>3, <3>2
    <3> QED BY <3>1, <3>2
  <2>2. ASSUME Movimenta(p), travas[p] >= 2
        PROVE  local'[pedido[p].veiculo] = local[pedido[p].veiculo]
    <3>1. CASE muda
      <4>1. pedido[p].veiculo # v
        BY <1>0, <1>4, <2>2, <3>1, VeiculoSoDeUm DEF v, t
      <4>2. pedido[p].veiculo \in Veiculos
        BY <1>0, <2>2 DEF Movimenta, TravasInv, TransacaoInv, TypeOK
      <4> QED BY <1>0, <1>3, <3>1, <4>1, <4>2 DEF TypeOK
    <3>2. CASE ~muda
      BY <1>3, <3>2
    <3> QED BY <3>1, <3>2
  <2> QED BY <1>3, <2>1, <2>2
<1>9. CapacidadeRespeitada'
  <2> SUFFICES ASSUME NEW h \in Garagens PROVE alocados'[h] <= capacidade'[h]
    BY DEF CapacidadeRespeitada
  <2>1. CASE muda /\ h = destino
    BY <1>2, <1>3, <1>4, <1>a, <1>b, <2>1
  <2>2. CASE muda /\ h # destino
    BY <1>3, <1>a, <1>b, <2>2
  <2>3. CASE ~muda
    BY <1>3, <1>a, <2>3
  <2> QED BY <2>1, <2>2, <2>3
<1> QED BY <1>6, <1>8, <1>9 DEF FrotaInv

\* An edit of a garage that is about to be written has locked its row.
LEMMA GaragemEmMaos ==
  ASSUME TravasInv, NEW q \in Processos, pedido[q].op = "GARAGEM", Completo(q)
  PROVE  EmCurso(q) /\ Segura(q, Trava("garagem", pedido[q].garagem, FALSE))
<1> DEFINE t == pedido[q]
           g == t.garagem
           w == lido[q].vista
<1>0. TypeOK /\ EmCurso(q)
  BY DEF TravasInv, EmCurso, Livre
<1>1. t \in Requisicoes /\ t.op = "GARAGEM" /\ Plano(q) = PlanoCom(t, lido[q]) /\ Len(Plano(q)) \in Nat
  BY <1>0, PlanoTipado
<1>2. Plano(q) = PlanoGaragem(t, w)
  BY <1>1 DEF PlanoCom
<1> HIDE DEF w, t
<1>3. /\ Len(PlanoGaragem(t, w)) >= 1
      /\ PlanoGaragem(t, w)[1] = Trava("garagem", g, FALSE)
  BY <1>1, PlanoDaGaragem
<1>4. 1 \in 1..travas[q]
  BY <1>1, <1>2, <1>3 DEF Completo
<1> QED BY <1>0, <1>2, <1>3, <1>4 DEF Segura, t

\* A cut of the capacity looks at the number of vehicles under the garage's row.
LEMMA ConcluirGaragemMantem ==
  ASSUME FrotaInv, NEW q \in Processos, ConcluirGaragem(q)
  PROVE  FrotaInv'
<1> DEFINE t == pedido[q]
           g == t.garagem
<1>0. /\ TravasInv /\ TypeOK /\ EmCurso(q)
      /\ t.op = "GARAGEM" /\ Completo(q) /\ Encerrar(q)
  BY DEF FrotaInv, TravasInv, ConcluirGaragem, EmCurso, Livre
<1>1. t \in Requisicoes /\ LidoTipado(lido[q]) /\ Plano(q) = PlanoCom(t, lido[q])
      /\ Len(Plano(q)) \in Nat
  BY <1>0, PlanoTipado
<1>2. g \in Garagens /\ t.capacidade \in Nat \cup {Nada}
      /\ t.nova \in StatusGaragem \cup {"MESMA"}
  BY <1>0, <1>1, Campos
<1>3. /\ UNCHANGED <<existe, local, alocados>>
      /\ capacidade' = [capacidade EXCEPT ![g] = IF t.capacidade = Nada THEN @ ELSE t.capacidade]
      /\ situacao' = [situacao EXCEPT ![g] = IF t.nova = "MESMA" THEN @ ELSE t.nova]
      /\ t.capacidade # Nada => t.capacidade >= lido[q].vista[g].alocados
  BY DEF ConcluirGaragem
<1>4. Segura(q, Trava("garagem", g, FALSE))
  BY <1>0, GaragemEmMaos
<1>5. lido[q].vista[g].alocados = alocados[g]
  BY <1>0, <1>2, <1>4, GaragemVista
<1> HIDE DEF t, g
<1>6. TypeOK'
  <2>1. capacidade' \in [Garagens -> Nat] /\ situacao' \in [Garagens -> StatusGaragem]
    BY <1>0, <1>2, <1>3 DEF TypeOK
  <2> QED BY <1>0, <1>3, <2>1, TiposDoFim DEF TypeOK
<1>7. TravasInv'
  <2> SUFFICES ASSUME NEW p \in Processos \ {q}, EmCurso(p), NEW h \in Garagens,
                      lido[p].vista[h] # Nada
               PROVE  capacidade'[h] = capacidade[h] /\ situacao'[h] = situacao[h]
    BY <1>0, <1>3, <1>6, FimDeUma
  <2>1. h # g
    BY <1>0, <1>2, <1>4, GaragemSoDeUm
  <2> QED BY <1>0, <1>3, <2>1 DEF TypeOK
<1>8. ContagemExata'
  BY <1>3 DEF FrotaInv, ContagemExata
<1>9. CapacidadeRespeitada'
  <2> SUFFICES ASSUME NEW h \in Garagens PROVE alocados'[h] <= capacidade'[h]
    BY DEF CapacidadeRespeitada
  <2>1. alocados[h] <= capacidade[h] /\ alocados[h] \in Nat /\ capacidade[h] \in Nat
    BY <1>0 DEF FrotaInv, CapacidadeRespeitada, TypeOK
  <2> QED BY <1>0, <1>2, <1>3, <1>5, <2>1 DEF TypeOK
<1> QED BY <1>7, <1>8, <1>9 DEF FrotaInv

-----------------------------------------------------------------------------
(* The theorems.                                                           *)

\* The invariant does not depend on anything but the variables.
LEMMA FrotaParada ==
  ASSUME FrotaInv, UNCHANGED vars
  PROVE  FrotaInv'
<1>1. /\ existe' = existe /\ local' = local /\ capacidade' = capacidade
      /\ alocados' = alocados /\ situacao' = situacao
      /\ pedido' = pedido /\ travas' = travas /\ lido' = lido
  BY DEF vars, frota
<1>2. \A p \in Processos : /\ EmCurso(p)' <=> EmCurso(p)
                           /\ Plano(p)' = Plano(p)
                           /\ Movimenta(p)' <=> Movimenta(p)
  BY <1>1 DEF EmCurso, Plano, Movimenta
<1>3. TypeOK' /\ LivreLimpo' /\ ContagemExata' /\ CapacidadeRespeitada'
  BY <1>1, <1>2 DEF FrotaInv, TravasInv, TypeOK, LivreLimpo, NadaLido, ContagemExata,
     CapacidadeRespeitada
<1>4. Exclusao'
  BY <1>1, <1>2 DEF FrotaInv, TravasInv, Exclusao, Conflitam
<1>5. ASSUME NEW p \in Processos, EmCurso(p)' PROVE TransacaoInv(p)'
  <2>1. TransacaoInv(p)
    BY <1>2, <1>5 DEF FrotaInv, TravasInv
  <2> QED BY <1>1, <1>2, <2>1 DEF TransacaoInv, PlanoCabe, VistaTravada, VistaEmDia, Foto,
             OrigemEmDia
<1> QED BY <1>3, <1>4, <1>5 DEF FrotaInv, TravasInv

\* Every step preserves the invariant.
LEMMA FrotaPasso == FrotaInv /\ [Next]_vars => FrotaInv'
<1> SUFFICES ASSUME FrotaInv, [Next]_vars PROVE FrotaInv'
  OBVIOUS
<1>1. ASSUME NEW p \in Processos, NEW t \in Pedidos, Pedir(p, t) PROVE FrotaInv'
  <2>1. TravasInv'
    BY <1>1, PedirMantem DEF FrotaInv
  <2> QED BY <1>1, <2>1 DEF FrotaInv, Pedir, ContagemExata, CapacidadeRespeitada, frota
<1>2. ASSUME NEW p \in Processos, Travar(p) PROVE FrotaInv'
  <2>1. TravasInv'
    BY <1>2, TravarMantem DEF FrotaInv
  <2> QED BY <1>2, <2>1 DEF FrotaInv, Travar, ContagemExata, CapacidadeRespeitada, frota
<1>3. ASSUME NEW p \in Processos, Desfazer(p) \/ ConcluirReserva(p) PROVE FrotaInv'
  BY <1>3, SemEfeitoMantem
<1>4. ASSUME NEW p \in Processos, ConcluirCriacao(p) PROVE FrotaInv'
  BY <1>4, ConcluirCriacaoMantem
<1>5. ASSUME NEW p \in Processos, ConcluirEdicao(p) PROVE FrotaInv'
  BY <1>5, ConcluirEdicaoMantem
<1>6. ASSUME NEW p \in Processos, ConcluirGaragem(p) PROVE FrotaInv'
  BY <1>6, ConcluirGaragemMantem
<1>7. CASE UNCHANGED vars
  BY <1>7, FrotaParada
<1> QED BY <1>1, <1>2, <1>3, <1>4, <1>5, <1>6, <1>7 DEF Next

\* The invariant holds throughout.
LEMMA FrotaSempre == Spec => []FrotaInv
<1> QED BY IniciaFrota, FrotaPasso, PTL DEF Spec

\* Every variable keeps its type; no garage ever counts fewer than no vehicles.
THEOREM AlocacaoTipos == Spec => []TypeOK
<1>1. FrotaInv => TypeOK
  BY DEF FrotaInv, TravasInv
<1> QED BY <1>1, FrotaSempre, PTL

\* However transactions interleave, each garage's counter is at every commit the
\* number of vehicles whose row names the garage.
THEOREM ContagemSempreExata == Spec => []ContagemExata
<1>1. FrotaInv => ContagemExata
  BY DEF FrotaInv
<1> QED BY <1>1, FrotaSempre, PTL

\* However creations, moves and cuts of the capacity interleave, no garage holds
\* more vehicles than its capacity.
THEOREM CapacidadeNuncaExcedida == Spec => []CapacidadeRespeitada
<1>1. FrotaInv => CapacidadeRespeitada
  BY DEF FrotaInv
<1> QED BY <1>1, FrotaSempre, PTL

-----------------------------------------------------------------------------
(* The transactions behave as if each took effect at once.                 *)

\* The abstract fleet counts its vehicles as this module does.
LEMMA MesmaContagem == \A S : Atomica!Cardinality(S) = Cardinality(S)
BY DEF Atomica!Cardinality, Cardinality

\* What they read and decided by is what is there when they commit.
LEMMA Atomicidade == FrotaInv /\ [Next]_vars => [Atomica!Next]_Atomica!vars
<1> SUFFICES ASSUME FrotaInv, [Next]_vars PROVE [Atomica!Next]_Atomica!vars
  OBVIOUS
<1> USE DEF Atomica!vars
<1>0. TravasInv /\ TypeOK /\ \A g \in Garagens : alocados[g] = Atomica!Ocupacao(g)
  <2>1. TravasInv /\ ContagemExata
    BY DEF FrotaInv
  <2>2. TypeOK
    BY <2>1 DEF TravasInv
  <2> QED BY <2>1, <2>2, MesmaContagem DEF ContagemExata, Atomica!Ocupacao
<1>1. ASSUME UNCHANGED frota PROVE [Atomica!Next]_Atomica!vars
  BY <1>1 DEF frota, Abertas
<1>2. ASSUME NEW q \in Processos, ConcluirCriacao(q) PROVE [Atomica!Next]_Atomica!vars
  <2> DEFINE g == pedido[q].local
             novos == lido[q].novos
             k == Cardinality(novos)
  <2>1. pedido[q].op = "CRIAR" /\ Completo(q) /\ EmCurso(q)
    BY <1>2 DEF ConcluirCriacao, EmCurso, Livre
  <2>2. pedido[q] \in Requisicoes /\ LidoTipado(lido[q])
    BY <1>0, <2>1, PlanoTipado
  <2>3. g \in Garagens \cup {Nada} /\ novos \in SUBSET Veiculos
    BY <2>1, <2>2, Campos DEF LidoTipado
  <2>4. /\ novos \cap existe = {} /\ existe' = existe \cup novos
        /\ local' = [v \in Veiculos |-> IF v \in novos THEN g ELSE local[v]]
        /\ UNCHANGED <<capacidade, Abertas>>
    BY <1>2 DEF ConcluirCriacao, Abertas
  <2>5. CASE novos = {}
    <3>1. local' = [v \in Veiculos |-> local[v]] /\ existe' = existe
      BY <2>4, <2>5
    <3>2. local' = local
      BY <1>0, <3>1 DEF TypeOK
    <3> QED BY <2>4, <3>1, <3>2
  <2>6. CASE novos # {}
    <3>1. ASSUME g # Nada PROVE Abertas[g] /\ Atomica!Ocupacao(g) + k <= capacidade[g]
      <4>1. g \in Garagens /\ Segura(q, Trava("garagem", g, FALSE))
        BY <1>0, <2>1, <2>3, <2>6, <3>1, CriacaoTrava
      <4>2. Cabe(lido[q].vista[g], k)
        BY <1>2, <2>6, <3>1 DEF ConcluirCriacao, Lugares
      <4> HIDE DEF g, k
      <4>3. /\ lido[q].vista[g].alocados = alocados[g]
            /\ lido[q].vista[g].capacidade = capacidade[g]
            /\ lido[q].vista[g].situacao = situacao[g]
        BY <1>0, <2>1, <4>1, GaragemVista
      <4> QED BY <1>0, <4>1, <4>2, <4>3 DEF Cabe, Abertas
    <3>2. Atomica!Recebe(g, k)
      BY <3>1 DEF Atomica!Recebe
    <3>3. Atomica!Criar(novos, g)
      BY <2>4, <3>2, MesmaContagem DEF Atomica!Criar
    <3>4. novos \in (SUBSET Veiculos) \ {{}}
      BY <2>3, <2>6
    <3> HIDE DEF g, novos
    <3> QED BY <2>3, <3>3, <3>4 DEF Atomica!Next
  <2> QED BY <2>5, <2>6
<1>3. ASSUME NEW q \in Processos, ConcluirEdicao(q) PROVE [Atomica!Next]_Atomica!vars
  <2> DEFINE v == pedido[q].veiculo
             g == pedido[q].local
  <2>1. UNCHANGED <<existe, capacidade, situacao, Abertas>>
    BY <1>3 DEF ConcluirEdicao, Abertas
  <2>2. CASE g \in {Mesma, lido[q].origem}
    BY <1>3, <2>1, <2>2 DEF ConcluirEdicao
  <2>3. CASE g \notin {Mesma, lido[q].origem}
    <3>1. /\ lido[q].origem = local[v] /\ g \in Garagens \cup {Nada}
          /\ g # Nada => Abertas[g] /\ alocados[g] + 1 <= capacidade[g]
      BY <1>0, <1>3, <2>3, MudancaEmDia DEF Garagem, Abertas
    <3>2. v \in existe /\ v \in Veiculos
      BY <1>0, <1>3 DEF ConcluirEdicao, TravasInv, TransacaoInv, EmCurso, Livre, TypeOK
    <3>3. local' = [local EXCEPT ![v] = g]
      BY <1>3, <2>3 DEF ConcluirEdicao
    <3>4. Atomica!Recebe(g, 1)
      BY <1>0, <3>1 DEF Atomica!Recebe
    <3>5. Atomica!Mover(v, g)
      BY <2>1, <2>3, <3>1, <3>2, <3>3, <3>4 DEF Atomica!Mover
    <3> QED BY <3>1, <3>2, <3>5 DEF Atomica!Next
  <2> QED BY <2>2, <2>3
<1>4. ASSUME NEW q \in Processos, ConcluirGaragem(q) PROVE [Atomica!Next]_Atomica!vars
  <2> DEFINE t == pedido[q]
             g == t.garagem
             n == t.capacidade
             Dadas == {u.capacidade : u \in {w \in Pedidos : w.op = "GARAGEM"}} \ {Nada}
  <2>1. t.op = "GARAGEM" /\ EmCurso(q) /\ t \in Pedidos
    BY <1>0, <1>4 DEF ConcluirGaragem, EmCurso, Livre, TypeOK
  <2>2. g \in Garagens /\ n \in Nat \cup {Nada}
    <3>1. t \in Requisicoes
      BY <2>1, ConstantesAssumption
    <3> QED BY <2>1, <3>1, Campos
  <2>3. /\ UNCHANGED <<existe, local>>
        /\ capacidade' = [capacidade EXCEPT ![g] = IF n = Nada THEN @ ELSE n]
        /\ situacao' = [situacao EXCEPT ![g] = IF t.nova = "MESMA" THEN @ ELSE t.nova]
        /\ n # Nada => n >= lido[q].vista[g].alocados
    BY <1>4 DEF ConcluirGaragem
  <2>4. lido[q].vista[g].alocados = alocados[g]
    BY <1>0, <1>4, <2>2, GaragemEmMaos, GaragemVista DEF ConcluirGaragem
  <2>5. (\E m \in Dadas : Atomica!Limitar(g, m)) \/ UNCHANGED capacidade
    <3>1. CASE n = Nada
      <4>1. capacidade' = [capacidade EXCEPT ![g] = capacidade[g]]
        BY <2>3, <3>1
      <4> QED BY <1>0, <4>1 DEF TypeOK
    <3>2. CASE n # Nada
      <4>1. n \in Dadas
        BY <2>1, <3>2
      <4>2. capacidade' = [capacidade EXCEPT ![g] = n] /\ Atomica!Ocupacao(g) <= n
        BY <1>0, <2>2, <2>3, <2>4, <3>2 DEF TypeOK
      <4> QED BY <4>1, <4>2 DEF Atomica!Limitar
    <3> QED BY <3>1, <3>2
  <2>6. \E b \in BOOLEAN : Abertas' = [Abertas EXCEPT ![g] = b]
    <3>1. \A h \in Garagens \ {g} : situacao'[h] = situacao[h]
      BY <1>0, <2>3 DEF TypeOK
    <3>2. Abertas' = [Abertas EXCEPT ![g] = (situacao'[g] = "ATIVA")]
      BY <3>1 DEF Abertas
    <3>3. (situacao'[g] = "ATIVA") \in BOOLEAN
      OBVIOUS
    <3> QED BY <3>2, <3>3
  <2>7. Atomica!Editar(g)
    BY <2>3, <2>5, <2>6 DEF Atomica!Editar
  <2> QED BY <2>2, <2>7 DEF Atomica!Next
<1> QED
  BY <1>1, <1>2, <1>3, <1>4
  DEF Next, Pedir, Travar, Desfazer, ConcluirReserva, vars, frota

\* For any vehicles, garages, requests and number of transactions, the interleaved
\* transactions of the fleet implement the fleet whose operations take effect one
\* at a time and which has no counter.
THEOREM FrotaAtomica == Spec => ImplementaFrota
<1>1. Init => Atomica!Init
  BY DEF Init, Abertas, Atomica!Init
<1>2. FrotaInv /\ [Next]_vars => [Atomica!Next]_Atomica!vars
  BY Atomicidade
<1> QED BY <1>1, <1>2, FrotaSempre, PTL DEF Spec, ImplementaFrota, Atomica!Spec

-----------------------------------------------------------------------------
(* The order of the locks.                                                 *)

Grau(l) ==
  IF l.tipo = "adv_reserva" THEN 1
  ELSE IF l.tipo = "adv_veiculo" THEN 2
  ELSE IF l.tipo = "modelo" THEN 3
  ELSE IF l.tipo = "veiculo" THEN 4
  ELSE IF l.tipo = "garagem" THEN 5 ELSE 6

Antes(a, b) ==
  \/ Grau(a) < Grau(b)
  \/ Grau(a) = Grau(b) /\ Grau(a) >= 5 /\ a.id < b.id

Ordenada(s) == \A i, j \in 1..Len(s) : i < j => Antes(s[i], s[j])

Ids == Garagens \cup Reservas

\* Locks of the grades a to b, in order.
Entre(s, a, b) ==
  /\ s \in Seq(Travas) /\ Ordenada(s)
  /\ \A l : Contem(s, l) => /\ Grau(l) \in a..b
                            /\ Grau(l) >= 5 => l.id \in Ids

\* Two ordered sequences make one when all of the first comes before the second.
LEMMA OrdenadasEmendadas ==
  ASSUME NEW s \in Seq(Travas), NEW u \in Seq(Travas), Ordenada(s), Ordenada(u),
         \A a, b : Contem(s, a) /\ Contem(u, b) => Antes(a, b)
  PROVE  Ordenada(s \o u)
<1> SUFFICES ASSUME NEW i \in 1..Len(s \o u), NEW j \in 1..Len(s \o u), i < j
             PROVE  Antes((s \o u)[i], (s \o u)[j])
  BY DEF Ordenada
<1>1. /\ Len(s) \in Nat /\ Len(u) \in Nat /\ Len(s \o u) = Len(s) + Len(u)
      /\ \A k \in 1..Len(s) : (s \o u)[k] = s[k]
      /\ \A k \in (Len(s) + 1)..Len(s \o u) :
           (s \o u)[k] = u[k - Len(s)] /\ Contem(u, (s \o u)[k])
  BY Emendadas
<1>2. CASE j <= Len(s)
  <2>1. i \in 1..Len(s) /\ j \in 1..Len(s)
    BY <1>1, <1>2
  <2> QED BY <1>1, <2>1 DEF Ordenada
<1>3. CASE i <= Len(s) /\ ~(j <= Len(s))
  <2>1. i \in 1..Len(s) /\ j \in (Len(s) + 1)..Len(s \o u)
    BY <1>1, <1>3
  <2>2. Contem(s, (s \o u)[i]) /\ Contem(u, (s \o u)[j])
    BY <1>1, <2>1, IndiceContido
  <2> QED BY <2>2
<1>4. CASE ~(i <= Len(s))
  <2>1. i \in (Len(s) + 1)..Len(s \o u) /\ j \in (Len(s) + 1)..Len(s \o u)
    BY <1>1, <1>4
  <2>2. /\ (s \o u)[i] = u[i - Len(s)] /\ (s \o u)[j] = u[j - Len(s)]
    BY <1>1, <2>1
  <2>3. i - Len(s) \in 1..Len(u) /\ j - Len(s) \in 1..Len(u) /\ i - Len(s) < j - Len(s)
    BY <1>1, <2>1
  <2> QED BY <2>2, <2>3 DEF Ordenada
<1> QED BY <1>2, <1>3, <1>4

\* Locks of lower grades before locks of higher ones are in order.
LEMMA EntreEmendadas ==
  ASSUME NEW a \in Nat, NEW b \in Nat, NEW c \in Nat, NEW d \in Nat, a <= b, b < c, c <= d,
         NEW s, NEW u, Entre(s, a, b), Entre(u, c, d)
  PROVE  Entre(s \o u, a, d)
<1>1. s \in Seq(Travas) /\ u \in Seq(Travas) /\ Ordenada(s) /\ Ordenada(u)
  BY DEF Entre
<1>2. \A x, y : Contem(s, x) /\ Contem(u, y) => Antes(x, y)
  BY DEF Entre, Antes
<1>3. s \o u \in Seq(Travas) /\ \A l : Contem(s \o u, l) => Contem(s, l) \/ Contem(u, l)
  BY <1>1, Concatenadas
<1>4. Ordenada(s \o u)
  BY <1>1, <1>2, OrdenadasEmendadas
<1>5. \A l : Contem(s, l) => Grau(l) \in a..d /\ (Grau(l) >= 5 => l.id \in Ids)
  BY DEF Entre
<1>6. \A l : Contem(u, l) => Grau(l) \in a..d /\ (Grau(l) >= 5 => l.id \in Ids)
  BY DEF Entre
<1> QED BY <1>3, <1>4, <1>5, <1>6 DEF Entre

\* The same within wider bounds.
LEMMA EntreMais ==
  ASSUME NEW a \in Nat, NEW b \in Nat, NEW c \in Nat, NEW d \in Nat, a <= c, d <= b,
         NEW s, Entre(s, c, d)
  PROVE  Entre(s, a, b)
  BY DEF Entre

\* No locks are in order within any bounds.
LEMMA EntreVazia ==
  ASSUME NEW a \in Nat, NEW b \in Nat
  PROVE  Entre(<<>>, a, b)
<1>1. \A i : i \notin 1..0
  OBVIOUS
<1> QED BY <1>1, VaziaTipada DEF Entre, Ordenada

\* One lock is in order.
LEMMA EntreUma ==
  ASSUME NEW l \in Travas, NEW k \in 1..6, Grau(l) = k, k < 5
  PROVE  Entre(<<l>>, k, k)
<1>1. <<l>> \in Seq(Travas) /\ Len(<<l>>) = 1 /\ <<l>>[1] = l
  OBVIOUS
<1>2. \A x : Contem(<<l>>, x) => x = l
  BY <1>1 DEF Contem
<1>3. Ordenada(<<l>>)
  BY <1>1 DEF Ordenada
<1> QED BY <1>1, <1>2, <1>3 DEF Entre

\* The rows of garages and of reservations are in the order of their identifiers.
LEMMA EntreLinhas ==
  ASSUME NEW tipo \in {"garagem", "reserva"}, NEW ids \in SUBSET Ids, NEW c \in BOOLEAN
  PROVE  Entre(LinhasEmOrdem(tipo, ids, c), IF tipo = "garagem" THEN 5 ELSE 6,
               IF tipo = "garagem" THEN 5 ELSE 6)
<1>1. ids \in SUBSET Nat /\ IsFiniteSet(ids)
  <2>1. Ids \in SUBSET Nat /\ IsFiniteSet(Ids)
    BY ConstantesAssumption, FS_Union DEF Ids
  <2> QED BY <2>1, FS_Subset
<1>2. tipo \in Tipos
  BY DEF Tipos
<1> DEFINE s == LinhasEmOrdem(tipo, ids, c)
           k == IF tipo = "garagem" THEN 5 ELSE 6
<1>3. s \in Seq(Travas) /\ \A l : Contem(s, l) => \E x \in ids : l = Trava(tipo, x, c)
  <2>1. /\ LinhasEmOrdem(tipo, ids, c) \in Seq(Travas)
        /\ \A l : Contem(LinhasEmOrdem(tipo, ids, c), l)
                    <=> \E x \in ids : l = Trava(tipo, x, c)
    BY <1>1, <1>2, LinhasTipadas, Zenon
  <2> QED BY <2>1
<1>4. \A x : Grau(Trava(tipo, x, c)) = k /\ Trava(tipo, x, c).id = x
  BY DEF Grau, Trava
<1>5. PICK n \in Nat : n = Cardinality(ids)
  BY <1>1, EmOrdem
<1>6. PICK id : Numera(tipo, ids, c, id)
  BY <1>1, EmOrdem
<1>7. /\ id \in [1..n -> ids]
      /\ s = [i \in 1..n |-> Trava(tipo, id[i], c)]
      /\ \A i, j \in 1..n : i < j => id[i] < id[j]
  BY <1>5, <1>6 DEF Numera
<1> HIDE DEF s
<1>8. Len(s) = n /\ \A i \in 1..n : s[i] = Trava(tipo, id[i], c)
  <2>1. DOMAIN s = 1..n
    BY <1>7
  <2>2. Len(s) = n
    BY <1>3, <1>5, <2>1
  <2> QED BY <1>7, <2>2
<1>9. Ordenada(s)
  <2> SUFFICES ASSUME NEW i \in 1..n, NEW j \in 1..n, i < j PROVE Antes(s[i], s[j])
    BY <1>8 DEF Ordenada
  <2>1. id[i] < id[j]
    BY <1>7
  <2>2. Grau(s[i]) = k /\ Grau(s[j]) = k /\ s[i].id = id[i] /\ s[j].id = id[j]
    BY <1>4, <1>8
  <2> QED BY <2>1, <2>2 DEF Antes
<1>10. \A l : Contem(s, l) => Grau(l) = k /\ l.id \in Ids
  BY <1>3, <1>4
<1>11. Entre(s, k, k)
  BY <1>3, <1>9, <1>10 DEF Entre
<1> QED BY <1>11 DEF s

\* The locks of a plan, one by one.
LEMMA EntreAsPartes ==
  /\ \A r \in Reservas : Entre(AdvReserva(r), 1, 1)
  /\ \A v \in Veiculos : Entre(AdvVeiculo(v), 2, 2) /\ Entre(LinhaVeiculo(v), 4, 4)
  /\ \A m \in Modelos \cup {Nada} : Entre(LinhaModelo(m), 3, 3)
  /\ \A gs \in SUBSET (Garagens \cup {Nada}) : \A c \in BOOLEAN : Entre(LinhasGaragens(gs, c), 5, 5)
  /\ \A rs \in SUBSET Reservas : Entre(LinhasReservas(rs), 6, 6)
<1>1. ASSUME NEW r \in Reservas PROVE Entre(AdvReserva(r), 1, 1)
  <2> DEFINE l == Trava("adv_reserva", r, FALSE)
  <2>1. l \in Travas /\ Grau(l) = 1
    BY ConstantesAssumption DEF Trava, Travas, Tipos, Grau
  <2> HIDE DEF l
  <2>2. Entre(<<l>>, 1, 1)
    BY <2>1, EntreUma
  <2> QED BY <2>2 DEF l, AdvReserva
<1>2. ASSUME NEW v \in Veiculos PROVE Entre(AdvVeiculo(v), 2, 2)
  <2> DEFINE l == Trava("adv_veiculo", v, FALSE)
  <2>1. l \in Travas /\ Grau(l) = 2
    BY DEF Trava, Travas, Tipos, Grau
  <2> HIDE DEF l
  <2>2. Entre(<<l>>, 2, 2)
    BY <2>1, EntreUma
  <2> QED BY <2>2 DEF l, AdvVeiculo
<1>3. ASSUME NEW v \in Veiculos PROVE Entre(LinhaVeiculo(v), 4, 4)
  <2> DEFINE l == Trava("veiculo", v, FALSE)
  <2>1. l \in Travas /\ Grau(l) = 4
    BY DEF Trava, Travas, Tipos, Grau
  <2> HIDE DEF l
  <2>2. Entre(<<l>>, 4, 4)
    BY <2>1, EntreUma
  <2> QED BY <2>2 DEF l, LinhaVeiculo
<1>4. ASSUME NEW m \in Modelos \cup {Nada} PROVE Entre(LinhaModelo(m), 3, 3)
  <2>1. CASE m = Nada
    BY <2>1, EntreVazia DEF LinhaModelo
  <2>2. CASE m # Nada
    <3> DEFINE l == Trava("modelo", m, FALSE)
    <3>1. l \in Travas /\ Grau(l) = 3
      BY <2>2 DEF Trava, Travas, Tipos, Grau
    <3> HIDE DEF l
    <3>2. Entre(<<l>>, 3, 3)
      BY <3>1, EntreUma
    <3> QED BY <2>2, <3>2 DEF l, LinhaModelo
  <2> QED BY <2>1, <2>2
<1>5. ASSUME NEW gs \in SUBSET (Garagens \cup {Nada}), NEW c \in BOOLEAN
      PROVE  Entre(LinhasGaragens(gs, c), 5, 5)
  <2>1. gs \ {Nada} \in SUBSET Ids /\ "garagem" \in {"garagem", "reserva"}
    BY DEF Ids
  <2> HIDE DEF Ids
  <2>2. Entre(LinhasEmOrdem("garagem", gs \ {Nada}, c),
              IF "garagem" = "garagem" THEN 5 ELSE 6, IF "garagem" = "garagem" THEN 5 ELSE 6)
    BY <2>1, EntreLinhas
  <2> QED BY <2>2 DEF LinhasGaragens
<1>6. ASSUME NEW rs \in SUBSET Reservas PROVE Entre(LinhasReservas(rs), 6, 6)
  <2>1. rs \in SUBSET Ids /\ "reserva" \in {"garagem", "reserva"} /\ FALSE \in BOOLEAN
    BY DEF Ids
  <2> HIDE DEF Ids
  <2>2. Entre(LinhasEmOrdem("reserva", rs, FALSE),
              IF "reserva" = "garagem" THEN 5 ELSE 6, IF "reserva" = "garagem" THEN 5 ELSE 6)
    BY <2>1, EntreLinhas
  <2> QED BY <2>2 DEF LinhasReservas
<1> QED BY <1>1, <1>2, <1>3, <1>4, <1>5, <1>6

\* An edit that takes a vehicle out of service where it is: its row comes last,
\* after the reservations.
Parado(t) == t.op = "EDITAR" /\ t.local = Mesma /\ t.retira

OrdenadaMenosUma(s, v) ==
  \E u : /\ s = u \o LinhaVeiculo(v) /\ Entre(u, 2, 6)
         /\ Len(u) >= 1 /\ u[1] = Trava("adv_veiculo", v, FALSE)
         /\ \A l : Contem(u, l) => l.tipo # "veiculo"

\* The empty sequence adds nothing.
LEMMA Neutra ==
  ASSUME NEW s \in Seq(Travas)
  PROVE  s \o <<>> = s /\ <<>> \o s = s
  BY ConcatEmptySeq

\* The plan of an edit is in order, but for the last lock of one that takes a
\* vehicle out of service where it is.
LEMMA EdicaoOrdenada ==
  ASSUME NEW t \in Pedidos, t.op = "EDITAR", ~ForaDeOrdem(t), NEW origem \in Garagem \cup {Mesma}
  PROVE  IF Parado(t) THEN OrdenadaMenosUma(PlanoEditar(t, origem), t.veiculo)
         ELSE Entre(PlanoEditar(t, origem), 1, 6)
<1> DEFINE v == t.veiculo
           move == t.local # Mesma
           parado == ~move \/ origem = t.local
           rs == LinhasReservas(DoVeiculo(v))
           adv == AdvVeiculo(v)
           linha == LinhaVeiculo(v)
           resto == RestoDoMovimento(v, origem, t.local)
           b == IF t.retira /\ parado THEN rs ELSE <<>>
           c == LinhaModelo(t.modelo)
           d == IF move THEN <<>> ELSE linha
           a == IF move THEN PlanoMover(v, origem, t.local) ELSE IF t.retira THEN adv ELSE <<>>
<1>0. t \in Requisicoes
  BY ConstantesAssumption
<1>1. /\ v \in Veiculos /\ t.modelo \in Modelos \cup {Nada}
      /\ t.local \in Garagens \cup {Nada, Mesma} /\ t.retira \in BOOLEAN
      /\ DoVeiculo(v) \in SUBSET Reservas
  BY <1>0, Campos DEF DoVeiculo
<1>2. PlanoEditar(t, origem) = ((a \o b) \o c) \o d
  BY DEF PlanoEditar
<1>3. /\ Entre(rs, 6, 6) /\ Entre(adv, 2, 2) /\ Entre(linha, 4, 4) /\ Entre(c, 3, 3)
      /\ Entre(<<>>, 6, 6) /\ Entre(<<>>, 5, 6) /\ Entre(<<>>, 2, 2)
  <2> HIDE DEF v
  <2>1. /\ Entre(rs, 6, 6) /\ Entre(adv, 2, 2) /\ Entre(linha, 4, 4) /\ Entre(c, 3, 3)
    BY <1>1, EntreAsPartes
  <2>2. Entre(<<>>, 6, 6) /\ Entre(<<>>, 5, 6) /\ Entre(<<>>, 2, 2)
    BY EntreVazia
  <2> QED BY <2>1, <2>2
<1>4. \A s, x, y : Entre(s, x, y) => s \in Seq(Travas)
  BY DEF Entre
<1>5. move => t.modelo = Nada
  BY DEF ForaDeOrdem
<1>6. t.retira => t.modelo = Nada
  BY DEF ForaDeOrdem
<1>7. t.modelo = Nada => c = <<>>
  BY DEF LinhaModelo
<1>8. CASE move
  <2>1. Entre(resto, 5, 6) /\ (parado => resto = <<>>)
    <3>1. parado => resto = <<>>
      BY <1>8 DEF RestoDoMovimento
    <3>2. CASE origem \in {Mesma, t.local}
      BY <1>3, <3>2 DEF RestoDoMovimento
    <3>3. CASE origem \notin {Mesma, t.local}
      <4>1. {origem, t.local} \in SUBSET (Garagens \cup {Nada}) /\ FALSE \in BOOLEAN
        BY <1>1, <1>8, <3>3 DEF Garagem
      <4> DEFINE g == LinhasGaragens({origem, t.local}, FALSE)
      <4>2. Entre(g, 5, 5)
        BY <4>1, EntreAsPartes, Zenon
      <4>3. resto = g \o rs
        BY <3>3 DEF RestoDoMovimento, GaragensDoMovimento
      <4> HIDE DEF g, rs, resto
      <4>4. Entre(g \o rs, 5, 6)
        BY <1>3, <4>2, EntreEmendadas
      <4> QED BY <3>1, <4>3, <4>4
    <3> QED BY <3>1, <3>2, <3>3
  <2>2. a = (adv \o linha) \o resto
    BY <1>8 DEF PlanoMover, RestoDoMovimento
  <2>3. c = <<>> /\ d = <<>> /\ (b = rs \/ b = <<>>) /\ (b # <<>> => parado) /\ ~Parado(t)
    BY <1>5, <1>7, <1>8 DEF Parado
  <2> HIDE DEF adv, linha, resto, rs, a, b, c, d, parado
  <2>4. Entre(adv \o linha, 2, 4)
    BY <1>3, EntreEmendadas
  <2>5. Entre(a, 2, 6)
    BY <2>1, <2>2, <2>4, EntreEmendadas
  <2>6. Entre(a \o b, 2, 6)
    <3>1. CASE b = <<>>
      BY <1>4, <2>5, <3>1, Neutra
    <3>2. CASE b # <<>>
      <4>1. a = adv \o linha /\ b = rs
        BY <1>4, <2>1, <2>2, <2>3, <2>4, <3>2, Neutra
      <4> QED BY <1>3, <2>4, <4>1, EntreEmendadas
    <3> QED BY <3>1, <3>2
  <2>7. ((a \o b) \o c) \o d = a \o b
    BY <1>4, <2>3, <2>6, Neutra
  <2>8. Entre(a \o b, 1, 6)
    BY <2>6, EntreMais
  <2> QED BY <1>2, <2>3, <2>7, <2>8
<1>9. CASE ~move /\ ~t.retira
  <2>1. a = <<>> /\ b = <<>> /\ d = linha /\ ~Parado(t)
    BY <1>9 DEF Parado
  <2> HIDE DEF linha, a, b, c, d
  <2>2. Entre(c \o linha, 3, 4)
    BY <1>3, EntreEmendadas
  <2>3. ((a \o b) \o c) \o d = c \o linha
    BY <1>3, <1>4, <2>1, Neutra, VaziaTipada
  <2>4. Entre(c \o linha, 1, 6)
    BY <2>2, EntreMais
  <2> QED BY <1>2, <2>1, <2>3, <2>4
<1>10. CASE ~move /\ t.retira
  <2>1. a = adv /\ b = rs /\ c = <<>> /\ d = linha /\ Parado(t)
    BY <1>6, <1>7, <1>10 DEF Parado
  <2>a. adv = <<Trava("adv_veiculo", v, FALSE)>>
    BY DEF AdvVeiculo
  <2>b. linha = LinhaVeiculo(v)
    OBVIOUS
  <2> DEFINE l1 == Trava("adv_veiculo", v, FALSE)
  <2>c. adv = <<l1>> /\ Len(adv) = 1
    BY <1>1, <2>a, AvulsasTipadas
  <2> HIDE DEF l1
  <2>d. adv[1] = l1
    BY <2>c
  <2>e. adv[1] = Trava("adv_veiculo", v, FALSE)
    BY <2>d DEF l1
  <2> HIDE DEF adv, linha, rs, a, b, c, d
  <2>2. Entre(adv \o rs, 2, 6)
    BY <1>3, EntreEmendadas
  <2>3. ((a \o b) \o c) \o d = (adv \o rs) \o linha
    BY <1>4, <2>1, <2>2, Neutra
  <2>4. /\ Len(adv) = 1 /\ adv \in Seq(Travas) /\ rs \in Seq(Travas)
    BY <1>3, <1>4, <2>c
  <2>5. Len(adv \o rs) >= 1 /\ (adv \o rs)[1] = adv[1]
    <3>1. /\ Len(rs) \in Nat /\ Len(adv \o rs) = Len(adv) + Len(rs)
          /\ \A i \in 1..Len(adv) : (adv \o rs)[i] = adv[i]
      BY <2>4, Emendadas
    <3>2. 1 \in 1..Len(adv)
      BY <2>4
    <3> QED BY <2>4, <3>1, <3>2
  <2>6. \A l : Contem(adv \o rs, l) => l.tipo # "veiculo"
    <3>1. \A l : Contem(adv \o rs, l) => Contem(adv, l) \/ Contem(rs, l)
      BY <2>4, Concatenadas
    <3>2. \A l : Contem(adv \o rs, l) => Grau(l) = 2 \/ Grau(l) = 6
      BY <1>3, <3>1 DEF Entre
    <3> QED BY <3>2 DEF Grau
  <2> QED BY <1>2, <2>1, <2>2, <2>3, <2>5, <2>6, <2>e, <2>b DEF OrdenadaMenosUma
<1> QED BY <1>1, <1>8, <1>9, <1>10

\* The plan of a creation is in order.
LEMMA CriacaoOrdenada ==
  ASSUME NEW t \in Requisicoes, t.op = "CRIAR", NEW novos
  PROVE  Entre(PlanoCriar(t, novos), 1, 6)
<1> DEFINE m == LinhaModelo(t.modelo)
           g == IF novos = {} THEN <<>> ELSE LinhasGaragens({t.local}, FALSE)
<1>1. t.modelo \in Modelos /\ {t.local} \in SUBSET (Garagens \cup {Nada}) /\ FALSE \in BOOLEAN
  BY Campos
<1>2. Entre(m, 3, 3)
  BY <1>1, EntreAsPartes
<1>3. Entre(g, 5, 5)
  <2>1. Entre(LinhasGaragens({t.local}, FALSE), 5, 5)
    BY <1>1, EntreAsPartes, Zenon
  <2> QED BY <2>1, EntreVazia
<1>4. PlanoCriar(t, novos) = m \o g
  BY DEF PlanoCriar
<1> HIDE DEF m, g
<1>5. Entre(m \o g, 3, 5)
  BY <1>2, <1>3, EntreEmendadas
<1> QED BY <1>4, <1>5, EntreMais

\* The plan of an update of a garage is in order.
LEMMA GaragemOrdenada ==
  ASSUME NEW t \in Requisicoes, t.op = "GARAGEM", NEW vista
  PROVE  Entre(PlanoGaragem(t, vista), 1, 6)
<1> DEFINE g == LinhasGaragens({t.garagem}, FALSE)
           x == LinhasReservas(DaGaragem(t.garagem))
           r == IF Indisponibiliza(t, vista) THEN x ELSE <<>>
<1>1. /\ {t.garagem} \in SUBSET (Garagens \cup {Nada}) /\ FALSE \in BOOLEAN
      /\ DaGaragem(t.garagem) \in SUBSET Reservas
  BY Campos DEF DaGaragem
<1>2. Entre(g, 5, 5)
  BY <1>1, EntreAsPartes, Zenon
<1>3. Entre(x, 6, 6)
  BY <1>1, EntreAsPartes, Zenon
<1>4. r = x \/ r = <<>>
  OBVIOUS
<1>5. PlanoGaragem(t, vista) = g \o r
  BY DEF PlanoGaragem
<1> HIDE DEF g, x, r
<1>6. Entre(r, 6, 6)
  BY <1>3, <1>4, EntreVazia
<1>7. Entre(g \o r, 5, 6)
  BY <1>2, <1>6, EntreEmendadas
<1> QED BY <1>5, <1>7, EntreMais

\* The two garages of the insert's foreign keys, in the order of the keys.
LEMMA ChavesOrdenadas ==
  ASSUME NEW r \in Reservas, RetiradaDe[r] <= DevolucaoDe[r]
  PROVE  Entre(LinhasDasChaves(r), 5, 5)
<1> DEFINE a == RetiradaDe[r]
           b == DevolucaoDe[r]
           s == LinhasGaragens({a}, TRUE)
           u == LinhasGaragens({b} \ {a}, TRUE)
<1>1. a \in Garagens /\ b \in Garagens /\ a \in Nat /\ b \in Nat /\ a <= b
  BY ConstantesAssumption
<1>2. LinhasDasChaves(r) = s \o u
  BY DEF LinhasDasChaves
<1> HIDE DEF a, b
<1>3. /\ {a} \in SUBSET (Garagens \cup {Nada}) /\ TRUE \in BOOLEAN
      /\ {b} \ {a} \in SUBSET (Garagens \cup {Nada})
  BY <1>1
<1>4. Entre(s, 5, 5) /\ Entre(u, 5, 5)
  BY <1>3, EntreAsPartes, Zenon
<1>5. \A l : Contem(s, l) <=> \E x \in {a} \ {Nada} : l = Trava("garagem", x, TRUE)
  BY <1>3, GaragensTipadas, Zenon
<1>6. \A l : Contem(u, l) <=> \E x \in ({b} \ {a}) \ {Nada} : l = Trava("garagem", x, TRUE)
  BY <1>3, GaragensTipadas, Zenon
<1> HIDE DEF s, u
<1>7. ASSUME NEW x, NEW y, Contem(s, x), Contem(u, y) PROVE Antes(x, y)
  <2>1. x = Trava("garagem", a, TRUE)
    BY <1>5, <1>7
  <2>2. y = Trava("garagem", b, TRUE) /\ b # a
    BY <1>6, <1>7
  <2>3. /\ Grau(x) = 5 /\ Grau(y) = 5 /\ x.id = a /\ y.id = b
    BY <2>1, <2>2 DEF Grau, Trava
  <2>4. a < b
    BY <1>1, <2>2
  <2> QED BY <2>3, <2>4 DEF Antes
<1>8. s \in Seq(Travas) /\ u \in Seq(Travas) /\ Ordenada(s) /\ Ordenada(u)
  BY <1>4 DEF Entre
<1>9. Ordenada(s \o u)
  BY <1>7, <1>8, OrdenadasEmendadas
<1>10. s \o u \in Seq(Travas) /\ \A l : Contem(s \o u, l) => Contem(s, l) \/ Contem(u, l)
  BY <1>8, Concatenadas
<1>11. Entre(s \o u, 5, 5)
  BY <1>4, <1>9, <1>10 DEF Entre
<1> QED BY <1>2, <1>11

\* The plans of the reservations' transactions are in order if the foreign keys are.
LEMMA ReservaOrdenada ==
  ASSUME NEW t \in Requisicoes, t.op \in DeReserva, ~ForaDeOrdem(t)
  PROVE  Entre(PlanoReserva(t), 1, 6)
<1> DEFINE r == t.reserva
           v == VeiculoDe[r]
           ar == AdvReserva(r)
           av == AdvVeiculo(v)
           lr == LinhasReservas({r})
<1>1. r \in Reservas /\ v \in Veiculos /\ RetiradaDe[r] \in Garagens /\ DevolucaoDe[r] \in Garagens
  BY Campos, ConstantesAssumption
<1>2. Entre(ar, 1, 1) /\ Entre(av, 2, 2) /\ Entre(lr, 6, 6)
  BY <1>1, EntreAsPartes
<1>3. \A gs \in SUBSET Garagens : Entre(LinhasGaragens(gs, TRUE), 5, 5)
  <2> TAKE gs \in SUBSET Garagens
  <2>1. gs \in SUBSET (Garagens \cup {Nada}) /\ TRUE \in BOOLEAN
    OBVIOUS
  <2> QED BY <2>1, EntreAsPartes, Zenon
<1> DEFINE g1 == LinhasGaragens(LocaisDe(r), TRUE)
           g2 == LinhasGaragens({DevolucaoDe[r]}, TRUE)
           g3 == LinhasDasChaves(r)
<1>4. /\ Entre(g1, 5, 5) /\ Entre(g2, 5, 5)
      /\ t.op = "RESERVAR" => Entre(g3, 5, 5)
  <2>1. LocaisDe(r) \in SUBSET Garagens /\ {DevolucaoDe[r]} \in SUBSET Garagens
    BY <1>1 DEF LocaisDe
  <2>2. ASSUME t.op = "RESERVAR" PROVE RetiradaDe[r] <= DevolucaoDe[r]
    <3>1. ~(DevolucaoDe[r] < RetiradaDe[r])
      BY <2>2 DEF ForaDeOrdem
    <3>2. RetiradaDe[r] \in Nat /\ DevolucaoDe[r] \in Nat
      BY <1>1, ConstantesAssumption
    <3> QED BY <3>1, <3>2
  <2> QED BY <1>1, <1>3, <2>1, <2>2, ChavesOrdenadas
<1>5. /\ t.op = "RESERVAR" => PlanoReserva(t) = av \o g3
      /\ t.op = "PAGAR" => PlanoReserva(t) = ((ar \o av) \o g1) \o lr
      /\ t.op = "ALTERAR" => PlanoReserva(t) = ((ar \o av) \o g2) \o lr
      /\ t.op = "CANCELAR" => PlanoReserva(t) = ar \o lr
  BY DEF PlanoReserva
<1> HIDE DEF ar, av, lr, g1, g2, g3
<1>6. /\ Entre(ar \o av, 1, 2) /\ Entre(ar \o lr, 1, 6)
      /\ t.op = "RESERVAR" => Entre(av \o g3, 2, 5)
  BY <1>2, <1>4, EntreEmendadas
<1>7. Entre((ar \o av) \o g1, 1, 5) /\ Entre((ar \o av) \o g2, 1, 5)
  BY <1>4, <1>6, EntreEmendadas
<1>8. Entre(((ar \o av) \o g1) \o lr, 1, 6) /\ Entre(((ar \o av) \o g2) \o lr, 1, 6)
  BY <1>2, <1>7, EntreEmendadas
<1>9. t.op = "RESERVAR" => Entre(av \o g3, 1, 6)
  BY <1>6, EntreMais
<1> QED BY <1>5, <1>6, <1>8, <1>9 DEF DeReserva

\* The same of the plan of any transaction under way.
LEMMA PlanoOrdenado ==
  ASSUME TypeOK, NEW p \in Processos, EmCurso(p), ~ForaDeOrdem(pedido[p])
  PROVE  IF Parado(pedido[p]) THEN OrdenadaMenosUma(Plano(p), pedido[p].veiculo)
         ELSE Entre(Plano(p), 1, 6)
<1> DEFINE t == pedido[p]
           l == lido[p]
<1>1. /\ t \in Pedidos /\ t \in Requisicoes /\ l.origem \in Garagem \cup {Mesma}
      /\ Plano(p) = PlanoCom(t, l) /\ ~ForaDeOrdem(t)
  BY PlanoTipado DEF TypeOK, EmCurso, LidoTipado
<1>2. t.op \in {"CRIAR", "EDITAR", "GARAGEM"} \cup DeReserva
  BY <1>1, Campos
<1> HIDE DEF t, l
<1>3. CASE t.op = "CRIAR"
  BY <1>1, <1>3, CriacaoOrdenada DEF PlanoCom, Parado, t
<1>4. CASE t.op = "EDITAR"
  <2>1. Plano(p) = PlanoEditar(t, l.origem)
    BY <1>1, <1>4 DEF PlanoCom
  <2> DEFINE o == l.origem
  <2>2. o \in Garagem \cup {Mesma}
    BY <1>1
  <2> HIDE DEF o
  <2>3. IF Parado(t) THEN OrdenadaMenosUma(PlanoEditar(t, o), t.veiculo)
        ELSE Entre(PlanoEditar(t, o), 1, 6)
    BY <1>1, <1>4, <2>2, EdicaoOrdenada
  <2> QED BY <2>1, <2>3 DEF o, t
<1>5. CASE t.op = "GARAGEM"
  BY <1>1, <1>5, GaragemOrdenada DEF PlanoCom, Parado, t
<1>6. CASE t.op \in DeReserva
  BY <1>1, <1>6, ReservaOrdenada DEF PlanoCom, Parado, t, DeReserva
<1> QED BY <1>2, <1>3, <1>4, <1>5, <1>6

\* A finite set of numbers has a largest one.
LEMMA MaiorDe ==
  ASSUME NEW T \in SUBSET Nat, IsFiniteSet(T), T # {}
  PROVE  \E m \in T : \A x \in T : x <= m
<1>1. PICK n \in Nat : n = Cardinality(T)
  BY EmOrdem
<1>2. PICK id : Numera("garagem", T, TRUE, id)
  BY EmOrdem
<1>3. /\ id \in [1..n -> T]
      /\ \A x \in T : \E i \in 1..n : id[i] = x
      /\ \A i, j \in 1..n : i < j => id[i] < id[j]
  BY <1>1, <1>2 DEF Numera
<1>4. n # 0
  <2>1. \A i : i \notin 1..0
    OBVIOUS
  <2> QED BY <1>3, <2>1
<1>5. n \in 1..n /\ id[n] \in T
  BY <1>3, <1>4
<1>6. ASSUME NEW x \in T PROVE x <= id[n]
  <2>1. PICK i \in 1..n : id[i] = x
    BY <1>3
  <2>2. i = n \/ i < n
    OBVIOUS
  <2>3. id[n] \in Nat /\ x \in Nat
    BY <1>5
  <2> QED BY <1>3, <1>5, <2>1, <2>2, <2>3
<1> QED BY <1>5, <1>6

\* Who waits, waits for a lock that comes after all it holds.
LEMMA EsperaAdiante ==
  ASSUME TravasInv, NEW p \in Processos, EmCurso(p), ~Completo(p), ~Parado(pedido[p]),
         ~ForaDeOrdem(pedido[p]),
         NEW i \in 1..travas[p]
  PROVE  Antes(Plano(p)[i], Proxima(p))
<1>1. Entre(Plano(p), 1, 6)
  BY PlanoOrdenado DEF TravasInv
<1>2. /\ travas[p] \in Nat /\ Len(Plano(p)) \in Nat
      /\ travas[p] <= Len(Plano(p)) /\ travas[p] # Len(Plano(p))
  BY PlanoTipado DEF TravasInv, TypeOK, TransacaoInv, PlanoCabe, Completo
<1>3. i \in 1..Len(Plano(p)) /\ travas[p] + 1 \in 1..Len(Plano(p)) /\ i < travas[p] + 1
  BY <1>2
<1> QED BY <1>1, <1>3 DEF Entre, Ordenada, Proxima

\* An edit that stays where it is locks the vehicle's row last.
LEMMA LinhaNoFim ==
  ASSUME TravasInv, NEW q \in Processos, EmCurso(q),
         pedido[q].op = "EDITAR", ~Movimenta(q),
         NEW i \in 1..Len(Plano(q)), Plano(q)[i].tipo = "veiculo"
  PROVE  i = Len(Plano(q))
<1> DEFINE t == pedido[q]
           v == t.veiculo
           o == lido[q].origem
           a == IF t.retira THEN AdvVeiculo(v) ELSE <<>>
           b == IF t.retira THEN LinhasReservas(DoVeiculo(v)) ELSE <<>>
           c == LinhaModelo(t.modelo)
           d == LinhaVeiculo(v)
           s == (a \o b) \o c
<1>0. TypeOK
  BY DEF TravasInv
<1>1. t \in Requisicoes /\ Plano(q) = PlanoCom(t, lido[q]) /\ t.local = Mesma
  BY <1>0, PlanoTipado DEF Movimenta
<1>2. v \in Veiculos /\ t.modelo \in Modelos \cup {Nada} /\ DoVeiculo(v) \in SUBSET Reservas
  BY <1>1, Campos DEF DoVeiculo
<1>3. Plano(q) = s \o d
  BY <1>1 DEF PlanoCom, PlanoEditar
<1>4. /\ a \in Seq(Travas) /\ b \in Seq(Travas) /\ c \in Seq(Travas)
      /\ \A l : Contem(a, l) \/ Contem(b, l) \/ Contem(c, l) => l.tipo # "veiculo"
  <2> HIDE DEF v, t
  <2>1. /\ Entre(AdvVeiculo(v), 2, 2) /\ Entre(LinhasReservas(DoVeiculo(v)), 6, 6)
        /\ Entre(c, 3, 3) /\ Entre(<<>>, 2, 2) /\ Entre(<<>>, 6, 6)
    BY <1>2, EntreAsPartes, EntreVazia
  <2>2. Entre(a, 2, 2) /\ Entre(b, 6, 6)
    BY <2>1
  <2> HIDE DEF a, b, c
  <2>3. \A l : Contem(a, l) \/ Contem(b, l) \/ Contem(c, l) => Grau(l) # 4
    BY <2>1, <2>2 DEF Entre
  <2>4. \A l : l.tipo = "veiculo" => Grau(l) = 4
    BY DEF Grau
  <2>5. a \in Seq(Travas) /\ b \in Seq(Travas) /\ c \in Seq(Travas)
    BY <2>1, <2>2 DEF Entre
  <2> QED BY <2>3, <2>4, <2>5
<1>5. d \in Seq(Travas) /\ Len(d) = 1
  BY <1>2, AvulsasTipadas
<1> HIDE DEF a, b, c, d
<1>6. s \in Seq(Travas) /\ \A l : Contem(s, l) => l.tipo # "veiculo"
  <2>1. a \o b \in Seq(Travas) /\ \A l : Contem(a \o b, l) => Contem(a, l) \/ Contem(b, l)
    BY <1>4, Concatenadas
  <2>2. s \in Seq(Travas) /\ \A l : Contem(s, l) => Contem(a \o b, l) \/ Contem(c, l)
    BY <1>4, <2>1, Concatenadas
  <2> QED BY <1>4, <2>1, <2>2
<1> HIDE DEF s
<1>7. /\ Len(s) \in Nat /\ Len(s \o d) = Len(s) + 1
      /\ \A k \in 1..Len(s) : (s \o d)[k] = s[k]
  <2>1. /\ Len(s) \in Nat /\ Len(s \o d) = Len(s) + Len(d)
        /\ \A k \in 1..Len(s) : (s \o d)[k] = s[k]
    BY <1>5, <1>6, Emendadas
  <2> QED BY <1>5, <2>1
<1>8. i \notin 1..Len(s)
  BY <1>3, <1>6, <1>7, IndiceContido
<1> QED BY <1>3, <1>7, <1>8

\* An edit that takes a vehicle out of service waits for its row, its last lock,
\* only behind a transaction that has all its own.
LEMMA LinhaDoParado ==
  ASSUME TravasInv, NEW p \in Processos, NEW q \in Processos,
         ~ForaDeOrdem(pedido[p]), ~ForaDeOrdem(pedido[q]),
         EsperaPor(p, q), Parado(pedido[p]), ~Completo(q)
  PROVE  \E k \in Nat : /\ travas[p] < k /\ k < Len(Plano(p))
                        /\ \A i, j \in 1..k : i < j => Antes(Plano(p)[i], Plano(p)[j])
                        /\ \A i \in 1..k : /\ Grau(Plano(p)[i]) \in 2..6
                                           /\ Grau(Plano(p)[i]) >= 5 => Plano(p)[i].id \in Ids
<1>0. p # q /\ EmCurso(p) /\ EmCurso(q) /\ ~Completo(p) /\ TypeOK
  BY DEF EsperaPor, TravasInv
<1> DEFINE v == pedido[p].veiculo
<1>1. pedido[p] \in Requisicoes /\ v \in Veiculos
  <2>1. pedido[p] \in Requisicoes
    BY <1>0, PlanoTipado
  <2> QED BY <2>1, Campos DEF Parado
<1>2. PICK u : /\ Plano(p) = u \o LinhaVeiculo(v) /\ Entre(u, 2, 6)
               /\ Len(u) >= 1 /\ u[1] = Trava("adv_veiculo", v, FALSE)
               /\ \A l : Contem(u, l) => l.tipo # "veiculo"
  BY <1>0, PlanoOrdenado DEF OrdenadaMenosUma
<1>3. PICK k \in Nat : k = Len(u)
  BY <1>2 DEF Entre
<1>4. /\ Len(Plano(p)) = k + 1 /\ k >= 1
      /\ \A i \in 1..k : Plano(p)[i] = u[i]
      /\ Plano(p)[k + 1] = Trava("veiculo", v, FALSE)
  <2>1. u \in Seq(Travas) /\ LinhaVeiculo(v) \in Seq(Travas) /\ Len(LinhaVeiculo(v)) = 1
    BY <1>1, <1>2, AvulsasTipadas DEF Entre
  <2>2. /\ Len(u \o LinhaVeiculo(v)) = Len(u) + Len(LinhaVeiculo(v))
        /\ \A i \in 1..Len(u) : (u \o LinhaVeiculo(v))[i] = u[i]
        /\ \A i \in (Len(u) + 1)..Len(u \o LinhaVeiculo(v)) :
             (u \o LinhaVeiculo(v))[i] = LinhaVeiculo(v)[i - Len(u)]
    BY <2>1, Emendadas
  <2>3. Len(Plano(p)) = k + 1
    BY <1>2, <1>3, <2>1, <2>2
  <2>4. Plano(p)[k + 1] = LinhaVeiculo(v)[1]
    <3>1. k + 1 \in (Len(u) + 1)..Len(u \o LinhaVeiculo(v)) /\ (k + 1) - Len(u) = 1
      BY <1>2, <1>3, <2>3
    <3> QED BY <1>2, <2>2, <3>1
  <2>5. LinhaVeiculo(v)[1] = Trava("veiculo", v, FALSE)
    BY DEF LinhaVeiculo
  <2> QED BY <1>2, <1>3, <2>2, <2>3, <2>4, <2>5
<1>5. PICK n \in Nat : n = travas[p] /\ n <= k
  <2>1. travas[p] \in Nat /\ travas[p] <= Len(Plano(p)) /\ travas[p] # Len(Plano(p))
    BY <1>0 DEF TravasInv, TypeOK, TransacaoInv, PlanoCabe, Completo
  <2> QED BY <1>4, <2>1
<1> HIDE DEF v
<1>6. n # k
  <2> SUFFICES ASSUME n = k PROVE FALSE
    OBVIOUS
  <2>1. Proxima(p) = Trava("veiculo", v, FALSE)
    BY <1>4, <1>5 DEF Proxima
  <2>2. PICK i \in 1..travas[q] : Conflitam(Proxima(p), Plano(q)[i])
    BY DEF EsperaPor
  <2>3. Plano(q)[i].tipo = "veiculo" /\ Plano(q)[i].id = v
    BY <2>1, <2>2 DEF Conflitam, Trava
  <2>4. PICK m \in Nat : m = travas[q] /\ m < Len(Plano(q)) /\ Len(Plano(q)) \in Nat
    BY <1>0, PlanoTipado DEF TravasInv, TypeOK, TransacaoInv, PlanoCabe, Completo
  <2>5. i \in 1..Len(Plano(q)) /\ i \in Nat
    BY <2>4
  <2>6. pedido[q].op = "EDITAR" /\ pedido[q] \in Requisicoes
    BY <1>0, <2>3, <2>5, PlanoTipado
  <2>7. CASE Movimenta(q)
    <3>1. /\ Plano(q)[1] = Trava("adv_veiculo", pedido[q].veiculo, FALSE)
          /\ Plano(q)[2] = Trava("veiculo", pedido[q].veiculo, FALSE)
          /\ Len(Plano(q)) >= 2
      BY <1>0, <2>7, TravasDaMudanca
    <3>2. Entre(Plano(q), 1, 6)
      BY <1>0, <2>7, PlanoOrdenado DEF Parado, Movimenta
    <3>3. Grau(Plano(q)[2]) = 4 /\ Grau(Plano(q)[i]) = 4
      BY <2>3, <3>1 DEF Grau, Trava
    <3>4. i = 2
      <4>1. 2 \in 1..Len(Plano(q))
        BY <2>4, <3>1
      <4>2. i < 2 => Antes(Plano(q)[i], Plano(q)[2])
        BY <2>5, <3>2, <4>1 DEF Entre, Ordenada
      <4>3. 2 < i => Antes(Plano(q)[2], Plano(q)[i])
        BY <2>5, <3>2, <4>1 DEF Entre, Ordenada
      <4> QED BY <2>5, <3>3, <4>2, <4>3 DEF Antes
    <3>5. pedido[q].veiculo = v
      BY <2>3, <3>1, <3>4 DEF Trava
    <3>6. 1 \in 1..travas[q] /\ 1 \in 1..travas[p]
      BY <1>4, <1>5, <2>4, <2>5
    <3>7. ~Conflitam(Plano(p)[1], Plano(q)[1])
      BY <1>0, <3>6 DEF TravasInv, Exclusao
    <3>8. Plano(p)[1] = Trava("adv_veiculo", v, FALSE)
      <4>1. 1 \in 1..k
        BY <1>4
      <4> QED BY <1>2, <1>4, <4>1
    <3> QED BY <3>1, <3>5, <3>7, <3>8 DEF Conflitam, Trava
  <2>8. CASE ~Movimenta(q)
    <3>1. i = Len(Plano(q))
      BY <1>0, <2>3, <2>5, <2>6, <2>8, LinhaNoFim
    <3> QED BY <2>4, <3>1
  <2> QED BY <2>7, <2>8
<1>7. n < k /\ k < Len(Plano(p))
  BY <1>4, <1>5, <1>6
<1>8. \A i, j \in 1..k : i < j => Antes(Plano(p)[i], Plano(p)[j])
  BY <1>2, <1>3, <1>4 DEF Entre, Ordenada
<1>9. ASSUME NEW i \in 1..k
      PROVE  /\ Grau(Plano(p)[i]) \in 2..6
             /\ Grau(Plano(p)[i]) >= 5 => Plano(p)[i].id \in Ids
  <2>1. Contem(u, u[i])
    BY <1>3 DEF Contem
  <2> QED BY <1>2, <1>4, <2>1 DEF Entre
<1> QED BY <1>5, <1>7, <1>8, <1>9

\* Of a transaction that waits for one that waits.
LEMMA EsperaEmOrdem ==
  ASSUME TravasInv, NEW p \in Processos, NEW q \in Processos,
         ~ForaDeOrdem(pedido[p]), ~ForaDeOrdem(pedido[q]),
         EsperaPor(p, q), ~Completo(q)
  PROVE  /\ \A i \in 1..travas[p] : Antes(Plano(p)[i], Proxima(p))
         /\ Grau(Proxima(p)) \in 1..6
         /\ Grau(Proxima(p)) >= 5 => Proxima(p).id \in Ids
<1>0. EmCurso(p) /\ ~Completo(p) /\ TypeOK
  BY DEF EsperaPor, TravasInv
<1>1. PICK n \in Nat : n = travas[p] /\ n + 1 \in 1..Len(Plano(p)) /\ Len(Plano(p)) \in Nat
  BY <1>0, PlanoTipado DEF TravasInv, TypeOK, TransacaoInv, PlanoCabe, Completo
<1>2. Proxima(p) = Plano(p)[n + 1]
  BY <1>1 DEF Proxima
<1>3. CASE Parado(pedido[p])
  <2>1. PICK k \in Nat :
          /\ n < k /\ k < Len(Plano(p))
          /\ \A i, j \in 1..k : i < j => Antes(Plano(p)[i], Plano(p)[j])
          /\ \A i \in 1..k : /\ Grau(Plano(p)[i]) \in 2..6
                             /\ Grau(Plano(p)[i]) >= 5 => Plano(p)[i].id \in Ids
    BY <1>1, <1>3, LinhaDoParado
  <2>2. n + 1 \in 1..k /\ \A i \in 1..n : i \in 1..k /\ i < n + 1
    BY <2>1
  <2>3. 2..6 \subseteq 1..6
    OBVIOUS
  <2> QED BY <1>1, <1>2, <2>1, <2>2, <2>3
<1>4. CASE ~Parado(pedido[p])
  <2>1. \A i \in 1..travas[p] : Antes(Plano(p)[i], Proxima(p))
    BY <1>0, <1>4, EsperaAdiante
  <2>2. Entre(Plano(p), 1, 6)
    BY <1>0, <1>4, PlanoOrdenado
  <2>3. Contem(Plano(p), Proxima(p))
    BY <1>1, <1>2 DEF Contem
  <2> QED BY <2>1, <2>2, <2>3 DEF Entre
<1> QED BY <1>3, <1>4

\* Whatever is asked for, every circle of transactions that wait for one another
\* has one in it that asks for its locks out of order, which only an edit that
\* changes the model after other locks and the keys of a new reservation do: of
\* any others, one that waits for the last of the locks they wait for waits for
\* none of them.
THEOREM CirculosForaDeOrdem == Spec => []CirculoForaDeOrdem
<1>1. ASSUME FrotaInv PROVE CirculoForaDeOrdem
  <2>0. TravasInv
    BY <1>1 DEF FrotaInv
  <2> SUFFICES ASSUME NEW S \in SUBSET {p \in Processos : EmCurso(p) /\ ~ForaDeOrdem(pedido[p])}, S # {},
                      \A p \in S : \E q \in S : EsperaPor(p, q)
               PROVE  FALSE
    BY DEF CirculoForaDeOrdem
  <2>1. \A p \in S : p \in Processos /\ ~Completo(p) /\ ~ForaDeOrdem(pedido[p])
    BY DEF EsperaPor
  <2>2. ASSUME NEW p \in S
        PROVE  /\ \A i \in 1..travas[p] : Antes(Plano(p)[i], Proxima(p))
               /\ Grau(Proxima(p)) \in 1..6
               /\ Grau(Proxima(p)) >= 5 => Proxima(p).id \in Ids
    <3>1. PICK q \in S : EsperaPor(p, q)
      OBVIOUS
    <3> QED BY <2>0, <2>1, <3>1, EsperaEmOrdem
  <2> DEFINE G(p) == Grau(Proxima(p))
             I(p) == Proxima(p).id
             T == {G(p) : p \in S}
  <2>3. PICK m \in 1..6 : (\E p \in S : G(p) = m) /\ \A p \in S : G(p) <= m
    <3>1. T \in SUBSET (1..6) /\ T # {}
      BY <2>2
    <3>2. IsFiniteSet(1..6) /\ 1..6 \subseteq Nat
      <4>1. 1 \in Int /\ 6 \in Int /\ 1..6 \subseteq Nat
        OBVIOUS
      <4> QED BY <4>1, FS_Interval
    <3> HIDE DEF T
    <3>3. IsFiniteSet(T) /\ T \in SUBSET Nat
      BY <3>1, <3>2, FS_Subset
    <3>4. PICK m \in T : \A x \in T : x <= m
      BY <3>1, <3>3, MaiorDe
    <3> QED BY <3>1, <3>4 DEF T
  <2> DEFINE U == {x \in Ids : \E p \in S : G(p) = m /\ I(p) = x}
  <2>4. PICK p \in S :
          /\ G(p) = m
          /\ m >= 5 => \A q \in S : G(q) = m => I(p) \in Nat /\ I(q) \in Nat /\ I(q) <= I(p)
    <3>1. Ids \in SUBSET Nat /\ IsFiniteSet(Ids)
      BY ConstantesAssumption, FS_Union DEF Ids
    <3>2. U \in SUBSET Ids
      OBVIOUS
    <3>3. \A q \in S : G(q) = m /\ m >= 5 => I(q) \in U
      BY <2>2
    <3>4. \A x \in U : \E q \in S : G(q) = m /\ I(q) = x
      OBVIOUS
    <3> HIDE DEF U, G, I
    <3>5. CASE m >= 5
      <4>1. U # {}
        BY <2>3, <3>3, <3>5
      <4>2. IsFiniteSet(U) /\ U \in SUBSET Nat
        BY <3>1, <3>2, FS_Subset
      <4>3. PICK x \in U : \A y \in U : y <= x
        BY <4>1, <4>2, MaiorDe
      <4>4. PICK q \in S : G(q) = m /\ I(q) = x
        BY <3>4
      <4> QED BY <3>3, <3>5, <4>2, <4>3, <4>4
    <3>6. CASE ~(m >= 5)
      BY <2>3, <3>6
    <3> QED BY <3>5, <3>6
  <2>5. PICK q \in S : EsperaPor(p, q)
    OBVIOUS
  <2>6. PICK i \in 1..travas[q] : Conflitam(Proxima(p), Plano(q)[i])
    BY <2>5 DEF EsperaPor
  <2>7. Grau(Plano(q)[i]) = G(p) /\ Plano(q)[i].id = I(p)
    BY <2>6 DEF Conflitam, Grau
  <2>8. Antes(Plano(q)[i], Proxima(q))
    BY <2>2
  <2>9. \/ m < G(q)
        \/ m = G(q) /\ m >= 5 /\ I(p) < I(q)
    <3>1. G(q) = Grau(Proxima(q)) /\ I(q) = Proxima(q).id /\ G(p) = m
      BY <2>4
    <3> HIDE DEF G, I
    <3> QED BY <2>7, <2>8, <3>1 DEF Antes
  <2>10. G(q) <= m /\ G(q) \in 1..6
    BY <2>2, <2>3
  <2>11. m = G(q) /\ m >= 5 /\ I(p) < I(q)
    <3> HIDE DEF G, I
    <3> QED BY <2>9, <2>10
  <2> HIDE DEF G, I
  <2> QED BY <2>4, <2>11
<1> QED BY <1>1, FrotaSempre, PTL

\* A reservation's foreign keys share the garages' rows in the rows' order.
ChavesEmOrdem == \A r \in Reservas : RetiradaDe[r] <= DevolucaoDe[r]

\* An edit that changes the model locks nothing before the model's row.
ModeloPrimeiro ==
  \A t \in Pedidos : t.op = "EDITAR" /\ t.modelo # Nada => t.local = Mesma /\ ~t.retira

\* If the pick-up of every reservation precedes its return in the order of the
\* identifiers and the edits that change the model lock nothing before it, no
\* transactions ever wait for one another in a circle.
THEOREM SemCirculoDeEspera ==
  ASSUME ChavesEmOrdem, ModeloPrimeiro
  PROVE  Spec => []SemEsperaCircular
<1>1. ASSUME FrotaInv, CirculoForaDeOrdem PROVE SemEsperaCircular
  <2>1. ASSUME NEW p \in Processos, EmCurso(p) PROVE ~ForaDeOrdem(pedido[p])
    <3>1. pedido[p] \in Pedidos /\ pedido[p] \in Requisicoes
      BY <1>1, <2>1, PlanoTipado DEF FrotaInv, TravasInv, TypeOK, EmCurso
    <3>2. pedido[p].op = "RESERVAR" =>
            /\ RetiradaDe[pedido[p].reserva] <= DevolucaoDe[pedido[p].reserva]
            /\ RetiradaDe[pedido[p].reserva] \in Nat /\ DevolucaoDe[pedido[p].reserva] \in Nat
      <4>1. pedido[p].op = "RESERVAR" => pedido[p].reserva \in Reservas
        BY <3>1, Campos DEF DeReserva
      <4> QED BY <4>1, ConstantesAssumption DEF ChavesEmOrdem
    <3> QED BY <3>1, <3>2 DEF ForaDeOrdem, ModeloPrimeiro
  <2> QED BY <1>1, <2>1 DEF CirculoForaDeOrdem, SemEsperaCircular
<1> QED BY <1>1, FrotaSempre, CirculosForaDeOrdem, PTL

=============================================================================
