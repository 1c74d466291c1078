--------------------------- MODULE Reserva_proofs ---------------------------
(***************************************************************************)
(* Proofs about what hangs on one reservation: its drivers, the link of    *)
(* its trip, its price, its charges and the check of who may make one.     *)
(* For any requests, licences and limit, for any tokens, creations and     *)
(* attempts, and for any prices, services, periods, changes and charges.   *)
(***************************************************************************)
EXTENDS Condutores, Compartilhamento, Precificacao, Bloqueio, FiniteSetTheorems, TLAPS

-----------------------------------------------------------------------------
(* The drivers (Condutores).  What an addition counted and validated still *)
(* holds when it inserts because it holds the reservation's row in         *)
(* between; a removal holds nothing, and only makes the drivers fewer.     *)

\* An addition past its first statement holds the row, and relies on what it
\* validated and counted.
LinhaDeQuemAdiciona ==
  \A a \in Adicoes :
    /\ adicao[a].passo \in {"VALIDAR", "CONTAR", "INSERIR"} => linhaPresa = a
    /\ adicao[a].passo \in {"CONTAR", "INSERIR"} => ~cancelada
    /\ adicao[a].passo = "INSERIR" => Cardinality(condutores) < MaxCondutores

CondutoresInv ==
  /\ CondutoresTypeOK
  /\ IsFiniteSet(condutores)
  /\ LimiteDeCondutores
  /\ LinhaDeQuemAdiciona

LEMMA CondutoresInicio == InitCondutores => CondutoresInv
<1> SUFFICES ASSUME InitCondutores PROVE CondutoresInv
  OBVIOUS
<1>1. Cardinality(condutores) = 0 /\ IsFiniteSet(condutores)
  BY FS_EmptySet DEF InitCondutores
<1>2. CondutoresTypeOK
  BY DEF InitCondutores, CondutoresTypeOK
<1>3. LimiteDeCondutores /\ LinhaDeQuemAdiciona
  BY <1>1, CondutoresAssumption DEF InitCondutores, LimiteDeCondutores, LinhaDeQuemAdiciona
<1> QED BY <1>1, <1>2, <1>3 DEF CondutoresInv

\* A removal never makes room for more than it took.
LEMMA MenosUm ==
  ASSUME NEW S, IsFiniteSet(S), NEW x
  PROVE  /\ IsFiniteSet(S \ {x})
         /\ Cardinality(S \ {x}) \in Nat
         /\ Cardinality(S \ {x}) <= Cardinality(S)
<1>1. S \ {x} \subseteq S
  OBVIOUS
<1>2. IsFiniteSet(S \ {x}) /\ Cardinality(S \ {x}) <= Cardinality(S)
  BY <1>1, FS_Subset
<1> QED BY <1>2, FS_CardinalityType

LEMMA MaisUm ==
  ASSUME NEW S, IsFiniteSet(S), NEW x
  PROVE  /\ IsFiniteSet(S \cup {x})
         /\ Cardinality(S \cup {x}) \in Nat
         /\ Cardinality(S \cup {x}) <= Cardinality(S) + 1
<1>1. /\ IsFiniteSet(S \cup {x})
      /\ Cardinality(S \cup {x}) = IF x \in S THEN Cardinality(S) ELSE Cardinality(S) + 1
  BY FS_AddElement
<1>2. Cardinality(S) \in Nat
  BY FS_CardinalityType
<1> QED BY <1>1, <1>2

\* One step of an addition.
LEMMA PassoDeAdicao ==
  ASSUME CondutoresInv, NEW a \in Adicoes, Adicionar(a)
  PROVE  CondutoresInv' /\ (cancelada => condutores' \subseteq condutores)
<1> USE CondutoresAssumption
        DEF CondutoresInv, CondutoresTypeOK, LimiteDeCondutores, LinhaDeQuemAdiciona,
            AvancarAdicao, EncerrarAdicao
<1>0. Cardinality(condutores) \in Nat
  BY FS_CardinalityType
<1>1. CASE BloquearReserva(a)
  BY <1>0, <1>1 DEF BloquearReserva
<1>2. CASE ValidarReserva(a)
  <2>1. CASE Alteravel
    BY <1>0, <1>2, <2>1 DEF ValidarReserva, Alteravel
  <2>2. CASE ~Alteravel
    BY <1>0, <1>2, <2>2 DEF ValidarReserva
  <2> QED BY <2>1, <2>2
<1>3. CASE ContarCondutores(a)
  <2>1. CASE Cardinality(condutores) < MaxCondutores
    BY <1>0, <1>3, <2>1 DEF ContarCondutores
  <2>2. CASE ~(Cardinality(condutores) < MaxCondutores)
    BY <1>0, <1>3, <2>2 DEF ContarCondutores
  <2> QED BY <2>1, <2>2
<1>4. CASE InserirCondutor(a)
  <2>1. /\ linhaPresa = a /\ ~cancelada
        /\ Cardinality(condutores) < MaxCondutores
    BY <1>4 DEF InserirCondutor
  <2>2. condutores' = condutores \cup {adicao[a].cnh} /\ adicao[a].cnh \in Cnhs
    BY <1>4 DEF InserirCondutor
  <2>3. IsFiniteSet(condutores') /\ Cardinality(condutores') <= MaxCondutores
    <3>1. IsFiniteSet(condutores)
      OBVIOUS
    <3>2. /\ IsFiniteSet(condutores') /\ Cardinality(condutores') \in Nat
          /\ Cardinality(condutores') <= Cardinality(condutores) + 1
      BY ONLY <2>2, <3>1, MaisUm
    <3> QED BY ONLY <1>0, <2>1, <3>2, CondutoresAssumption
  <2>4. \A b \in Adicoes : adicao'[b].passo \notin {"VALIDAR", "CONTAR", "INSERIR"}
    BY <1>4, <2>1 DEF InserirCondutor
  <2>5. CondutoresTypeOK'
    BY <1>4, <2>2 DEF InserirCondutor
  <2> QED BY <2>1, <2>3, <2>4, <2>5
<1> QED BY <1>1, <1>2, <1>3, <1>4 DEF Adicionar

\* One step of a removal, of the clock or of the cancellation.
LEMMA OutroPasso ==
  ASSUME CondutoresInv,
         ChegarInicio \/ CancelarComCondutores \/ \E r \in Remocoes : Remover(r)
  PROVE  CondutoresInv' /\ condutores' \subseteq condutores
<1> USE CondutoresAssumption
        DEF CondutoresInv, CondutoresTypeOK, LimiteDeCondutores, LinhaDeQuemAdiciona
<1>0. Cardinality(condutores) \in Nat
  BY FS_CardinalityType
<1>1. CASE ChegarInicio
  BY <1>1 DEF ChegarInicio
<1>2. CASE CancelarComCondutores
  BY <1>2 DEF CancelarComCondutores
<1>3. ASSUME NEW r \in Remocoes, Remover(r)
      PROVE  CondutoresInv' /\ condutores' \subseteq condutores
  <2>1. CASE LerParaRemover(r)
    BY <1>0, <2>1 DEF LerParaRemover
  <2>2. CASE ProcurarCondutor(r)
    BY <1>0, <2>2 DEF ProcurarCondutor
  <2>3. CASE ApagarCondutor(r)
    <3>1. /\ condutores' = condutores \ {remocao[r].cnh}
          /\ UNCHANGED <<cancelada, iniciada, linhaPresa, adicao>>
      BY <2>3 DEF ApagarCondutor
    <3>2. /\ IsFiniteSet(condutores') /\ Cardinality(condutores') \in Nat
          /\ Cardinality(condutores') <= Cardinality(condutores)
      BY <3>1, MenosUm
    <3>3. CondutoresTypeOK'
      BY <2>3, <3>1 DEF ApagarCondutor
    <3>4. LimiteDeCondutores' /\ LinhaDeQuemAdiciona'
      <4>1. Cardinality(condutores) <= MaxCondutores
        OBVIOUS
      <4>2. LimiteDeCondutores'
        BY ONLY <1>0, <3>2, <4>1, CondutoresAssumption DEF LimiteDeCondutores
      <4>3. \A a \in Adicoes : adicao[a].passo = "INSERIR" => Cardinality(condutores') < MaxCondutores
        <5> SUFFICES ASSUME NEW a \in Adicoes, adicao[a].passo = "INSERIR"
                     PROVE  Cardinality(condutores') < MaxCondutores
          OBVIOUS
        <5>1. Cardinality(condutores) < MaxCondutores
          OBVIOUS
        <5> QED BY ONLY <1>0, <3>2, <5>1, CondutoresAssumption
      <4> QED BY <3>1, <4>2, <4>3
    <3> QED BY <3>1, <3>2, <3>3, <3>4
  <2> QED BY <1>3, <2>1, <2>2, <2>3 DEF Remover
<1> QED BY <1>1, <1>2, <1>3

LEMMA CondutoresPasso ==
  ASSUME CondutoresInv, [NextCondutores]_condutoresVars
  PROVE  CondutoresInv' /\ (cancelada => condutores' \subseteq condutores)
<1>1. CASE UNCHANGED condutoresVars
  BY <1>1 DEF condutoresVars, CondutoresInv, CondutoresTypeOK, LimiteDeCondutores,
              LinhaDeQuemAdiciona
<1> QED BY <1>1, PassoDeAdicao, OutroPasso DEF NextCondutores

(* However many additions and removals run at once, a reservation has at     *)
(* most MAX_CONDUTORES_ADICIONAIS drivers (createWithinLimit).               *)
THEOREM LimiteMantido == SpecCondutores => [](CondutoresTypeOK /\ LimiteDeCondutores)
<1>1. CondutoresInv => CondutoresTypeOK /\ LimiteDeCondutores
  BY DEF CondutoresInv
<1>2. CondutoresInv /\ [NextCondutores]_condutoresVars => CondutoresInv'
  BY CondutoresPasso
<1> QED BY <1>1, <1>2, CondutoresInicio, PTL DEF SpecCondutores

(* No driver is added to a cancelled reservation, also by an addition that   *)
(* validated before the cancellation.                                        *)
THEOREM CanceladaNaoGanhaCondutor == SpecCondutores => CanceladaSemNovoCondutor
<1>1. CondutoresInv /\ [NextCondutores]_condutoresVars => CondutoresInv'
  BY CondutoresPasso
<1>2. CondutoresInv /\ [NextCondutores]_condutoresVars
        => [cancelada => condutores' \subseteq condutores]_condutoresVars
  BY CondutoresPasso
<1> QED BY <1>1, <1>2, CondutoresInicio, PTL DEF SpecCondutores, CanceladaSemNovoCondutor

-----------------------------------------------------------------------------
(* The link (Compartilhamento).  A revocation takes no lock: it cannot     *)
(* come between the read and the write of a creation because a creation    *)
(* only goes on without a live link.                                       *)

\* A creation about to write holds the lock and found no live link.
CriacaoSozinha ==
  \A q \in Criacoes : criacaoLink[q].passo = "GRAVAR" => trancaLink = q /\ ~LinkAtivo

\* While a creation goes on it has an attempt left.
SorteiosRestantes ==
  \A q \in Criacoes :
    criacaoLink[q].passo \in {"INICIO", "GRAVAR"} => criacaoLink[q].sorteios < MaxSorteios

CompartilhamentoInv ==
  /\ CompartilhamentoTypeOK
  /\ RevogacaoVale
  /\ CriacaoSozinha
  /\ SorteiosRestantes

LEMMA CompartilhamentoInicio == InitCompartilhamento => CompartilhamentoInv
<1> SUFFICES ASSUME InitCompartilhamento PROVE CompartilhamentoInv
  OBVIOUS
<1>1. 0 \in 0..MaxSorteios /\ 0 < MaxSorteios
  BY CompartilhamentoAssumption
<1>2. \A q \in Criacoes : criacaoLink[q] = [passo |-> "INICIO", sorteios |-> 0, revogados |-> {}]
  BY DEF InitCompartilhamento
<1>3. CompartilhamentoTypeOK
  BY <1>1 DEF InitCompartilhamento, CompartilhamentoTypeOK
<1>4. RevogacaoVale /\ CriacaoSozinha /\ SorteiosRestantes
  BY <1>1, <1>2 DEF InitCompartilhamento, RevogacaoVale, CriacaoSozinha, SorteiosRestantes,
                    LinkAtivo
<1> QED BY <1>3, <1>4 DEF CompartilhamentoInv

LEMMA CompartilhamentoPasso ==
  ASSUME CompartilhamentoInv, [NextCompartilhamento]_compartilhamentoVars
  PROVE  CompartilhamentoInv'
<1> USE CompartilhamentoAssumption
        DEF CompartilhamentoInv, CompartilhamentoTypeOK, RevogacaoVale, CriacaoSozinha,
            SorteiosRestantes, LinkAtivo
<1>1. CASE UNCHANGED compartilhamentoVars
  BY <1>1 DEF compartilhamentoVars
<1>2. ASSUME NEW q \in Criacoes, LerLink(q) PROVE CompartilhamentoInv'
  <2>1. CASE link # SemLink /\ ~revogadoEm
    BY <1>2, <2>1 DEF LerLink
  <2>2. CASE ~(link # SemLink /\ ~revogadoEm)
    BY <1>2, <2>2 DEF LerLink
  <2> QED BY <2>1, <2>2
<1>3. ASSUME NEW q \in Criacoes, GravarLink(q) PROVE CompartilhamentoInv'
  <2>1. /\ trancaLink = q /\ trancaLink' = SemLink /\ UNCHANGED revogados
        /\ criacaoLink[q].sorteios \in 0..MaxSorteios
        /\ criacaoLink[q].sorteios < MaxSorteios
    BY <1>3 DEF GravarLink
  <2>2. CASE /\ \E t \in Novos : link' = t
             /\ revogadoEm' = FALSE
             /\ criacaoLink' = [criacaoLink EXCEPT ![q].passo = "FIM"]
    BY <2>1, <2>2 DEF Novos
  <2>3. ASSUME UNCHANGED <<link, revogadoEm>>,
               NEW p \in {"INICIO", "ERRO"},
               p = "INICIO" => criacaoLink[q].sorteios + 1 < MaxSorteios,
               criacaoLink' = [criacaoLink EXCEPT ![q].sorteios = @ + 1, ![q].passo = p]
        PROVE  CompartilhamentoInv'
    <3>1. criacaoLink[q].sorteios + 1 \in 0..MaxSorteios
      BY ONLY <2>1, CompartilhamentoAssumption
    <3>2. CompartilhamentoTypeOK'
      BY <2>1, <2>3, <3>1
    <3>3. \A o \in Criacoes \ {q} : criacaoLink'[o] = criacaoLink[o]
      BY <2>3
    <3>4. criacaoLink'[q].passo = p /\ criacaoLink'[q].sorteios = criacaoLink[q].sorteios + 1
      BY <2>3
    <3> QED BY <2>1, <2>3, <3>2, <3>3, <3>4
  <2>4. CASE criacaoLink[q].sorteios + 1 < MaxSorteios
    BY <1>3, <2>2, <2>3, <2>4 DEF GravarLink
  <2>5. CASE ~(criacaoLink[q].sorteios + 1 < MaxSorteios)
    BY <1>3, <2>2, <2>3, <2>5 DEF GravarLink
  <2> QED BY <2>4, <2>5
<1>4. CASE RevogarLink
  BY <1>4 DEF RevogarLink
<1> QED BY <1>1, <1>2, <1>3, <1>4 DEF NextCompartilhamento

(* A revoked token is never live again, and a creation under way has seen    *)
(* every revocation (criarOuObterAtivo, revogar).                            *)
THEOREM RevogacaoMantida == SpecCompartilhamento => [](CompartilhamentoTypeOK /\ RevogacaoVale)
<1>1. CompartilhamentoInv => CompartilhamentoTypeOK /\ RevogacaoVale
  BY DEF CompartilhamentoInv
<1> QED BY <1>1, CompartilhamentoInicio, CompartilhamentoPasso, PTL DEF SpecCompartilhamento

-----------------------------------------------------------------------------
(* The money of a reservation (Precificacao).                              *)

\* The period a change of price will leave, by what the row says now.
Final(r) == [ini |-> IF r.ini = Nunca THEN periodo.ini ELSE r.ini,
             fim |-> IF r.fim = Nunca THEN periodo.fim ELSE r.fim]

PrecoTipos ==
  /\ PrecificacaoTypeOK
  /\ diaria \in Nat /\ servicos \in Nat /\ valorTotal \in Nat /\ cobrado \in Nat
  /\ repreco \in [Reprecos -> [passo : {"INICIO", "GRAVAR", "FIM"},
                               ini : Inicios \cup {Nunca}, fim : Fins \cup {Nunca},
                               total : Nat, preco : Nat]]
  /\ cruzada \in BOOLEAN

\* Before the creation, the quote is what the creation will charge; afterwards,
\* and while no change has crossed another, the total is the price of the
\* period, and so is what each change is about to write.
Calculado ==
  /\ fasePreco = "NOVA" =>
       /\ ~cruzada /\ multaLida = SemEncargo
       /\ \A a \in Reprecos : repreco[a].passo = "INICIO"
       /\ cotado # Nunca =>
            cotado = Preco(IF precoLido = Nunca THEN diaria ELSE precoLido, periodo, servicos)
  /\ fasePreco # "NOVA" /\ ~cruzada =>
       /\ valorTotal = Preco(cobrado, periodo, servicos)
       /\ cotado # Nunca => valorTotal = cotado
  /\ ~cruzada => periodo.fim - periodo.ini >= Hora
  /\ ~cruzada => \A a \in Reprecos : repreco[a].passo = "GRAVAR" =>
       /\ Final(repreco[a]).fim - Final(repreco[a]).ini >= Hora
       /\ repreco[a].total = Preco(repreco[a].preco, Final(repreco[a]), servicos)

\* A charge is what its base and its minutes make it.
BemCalculado(e) ==
  /\ e.base \in Nat /\ e.minutos \in Int /\ e.valor \in Nat
  /\ e.tipo = "MULTA" =>
       e.valor = IF Tardio(e.locatario, e.minutos) THEN Multa(e.base) ELSE 0
  /\ e.tipo = "ATRASO" =>
       e.valor = IF e.minutos > 0 THEN CobrancaAtraso(e.base, e.minutos) ELSE 0

\* The fee charged is the fee read, and that of the total unless a change
\* crossed the cancellation.
Encargos ==
  /\ BemCalculado(encargo) /\ BemCalculado(multaLida)
  /\ multaLida # SemEncargo => multaLida.tipo = "MULTA"
  /\ multaLida # SemEncargo /\ ~cruzada => multaLida.base = valorTotal
  /\ encargo.tipo = "MULTA" => encargo = multaLida /\ multaLida # SemEncargo

PrecoInv == PrecoTipos /\ Calculado /\ Encargos

\* The instants and the prices are whole numbers.
LEMMA Numeros ==
  /\ Diarias \subseteq Nat /\ ValoresServico \subseteq Nat
  /\ Inicios \subseteq Nat /\ Fins \subseteq Nat /\ Margens \subseteq Int
BY PrecificacaoAssumption

\* A period of an hour or more is covered by its days and not by one less; no
\* period costs less than a day.
LEMMA DiasCobrem ==
  ASSUME NEW d \in Int
  PROVE  /\ Dias(d) \in Nat /\ Dias(d) >= 1
         /\ d >= 0 => /\ Dias(d) \in 1..((d \div Dia) + 1)
                      /\ Dias(d) * Dia >= d
                      /\ Dias(d) > 1 => (Dias(d) - 1) * Dia < d
BY DEF Dias, Dia

LEMMA PrecoNatural ==
  ASSUME NEW v \in Nat, NEW s \in Nat, NEW p, p.ini \in Int, p.fim \in Int
  PROVE  /\ Preco(v, p, s) \in Nat
         /\ Preco(v, p, s) = v * Dias(p.fim - p.ini) + s
<1>1. Dias(p.fim - p.ini) \in Nat
  BY DiasCobrem
<1>2. v * Dias(p.fim - p.ini) \in Nat
  <2> HIDE DEF Dias
  <2> QED BY <1>1
<1> QED
  BY <1>1, <1>2 DEF Preco

\* The fee is a fifth of the total to the nearest cent.
LEMMA MultaPerto ==
  ASSUME NEW b \in Nat
  PROVE  Multa(b) \in Nat /\ 10 * Multa(b) \in (2 * b - 5)..(2 * b + 5)
BY DEF Multa, Arredondar

\* A late return costs 110% of its share of the daily price to the nearest cent,
\* and never less per whole day than the day.
LEMMA AtrasoPerto ==
  ASSUME NEW v \in Nat, NEW t \in Nat
  PROVE  /\ CobrancaAtraso(v, t) \in Nat
         /\ CobrancaAtraso(v, t) * 10 * Dia
              \in (v * t * 11 - 5 * Dia)..(v * t * 11 + 5 * Dia)
         /\ CobrancaAtraso(v, t) >= v * (t \div Dia)
<1> DEFINE w == v * t
           m == t \div Dia
           c == CobrancaAtraso(v, t)
<1>1. w \in Nat
  OBVIOUS
<1>2. m \in Nat /\ t >= m * 1440
  BY DEF Dia
<1>3. c = (2 * (w * 11) + 14400) \div 28800
  BY DEF CobrancaAtraso, Arredondar, Dia
<1>4. c \in Nat /\ c * 28800 <= 22 * w + 14400 /\ 22 * w + 14400 < c * 28800 + 28800
  <2> HIDE DEF w, c
  <2> QED BY <1>1, <1>3
<1>5. v * m \in Nat /\ w >= 1440 * (v * m)
  <2>1. v * t >= v * (m * 1440)
    <3> HIDE DEF m
    <3> QED BY <1>2
  <2>2. v * (m * 1440) = 1440 * (v * m)
    <3> HIDE DEF m
    <3> QED BY <1>2
  <2>3. v * m \in Nat
    <3> HIDE DEF m
    <3> QED BY <1>2
  <2> QED BY <2>1, <2>2, <2>3
<1>6. c >= v * m
  <2> DEFINE k == v * m
  <2> HIDE DEF w, c, k
  <2>1. k \in Nat /\ w >= 1440 * k
    BY <1>5 DEF k
  <2>2. c >= k
    BY <1>1, <1>4, <2>1
  <2> QED BY <2>2 DEF k
<1>7. c * 10 * Dia \in (w * 11 - 5 * Dia)..(w * 11 + 5 * Dia)
  <2> HIDE DEF w, c
  <2> QED BY <1>1, <1>4 DEF Dia
<1> QED
  BY <1>4, <1>6, <1>7

\* The merged period is of whole numbers.
LEMMA FinalTipo ==
  ASSUME PrecoTipos, NEW a \in Reprecos
  PROVE  /\ Final(repreco[a]).ini \in Inicios /\ Final(repreco[a]).fim \in Fins
         /\ periodo.ini \in Inicios /\ periodo.fim \in Fins
         /\ repreco[a].total \in Nat /\ repreco[a].preco \in Nat
BY DEF PrecoTipos, PrecificacaoTypeOK, Final

\* The kept period, and what was read and quoted, are whole numbers too.
LEMMA Lidos ==
  ASSUME PrecoTipos
  PROVE  /\ periodo.ini \in Int /\ periodo.fim \in Int
         /\ precoLido \in Nat \cup {Nunca} /\ cotado \in Nat \cup {Nunca}
         /\ Preco(diaria, periodo, servicos) \in Nat
<1>1. periodo.ini \in Inicios /\ periodo.fim \in Fins
  BY DEF PrecoTipos, PrecificacaoTypeOK
<1>2. periodo.ini \in Nat /\ periodo.fim \in Nat
  BY <1>1, Numeros
<1>3. diaria \in Nat /\ servicos \in Nat
  BY DEF PrecoTipos
<1>4. Preco(diaria, periodo, servicos) \in Nat
  BY <1>2, <1>3, PrecoNatural
<1>5. precoLido \in Nat \cup {Nunca} /\ cotado \in Nat \cup {Nunca}
  BY DEF PrecoTipos, PrecificacaoTypeOK
<1> QED
  BY <1>2, <1>4, <1>5

LEMMA PrecoInicio == InitPrecificacao => PrecoInv
<1> SUFFICES ASSUME InitPrecificacao PROVE PrecoInv
  OBVIOUS
<1>1. periodo \in [ini : Inicios, fim : Fins] /\ periodo.fim - periodo.ini >= Hora
  BY DEF InitPrecificacao
<1>2. PrecoTipos
  <2>1. diaria \in Nat /\ servicos \in Nat
    BY Numeros DEF InitPrecificacao
  <2>2. RequisicaoLivre \in [passo : {"INICIO", "GRAVAR", "FIM"}, ini : Inicios \cup {Nunca},
                             fim : Fins \cup {Nunca}, total : Nat, preco : Nat]
    BY DEF RequisicaoLivre
  <2>3. repreco \in [Reprecos -> [passo : {"INICIO", "GRAVAR", "FIM"},
                                  ini : Inicios \cup {Nunca}, fim : Fins \cup {Nunca},
                                  total : Nat, preco : Nat]]
    BY <2>2 DEF InitPrecificacao
  <2>4. PrecificacaoTypeOK
    BY <1>1, <2>1 DEF InitPrecificacao, PrecificacaoTypeOK, SemEncargo
  <2> QED BY <2>1, <2>3, <2>4 DEF InitPrecificacao, PrecoTipos
<1>3. Calculado
  BY <1>1 DEF InitPrecificacao, Calculado, RequisicaoLivre
<1>4. Encargos
  BY DEF InitPrecificacao, Encargos, BemCalculado, SemEncargo
<1> QED
  BY <1>2, <1>3, <1>4 DEF PrecoInv

-----------------------------------------------------------------------------
(* Each step keeps the calculations.                                       *)

LEMMA LerReprecoPasso ==
  ASSUME PrecoInv, NEW a \in Reprecos, LerParaRepreco(a)
  PROVE  PrecoInv'
<1> USE DEF PrecoInv
<1>1. PICK ini \in Inicios \cup {Nunca}, fim \in Fins \cup {Nunca} :
        LET final == [ini |-> IF ini = Nunca THEN periodo.ini ELSE ini,
                      fim |-> IF fim = Nunca THEN periodo.fim ELSE fim] IN
        /\ final.fim - final.ini >= Hora
        /\ repreco' = [repreco EXCEPT ![a] =
             [passo |-> "GRAVAR", ini |-> ini, fim |-> fim,
              total |-> Preco(diaria, final, servicos), preco |-> diaria]]
  BY DEF LerParaRepreco
<1> DEFINE final == [ini |-> IF ini = Nunca THEN periodo.ini ELSE ini,
                     fim |-> IF fim = Nunca THEN periodo.fim ELSE fim]
           r == [passo |-> "GRAVAR", ini |-> ini, fim |-> fim,
                 total |-> Preco(diaria, final, servicos), preco |-> diaria]
<1>2. /\ fasePreco = "CRIADA"
      /\ UNCHANGED <<fasePreco, diaria, periodo, servicos, valorTotal, cobrado, cotado,
                     precoLido, multaLida, encargo, cruzada, precos>>
  BY DEF LerParaRepreco
<1>3. final.ini \in Inicios /\ final.fim \in Fins
  BY DEF PrecoTipos, PrecificacaoTypeOK
<1>4. Preco(diaria, final, servicos) \in Nat
  <2>1. \A x \in Inicios \cup Fins : x \in Int
    BY Numeros
  <2>2. final.ini \in Int /\ final.fim \in Int
    <3> HIDE DEF final
    <3> QED BY <1>3, <2>1
  <2>3. diaria \in Nat /\ servicos \in Nat
    BY DEF PrecoTipos
  <2> HIDE DEF final
  <2> QED BY <2>2, <2>3, PrecoNatural
<1>5. repreco' = [repreco EXCEPT ![a] = r] /\ final.fim - final.ini >= Hora
  BY <1>1
<1>6. r \in [passo : {"INICIO", "GRAVAR", "FIM"}, ini : Inicios \cup {Nunca},
             fim : Fins \cup {Nunca}, total : Nat, preco : Nat]
  BY <1>4 DEF PrecoTipos
<1>7. PrecoTipos'
  <2> HIDE DEF r
  <2> QED BY <1>2, <1>5, <1>6 DEF PrecoTipos, PrecificacaoTypeOK
<1>8. Calculado'
  <2>1. ASSUME NEW o \in Reprecos, repreco'[o].passo = "GRAVAR", ~cruzada
        PROVE  /\ Final(repreco[o])'.fim - Final(repreco[o])'.ini >= Hora
               /\ repreco'[o].total = Preco(repreco'[o].preco, Final(repreco[o])', servicos)
    <3>1. CASE o = a
      <4>1. repreco'[o] = r
        BY <1>5, <3>1 DEF PrecoTipos
      <4>2. Final(repreco[o])' = final /\ repreco'[o].preco = diaria
            /\ repreco'[o].total = Preco(diaria, final, servicos)
        BY <1>2, <4>1 DEF Final
      <4> QED BY <1>5, <4>2
    <3>2. CASE o # a
      <4>1. repreco'[o] = repreco[o] /\ Final(repreco[o])' = Final(repreco[o])
        BY <1>2, <1>5, <3>2 DEF PrecoTipos, Final
      <4> QED BY <2>1, <4>1 DEF Calculado
    <3> QED BY <3>1, <3>2
  <2> QED BY <1>2, <2>1 DEF Calculado
<1>9. Encargos'
  BY <1>2 DEF Encargos, BemCalculado
<1> QED
  BY <1>7, <1>8, <1>9

LEMMA GravarReprecoPasso ==
  ASSUME PrecoInv, NEW a \in Reprecos, GravarRepreco(a)
  PROVE  PrecoInv'
<1> USE DEF PrecoInv
<1>1. /\ repreco' = [repreco EXCEPT ![a].passo = "FIM"]
      /\ repreco[a].passo = "GRAVAR"
      /\ UNCHANGED <<fasePreco, diaria, servicos, precoLido, multaLida, encargo, precos>>
  BY DEF GravarRepreco
<1>2. \A o \in Reprecos : /\ o # a => repreco'[o] = repreco[o]
                          /\ repreco'[a].passo = "FIM"
  BY <1>1 DEF PrecoTipos
<1>3. repreco' \in [Reprecos -> [passo : {"INICIO", "GRAVAR", "FIM"},
                                 ini : Inicios \cup {Nunca}, fim : Fins \cup {Nunca},
                                 total : Nat, preco : Nat]]
  BY <1>1 DEF PrecoTipos
<1>4. CASE fasePreco # "CRIADA"
  <2>1. UNCHANGED <<periodo, valorTotal, cobrado, cotado, cruzada>>
    BY <1>4 DEF GravarRepreco
  <2>2. PrecoTipos' /\ Encargos'
    BY <1>1, <1>3, <2>1 DEF PrecoTipos, PrecificacaoTypeOK, Encargos, BemCalculado
  <2>3. fasePreco # "NOVA"
    BY <1>1 DEF Calculado
  <2>4. ASSUME NEW o \in Reprecos, repreco'[o].passo = "GRAVAR", ~cruzada
        PROVE  /\ Final(repreco[o])'.fim - Final(repreco[o])'.ini >= Hora
               /\ repreco'[o].total = Preco(repreco'[o].preco, Final(repreco[o])', servicos)
    <3>1. o # a /\ repreco'[o] = repreco[o] /\ Final(repreco[o])' = Final(repreco[o])
      BY <1>2, <2>1, <2>4 DEF Final
    <3> QED BY <2>4, <3>1 DEF Calculado
  <2> QED
    BY <1>1, <2>1, <2>2, <2>3, <2>4 DEF Calculado
<1>5. CASE fasePreco = "CRIADA"
  <2>1. /\ periodo' = Final(repreco[a]) /\ valorTotal' = repreco[a].total
        /\ cobrado' = repreco[a].preco /\ cotado' = Nunca
        /\ cruzada' = (cruzada \/ Pendurada)
    BY <1>5 DEF GravarRepreco, Final
  <2>2. /\ Final(repreco[a]).ini \in Inicios /\ Final(repreco[a]).fim \in Fins
        /\ repreco[a].total \in Nat /\ repreco[a].preco \in Nat
    BY FinalTipo
  <2>3. Final(repreco[a]) \in [ini : Inicios, fim : Fins] /\ cruzada' \in BOOLEAN
    BY <2>1, <2>2 DEF Final, PrecoTipos
  <2>4. PrecoTipos'
    BY <1>1, <1>3, <2>1, <2>2, <2>3 DEF PrecoTipos, PrecificacaoTypeOK
  <2>5. ~cruzada' => /\ ~cruzada /\ multaLida = SemEncargo
                     /\ \A o \in Reprecos : repreco'[o].passo # "GRAVAR"
    BY <2>1 DEF Pendurada
  <2>6. Encargos'
    BY <1>1, <2>5 DEF Encargos, BemCalculado
  <2>7. ~cruzada' => /\ periodo'.fim - periodo'.ini >= Hora
                     /\ valorTotal' = Preco(cobrado', periodo', servicos')
    BY <1>1, <2>1, <2>5 DEF Calculado
  <2>8. Calculado'
    BY <1>1, <1>5, <2>1, <2>5, <2>7 DEF Calculado
  <2> QED
    BY <2>4, <2>6, <2>8
<1> QED
  BY <1>4, <1>5

LEMMA CriarPasso ==
  ASSUME PrecoInv, CriarComPreco
  PROVE  PrecoInv'
<1> USE DEF PrecoInv
<1>1. /\ fasePreco = "NOVA" /\ precoLido # Nunca /\ fasePreco' = "CRIADA"
      /\ valorTotal' = Preco(precoLido, periodo, servicos) /\ cobrado' = precoLido
      /\ UNCHANGED <<diaria, periodo, servicos, cotado, precoLido, repreco, multaLida,
                     encargo, cruzada, precos>>
  BY DEF CriarComPreco
<1>2. precoLido \in Nat /\ periodo.ini \in Int /\ periodo.fim \in Int
  BY <1>1, Lidos
<1>3. Preco(precoLido, periodo, servicos) \in Nat
  BY <1>2, PrecoNatural DEF PrecoTipos
<1>4. PrecoTipos'
  BY <1>1, <1>2, <1>3 DEF PrecoTipos, PrecificacaoTypeOK
<1>5. Calculado'
  BY <1>1 DEF Calculado, Final
<1>6. Encargos'
  BY <1>1 DEF Encargos, BemCalculado, Calculado
<1> QED
  BY <1>4, <1>5, <1>6

\* The steps that charge something.
LEMMA EncargoPasso ==
  ASSUME PrecoInv,
         \/ \E t \in Margens : DevolverComAtraso(t) \/ \E l \in BOOLEAN : LerParaCancelar(l, t)
         \/ CancelarComMulta
  PROVE  PrecoInv'
<1> USE DEF PrecoInv
<1>1. ASSUME NEW t \in Margens, NEW l \in BOOLEAN, LerParaCancelar(l, t) PROVE PrecoInv'
  <2>1. /\ multaLida = SemEncargo /\ t \in Int
        /\ multaLida' = [tipo |-> "MULTA", base |-> valorTotal, minutos |-> t, locatario |-> l,
                         valor |-> IF Tardio(l, t) THEN Multa(valorTotal) ELSE 0]
        /\ UNCHANGED <<fasePreco, diaria, periodo, servicos, valorTotal, cobrado, cotado,
                       precoLido, repreco, encargo, cruzada, precos>>
        /\ fasePreco # "NOVA"
    BY <1>1, Numeros DEF LerParaCancelar
  <2>2. PrecoTipos' /\ Calculado'
    BY <2>1 DEF PrecoTipos, PrecificacaoTypeOK, Calculado, Final
  <2>3. BemCalculado(multaLida)'
    BY <2>1, MultaPerto DEF BemCalculado, PrecoTipos
  <2>4. Encargos'
    BY <2>1, <2>3 DEF Encargos, BemCalculado
  <2> QED BY <2>2, <2>4
<1>2. ASSUME NEW t \in Margens, DevolverComAtraso(t) PROVE PrecoInv'
  <2>1. /\ fasePreco = "EM_ANDAMENTO" /\ fasePreco' = "DEVOLVIDA" /\ t \in Int
        /\ encargo' = [tipo |-> "ATRASO", base |-> diaria, minutos |-> t, locatario |-> FALSE,
                       valor |-> IF t > 0 THEN CobrancaAtraso(diaria, t) ELSE 0]
        /\ UNCHANGED <<diaria, periodo, servicos, valorTotal, cobrado, cotado, precoLido,
                       repreco, multaLida, cruzada, precos>>
    BY <1>2, Numeros DEF DevolverComAtraso
  <2>2. t > 0 => CobrancaAtraso(diaria, t) \in Nat
    BY <2>1, AtrasoPerto DEF PrecoTipos
  <2>3. BemCalculado(encargo)'
    BY <2>1, <2>2 DEF BemCalculado, PrecoTipos
  <2>4. PrecoTipos' /\ Calculado'
    BY <2>1, <2>2 DEF PrecoTipos, PrecificacaoTypeOK, Calculado, Final
  <2>5. Encargos'
    BY <2>1, <2>3 DEF Encargos, BemCalculado
  <2> QED BY <2>4, <2>5
<1>3. CASE CancelarComMulta
  <2>1. /\ fasePreco \in {"CRIADA", "PAGA"} /\ fasePreco' = "CANCELADA"
        /\ encargo' = multaLida /\ multaLida # SemEncargo
        /\ UNCHANGED <<diaria, periodo, servicos, valorTotal, cobrado, cotado, precoLido,
                       repreco, multaLida, cruzada, precos>>
    BY <1>3 DEF CancelarComMulta
  <2>2. PrecoTipos' /\ Calculado' /\ Encargos'
    BY <2>1 DEF PrecoTipos, PrecificacaoTypeOK, Calculado, Final, Encargos, BemCalculado
  <2> QED BY <2>2
<1> QED
  BY <1>1, <1>2, <1>3

\* Quotes, readings and the owner's changes of price.
LEMMA CotacaoPasso ==
  ASSUME PrecoInv, Cotar \/ LerPreco \/ \E v \in Diarias : MudarDiaria(v)
  PROVE  PrecoInv'
<1> USE DEF PrecoInv
<1>1. CASE Cotar
  <2>1. /\ fasePreco = "NOVA" /\ precoLido = Nunca
        /\ cotado' = Preco(diaria, periodo, servicos)
        /\ UNCHANGED <<fasePreco, diaria, periodo, servicos, valorTotal, cobrado, precoLido,
                       repreco, multaLida, encargo, cruzada, precos>>
    BY <1>1 DEF Cotar
  <2>2. Preco(diaria, periodo, servicos) \in Nat
    BY Lidos
  <2>3. PrecoTipos' /\ Calculado' /\ Encargos'
    BY <2>1, <2>2 DEF PrecoTipos, PrecificacaoTypeOK, Calculado, Final, Encargos, BemCalculado
  <2> QED BY <2>3
<1>2. CASE LerPreco
  <2>1. /\ fasePreco = "NOVA" /\ precoLido = Nunca /\ precoLido' = diaria
        /\ UNCHANGED <<fasePreco, diaria, periodo, servicos, valorTotal, cobrado, cotado,
                       repreco, multaLida, encargo, cruzada, precos>>
    BY <1>2 DEF LerPreco
  <2>2. diaria # Nunca
    BY DEF PrecoTipos, Nunca
  <2>3. PrecoTipos' /\ Calculado' /\ Encargos'
    BY <2>1, <2>2 DEF PrecoTipos, PrecificacaoTypeOK, Calculado, Final, Encargos, BemCalculado
  <2> QED BY <2>3
<1>3. ASSUME NEW v \in Diarias, MudarDiaria(v) PROVE PrecoInv'
  <2>1. /\ diaria' = v /\ v \in Nat
        /\ cotado' = IF fasePreco = "NOVA" /\ precoLido = Nunca THEN Nunca ELSE cotado
        /\ UNCHANGED <<fasePreco, periodo, servicos, valorTotal, cobrado, precoLido, repreco,
                       multaLida, encargo, cruzada>>
    BY <1>3, Numeros DEF MudarDiaria
  <2>2. PrecoTipos' /\ Calculado' /\ Encargos'
    BY <2>1 DEF PrecoTipos, PrecificacaoTypeOK, Calculado, Final, Encargos, BemCalculado
  <2> QED BY <2>2
<1> QED
  BY <1>1, <1>2, <1>3

LEMMA PrecoPasso ==
  ASSUME PrecoInv, [NextPrecificacao]_precoVars
  PROVE  PrecoInv'
<1> USE DEF PrecoInv
<1>1. CASE UNCHANGED precoVars
  BY <1>1 DEF precoVars, PrecoTipos, PrecificacaoTypeOK, Calculado, Final, Encargos,
              BemCalculado
<1>2. CASE Avancar("CRIADA", "PAGA") \/ Avancar("PAGA", "EM_ANDAMENTO")
  <2>1. /\ fasePreco \in {"CRIADA", "PAGA"} /\ fasePreco' \in {"PAGA", "EM_ANDAMENTO"}
        /\ UNCHANGED <<diaria, periodo, servicos, valorTotal, cobrado, cotado, precoLido,
                       repreco, multaLida, encargo, cruzada, precos>>
    BY <1>2 DEF Avancar
  <2>2. PrecoTipos' /\ Calculado' /\ Encargos'
    BY <2>1 DEF PrecoTipos, PrecificacaoTypeOK, Calculado, Final, Encargos, BemCalculado
  <2> QED BY <2>2
<1> QED
  BY <1>1, <1>2, LerReprecoPasso, GravarReprecoPasso, CriarPasso, EncargoPasso, CotacaoPasso
     DEF NextPrecificacao

LEMMA PrecoSempre == SpecPrecificacao => []PrecoInv
BY PrecoInicio, PrecoPasso, PTL DEF SpecPrecificacao

(* Every day begun is paid, and no other, at the daily price of the last     *)
(* calculation, and the renter pays what was quoted last, for any prices,    *)
(* services, periods and changes, as long as no changes overlapped (create,  *)
(* update, precificar).                                                      *)
THEOREM TotalSempreConfere == SpecPrecificacao => []TotalConfere
<1>1. ASSUME PrecoInv PROVE TotalConfere
  <2> SUFFICES ASSUME fasePreco # "NOVA", ~cruzada
               PROVE  LET d == periodo.fim - periodo.ini IN
                      /\ \E n \in 1..((d \div Dia) + 1) :
                           /\ valorTotal = cobrado * n + servicos
                           /\ n * Dia >= d /\ (n > 1 => (n - 1) * Dia < d)
                      /\ cotado # Nunca => valorTotal = cotado
    BY DEF TotalConfere
  <2> DEFINE d == periodo.fim - periodo.ini
  <2>1. periodo.fim \in Int /\ periodo.ini \in Int
    BY <1>1, Lidos DEF PrecoInv
  <2>2. d \in Int /\ d >= 0
    BY <1>1, <2>1 DEF PrecoInv, Calculado, Hora
  <2>3. valorTotal = cobrado * Dias(d) + servicos
    BY <1>1, <2>1, PrecoNatural DEF PrecoInv, PrecoTipos, Calculado
  <2>4. /\ Dias(d) \in 1..((d \div Dia) + 1)
        /\ Dias(d) * Dia >= d
        /\ Dias(d) > 1 => (Dias(d) - 1) * Dia < d
    BY <2>2, DiasCobrem
  <2>5. cotado # Nunca => valorTotal = cotado
    BY <1>1 DEF PrecoInv, Calculado
  <2> HIDE DEF d
  <2>6. \E n \in 1..((d \div Dia) + 1) :
          /\ valorTotal = cobrado * n + servicos
          /\ n * Dia >= d /\ (n > 1 => (n - 1) * Dia < d)
    BY <2>3, <2>4
  <2> QED BY <2>5, <2>6 DEF d
<1> QED
  BY <1>1, PrecoSempre, PTL

(* A fee is owed exactly for a renter's cancellation after the limit of two  *)
(* hours and is a fifth of the total; a late return costs its share of 110%  *)
(* of the daily price; both to the nearest cent, for any prices and instants *)
(* (cancelarReserva, calcularCobrancaAtraso).                                *)
THEOREM EncargoSempreConfere == SpecPrecificacao => []EncargoConfere
<1>1. ASSUME PrecoInv PROVE EncargoConfere
  <2> DEFINE e == encargo
  <2>1. BemCalculado(e) /\ (e.tipo = "MULTA" => e = multaLida /\ multaLida # SemEncargo)
    BY <1>1 DEF PrecoInv, Encargos
  <2>2. ASSUME e.tipo = "MULTA"
        PROVE  IF e.locatario /\ e.minutos + PrazoCancelamento > 0
               THEN /\ 10 * e.valor \in (2 * e.base - 5)..(2 * e.base + 5)
                    /\ ~cruzada => e.base = valorTotal
               ELSE e.valor = 0
    <3>1. Tardio(e.locatario, e.minutos)
            <=> e.locatario /\ e.minutos + PrazoCancelamento > 0
      BY <2>1 DEF Tardio, BemCalculado, PrazoCancelamento
    <3>2. ~cruzada => e.base = valorTotal
      BY <1>1, <2>1, <2>2 DEF PrecoInv, Encargos
    <3>3. e.base \in Nat /\ e.valor = IF Tardio(e.locatario, e.minutos) THEN Multa(e.base) ELSE 0
      BY <2>1, <2>2 DEF BemCalculado
    <3>4. 10 * Multa(e.base) \in (2 * e.base - 5)..(2 * e.base + 5)
      BY <3>3, MultaPerto
    <3> HIDE DEF e
    <3> QED BY <3>1, <3>2, <3>3, <3>4
  <2>3. ASSUME e.tipo = "ATRASO"
        PROVE  IF e.minutos <= 0 THEN e.valor = 0
               ELSE LET exato == e.base * e.minutos * 11 IN
                    /\ e.valor * 10 * Dia \in (exato - 5 * Dia)..(exato + 5 * Dia)
                    /\ e.valor >= e.base * (e.minutos \div Dia)
    <3>1. /\ e.base \in Nat /\ e.minutos \in Int
          /\ e.valor = IF e.minutos > 0 THEN CobrancaAtraso(e.base, e.minutos) ELSE 0
      BY <2>1, <2>3 DEF BemCalculado
    <3>2. CASE e.minutos <= 0
      BY <3>1, <3>2
    <3>3. CASE e.minutos > 0
      <4>1. e.minutos \in Nat
        BY <3>1, <3>3
      <4> DEFINE v == e.base
                 t == e.minutos
                 c == CobrancaAtraso(v, t)
      <4>2. v \in Nat /\ t \in Nat /\ e.valor = c
        BY <3>1, <3>3, <4>1
      <4>3. /\ c * 10 * Dia \in (v * t * 11 - 5 * Dia)..(v * t * 11 + 5 * Dia)
            /\ c >= v * (t \div Dia)
        <5> HIDE DEF v, t
        <5> QED BY <4>2, AtrasoPerto
      <4>4. /\ e.valor * 10 * Dia \in (v * t * 11 - 5 * Dia)..(v * t * 11 + 5 * Dia)
            /\ e.valor >= v * (t \div Dia)
        <5> HIDE DEF v, t, c, e
        <5> QED BY <4>2, <4>3
      <4>5. ~(e.minutos <= 0)
        BY <3>1, <3>3
      <4> HIDE DEF e
      <4> QED BY <4>4, <4>5, Zenon
    <3> QED BY <3>1, <3>2, <3>3
  <2> QED BY <2>2, <2>3 DEF EncargoConfere
<1> QED
  BY <1>1, PrecoSempre, PTL

-----------------------------------------------------------------------------
(* The charges (Cobranca), for any charges and number of requests.  The    *)
(* last write of a payment has no condition; that it settles the charge    *)
(* once rests on the request being alone with it (ProcessamentoExclusivo), *)
(* which needs the assumption that no live request lasts the 15 minutes    *)
(* after which others take its charge: ~PedidoLento.                       *)

CobrancaInv == CobrancaTypeOK /\ ProcessamentoExclusivo /\ QuitadaTemPagador

LEMMA CobrancaInit == InitCobranca => CobrancaInv
  BY DEF InitCobranca, CobrancaInv, CobrancaTypeOK, ProcessamentoExclusivo,
         QuitadaTemPagador, StatusCobranca, Desfechos, Processando

\* Every step keeps the types.
LEMMA CobrancaTipos ==
  ASSUME CobrancaTypeOK, [NextCobranca]_cobrancaVars
  PROVE  CobrancaTypeOK'
<1> USE DEF CobrancaTypeOK, StatusCobranca, Desfechos, Pendentes
<1>1. CASE UNCHANGED cobrancaVars
  BY <1>1 DEF cobrancaVars, pedidoCobrancaVars
<1>2. ASSUME NEW c \in Cobrancas, CriarCobranca(c) PROVE CobrancaTypeOK'
  BY <1>2 DEF CriarCobranca, pedidoCobrancaVars
<1>3. ASSUME NEW c \in Cobrancas, Envelhecer(c) PROVE CobrancaTypeOK'
  BY <1>3 DEF Envelhecer, pedidoCobrancaVars
<1>4. CASE ListarPendentes
  BY <1>4 DEF ListarPendentes, Expiradas, pedidoCobrancaVars
<1>5. ASSUME NEW p \in Pagamentos, NEW c \in Cobrancas, IniciarPedido(p, c)
      PROVE CobrancaTypeOK'
  BY <1>5 DEF IniciarPedido, Expiradas
<1>6. ASSUME NEW p \in Pagamentos, LerCobranca(p) PROVE CobrancaTypeOK'
  BY <1>6 DEF LerCobranca
<1>7. ASSUME NEW p \in Pagamentos, MarcarProcessando(p) PROVE CobrancaTypeOK'
  <2>1. alvo[p] \in Cobrancas
    BY <1>7 DEF MarcarProcessando
  <2> QED BY <1>7, <2>1 DEF MarcarProcessando
<1>8. ASSUME NEW p \in Pagamentos, GravarDesfecho(p) PROVE CobrancaTypeOK'
  <2>1. alvo[p] \in Cobrancas
    BY <1>8 DEF GravarDesfecho
  <2> QED BY <1>8, <2>1 DEF GravarDesfecho
<1>9. ASSUME NEW p \in Pagamentos, PararPedido(p) PROVE CobrancaTypeOK'
  BY <1>9 DEF PararPedido
<1> QED BY <1>1, <1>2, <1>3, <1>4, <1>5, <1>6, <1>7, <1>8, <1>9 DEF NextCobranca, Pagar

\* Every step keeps a request that is about to write alone with its charge, and
\* a settled charge with its payer.
LEMMA CobrancaPasso ==
  ASSUME CobrancaInv, ~PedidoLento, [NextCobranca]_cobrancaVars
  PROVE  CobrancaInv'
<1> USE DEF CobrancaInv
<1>0. CobrancaTypeOK'
  BY CobrancaTipos
<1> USE <1>0, CobrancaAssumption
<1> SUFFICES (ProcessamentoExclusivo /\ QuitadaTemPagador)'
  OBVIOUS
<1> USE DEF CobrancaTypeOK, StatusCobranca, Desfechos, Pendentes,
            ProcessamentoExclusivo, QuitadaTemPagador, Processando
<1>1. CASE UNCHANGED cobrancaVars
  BY <1>1 DEF cobrancaVars, pedidoCobrancaVars
<1>2. ASSUME NEW c \in Cobrancas, CriarCobranca(c)
      PROVE (ProcessamentoExclusivo /\ QuitadaTemPagador)'
  BY <1>2 DEF CriarCobranca, pedidoCobrancaVars
<1>3. ASSUME NEW c \in Cobrancas, Envelhecer(c)
      PROVE (ProcessamentoExclusivo /\ QuitadaTemPagador)'
  BY <1>3 DEF Envelhecer, pedidoCobrancaVars
<1>4. CASE ListarPendentes
  BY <1>4 DEF ListarPendentes, Expiradas, pedidoCobrancaVars
<1>5. ASSUME NEW p \in Pagamentos, NEW c \in Cobrancas, IniciarPedido(p, c)
      PROVE (ProcessamentoExclusivo /\ QuitadaTemPagador)'
  BY <1>5 DEF IniciarPedido, Expiradas
<1>6. ASSUME NEW p \in Pagamentos, LerCobranca(p)
      PROVE (ProcessamentoExclusivo /\ QuitadaTemPagador)'
  BY <1>6 DEF LerCobranca
<1>7. ASSUME NEW p \in Pagamentos, MarcarProcessando(p)
      PROVE (ProcessamentoExclusivo /\ QuitadaTemPagador)'
  <2>1. alvo[p] \in Cobrancas
    BY <1>7 DEF MarcarProcessando
  <2> QED BY <1>7, <2>1 DEF MarcarProcessando
<1>8. ASSUME NEW p \in Pagamentos, GravarDesfecho(p)
      PROVE (ProcessamentoExclusivo /\ QuitadaTemPagador)'
  <2>1. alvo[p] \in Cobrancas
    BY <1>8 DEF GravarDesfecho
  <2>2. ProcessamentoExclusivo'
    BY <1>8, <2>1 DEF GravarDesfecho
  <2>3. QuitadaTemPagador'
    BY <1>8, <2>1 DEF GravarDesfecho
  <2> QED BY <2>2, <2>3
<1>9. ASSUME NEW p \in Pagamentos, PararPedido(p)
      PROVE (ProcessamentoExclusivo /\ QuitadaTemPagador)'
  BY <1>9 DEF PararPedido
<1> QED BY <1>1, <1>2, <1>3, <1>4, <1>5, <1>6, <1>7, <1>8, <1>9 DEF NextCobranca, Pagar

(* The charges keep their types, whatever the timing of the requests.        *)
THEOREM CobrancaTipada == SpecCobranca => []CobrancaTypeOK
<1>1. InitCobranca => CobrancaTypeOK
  BY CobrancaInit DEF CobrancaInv
<1> QED BY <1>1, CobrancaTipos, PTL DEF SpecCobranca

LEMMA CobrancaSempre ==
  ASSUME ~PedidoLento
  PROVE  SpecCobranca => []CobrancaInv
<1>1. CobrancaInv /\ [NextCobranca]_cobrancaVars => CobrancaInv'
  BY CobrancaPasso
<1> QED BY <1>1, CobrancaInit, PTL DEF SpecCobranca

(* With requests shorter than 15 minutes, one that is about to write its     *)
(* outcome is alone with a charge that has not expired, and a charge is      *)
(* settled exactly when a request wrote SUCESSO (CobrancaService.pagar).     *)
THEOREM PagamentoExclusivo ==
  ASSUME ~PedidoLento
  PROVE  SpecCobranca => [](ProcessamentoExclusivo /\ QuitadaTemPagador)
<1>1. CobrancaInv => ProcessamentoExclusivo /\ QuitadaTemPagador
  BY DEF CobrancaInv
<1> QED BY <1>1, CobrancaSempre, PTL

\* Every step settles one unsettled charge or leaves all settlements alone.
LEMMA PassoDoCiclo ==
  ASSUME CobrancaInv, [NextCobranca]_cobrancaVars
  PROVE  [Ciclo!Next]_quitadaPor
<1> USE DEF CobrancaInv, CobrancaTypeOK
<1>1. ASSUME NEW p \in Pagamentos, GravarDesfecho(p) PROVE [Ciclo!Next]_quitadaPor
  <2>1. alvo[p] \in Cobrancas
    BY <1>1 DEF GravarDesfecho
  <2>2. quitadaPor[alvo[p]] = Ninguem
    BY <1>1, <2>1 DEF GravarDesfecho, ProcessamentoExclusivo, QuitadaTemPagador
  <2>3. CASE desfecho[p] = "SUCESSO"
    <3>1. Ciclo!Quitar(p, alvo[p])
      BY <1>1, <2>2, <2>3 DEF GravarDesfecho, Ciclo!Quitar
    <3> QED BY <2>1, <3>1 DEF Ciclo!Next
  <2>4. CASE desfecho[p] # "SUCESSO"
    BY <1>1, <2>4 DEF GravarDesfecho
  <2> QED BY <2>3, <2>4
<1>2. CASE UNCHANGED cobrancaVars
  BY <1>2 DEF cobrancaVars
<1>3. CASE \E c \in Cobrancas : CriarCobranca(c) \/ Envelhecer(c)
  BY <1>3 DEF CriarCobranca, Envelhecer
<1>4. CASE ListarPendentes
  BY <1>4 DEF ListarPendentes
<1>5. ASSUME NEW p \in Pagamentos, Pagar(p), ~GravarDesfecho(p)
      PROVE [Ciclo!Next]_quitadaPor
  BY <1>5 DEF Pagar, IniciarPedido, LerCobranca, MarcarProcessando, PararPedido
<1> QED BY <1>1, <1>2, <1>3, <1>4, <1>5 DEF NextCobranca

(* With requests shorter than 15 minutes the payment implements the abstract *)
(* settlement: at most one payment settles a charge, for ever.               *)
THEOREM QuitacaoImplementada ==
  ASSUME ~PedidoLento
  PROVE  SpecCobranca => ImplementaQuitacao
<1>1. InitCobranca => Ciclo!Init
  BY DEF InitCobranca, Ciclo!Init
<1>2. CobrancaInv /\ [NextCobranca]_cobrancaVars => [Ciclo!Next]_quitadaPor
  BY PassoDoCiclo
<1> QED BY <1>1, <1>2, CobrancaSempre, PTL DEF SpecCobranca, ImplementaQuitacao, Ciclo!Spec

-----------------------------------------------------------------------------
(* The check of the renter (Bloqueio): charges first, blocks afterwards.     *)

USE DEF bloqueioVars

(* What is kept of the impediments while the check runs still impedes, and   *)
(* after the question about charges none of it is a charge.                  *)
VerificacaoInv ==
  \A v \in Verificacoes :
    /\ EmCurso(v) => impedimentos[v] \subseteq Impeditivos
    /\ verificacao[v] = "BLOQUEIOS" => impedimentos[v] \cap Cobrancas = {}

BloqueioInv ==
  CobrancaTypeOK /\ BloqueioTypeOK /\ VerificacaoInv /\ ImpedimentoRecusa

\* The blocks, the checks and the revocations keep their types.
LEMMA BloqueioTipos ==
  ASSUME CobrancaTypeOK, BloqueioTypeOK, [NextBloqueio]_<<cobrancaVars, bloqueioVars>>
  PROVE  BloqueioTypeOK'
<1> USE BloqueioAssumption DEF BloqueioTypeOK, SemPrazo, Ausente
<1>1. CASE UNCHANGED <<cobrancaVars, bloqueioVars>>
  BY <1>1
<1>2. CASE NextBloqueio
  <2>1. impedimentos' \in [Verificacoes -> SUBSET (Bloqueios \cup Cobrancas)]
    BY <1>2 DEF NextBloqueio, Acompanhar, Impeditivos
  <2>2. CASE PassarDia
    BY <2>1, <2>2 DEF PassarDia
  <2>3. ASSUME NEW b \in Bloqueios, CriarBloqueio(b) PROVE BloqueioTypeOK'
    <3>1. PICK e \in (dia + 1)..SemPrazo :
            bloqueio' = [bloqueio EXCEPT ![b] = [Ausente EXCEPT !.existe = TRUE, !.expiraEm = e]]
      BY <2>3 DEF CriarBloqueio
    <3>2. [Ausente EXCEPT !.existe = TRUE, !.expiraEm = e] \in
            [existe : BOOLEAN, expiraEm : 0..SemPrazo, revogado : BOOLEAN]
      <4>1. e \in 0..SemPrazo /\ SemPrazo \in 0..SemPrazo
        OBVIOUS
      <4>2. Ausente \in [existe : BOOLEAN, expiraEm : 0..SemPrazo, revogado : BOOLEAN]
        BY <4>1
      <4> HIDE DEF Ausente, SemPrazo
      <4> QED
        BY <4>1, <4>2
    <3> QED
      BY <2>1, <2>3, <3>1, <3>2 DEF CriarBloqueio
  <2>4. ASSUME NEW q \in Revogacoes, NEW b \in Bloqueios, LerParaRevogar(q, b)
        PROVE  BloqueioTypeOK'
    BY <2>1, <2>4 DEF LerParaRevogar
  <2>5. ASSUME NEW q \in Revogacoes, Revogar(q) PROVE BloqueioTypeOK'
    BY <2>1, <2>5 DEF Revogar
  <2>6. ASSUME NEW v \in Verificacoes, Verificar(v) PROVE BloqueioTypeOK'
    BY <2>1, <2>6 DEF Verificar, IniciarVerificacao, VerificarCobrancas, VerificarBloqueios
  <2>7. CASE UNCHANGED <<dia, bloqueio, verificacao, revogacao>>
    BY <2>1, <2>7
  <2> QED
    BY <1>2, <2>2, <2>3, <2>4, <2>5, <2>6, <2>7 DEF NextBloqueio
<1> QED
  BY <1>1, <1>2

\* A step that does not move a check only takes from its impediments what has
\* ceased to impede.
LEMMA VerificacaoParada ==
  ASSUME BloqueioInv, BloqueioTypeOK', Acompanhar, verificacao' = verificacao
  PROVE  (VerificacaoInv /\ ImpedimentoRecusa)'
<1> SUFFICES ASSUME NEW v \in Verificacoes
             PROVE  /\ EmCurso(v)' => impedimentos'[v] \subseteq Impeditivos'
                    /\ verificacao'[v] = "BLOQUEIOS" => impedimentos'[v] \cap Cobrancas = {}
                    /\ verificacao'[v] = "LIBERADO" => impedimentos'[v] = {}
  BY DEF VerificacaoInv, ImpedimentoRecusa
<1>1. impedimentos'[v] = IF verificacao[v] = "INICIO" THEN Impeditivos'
                         ELSE IF EmCurso(v) THEN impedimentos[v] \cap Impeditivos'
                         ELSE impedimentos[v]
  BY DEF Acompanhar
<1> QED
  BY <1>1 DEF BloqueioInv, VerificacaoInv, ImpedimentoRecusa, EmCurso

\* A step of a check: a charge that is open, and then a block that is active,
\* refuses the renter.
LEMMA VerificacaoMove ==
  ASSUME BloqueioInv, Acompanhar, NEW v \in Verificacoes, Verificar(v)
  PROVE  (VerificacaoInv /\ ImpedimentoRecusa)'
<1> SUFFICES ASSUME NEW w \in Verificacoes
             PROVE  /\ EmCurso(w)' => impedimentos'[w] \subseteq Impeditivos'
                    /\ verificacao'[w] = "BLOQUEIOS" => impedimentos'[w] \cap Cobrancas = {}
                    /\ verificacao'[w] = "LIBERADO" => impedimentos'[w] = {}
  BY DEF VerificacaoInv, ImpedimentoRecusa
<1>1. impedimentos'[w] = IF verificacao[w] = "INICIO" THEN Impeditivos'
                         ELSE IF EmCurso(w) THEN impedimentos[w] \cap Impeditivos'
                         ELSE impedimentos[w]
  BY DEF Acompanhar
<1>2. /\ cobranca' = cobranca /\ bloqueio' = bloqueio /\ dia' = dia
      /\ Impeditivos' = Impeditivos
  BY DEF Verificar, IniciarVerificacao, VerificarCobrancas, VerificarBloqueios,
         cobrancaVars, Impeditivos, Ativo
<1>3. /\ verificacao \in [Verificacoes ->
                            {"INICIO", "COBRANCAS", "BLOQUEIOS", "RECUSADO", "LIBERADO"}]
      /\ cobranca \in [Cobrancas -> StatusCobranca]
      /\ impedimentos[w] \subseteq Bloqueios \cup Cobrancas
      /\ EmCurso(w) => impedimentos[w] \subseteq Impeditivos
      /\ verificacao[w] = "BLOQUEIOS" => impedimentos[w] \cap Cobrancas = {}
      /\ verificacao[w] = "LIBERADO" => impedimentos[w] = {}
  BY DEF BloqueioInv, BloqueioTypeOK, CobrancaTypeOK, VerificacaoInv, ImpedimentoRecusa
<1>4. CASE w # v
  <2>1. verificacao'[w] = verificacao[w]
    BY <1>3, <1>4 DEF Verificar, IniciarVerificacao, VerificarCobrancas, VerificarBloqueios
  <2> QED
    BY <1>1, <1>3, <2>1 DEF EmCurso
<1>5. CASE w = v /\ IniciarVerificacao(v)
  BY <1>1, <1>3, <1>5 DEF IniciarVerificacao, EmCurso
<1>6. CASE w = v /\ VerificarCobrancas(v)
  <2>1. CASE TemCobrancaPendente
    BY <1>1, <1>3, <1>6, <2>1 DEF VerificarCobrancas, EmCurso
  <2>2. CASE ~TemCobrancaPendente
    <3>1. Impeditivos \cap Cobrancas = {}
      BY <1>3, <2>2, BloqueioAssumption
         DEF TemCobrancaPendente, Impeditivos, StatusCobranca, Pendentes
    <3>2. verificacao'[w] = "BLOQUEIOS" /\ EmCurso(w) /\ verificacao[w] # "INICIO"
      BY <1>3, <1>6, <2>2 DEF VerificarCobrancas, EmCurso
    <3>3. impedimentos'[w] \subseteq Impeditivos'
      BY <1>1, <3>2
    <3> QED
      BY <1>2, <3>1, <3>2, <3>3
  <2> QED
    BY <2>1, <2>2
<1>7. CASE w = v /\ VerificarBloqueios(v)
  <2>1. CASE TemBloqueioAtivo
    BY <1>1, <1>3, <1>7, <2>1 DEF VerificarBloqueios, EmCurso
  <2>2. CASE ~TemBloqueioAtivo
    <3>1. Impeditivos \subseteq Cobrancas
      BY <2>2 DEF TemBloqueioAtivo, Impeditivos
    <3>2. /\ verificacao'[w] = "LIBERADO" /\ verificacao[w] = "BLOQUEIOS"
          /\ EmCurso(w) /\ ~EmCurso(w)'
      BY <1>3, <1>7, <2>2 DEF VerificarBloqueios, EmCurso
    <3>3. impedimentos'[w] = impedimentos[w] \cap Impeditivos
      BY <1>1, <1>2, <3>2
    <3> QED
      BY <1>3, <3>1, <3>2, <3>3
  <2> QED
    BY <2>1, <2>2
<1> QED
  BY <1>4, <1>5, <1>6, <1>7 DEF Verificar

\* A step of the blocks moves the charges as a step of the charges, or not at all.
LEMMA BloqueioMoveCobranca ==
  ASSUME NextBloqueio
  PROVE  [NextCobranca]_cobrancaVars
BY DEF NextBloqueio, PassarDia, CriarBloqueio, LerParaRevogar, Revogar, Verificar,
       IniciarVerificacao, VerificarCobrancas, VerificarBloqueios, cobrancaVars

\* The blocks' invariant is inductive.
LEMMA BloqueioPasso ==
  ASSUME BloqueioInv, [NextBloqueio]_<<cobrancaVars, bloqueioVars>>
  PROVE  BloqueioInv'
<1>1. BloqueioTypeOK'
  BY BloqueioTipos DEF BloqueioInv
<1>2. CobrancaTypeOK'
  <2>1. [NextCobranca]_cobrancaVars
    BY BloqueioMoveCobranca
  <2> QED
    BY <2>1, CobrancaTipos DEF BloqueioInv
<1>3. (VerificacaoInv /\ ImpedimentoRecusa)'
  <2>1. CASE UNCHANGED <<cobrancaVars, bloqueioVars>>
    BY <2>1 DEF BloqueioInv, VerificacaoInv, ImpedimentoRecusa, EmCurso, Impeditivos,
                Ativo, cobrancaVars
  <2>2. CASE Acompanhar /\ verificacao' = verificacao
    BY <1>1, <2>2, VerificacaoParada
  <2>3. ASSUME NEW v \in Verificacoes, Verificar(v), Acompanhar
        PROVE  (VerificacaoInv /\ ImpedimentoRecusa)'
    BY <2>3, VerificacaoMove
  <2>4. \/ UNCHANGED <<cobrancaVars, bloqueioVars>>
        \/ Acompanhar /\ verificacao' = verificacao
        \/ \E v \in Verificacoes : Verificar(v) /\ Acompanhar
    BY DEF NextBloqueio, PassarDia, CriarBloqueio, LerParaRevogar, Revogar
  <2> QED
    BY <2>1, <2>2, <2>3, <2>4
<1> QED
  BY <1>1, <1>2, <1>3 DEF BloqueioInv

\* Before anything happens no check runs.
LEMMA BloqueioInicio == CobrancaTypeOK /\ InitBloqueio => BloqueioInv
BY BloqueioAssumption
   DEF InitBloqueio, BloqueioInv, BloqueioTypeOK, VerificacaoInv, ImpedimentoRecusa, EmCurso,
       Ausente, SemPrazo

(* A renter whom assertLocatarioLiberado lets through had no single block    *)
(* and no single open charge from the beginning of the check to its end,     *)
(* whatever expires, is revoked, created or paid between its two queries.    *)
THEOREM LocatarioLiberadoSemImpedimento == SpecBloqueio => []ImpedimentoRecusa
<1>1. InitCobranca /\ InitBloqueio => BloqueioInv
  BY CobrancaInit, BloqueioInicio DEF CobrancaInv
<1>2. BloqueioInv /\ [NextBloqueio]_<<cobrancaVars, bloqueioVars>> => BloqueioInv'
  BY BloqueioPasso
<1>3. BloqueioInv => ImpedimentoRecusa
  BY DEF BloqueioInv
<1> QED
  BY <1>1, <1>2, <1>3, PTL DEF SpecBloqueio

=============================================================================
