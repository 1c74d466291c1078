---------------------------- MODULE Precificacao ----------------------------
(***************************************************************************)
(* The money of one reservation, in cents and minutes: the quote, the      *)
(* total of the creation and of each change of period, the fee of a late   *)
(* cancellation and the charge of a late return, while the owner changes   *)
(* the daily price.  Creation, changes and cancellation calculate on what  *)
(* they read and write later; rounding is Math.round, half a cent up.      *)
(***************************************************************************)
EXTENDS Integers

CONSTANTS
  Diarias,          \* daily prices the owner may ask for
  ValoresServico,   \* sums of the chosen services
  Inicios, Fins,    \* instants a period may begin and end
  Margens,          \* instants of cancellation and return, from the end it is late by
  Reprecos,         \* requests to change the period
  MaxPrecos         \* bound on the owner's changes of price

Dia == 1440
Hora == 60
PrazoCancelamento == 120       \* PRAZO_CANCELAMENTO_MS

ASSUME PrecificacaoAssumption ==
  /\ Diarias \cup ValoresServico \cup Inicios \cup Fins \subseteq Nat
  /\ Margens \subseteq Int /\ MaxPrecos \in Nat

VARIABLES
  fasePreco,        \* "NOVA", "CRIADA", "PAGA", "EM_ANDAMENTO", "CANCELADA", "DEVOLVIDA"
  diaria,           \* modeloVeiculo.valorDiaria by now
  periodo,          \* dataHoraInicio, dataHoraFim
  servicos,         \* sum of the ReservaServico rows, frozen at the creation
  valorTotal,
  cobrado,          \* daily price valorTotal was calculated with (history)
  cotado,           \* what the renter was quoted for this period (history)
  precoLido,        \* daily price the creation read
  repreco,          \* each change: its step and what it will write
  multaLida,        \* fee the cancellation is about to charge
  encargo,          \* the charge made, and what it was calculated on (history)
  cruzada,          \* a write fell between the read and the write of another (history)
  precos            \* changes of price so far

precoVars == <<fasePreco, diaria, periodo, servicos, valorTotal, cobrado, cotado, precoLido,
               repreco, multaLida, encargo, cruzada, precos>>

Nunca == -1
RequisicaoLivre == [passo |-> "INICIO", ini |-> Nunca, fim |-> Nunca, total |-> 0, preco |-> 0]
SemEncargo == [tipo |-> "NENHUM", valor |-> 0, base |-> 0, minutos |-> 0, locatario |-> FALSE]

InitPrecificacao ==
  /\ fasePreco = "NOVA"
  /\ diaria \in Diarias /\ servicos \in ValoresServico
  /\ periodo \in {p \in [ini : Inicios, fim : Fins] : p.fim - p.ini >= Hora}
  /\ valorTotal = 0 /\ cobrado = 0 /\ cotado = Nunca /\ precoLido = Nunca
  /\ repreco = [a \in Reprecos |-> RequisicaoLivre]
  /\ multaLida = SemEncargo /\ encargo = SemEncargo
  /\ cruzada = FALSE
  /\ precos = 0

-----------------------------------------------------------------------------
(* The arithmetic. *)

\* Math.round of a fraction.
Arredondar(n, d) == (2 * n + d) \div (2 * d)

\* Math.max(1, Math.ceil(ms / UM_DIA))
Dias(d) == IF d <= Dia THEN 1 ELSE (d + Dia - 1) \div Dia

\* calcularValorBase and the services
Preco(v, p, s) == v * Dias(p.fim - p.ini) + s

\* Only the renter is late, and only after the limit, not at it.
Tardio(locatario, t) == locatario /\ t > - PrazoCancelamento

\* MULTA_CANCELAMENTO_TARDIO
Multa(total) == Arredondar(total * 20, 100)

\* Mutation: the tenth is charged instead of added.
MutCobrancaAtraso(v, atraso) == Arredondar(v * atraso, 10 * Dia)

\* calcularCobrancaAtraso: the time proportion of the daily price and a tenth.
CobrancaAtraso(v, atraso) == Arredondar(v * atraso * 11, 10 * Dia)

-----------------------------------------------------------------------------
(* precificar: of what create would ask for now. *)
Cotar ==
  /\ fasePreco = "NOVA" /\ precoLido = Nunca
  /\ cotado' = Preco(diaria, periodo, servicos)
  /\ UNCHANGED <<fasePreco, diaria, periodo, servicos, valorTotal, cobrado, precoLido, repreco,
                 multaLida, encargo, cruzada, precos>>

(* create reads the vehicle ... *)
LerPreco ==
  /\ fasePreco = "NOVA" /\ precoLido = Nunca
  /\ precoLido' = diaria
  /\ UNCHANGED <<fasePreco, diaria, periodo, servicos, valorTotal, cobrado, cotado, repreco,
                 multaLida, encargo, cruzada, precos>>

(* ... and inserts the reservation at that price. *)
CriarComPreco ==
  /\ fasePreco = "NOVA" /\ precoLido # Nunca
  /\ fasePreco' = "CRIADA"
  /\ valorTotal' = Preco(precoLido, periodo, servicos)
  /\ cobrado' = precoLido
  /\ UNCHANGED <<diaria, periodo, servicos, cotado, precoLido, repreco, multaLida, encargo,
                 cruzada, precos>>

(* The owner edits the model; a quote that was not taken yet is void. *)
MudarDiaria(v) ==
  /\ v # diaria /\ precos < MaxPrecos
  /\ diaria' = v
  /\ cotado' = IF fasePreco = "NOVA" /\ precoLido = Nunca THEN Nunca ELSE cotado
  /\ precos' = precos + 1
  /\ UNCHANGED <<fasePreco, periodo, servicos, valorTotal, cobrado, precoLido, repreco,
                 multaLida, encargo, cruzada>>

-----------------------------------------------------------------------------
(* update: one end of the period or both.  The service merges them with the  *)
(* row it read, prices the result at today's daily price, ...                *)
LerParaRepreco(a) ==
  /\ repreco[a].passo = "INICIO" /\ fasePreco = "CRIADA"
  /\ \E ini \in Inicios \cup {Nunca}, fim \in Fins \cup {Nunca} :
       LET final == [ini |-> IF ini = Nunca THEN periodo.ini ELSE ini,
                     fim |-> IF fim = Nunca THEN periodo.fim ELSE fim] IN
       /\ final # periodo /\ final.fim - final.ini >= Hora
       /\ repreco' = [repreco EXCEPT ![a] =
            [passo |-> "GRAVAR", ini |-> ini, fim |-> fim,
             total |-> Preco(diaria, final, servicos), preco |-> diaria]]
  /\ UNCHANGED <<fasePreco, diaria, periodo, servicos, valorTotal, cobrado, cotado, precoLido,
                 multaLida, encargo, cruzada, precos>>

Pendurada == \/ multaLida # SemEncargo
             \/ \E o \in Reprecos : repreco'[o].passo = "GRAVAR"

\* Mutation: the period is written, its price is not.
MutGravarRepreco(a) ==
  LET r == repreco[a] IN
  /\ r.passo = "GRAVAR"
  /\ repreco' = [repreco EXCEPT ![a].passo = "FIM"]
  /\ fasePreco = "CRIADA"
  /\ periodo' = [ini |-> IF r.ini = Nunca THEN periodo.ini ELSE r.ini,
                 fim |-> IF r.fim = Nunca THEN periodo.fim ELSE r.fim]
  /\ cruzada' = (cruzada \/ Pendurada)
  /\ UNCHANGED <<fasePreco, diaria, servicos, valorTotal, cobrado, cotado, precoLido, multaLida,
                 encargo, precos>>

(* ... and the transaction writes the ends it was given and that total; a    *)
(* reservation paid or cancelled meanwhile is a 409.                         *)
GravarRepreco(a) ==
  LET r == repreco[a] IN
  /\ r.passo = "GRAVAR"
  /\ repreco' = [repreco EXCEPT ![a].passo = "FIM"]
  /\ IF fasePreco = "CRIADA"
     THEN /\ periodo' = [ini |-> IF r.ini = Nunca THEN periodo.ini ELSE r.ini,
                         fim |-> IF r.fim = Nunca THEN periodo.fim ELSE r.fim]
          /\ valorTotal' = r.total
          /\ cobrado' = r.preco
          /\ cotado' = Nunca
          /\ cruzada' = (cruzada \/ Pendurada)
     ELSE UNCHANGED <<periodo, valorTotal, cobrado, cotado, cruzada>>
  /\ UNCHANGED <<fasePreco, diaria, servicos, precoLido, multaLida, encargo, precos>>

(* The payment fixes the period, the unlocking ends the cancellations. *)
Avancar(de, para) ==
  /\ fasePreco = de /\ fasePreco' = para
  /\ UNCHANGED <<diaria, periodo, servicos, valorTotal, cobrado, cotado, precoLido, repreco,
                 multaLida, encargo, cruzada, precos>>

(* cancelarReserva, t minutes after (before) the beginning: the fee comes    *)
(* from the row as read, ...                                                 *)
LerParaCancelar(locatario, t) ==
  /\ fasePreco \in {"CRIADA", "PAGA"} /\ multaLida = SemEncargo
  /\ multaLida' = [tipo |-> "MULTA", base |-> valorTotal, minutos |-> t, locatario |-> locatario,
                   valor |-> IF Tardio(locatario, t) THEN Multa(valorTotal) ELSE 0]
  /\ UNCHANGED <<fasePreco, diaria, periodo, servicos, valorTotal, cobrado, cotado, precoLido,
                 repreco, encargo, cruzada, precos>>

(* ... and is charged with the cancellation. *)
CancelarComMulta ==
  /\ fasePreco \in {"CRIADA", "PAGA"} /\ multaLida # SemEncargo
  /\ fasePreco' = "CANCELADA"
  /\ encargo' = multaLida
  /\ UNCHANGED <<diaria, periodo, servicos, valorTotal, cobrado, cotado, precoLido, repreco,
                 multaLida, cruzada, precos>>

(* devolverReserva, t minutes after the end, at the daily price of that day. *)
DevolverComAtraso(t) ==
  /\ fasePreco = "EM_ANDAMENTO"
  /\ fasePreco' = "DEVOLVIDA"
  /\ encargo' = [tipo |-> "ATRASO", base |-> diaria, minutos |-> t, locatario |-> FALSE,
                 valor |-> IF t > 0 THEN CobrancaAtraso(diaria, t) ELSE 0]
  /\ UNCHANGED <<diaria, periodo, servicos, valorTotal, cobrado, cotado, precoLido, repreco,
                 multaLida, cruzada, precos>>

NextPrecificacao ==
  \/ Cotar \/ LerPreco \/ CriarComPreco
  \/ \E v \in Diarias : MudarDiaria(v)
  \/ \E a \in Reprecos : LerParaRepreco(a) \/ GravarRepreco(a)
  \/ Avancar("CRIADA", "PAGA") \/ Avancar("PAGA", "EM_ANDAMENTO")
  \/ \E t \in Margens :
       DevolverComAtraso(t) \/ \E l \in BOOLEAN : LerParaCancelar(l, t)
  \/ CancelarComMulta

SpecPrecificacao == InitPrecificacao /\ [][NextPrecificacao]_precoVars

-----------------------------------------------------------------------------
(* Correctness. *)

PrecificacaoTypeOK ==
  /\ fasePreco \in {"NOVA", "CRIADA", "PAGA", "EM_ANDAMENTO", "CANCELADA", "DEVOLVIDA"}
  /\ {diaria, servicos, valorTotal, cobrado, encargo.valor} \subseteq Nat
  /\ {cotado, precoLido} \subseteq Nat \cup {Nunca}
  /\ periodo \in [ini : Inicios, fim : Fins]

(* Every day begun is paid, and no other: the days the total stands for      *)
(* cover the period the reservation has by now, and one day less would not,  *)
(* at the daily price of the last calculation; the renter pays what was      *)
(* quoted last for this period.  Creation, change and quote calculate each   *)
(* on their own and on a row read before (create, update, precificar); only  *)
(* changes that overlap can part total and period.                           *)
TotalConfere ==
  fasePreco # "NOVA" /\ ~cruzada =>
    LET d == periodo.fim - periodo.ini IN
    /\ \E n \in 1..((d \div Dia) + 1) :
         /\ valorTotal = cobrado * n + servicos
         /\ n * Dia >= d /\ (n > 1 => (n - 1) * Dia < d)
    /\ cotado # Nunca => valorTotal = cotado

(* A fee is owed exactly for a renter's cancellation after the limit of two  *)
(* hours, and is a fifth of the reservation's total to the nearest cent if   *)
(* no change overlapped; a late return costs its share of 110% of the daily  *)
(* price to the nearest cent, and so never less per whole day than the day   *)
(* (cancelarReserva, calcularCobrancaAtraso).                                *)
EncargoConfere ==
  LET e == encargo IN
  /\ e.tipo = "MULTA" =>
       IF e.locatario /\ e.minutos + PrazoCancelamento > 0
       THEN /\ 10 * e.valor \in (2 * e.base - 5)..(2 * e.base + 5)
            /\ ~cruzada => e.base = valorTotal
       ELSE e.valor = 0
  /\ e.tipo = "ATRASO" =>
       IF e.minutos <= 0 THEN e.valor = 0
       ELSE LET exato == e.base * e.minutos * 11 IN
            /\ e.valor * 10 * Dia \in (exato - 5 * Dia)..(exato + 5 * Dia)
            /\ e.valor >= e.base * (e.minutos \div Dia)

=============================================================================
