-------------------------- MODULE Compartilhamento --------------------------
(***************************************************************************)
(* The public link of one reservation.  Creations read the row and write   *)
(* it under the reservation's advisory lock; a revocation is one           *)
(* conditional update that takes no lock; a token that collides with       *)
(* another reservation's is drawn again, three times at most.              *)
(***************************************************************************)
EXTENDS Naturals, FiniteSets

CONSTANTS
  Links,            \* tokens that may be drawn
  Criacoes,         \* requests to create the link
  MaxSorteios,      \* attempts of criarOuObterAtivo
  SemLink

ASSUME CompartilhamentoAssumption ==
  /\ MaxSorteios \in Nat \ {0}
  /\ SemLink \notin Links \cup Criacoes

VARIABLES
  link,             \* token of the row; SemLink before the row exists
  revogadoEm,       \* the row is revoked
  revogados,        \* tokens revoked so far (history)
  trancaLink,       \* who holds the reservation's advisory lock
  criacaoLink       \* each creation: step, attempts, the row it read

compartilhamentoVars == <<link, revogadoEm, revogados, trancaLink, criacaoLink>>

LinkAtivo == link # SemLink /\ ~revogadoEm

(* Tokens are random: none is drawn twice. *)
Novos == Links \ ({link} \cup revogados)

InitCompartilhamento ==
  /\ link = SemLink /\ revogadoEm = FALSE
  /\ revogados = {}
  /\ trancaLink = SemLink
  /\ criacaoLink = [q \in Criacoes |-> [passo |-> "INICIO", sorteios |-> 0, revogados |-> {}]]

(* criarOuObterAtivo: the lock and the row; a live link is returned as it is. *)
\* Mutation: no advisory lock.
MutLerLink(q) ==
  /\ criacaoLink[q].passo = "INICIO"
  /\ criacaoLink' = [criacaoLink EXCEPT ![q] =
       IF LinkAtivo THEN [@ EXCEPT !.passo = "FIM"]
       ELSE [@ EXCEPT !.passo = "GRAVAR", !.revogados = revogados]]
  /\ UNCHANGED <<link, revogadoEm, revogados, trancaLink>>

LerLink(q) ==
  /\ criacaoLink[q].passo = "INICIO" /\ trancaLink = SemLink
  /\ IF LinkAtivo
     THEN /\ criacaoLink' = [criacaoLink EXCEPT ![q].passo = "FIM"]
          /\ UNCHANGED trancaLink
     ELSE /\ criacaoLink' = [criacaoLink EXCEPT ![q].passo = "GRAVAR",
                                                ![q].revogados = revogados]
          /\ trancaLink' = q
  /\ UNCHANGED <<link, revogadoEm, revogados>>

(* A new row, or the old one with a new token and no revocation; with a      *)
(* collision the transaction is rolled back and begins again, or is a 503.   *)
GravarLink(q) ==
  /\ criacaoLink[q].passo = "GRAVAR"
  /\ trancaLink' = SemLink
  /\ \/ /\ \E t \in Novos : link' = t
        /\ revogadoEm' = FALSE
        /\ criacaoLink' = [criacaoLink EXCEPT ![q].passo = "FIM"]
     \/ /\ criacaoLink' = [criacaoLink EXCEPT
             ![q].sorteios = @ + 1,
             ![q].passo = IF criacaoLink[q].sorteios + 1 < MaxSorteios
                          THEN "INICIO" ELSE "ERRO"]
        /\ UNCHANGED <<link, revogadoEm>>
  /\ UNCHANGED revogados

(* revogar: updateMany where revogadoEm is null; otherwise 404. *)
RevogarLink ==
  /\ LinkAtivo
  /\ revogadoEm' = TRUE
  /\ revogados' = revogados \cup {link}
  /\ UNCHANGED <<link, trancaLink, criacaoLink>>

NextCompartilhamento ==
  \/ \E q \in Criacoes : LerLink(q) \/ GravarLink(q)
  \/ RevogarLink

SpecCompartilhamento == InitCompartilhamento /\ [][NextCompartilhamento]_compartilhamentoVars

-----------------------------------------------------------------------------
CompartilhamentoTypeOK ==
  /\ link \in Links \cup {SemLink} /\ revogadoEm \in BOOLEAN
  /\ revogados \subseteq Links
  /\ trancaLink \in Criacoes \cup {SemLink}
  /\ criacaoLink \in [Criacoes -> [passo : {"INICIO", "GRAVAR", "FIM", "ERRO"},
                                   sorteios : 0..MaxSorteios, revogados : SUBSET Links]]

(* A revocation is final for its token and is not undone by a creation that  *)
(* was under way: no live link carries a revoked token, and a creation       *)
(* about to write has seen every revocation so far (criarOuObterAtivo reads  *)
(* and writes under one lock, and only rows without a live link).            *)
RevogacaoVale ==
  /\ LinkAtivo => link \notin revogados
  /\ \A q \in Criacoes :
       criacaoLink[q].passo = "GRAVAR" => criacaoLink[q].revogados = revogados

=============================================================================
