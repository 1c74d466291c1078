--------------------------- MODULE VeiculoImagem ---------------------------
(***************************************************************************)
(* The images of one vehicle: a row each, a file in the private bucket and *)
(* a copy in the public one while the vehicle can be rented.  Uploads,     *)
(* exclusions, edits of the vehicle and the cleanup script run at once;    *)
(* none of the storage calls belongs to a transaction and each may fail.   *)
(* The vehicle's advisory lock covers the insert of a row, a whole         *)
(* synchronisation and the cleanup of one object, nothing else.            *)
(***************************************************************************)
EXTENDS Naturals, FiniteSets

CONSTANTS
  Imagens,
  EdicoesImg,       \* edits of the vehicle or of its garage
  Limpeza,          \* the cleanup script
  MaxImagens,       \* MEDIA_MAX_IMAGES_PER_VEHICLE
  Vaga              \* nobody holds the lock

ASSUME ImagemAssumption ==
  /\ MaxImagens \in Nat
  /\ Imagens \cap EdicoesImg = {}
  /\ {Limpeza, Vaga} \cap (Imagens \cup EdicoesImg) = {} /\ Limpeza # Vaga

VARIABLES
  disponivel,       \* the vehicle is DISPONIVEL
  garagemAtiva,     \* its garage is ATIVA
  imagem,           \* status of each row
  privado, publico, \* images with an object in each bucket
  trancaImg,        \* who holds the vehicle's advisory lock
  envioImg,         \* upload of each image
  desfazer,         \* what the compensation of an upload still tries
  exclusao,         \* exclusion of each image
  edicaoImg,
  sinc,             \* synchronisation run by an upload or an edit
  varredura,        \* the cleanup: its candidates
  \* histories
  cruzadas,         \* images excluded during their upload, or compensated
  edicoesCruzadas,  \* two edits overlapped between reading and writing
  emDia             \* the last synchronisation to end had no failed call

frotaImgVars == <<disponivel, garagemAtiva>>
imagemVars == <<frotaImgVars, imagem, privado, publico, trancaImg, envioImg, desfazer,
                exclusao, edicaoImg, sinc, varredura, cruzadas, edicoesCruzadas, emDia>>
historiaVars == <<cruzadas, edicoesCruzadas, emDia>>
objetoVars == <<privado, publico>>
pedidoImgVars == <<envioImg, desfazer, exclusao, edicaoImg, varredura>>

Sincronizadores == Imagens \cup EdicoesImg
SincParada == [passo |-> "FORA", restam |-> {}, copiar |-> FALSE, falhou |-> FALSE]
(* isPubliclyEligible *)
Publicavel == disponivel /\ garagemAtiva

Linhas == {i \in Imagens : imagem[i] \in {"PENDING", "READY", "DELETING"}}

InitImagem ==
  /\ disponivel \in BOOLEAN /\ garagemAtiva \in BOOLEAN
  /\ imagem = [i \in Imagens |-> "NENHUMA"]
  /\ privado = {} /\ publico = {}
  /\ trancaImg = Vaga
  /\ envioImg = [i \in Imagens |-> "INICIO"]
  /\ desfazer = [i \in Imagens |-> {}]
  /\ exclusao = [i \in Imagens |-> "INICIO"]
  /\ edicaoImg = [e \in EdicoesImg |-> [passo |-> "INICIO", lido |-> FALSE]]
  /\ sinc = [s \in Sincronizadores |-> SincParada]
  /\ varredura = [passo |-> "INICIO", linhas |-> {}, alvos |-> {}]
  /\ cruzadas = {} /\ edicoesCruzadas = FALSE /\ emDia = TRUE

-----------------------------------------------------------------------------
(* sincronizarVisibilidadeVeiculo: under the lock it reads vehicle and READY *)
(* rows, and copies or deletes their public objects all at once.             *)

PedirSinc(s) == sinc' = [sinc EXCEPT ![s] = [SincParada EXCEPT !.passo = "ESPERAR"]]

EntrarSinc(s) ==
  /\ sinc[s].passo = "ESPERAR" /\ trancaImg = Vaga
  /\ trancaImg' = s
  /\ sinc' = [sinc EXCEPT ![s] =
       [passo |-> "OPERAR", restam |-> {i \in Imagens : imagem[i] = "READY"},
        copiar |-> Publicavel, falhou |-> FALSE]]
  /\ UNCHANGED <<frotaImgVars, imagem, objetoVars, pedidoImgVars, historiaVars>>

(* One call, which may fail; a copy needs the private object. *)
OperarSinc(s) ==
  /\ sinc[s].passo = "OPERAR"
  /\ \E i \in sinc[s].restam :
       \/ /\ sinc[s].copiar => i \in privado
          /\ publico' = IF sinc[s].copiar THEN publico \cup {i} ELSE publico \ {i}
          /\ sinc' = [sinc EXCEPT ![s].restam = @ \ {i}]
       \/ /\ sinc' = [sinc EXCEPT ![s].restam = @ \ {i}, ![s].falhou = TRUE]
          /\ UNCHANGED publico
  /\ UNCHANGED <<frotaImgVars, imagem, privado, trancaImg, pedidoImgVars, historiaVars>>

FimDaSinc(s) == sinc[s].passo = "OPERAR" /\ sinc[s].restam = {}

-----------------------------------------------------------------------------
(* criar *)

(* The row, under the lock: the limit counts what is not being deleted. *)
CriarLinha(i) ==
  /\ envioImg[i] = "INICIO" /\ trancaImg = Vaga
  /\ Cardinality({j \in Linhas : imagem[j] # "DELETING"}) < MaxImagens
  /\ imagem' = [imagem EXCEPT ![i] = "PENDING"]
  /\ envioImg' = [envioImg EXCEPT ![i] = "GUARDAR"]
  /\ UNCHANGED <<frotaImgVars, objetoVars, trancaImg, desfazer, exclusao, edicaoImg, sinc,
                 varredura, historiaVars>>

Compensar(i) ==
  /\ envioImg' = [envioImg EXCEPT ![i] = "COMPENSAR"]
  /\ desfazer' = [desfazer EXCEPT ![i] = {"PRIVADO", "PUBLICO", "LINHA"}]
  /\ cruzadas' = cruzadas \cup {i}

(* putObject; a call that fails may have stored the object. *)
GuardarPrivado(i) ==
  /\ envioImg[i] = "GUARDAR"
  /\ \/ /\ privado' = privado \cup {i}
        /\ envioImg' = [envioImg EXCEPT ![i] = "PRONTA"]
        /\ UNCHANGED <<desfazer, cruzadas>>
     \/ Compensar(i) /\ privado' \in {privado, privado \cup {i}}
  /\ UNCHANGED <<frotaImgVars, imagem, publico, trancaImg, exclusao, edicaoImg, sinc, varredura,
                 edicoesCruzadas, emDia>>

(* READY, whatever the status was; without the row the update fails. *)
MarcarPronta(i) ==
  /\ envioImg[i] = "PRONTA"
  /\ \/ /\ i \in Linhas
        /\ imagem' = [imagem EXCEPT ![i] = "READY"]
        /\ envioImg' = [envioImg EXCEPT ![i] = "SINCRONIZAR"]
        /\ PedirSinc(i)
        /\ UNCHANGED <<desfazer, cruzadas>>
     \/ Compensar(i) /\ UNCHANGED <<imagem, sinc>>
  /\ UNCHANGED <<frotaImgVars, objetoVars, trancaImg, exclusao, edicaoImg, varredura,
                 edicoesCruzadas, emDia>>

EnvioSincronizado(i) ==
  /\ envioImg[i] = "SINCRONIZAR" /\ FimDaSinc(i)
  /\ trancaImg' = Vaga
  /\ sinc' = [sinc EXCEPT ![i] = SincParada]
  /\ emDia' = ~sinc[i].falhou
  /\ IF sinc[i].falhou THEN Compensar(i)
     ELSE envioImg' = [envioImg EXCEPT ![i] = "FIM"] /\ UNCHANGED <<desfazer, cruzadas>>
  /\ UNCHANGED <<frotaImgVars, imagem, objetoVars, exclusao, edicaoImg, varredura, edicoesCruzadas>>

(* The three deletions run at once, each may fail, and no lock is held. *)
Desfazer(i) ==
  /\ envioImg[i] = "COMPENSAR"
  /\ \E o \in desfazer[i] :
       /\ desfazer' = [desfazer EXCEPT ![i] = @ \ {o}]
       /\ privado' \in IF o = "PRIVADO" THEN {privado, privado \ {i}} ELSE {privado}
       /\ publico' \in IF o = "PUBLICO" THEN {publico, publico \ {i}} ELSE {publico}
       /\ imagem' \in IF o = "LINHA" THEN {imagem, [imagem EXCEPT ![i] = "REMOVIDA"]}
                      ELSE {imagem}
  /\ envioImg' = [envioImg EXCEPT ![i] = IF desfazer'[i] = {} THEN "FIM" ELSE @]
  /\ UNCHANGED <<frotaImgVars, trancaImg, exclusao, edicaoImg, sinc, varredura, historiaVars>>

-----------------------------------------------------------------------------
(* excluir: DELETING, then private object, public object and row, each only  *)
(* when the one before succeeded.  It may be asked for again.                *)

IrExclusao(i, p) == exclusao' = [exclusao EXCEPT ![i] = p]
ExclusaoUnchanged == UNCHANGED <<frotaImgVars, trancaImg, envioImg, desfazer, edicaoImg, sinc,
                                 varredura, edicoesCruzadas, emDia>>

MarcarExclusao(i) ==
  /\ exclusao[i] \in {"INICIO", "FALHOU"} /\ i \in Linhas
  /\ imagem' = [imagem EXCEPT ![i] = "DELETING"]
  /\ IrExclusao(i, "PRIVADO")
  /\ cruzadas' = IF envioImg[i] = "FIM" THEN cruzadas ELSE cruzadas \cup {i}
  /\ UNCHANGED objetoVars /\ ExclusaoUnchanged

\* Mutation: the public object is forgotten.
MutExcluirPrivado(i) ==
  /\ exclusao[i] = "PRIVADO"
  /\ IrExclusao(i, "LINHA") /\ privado' = privado \ {i}
  /\ UNCHANGED <<imagem, publico, cruzadas>> /\ ExclusaoUnchanged

ExcluirPrivado(i) ==
  /\ exclusao[i] = "PRIVADO"
  /\ IrExclusao(i, "PUBLICO") /\ privado' = privado \ {i}
  /\ UNCHANGED <<imagem, publico, cruzadas>> /\ ExclusaoUnchanged

ExcluirPublico(i) ==
  /\ exclusao[i] = "PUBLICO"
  /\ IrExclusao(i, "LINHA") /\ publico' = publico \ {i}
  /\ UNCHANGED <<imagem, privado, cruzadas>> /\ ExclusaoUnchanged

ExcluirLinha(i) ==
  /\ exclusao[i] = "LINHA" /\ i \in Linhas
  /\ IrExclusao(i, "FIM") /\ imagem' = [imagem EXCEPT ![i] = "REMOVIDA"]
  /\ UNCHANGED <<objetoVars, cruzadas>> /\ ExclusaoUnchanged

(* 503; the call that failed may still have deleted its object. *)
ExclusaoFalha(i) ==
  /\ exclusao[i] \in {"PRIVADO", "PUBLICO", "LINHA"}
  /\ IrExclusao(i, "FALHOU")
  /\ privado' \in IF exclusao[i] = "PRIVADO" THEN {privado, privado \ {i}} ELSE {privado}
  /\ publico' \in IF exclusao[i] = "PUBLICO" THEN {publico, publico \ {i}} ELSE {publico}
  /\ UNCHANGED <<imagem, cruzadas>> /\ ExclusaoUnchanged

Excluir(i) ==
  \/ MarcarExclusao(i) \/ ExcluirPrivado(i) \/ ExcluirPublico(i)
  \/ ExcluirLinha(i) \/ ExclusaoFalha(i)

-----------------------------------------------------------------------------
(* An edit of the vehicle synchronises only if it changed the status the     *)
(* service had read before.                                                  *)

EdicaoUnchanged == UNCHANGED <<imagem, objetoVars, envioImg, desfazer, exclusao, varredura,
                               cruzadas>>

LerParaEditar(e) ==
  /\ edicaoImg[e].passo = "INICIO"
  /\ edicaoImg' = [edicaoImg EXCEPT ![e] = [passo |-> "GRAVAR", lido |-> disponivel]]
  /\ edicoesCruzadas' = (edicoesCruzadas \/ \E o \in EdicoesImg : edicaoImg[o].passo = "GRAVAR")
  /\ UNCHANGED <<frotaImgVars, trancaImg, sinc, emDia>> /\ EdicaoUnchanged

Sincronizar(e) ==
  PedirSinc(e) /\ edicaoImg' = [edicaoImg EXCEPT ![e].passo = "SINCRONIZAR"]

\* Mutation: only a vehicle that becomes available is synchronised.
MutGravarEdicao(e) ==
  /\ edicaoImg[e].passo = "GRAVAR" /\ trancaImg = Vaga
  /\ disponivel' \in BOOLEAN
  /\ IF disponivel' /\ ~edicaoImg[e].lido
     THEN Sincronizar(e)
     ELSE edicaoImg' = [edicaoImg EXCEPT ![e].passo = "FIM"] /\ UNCHANGED sinc
  /\ UNCHANGED <<garagemAtiva, trancaImg, edicoesCruzadas, emDia>> /\ EdicaoUnchanged

GravarEdicao(e) ==
  /\ edicaoImg[e].passo = "GRAVAR" /\ trancaImg = Vaga
  /\ disponivel' \in BOOLEAN
  /\ IF disponivel' # edicaoImg[e].lido
     THEN Sincronizar(e)
     ELSE edicaoImg' = [edicaoImg EXCEPT ![e].passo = "FIM"] /\ UNCHANGED sinc
  /\ UNCHANGED <<garagemAtiva, trancaImg, edicoesCruzadas, emDia>> /\ EdicaoUnchanged

(* An edit of the garage, or a move to another one, always does; it does not *)
(* take the vehicle's lock for its own write.                                *)
EditarGaragem(e) ==
  /\ edicaoImg[e].passo = "INICIO"
  /\ garagemAtiva' \in BOOLEAN
  /\ Sincronizar(e)
  /\ UNCHANGED <<disponivel, trancaImg, edicoesCruzadas, emDia>> /\ EdicaoUnchanged

\* Mutation: the lock is not released.
MutEdicaoSincronizada(e) ==
  /\ edicaoImg[e].passo = "SINCRONIZAR" /\ FimDaSinc(e)
  /\ sinc' = [sinc EXCEPT ![e] = SincParada]
  /\ emDia' = ~sinc[e].falhou
  /\ edicaoImg' = [edicaoImg EXCEPT ![e].passo = "FIM"]
  /\ UNCHANGED <<frotaImgVars, trancaImg, edicoesCruzadas>> /\ EdicaoUnchanged

EdicaoSincronizada(e) ==
  /\ edicaoImg[e].passo = "SINCRONIZAR" /\ FimDaSinc(e)
  /\ trancaImg' = Vaga
  /\ sinc' = [sinc EXCEPT ![e] = SincParada]
  /\ emDia' = ~sinc[e].falhou
  /\ edicaoImg' = [edicaoImg EXCEPT ![e].passo = "FIM"]
  /\ UNCHANGED <<frotaImgVars, edicoesCruzadas>> /\ EdicaoUnchanged

-----------------------------------------------------------------------------
(* The cleanup script: rows and objects are listed at different times, and   *)
(* any of the objects may be old enough.                                     *)

LimpezaUnchanged == UNCHANGED <<frotaImgVars, imagem, trancaImg, envioImg, desfazer, exclusao,
                                edicaoImg, sinc, historiaVars>>

ListarLinhas ==
  /\ varredura.passo = "INICIO"
  /\ varredura' = [varredura EXCEPT !.passo = "OBJETOS", !.linhas = Linhas]
  /\ UNCHANGED objetoVars /\ LimpezaUnchanged

ListarObjetos ==
  LET objetos == ({"PRIVADO"} \X privado) \cup ({"PUBLICO"} \X publico)
      candidatos == {o \in objetos : \/ o[2] \notin varredura.linhas
                                     \/ o[1] = "PUBLICO" /\ ~Publicavel}
  IN /\ varredura.passo = "OBJETOS"
     /\ \E alvos \in SUBSET candidatos :
          varredura' = [varredura EXCEPT !.passo = "CONFIRMAR", !.alvos = alvos]
     /\ UNCHANGED objetoVars /\ LimpezaUnchanged

(* The rows again: what is referenced by now, and private or to be seen, stays. *)
ConfirmarAlvos ==
  /\ varredura.passo = "CONFIRMAR"
  /\ varredura' = [passo |-> "APAGAR", linhas |-> Linhas,
       alvos |-> {o \in varredura.alvos : o[2] \notin Linhas \/ (o[1] = "PUBLICO" /\ ~Publicavel)}]
  /\ UNCHANGED objetoVars /\ LimpezaUnchanged

(* An object with a row is deleted under the lock, if it is still not to be  *)
(* seen; one without, at once.                                               *)
ApagarObjeto ==
  /\ varredura.passo = "APAGAR"
  /\ \E o \in varredura.alvos :
       LET comLinha == o[2] \in varredura.linhas
           apaga == ~comLinha \/ (o[2] \in Linhas /\ ~Publicavel)
       IN /\ comLinha => trancaImg = Vaga
          /\ varredura' = [varredura EXCEPT !.alvos = @ \ {o}]
          /\ privado' = IF apaga /\ o[1] = "PRIVADO" THEN privado \ {o[2]} ELSE privado
          /\ publico' = IF apaga /\ o[1] = "PUBLICO" THEN publico \ {o[2]} ELSE publico
  /\ LimpezaUnchanged

FimDaLimpeza ==
  /\ varredura.passo = "APAGAR" /\ varredura.alvos = {}
  /\ varredura' = [passo |-> "INICIO", linhas |-> {}, alvos |-> {}]
  /\ UNCHANGED objetoVars /\ LimpezaUnchanged

-----------------------------------------------------------------------------
Enviar(i) ==
  \/ CriarLinha(i) \/ GuardarPrivado(i) \/ MarcarPronta(i)
  \/ EnvioSincronizado(i) \/ Desfazer(i)

Editar(e) == LerParaEditar(e) \/ GravarEdicao(e) \/ EditarGaragem(e) \/ EdicaoSincronizada(e)

Limpar == ListarLinhas \/ ListarObjetos \/ ConfirmarAlvos \/ ApagarObjeto \/ FimDaLimpeza

NextImagem ==
  \/ \E i \in Imagens : Enviar(i) \/ Excluir(i)
  \/ \E e \in EdicoesImg : Editar(e)
  \/ \E s \in Sincronizadores : EntrarSinc(s) \/ OperarSinc(s)
  \/ Limpar

SpecImagem == InitImagem /\ [][NextImagem]_imagemVars

-----------------------------------------------------------------------------
(* Correctness. *)

ImagemTypeOK ==
  /\ imagem \in [Imagens -> {"NENHUMA", "PENDING", "READY", "DELETING", "REMOVIDA"}]
  /\ privado \subseteq Imagens /\ publico \subseteq Imagens
  /\ trancaImg \in Sincronizadores \cup {Vaga}
  /\ \A s \in Sincronizadores : (sinc[s].passo = "OPERAR") <=> (trancaImg = s)
  /\ {Publicavel, edicoesCruzadas, emDia} \subseteq BOOLEAN

(* A public object always has its row, through any interleaving of a         *)
(* synchronisation with an exclusion that holds no lock (the private object  *)
(* goes first, so that nothing can be copied any more), and a READY row its  *)
(* private file, unless its exclusion was asked for.  Images whose upload    *)
(* was compensated or crossed by an exclusion are left out.                  *)
ObjetosTemLinha ==
  /\ publico \subseteq Linhas \cup cruzadas
  /\ \A i \in Imagens \ cruzadas : imagem[i] = "READY" => i \in privado

Repouso ==
  /\ trancaImg = Vaga
  /\ \A s \in Sincronizadores : sinc[s].passo = "FORA"

(* When no synchronisation is waiting or running and the last one had no     *)
(* failed call, what the public sees is exactly the READY images of a        *)
(* vehicle that can be rented, and nothing of one that cannot, if no two     *)
(* edits overlapped between reading and writing.                             *)
VisibilidadeEmDia ==
  Repouso /\ emDia /\ ~edicoesCruzadas =>
    \A i \in Imagens \ cruzadas : imagem[i] = "READY" => (i \in publico <=> Publicavel)

=============================================================================
