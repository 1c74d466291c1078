------------------------ MODULE VeiculoImagem_proofs ------------------------
(***************************************************************************)
(* Proofs about the images of a vehicle, for any images, edits and limit:  *)
(* rows and objects stay together although exclusions and the cleanup hold *)
(* no lock, and what the public sees follows the vehicle although the      *)
(* garage is edited without one.                                           *)
(***************************************************************************)
EXTENDS VeiculoImagem, TLAPS

Objetos == {"PRIVADO", "PUBLICO"} \X Imagens

TiposImagem ==
  /\ imagem \in [Imagens -> {"NENHUMA", "PENDING", "READY", "DELETING", "REMOVIDA"}]
  /\ privado \subseteq Imagens /\ publico \subseteq Imagens
  /\ envioImg \in [Imagens -> {"INICIO", "GUARDAR", "PRONTA", "SINCRONIZAR", "COMPENSAR", "FIM"}]
  /\ desfazer \in [Imagens -> SUBSET {"PRIVADO", "PUBLICO", "LINHA"}]
  /\ exclusao \in [Imagens -> {"INICIO", "PRIVADO", "PUBLICO", "LINHA", "FALHOU", "FIM"}]
  /\ edicaoImg \in [EdicoesImg -> [passo : {"INICIO", "GRAVAR", "SINCRONIZAR", "FIM"},
                                   lido : BOOLEAN]]
  /\ sinc \in [Sincronizadores -> [passo : {"FORA", "ESPERAR", "OPERAR"},
                                   restam : SUBSET Imagens, copiar : BOOLEAN, falhou : BOOLEAN]]
  /\ varredura \in [passo : {"INICIO", "OBJETOS", "CONFIRMAR", "APAGAR"},
                    linhas : SUBSET Imagens, alvos : SUBSET Objetos]
  /\ trancaImg \in Sincronizadores \cup {Vaga}
  /\ disponivel \in BOOLEAN /\ garagemAtiva \in BOOLEAN
  /\ cruzadas \subseteq Imagens /\ edicoesCruzadas \in BOOLEAN /\ emDia \in BOOLEAN

\* The lock is with the synchronisation that operates; uploads and edits are in
\* theirs exactly while they say so.
Trancas ==
  /\ \A s \in Sincronizadores : (sinc[s].passo = "OPERAR") <=> (trancaImg = s)
  /\ \A i \in Imagens : (sinc[i].passo # "FORA") <=> (envioImg[i] = "SINCRONIZAR")
  /\ \A e \in EdicoesImg : (sinc[e].passo # "FORA") <=> (edicaoImg[e].passo = "SINCRONIZAR")

\* Where row and objects of an image are, by the steps of its upload and of its
\* exclusion, unless they crossed or the upload was compensated.
Fase(i) ==
  /\ envioImg[i] = "INICIO" => imagem[i] = "NENHUMA"
  /\ envioImg[i] \in {"GUARDAR", "PRONTA"} => imagem[i] = "PENDING"
  /\ envioImg[i] = "SINCRONIZAR" => imagem[i] = "READY"
  /\ envioImg[i] \in {"PRONTA", "SINCRONIZAR"} => i \in privado
  /\ envioImg[i] # "FIM" => exclusao[i] = "INICIO" /\ envioImg[i] # "COMPENSAR"
  /\ envioImg[i] = "FIM" =>
       /\ exclusao[i] = "INICIO" => imagem[i] = "READY" /\ i \in privado
       /\ exclusao[i] \in {"PRIVADO", "PUBLICO", "LINHA", "FALHOU"} => imagem[i] = "DELETING"
       /\ exclusao[i] = "FIM" => imagem[i] = "REMOVIDA"
       /\ exclusao[i] \in {"PUBLICO", "LINHA", "FIM"} => i \notin privado
       /\ exclusao[i] \in {"LINHA", "FIM"} => i \notin publico

Fases ==
  /\ \A i \in Imagens : envioImg[i] = "INICIO" => i \notin cruzadas \cup privado \cup publico
  /\ \A i \in Imagens \ cruzadas : Fase(i)

\* What the cleanup is about to delete was uploaded before; when it deletes
\* without asking again, the row is gone for good.
AlvosDaLimpeza ==
  \A o \in varredura.alvos :
    /\ varredura.passo = "CONFIRMAR" => envioImg[o[2]] # "INICIO"
    /\ varredura.passo = "APAGAR" =>
         /\ o[1] = "PRIVADO" => o[2] \notin varredura.linhas
         /\ o[2] \notin varredura.linhas \cup cruzadas => imagem[o[2]] = "REMOVIDA"

\* As long as no two edits overlapped, the one about to write read what is there.
LidoEmDia ==
  ~edicoesCruzadas => \A e \in EdicoesImg : edicaoImg[e].passo = "GRAVAR" =>
    /\ edicaoImg[e].lido = disponivel
    /\ \A o \in EdicoesImg : edicaoImg[o].passo = "GRAVAR" => o = e

Visivel(i, b) == i \notin cruzadas /\ imagem[i] = "READY" => (i \in publico <=> b)

\* Unless a synchronisation is waiting, the running one does what it should, and
\* with none running the last one did.
EmDia ==
  (\A s \in Sincronizadores : sinc[s].passo # "ESPERAR") =>
    /\ \A s \in Sincronizadores : sinc[s].passo = "OPERAR" =>
         /\ sinc[s].copiar = Publicavel
         /\ \A i \in Imagens \ sinc[s].restam : ~sinc[s].falhou => Visivel(i, sinc[s].copiar)
    /\ trancaImg = Vaga /\ emDia /\ ~edicoesCruzadas => \A i \in Imagens : Visivel(i, Publicavel)

ImagemInv ==
  /\ TiposImagem /\ Trancas /\ Fases /\ AlvosDaLimpeza /\ LidoEmDia /\ EmDia

LEMMA ImagemInicio == InitImagem => ImagemInv
<1> SUFFICES ASSUME InitImagem PROVE ImagemInv
  OBVIOUS
<1> USE DEF InitImagem, SincParada
<1>1. TiposImagem
  BY DEF TiposImagem, Sincronizadores
<1>2. Trancas
  BY ImagemAssumption DEF Trancas, Sincronizadores
<1>3. Fases
  BY DEF Fases, Fase
<1>4. AlvosDaLimpeza /\ LidoEmDia
  BY DEF AlvosDaLimpeza, LidoEmDia
<1>5. EmDia
  BY DEF EmDia, Visivel
<1> QED
  BY <1>1, <1>2, <1>3, <1>4, <1>5 DEF ImagemInv

-----------------------------------------------------------------------------
(* What a step that leaves something alone keeps. *)

LEMMA LidoQuieto ==
  ASSUME LidoEmDia, UNCHANGED <<edicaoImg, disponivel, edicoesCruzadas>>
  PROVE  LidoEmDia'
BY DEF LidoEmDia

LEMMA TrancasQuietas ==
  ASSUME Trancas, UNCHANGED <<sinc, trancaImg, edicaoImg>>,
         \A i \in Imagens : envioImg'[i] = "SINCRONIZAR" <=> envioImg[i] = "SINCRONIZAR"
  PROVE  Trancas'
BY DEF Trancas

LEMMA AlvosQuietos ==
  ASSUME TiposImagem, AlvosDaLimpeza, UNCHANGED varredura, cruzadas \subseteq cruzadas',
         \A i \in Imagens : envioImg'[i] = "INICIO" => envioImg[i] = "INICIO",
         \A i \in Imagens \ cruzadas' : imagem[i] = "REMOVIDA" => imagem'[i] = "REMOVIDA"
  PROVE  AlvosDaLimpeza'
<1>1. \A o \in varredura.alvos : o[2] \in Imagens
  BY DEF TiposImagem, Objetos
<1> QED
  BY <1>1 DEF AlvosDaLimpeza

LEMMA EmDiaQuieto ==
  ASSUME TiposImagem, EmDia, UNCHANGED <<sinc, trancaImg, disponivel, garagemAtiva>>,
         cruzadas \subseteq cruzadas',
         emDia' => emDia, edicoesCruzadas => edicoesCruzadas',
         \A i \in Imagens \ cruzadas' : imagem'[i] = "READY" =>
           imagem[i] = "READY" /\ (i \in publico' <=> i \in publico)
  PROVE  EmDia'
<1>1. \A i \in Imagens, b \in BOOLEAN : Visivel(i, b) => Visivel(i, b)'
  BY DEF Visivel
<1>2. Publicavel' = Publicavel /\ Publicavel \in BOOLEAN
  BY DEF Publicavel, TiposImagem
<1>3. \A s \in Sincronizadores : sinc[s].copiar \in BOOLEAN
  BY DEF TiposImagem
<1> QED
  BY <1>1, <1>2, <1>3 DEF EmDia, Visivel

\* A step of one image leaves the phases of the others alone.
LEMMA FasesDasOutras ==
  ASSUME Fases, NEW i \in Imagens, cruzadas \subseteq cruzadas',
         \A j \in Imagens \ {i} :
           /\ imagem'[j] = imagem[j] /\ envioImg'[j] = envioImg[j] /\ exclusao'[j] = exclusao[j]
           /\ (j \in privado' <=> j \in privado) /\ (j \in publico' <=> j \in publico)
           /\ (j \in cruzadas' <=> j \in cruzadas),
         envioImg'[i] = "INICIO" => i \notin cruzadas' \cup privado' \cup publico',
         i \notin cruzadas' => Fase(i)'
  PROVE  Fases'
<1>1. ASSUME NEW j \in Imagens \ {i}, j \notin cruzadas' PROVE Fase(j)'
  BY <1>1 DEF Fases, Fase
<1>2. ASSUME NEW j \in Imagens, envioImg'[j] = "INICIO"
      PROVE  j \notin cruzadas' \cup privado' \cup publico'
  BY <1>2 DEF Fases
<1> QED
  BY <1>1, <1>2 DEF Fases

-----------------------------------------------------------------------------
(* The upload. *)

LEMMA CriarLinhaPasso ==
  ASSUME ImagemInv, NEW i \in Imagens, CriarLinha(i)
  PROVE  ImagemInv'
<1> USE DEF ImagemInv
<1>1. /\ envioImg[i] = "INICIO" /\ imagem' = [imagem EXCEPT ![i] = "PENDING"]
      /\ envioImg' = [envioImg EXCEPT ![i] = "GUARDAR"]
      /\ UNCHANGED <<disponivel, garagemAtiva, privado, publico, trancaImg, desfazer, exclusao,
                     edicaoImg, sinc, varredura, cruzadas, edicoesCruzadas, emDia>>
  BY DEF CriarLinha, frotaImgVars, objetoVars, historiaVars
<1>2. TiposImagem'
  BY <1>1 DEF TiposImagem
<1>3. Trancas'
  BY <1>1, TrancasQuietas DEF TiposImagem
<1>4. Fases'
  <2>1. Fase(i)'
    BY <1>1 DEF Fase, Fases, TiposImagem
  <2> QED BY <1>1, <2>1, FasesDasOutras DEF TiposImagem
<1>5. AlvosDaLimpeza'
  BY <1>1, AlvosQuietos DEF TiposImagem, Fases, Fase
<1>6. LidoEmDia' /\ EmDia'
  BY <1>1, LidoQuieto, EmDiaQuieto DEF TiposImagem
<1> QED
  BY <1>2, <1>3, <1>4, <1>5, <1>6

LEMMA GuardarPrivadoPasso ==
  ASSUME ImagemInv, NEW i \in Imagens, GuardarPrivado(i)
  PROVE  ImagemInv'
<1> USE DEF ImagemInv
<1>1. /\ envioImg[i] = "GUARDAR"
      /\ UNCHANGED <<disponivel, garagemAtiva, imagem, publico, trancaImg, exclusao,
                     edicaoImg, sinc, varredura, edicoesCruzadas, emDia>>
  BY DEF GuardarPrivado, frotaImgVars
<1>2. \/ /\ privado' = privado \cup {i} /\ UNCHANGED <<desfazer, cruzadas>>
         /\ envioImg' = [envioImg EXCEPT ![i] = "PRONTA"]
      \/ /\ privado' \in {privado, privado \cup {i}} /\ cruzadas' = cruzadas \cup {i}
         /\ envioImg' = [envioImg EXCEPT ![i] = "COMPENSAR"]
         /\ desfazer' = [desfazer EXCEPT ![i] = {"PRIVADO", "PUBLICO", "LINHA"}]
  BY DEF GuardarPrivado, Compensar
<1>3. TiposImagem'
  BY <1>1, <1>2 DEF TiposImagem
<1>4. Trancas'
  BY <1>1, <1>2, TrancasQuietas DEF TiposImagem
<1>5. Fases'
  <2>1. i \notin cruzadas' => Fase(i)'
    BY <1>1, <1>2 DEF Fase, Fases, TiposImagem
  <2> QED BY <1>1, <1>2, <2>1, FasesDasOutras DEF TiposImagem
<1>6. AlvosDaLimpeza'
  BY <1>1, <1>2, AlvosQuietos DEF TiposImagem
<1>7. LidoEmDia' /\ EmDia'
  BY <1>1, <1>2, LidoQuieto, EmDiaQuieto
<1> QED
  BY <1>3, <1>4, <1>5, <1>6, <1>7

\* A synchronisation that is asked for: until it has run, nothing is promised.
LEMMA PedirSincPasso ==
  ASSUME TiposImagem, NEW s \in Sincronizadores, PedirSinc(s)
  PROVE  /\ sinc' \in [Sincronizadores -> [passo : {"FORA", "ESPERAR", "OPERAR"},
                         restam : SUBSET Imagens, copiar : BOOLEAN, falhou : BOOLEAN]]
         /\ sinc'[s].passo = "ESPERAR"
         /\ \A o \in Sincronizadores \ {s} : sinc'[o] = sinc[o]
         /\ EmDia'
<1>1. [SincParada EXCEPT !.passo = "ESPERAR"] \in
        [passo : {"FORA", "ESPERAR", "OPERAR"}, restam : SUBSET Imagens, copiar : BOOLEAN,
         falhou : BOOLEAN]
  BY DEF SincParada
<1>2. [SincParada EXCEPT !.passo = "ESPERAR"].passo = "ESPERAR"
  BY DEF SincParada
<1> DEFINE p == [SincParada EXCEPT !.passo = "ESPERAR"]
<1>3. sinc' = [sinc EXCEPT ![s] = p]
  BY DEF PedirSinc
<1> HIDE DEF p
<1>4. sinc'[s] = p /\ \A o \in Sincronizadores \ {s} : sinc'[o] = sinc[o]
  BY <1>3 DEF TiposImagem
<1>5. EmDia'
  BY <1>2, <1>4 DEF EmDia, p
<1> QED
  BY <1>1, <1>2, <1>3, <1>4, <1>5 DEF TiposImagem, p

LEMMA MarcarProntaPasso ==
  ASSUME ImagemInv, NEW i \in Imagens, MarcarPronta(i)
  PROVE  ImagemInv'
<1> USE DEF ImagemInv
<1>1. /\ envioImg[i] = "PRONTA" /\ i \in Sincronizadores
      /\ UNCHANGED <<disponivel, garagemAtiva, privado, publico, trancaImg, exclusao,
                     edicaoImg, varredura, edicoesCruzadas, emDia>>
  BY DEF MarcarPronta, frotaImgVars, objetoVars, Sincronizadores
<1>2. CASE Compensar(i) /\ UNCHANGED <<imagem, sinc>>
  <2>1. /\ envioImg' = [envioImg EXCEPT ![i] = "COMPENSAR"] /\ cruzadas' = cruzadas \cup {i}
        /\ desfazer' = [desfazer EXCEPT ![i] = {"PRIVADO", "PUBLICO", "LINHA"}]
        /\ UNCHANGED <<imagem, sinc>>
    BY <1>2 DEF Compensar
  <2>2. TiposImagem'
    BY <1>1, <2>1 DEF TiposImagem
  <2>3. Trancas'
    BY <1>1, <2>1, TrancasQuietas DEF TiposImagem
  <2>4. Fases'
    BY <1>1, <2>1, FasesDasOutras DEF TiposImagem
  <2>5. AlvosDaLimpeza'
    BY <1>1, <2>1, AlvosQuietos DEF TiposImagem
  <2>6. LidoEmDia' /\ EmDia'
    BY <1>1, <2>1, LidoQuieto, EmDiaQuieto
  <2> QED BY <2>2, <2>3, <2>4, <2>5, <2>6
<1>3. CASE /\ imagem' = [imagem EXCEPT ![i] = "READY"]
           /\ envioImg' = [envioImg EXCEPT ![i] = "SINCRONIZAR"]
           /\ PedirSinc(i)
           /\ UNCHANGED <<desfazer, cruzadas>>
  <2>1. /\ sinc' \in [Sincronizadores -> [passo : {"FORA", "ESPERAR", "OPERAR"},
                         restam : SUBSET Imagens, copiar : BOOLEAN, falhou : BOOLEAN]]
        /\ sinc'[i].passo = "ESPERAR" /\ EmDia'
        /\ \A o \in Sincronizadores \ {i} : sinc'[o] = sinc[o]
    BY <1>1, <1>3, PedirSincPasso
  <2>2. TiposImagem'
    BY <1>1, <1>3, <2>1 DEF TiposImagem
  <2>3. /\ envioImg'[i] = "SINCRONIZAR" /\ imagem'[i] = "READY"
        /\ \A j \in Imagens \ {i} : envioImg'[j] = envioImg[j] /\ imagem'[j] = imagem[j]
    BY <1>3 DEF TiposImagem
  <2>4. Trancas'
    BY <1>1, <2>1, <2>3, ImagemAssumption DEF Trancas, Sincronizadores
  <2>5. Fases'
    <3>1. i \notin cruzadas' => Fase(i)'
      BY <1>1, <1>3, <2>3 DEF Fase, Fases
    <3> QED BY <1>1, <1>3, <2>3, <3>1, FasesDasOutras
  <2>6. AlvosDaLimpeza'
    BY <1>1, <1>3, <2>3, AlvosQuietos DEF Fases, Fase
  <2>7. LidoEmDia'
    BY <1>1, LidoQuieto
  <2> QED BY <2>1, <2>2, <2>4, <2>5, <2>6, <2>7
<1> QED
  BY <1>2, <1>3 DEF MarcarPronta

LEMMA DesfazerPasso ==
  ASSUME ImagemInv, NEW i \in Imagens, Desfazer(i)
  PROVE  ImagemInv'
<1> USE DEF ImagemInv
<1>1. /\ envioImg[i] = "COMPENSAR"
      /\ UNCHANGED <<disponivel, garagemAtiva, trancaImg, exclusao, edicaoImg, sinc, varredura,
                     cruzadas, edicoesCruzadas, emDia>>
  BY DEF Desfazer, frotaImgVars, historiaVars
<1>2. PICK o \in desfazer[i] :
        /\ desfazer' = [desfazer EXCEPT ![i] = @ \ {o}]
        /\ privado' \in {privado, privado \ {i}} /\ publico' \in {publico, publico \ {i}}
        /\ imagem' \in {imagem, [imagem EXCEPT ![i] = "REMOVIDA"]}
  BY DEF Desfazer
<1>3. \E p \in {"COMPENSAR", "FIM"} : envioImg' = [envioImg EXCEPT ![i] = p]
  BY <1>1 DEF Desfazer
<1>4. i \in cruzadas
  BY <1>1 DEF Fases, Fase
<1>5. TiposImagem'
  BY <1>1, <1>2, <1>3 DEF TiposImagem
<1>6. Trancas'
  BY <1>1, <1>3, TrancasQuietas DEF TiposImagem
<1>7. Fases'
  BY <1>1, <1>2, <1>3, <1>4, FasesDasOutras DEF TiposImagem
<1>8. AlvosDaLimpeza'
  BY <1>1, <1>2, <1>3, <1>4, AlvosQuietos DEF TiposImagem
<1>9. LidoEmDia' /\ EmDia'
  BY <1>1, <1>2, <1>4, LidoQuieto, EmDiaQuieto DEF TiposImagem
<1> QED
  BY <1>5, <1>6, <1>7, <1>8, <1>9

-----------------------------------------------------------------------------
(* The exclusion. *)

LEMMA ExcluirPasso ==
  ASSUME ImagemInv, NEW i \in Imagens, Excluir(i)
  PROVE  ImagemInv'
<1> USE DEF ImagemInv
<1>1. /\ UNCHANGED <<disponivel, garagemAtiva, trancaImg, envioImg, desfazer, edicaoImg, sinc,
                     varredura, edicoesCruzadas, emDia>>
      /\ cruzadas' \in {cruzadas, cruzadas \cup {i}}
      /\ \E p \in {"PRIVADO", "PUBLICO", "LINHA", "FALHOU", "FIM"} :
           exclusao' = [exclusao EXCEPT ![i] = p]
      /\ privado' \in {privado, privado \ {i}} /\ publico' \in {publico, publico \ {i}}
      /\ \/ imagem' = imagem
         \/ \E t \in {"DELETING", "REMOVIDA"} : imagem' = [imagem EXCEPT ![i] = t]
  <2> USE DEF ExclusaoUnchanged, IrExclusao, frotaImgVars, objetoVars
  <2>1. CASE MarcarExclusao(i)
    BY <2>1 DEF MarcarExclusao
  <2>2. CASE ExcluirPrivado(i)
    BY <2>2 DEF ExcluirPrivado
  <2>3. CASE ExcluirPublico(i)
    BY <2>3 DEF ExcluirPublico
  <2>4. CASE ExcluirLinha(i)
    BY <2>4 DEF ExcluirLinha
  <2>5. CASE ExclusaoFalha(i)
    BY <2>5 DEF ExclusaoFalha
  <2> QED BY <2>1, <2>2, <2>3, <2>4, <2>5 DEF Excluir
<1>2. TiposImagem'
  BY <1>1 DEF TiposImagem
<1>3. Trancas'
  BY <1>1, TrancasQuietas
\* The row is being deleted, or the exclusion crossed the upload.
<1>4. i \notin cruzadas' =>
        /\ envioImg[i] = "FIM" /\ Fase(i)'
        /\ imagem'[i] \in {"DELETING", "REMOVIDA"}
        /\ imagem[i] # "REMOVIDA"
  <2> SUFFICES ASSUME i \notin cruzadas'
               PROVE  /\ envioImg[i] = "FIM" /\ Fase(i)'
                      /\ imagem'[i] \in {"DELETING", "REMOVIDA"}
                      /\ imagem[i] # "REMOVIDA"
    OBVIOUS
  <2> USE DEF IrExclusao, objetoVars, Fase, TiposImagem
  <2>1. i \notin cruzadas /\ Fase(i)
    BY <1>1 DEF Fases
  <2>2. CASE MarcarExclusao(i)
    BY <1>1, <2>1, <2>2 DEF MarcarExclusao, Linhas
  <2>3. CASE ExcluirPrivado(i)
    BY <1>1, <2>1, <2>3 DEF ExcluirPrivado
  <2>4. CASE ExcluirPublico(i)
    BY <1>1, <2>1, <2>4 DEF ExcluirPublico
  <2>5. CASE ExcluirLinha(i)
    BY <1>1, <2>1, <2>5 DEF ExcluirLinha
  <2>6. CASE ExclusaoFalha(i)
    BY <1>1, <2>1, <2>6 DEF ExclusaoFalha
  <2> QED BY <2>2, <2>3, <2>4, <2>5, <2>6 DEF Excluir
<1>5. Fases'
  <2>1. envioImg'[i] = "INICIO" => i \notin cruzadas' \cup privado' \cup publico'
    <3>1. CASE i \notin cruzadas'
      BY <1>1, <1>4, <3>1
    <3>2. CASE i \in cruzadas'
      <4>1. envioImg[i] # "INICIO"
        <5> SUFFICES ASSUME envioImg[i] = "INICIO" PROVE FALSE
          OBVIOUS
        <5>1. imagem[i] = "NENHUMA" /\ exclusao[i] = "INICIO" /\ i \notin cruzadas
          BY DEF Fases, Fase
        <5> QED BY <5>1 DEF Excluir, MarcarExclusao, ExcluirPrivado, ExcluirPublico,
                            ExcluirLinha, ExclusaoFalha, Linhas
      <4> QED BY <1>1, <4>1
    <3> QED BY <3>1, <3>2
  <2> QED BY <1>1, <1>4, <2>1, FasesDasOutras DEF TiposImagem
<1>6. AlvosDaLimpeza'
  BY <1>1, <1>4, AlvosQuietos DEF TiposImagem
<1>7. LidoEmDia' /\ EmDia'
  BY <1>1, <1>4, LidoQuieto, EmDiaQuieto DEF TiposImagem
<1> QED
  BY <1>2, <1>3, <1>5, <1>6, <1>7

-----------------------------------------------------------------------------
(* The edits. *)

LEMMA LerParaEditarPasso ==
  ASSUME ImagemInv, NEW e \in EdicoesImg, LerParaEditar(e)
  PROVE  ImagemInv'
<1> USE DEF ImagemInv
<1>1. /\ edicaoImg[e].passo = "INICIO"
      /\ edicaoImg' = [edicaoImg EXCEPT ![e] = [passo |-> "GRAVAR", lido |-> disponivel]]
      /\ edicoesCruzadas' = (edicoesCruzadas \/ \E o \in EdicoesImg : edicaoImg[o].passo = "GRAVAR")
      /\ UNCHANGED <<disponivel, garagemAtiva, imagem, privado, publico, trancaImg, envioImg,
                     desfazer, exclusao, sinc, varredura, cruzadas, emDia>>
  BY DEF LerParaEditar, frotaImgVars, EdicaoUnchanged, objetoVars
<1>2. TiposImagem'
  BY <1>1 DEF TiposImagem
<1>3. Trancas'
  BY <1>1 DEF Trancas, TiposImagem
<1>4. Fases'
  BY <1>1 DEF Fases, Fase
<1>5. AlvosDaLimpeza'
  BY <1>1, AlvosQuietos
<1>6. LidoEmDia'
  BY <1>1 DEF LidoEmDia, TiposImagem
<1>7. EmDia'
  BY <1>1, EmDiaQuieto
<1> QED
  BY <1>2, <1>3, <1>4, <1>5, <1>6, <1>7

\* A step of an edit that asks for its synchronisation.
LEMMA SincronizarPasso ==
  ASSUME ImagemInv, NEW e \in EdicoesImg, edicaoImg[e].passo \in {"INICIO", "GRAVAR"},
         Sincronizar(e), disponivel' \in BOOLEAN, garagemAtiva' \in BOOLEAN, LidoEmDia',
         UNCHANGED <<imagem, privado, publico, trancaImg, envioImg, desfazer, exclusao,
                     varredura, cruzadas, edicoesCruzadas, emDia>>
  PROVE  ImagemInv'
<1> USE DEF ImagemInv
<1>1. e \in Sincronizadores /\ PedirSinc(e)
      /\ edicaoImg' = [edicaoImg EXCEPT ![e].passo = "SINCRONIZAR"]
  BY DEF Sincronizadores, Sincronizar
<1>2. /\ sinc' \in [Sincronizadores -> [passo : {"FORA", "ESPERAR", "OPERAR"},
                         restam : SUBSET Imagens, copiar : BOOLEAN, falhou : BOOLEAN]]
      /\ sinc'[e].passo = "ESPERAR" /\ EmDia'
      /\ \A o \in Sincronizadores \ {e} : sinc'[o] = sinc[o]
  BY <1>1, PedirSincPasso
<1>3. TiposImagem'
  BY <1>1, <1>2 DEF TiposImagem
<1>4. /\ edicaoImg'[e].passo = "SINCRONIZAR"
      /\ \A o \in EdicoesImg \ {e} : edicaoImg'[o] = edicaoImg[o]
  BY <1>1 DEF TiposImagem
<1>5. Trancas'
  BY <1>1, <1>2, <1>4, ImagemAssumption DEF Trancas, Sincronizadores
<1>6. Fases'
  BY DEF Fases, Fase
<1>7. AlvosDaLimpeza'
  BY AlvosQuietos
<1> QED
  BY <1>2, <1>3, <1>5, <1>6, <1>7

LEMMA GravarEdicaoPasso ==
  ASSUME ImagemInv, NEW e \in EdicoesImg, GravarEdicao(e)
  PROVE  ImagemInv'
<1> USE DEF ImagemInv
<1>1. /\ edicaoImg[e].passo = "GRAVAR" /\ trancaImg = Vaga /\ disponivel' \in BOOLEAN
      /\ UNCHANGED <<garagemAtiva, imagem, privado, publico, trancaImg, envioImg, desfazer,
                     exclusao, varredura, cruzadas, edicoesCruzadas, emDia>>
  BY DEF GravarEdicao, EdicaoUnchanged, objetoVars
<1>2. \E p \in {"SINCRONIZAR", "FIM"} : edicaoImg' = [edicaoImg EXCEPT ![e].passo = p]
  BY DEF GravarEdicao, Sincronizar
<1>3. /\ edicaoImg'[e].passo \in {"SINCRONIZAR", "FIM"}
      /\ \A o \in EdicoesImg \ {e} : edicaoImg'[o] = edicaoImg[o]
  BY <1>2 DEF TiposImagem
<1>4. LidoEmDia'
  BY <1>1, <1>3 DEF LidoEmDia
<1>5. CASE disponivel' # edicaoImg[e].lido
  BY <1>1, <1>4, <1>5, SincronizarPasso DEF GravarEdicao, TiposImagem
<1>6. CASE disponivel' = edicaoImg[e].lido
  <2>1. edicaoImg' = [edicaoImg EXCEPT ![e].passo = "FIM"] /\ sinc' = sinc
    BY <1>6 DEF GravarEdicao
  <2>2. edicaoImg'[e].passo = "FIM"
    BY <2>1 DEF TiposImagem
  <2>3. TiposImagem'
    BY <1>1, <2>1 DEF TiposImagem
  <2>4. Trancas'
    BY <1>1, <1>3, <2>1, <2>2 DEF Trancas
  <2>5. Fases' /\ AlvosDaLimpeza'
    BY <1>1, AlvosQuietos DEF Fases, Fase
  <2>6. EmDia'
    <3>1. CASE ~edicoesCruzadas
      <4>1. disponivel' = disponivel
        BY <1>1, <1>6, <3>1 DEF LidoEmDia
      <4> QED BY <1>1, <2>1, <4>1, EmDiaQuieto
    <3>2. CASE edicoesCruzadas
      <4>1. \A s \in Sincronizadores : sinc[s].passo # "OPERAR"
        BY <1>1, ImagemAssumption DEF Trancas, Sincronizadores
      <4> QED BY <1>1, <2>1, <3>2, <4>1 DEF EmDia
    <3> QED BY <3>1, <3>2 DEF TiposImagem
  <2> QED BY <1>4, <2>3, <2>4, <2>5, <2>6
<1> QED
  BY <1>5, <1>6

LEMMA EditarGaragemPasso ==
  ASSUME ImagemInv, NEW e \in EdicoesImg, EditarGaragem(e)
  PROVE  ImagemInv'
<1> USE DEF ImagemInv
<1>1. /\ edicaoImg[e].passo = "INICIO" /\ garagemAtiva' \in BOOLEAN /\ Sincronizar(e)
      /\ UNCHANGED <<disponivel, imagem, privado, publico, trancaImg, envioImg, desfazer,
                     exclusao, varredura, cruzadas, edicoesCruzadas, emDia>>
  BY DEF EditarGaragem, EdicaoUnchanged, objetoVars
<1>2. edicaoImg' = [edicaoImg EXCEPT ![e].passo = "SINCRONIZAR"]
  BY <1>1 DEF Sincronizar
<1>3. LidoEmDia'
  BY <1>1, <1>2 DEF LidoEmDia, TiposImagem
<1> QED
  BY <1>1, <1>3, SincronizarPasso DEF TiposImagem

-----------------------------------------------------------------------------
(* The synchronisation. *)

LEMMA EntrarSincPasso ==
  ASSUME ImagemInv, NEW s \in Sincronizadores, EntrarSinc(s)
  PROVE  ImagemInv'
<1> USE DEF ImagemInv
<1> DEFINE prontas == {i \in Imagens : imagem[i] = "READY"}
           p == [passo |-> "OPERAR", restam |-> prontas, copiar |-> Publicavel, falhou |-> FALSE]
<1>1. /\ sinc[s].passo = "ESPERAR" /\ trancaImg = Vaga /\ trancaImg' = s
      /\ sinc' = [sinc EXCEPT ![s] = p]
      /\ UNCHANGED <<disponivel, garagemAtiva, imagem, privado, publico, envioImg, desfazer,
                     exclusao, edicaoImg, varredura, cruzadas, edicoesCruzadas, emDia>>
  BY DEF EntrarSinc, frotaImgVars, objetoVars, pedidoImgVars, historiaVars
<1>2. p \in [passo : {"FORA", "ESPERAR", "OPERAR"}, restam : SUBSET Imagens,
             copiar : BOOLEAN, falhou : BOOLEAN]
  BY DEF Publicavel, TiposImagem
<1>3. p.passo = "OPERAR" /\ p.restam = prontas /\ p.copiar = Publicavel
  OBVIOUS
<1> HIDE DEF p
<1>4. sinc'[s] = p /\ \A o \in Sincronizadores \ {s} : sinc'[o] = sinc[o]
  BY <1>1 DEF TiposImagem
<1>5. TiposImagem'
  BY <1>1, <1>2 DEF TiposImagem
<1>6. s # Vaga /\ \A o \in Sincronizadores : sinc[o].passo # "OPERAR"
  BY <1>1, ImagemAssumption DEF Trancas, Sincronizadores
<1>7. Trancas'
  <2>1. \A o \in Sincronizadores : (sinc'[o].passo = "OPERAR") <=> (trancaImg' = o)
    BY <1>1, <1>3, <1>4, <1>6
  <2>2. \A o \in Sincronizadores : (sinc'[o].passo # "FORA") <=> (sinc[o].passo # "FORA")
    BY <1>1, <1>3, <1>4
  <2> QED BY <1>1, <2>1, <2>2 DEF Trancas, Sincronizadores
<1>8. Fases' /\ AlvosDaLimpeza' /\ LidoEmDia'
  BY <1>1, AlvosQuietos, LidoQuieto DEF Fases, Fase
<1>9. EmDia'
  <2>1. Publicavel' = Publicavel
    BY <1>1 DEF Publicavel
  <2>2. \A o \in Sincronizadores : sinc'[o].passo = "OPERAR" => o = s
    BY <1>4, <1>6
  <2>3. \A i \in Imagens \ prontas : imagem'[i] # "READY"
    BY <1>1
  <2> QED BY <1>1, <1>3, <1>4, <1>6, <2>1, <2>2, <2>3 DEF EmDia, Visivel
<1> QED
  BY <1>5, <1>7, <1>8, <1>9

LEMMA OperarSincPasso ==
  ASSUME ImagemInv, NEW s \in Sincronizadores, OperarSinc(s)
  PROVE  ImagemInv'
<1> USE DEF ImagemInv
<1>1. /\ sinc[s].passo = "OPERAR"
      /\ UNCHANGED <<disponivel, garagemAtiva, imagem, privado, trancaImg, envioImg, desfazer,
                     exclusao, edicaoImg, varredura, cruzadas, edicoesCruzadas, emDia>>
  BY DEF OperarSinc, frotaImgVars, pedidoImgVars, historiaVars
<1>2. PICK i \in sinc[s].restam :
        \/ /\ sinc[s].copiar => i \in privado
           /\ publico' = IF sinc[s].copiar THEN publico \cup {i} ELSE publico \ {i}
           /\ sinc' = [sinc EXCEPT ![s].restam = @ \ {i}]
        \/ /\ sinc' = [sinc EXCEPT ![s].restam = @ \ {i}, ![s].falhou = TRUE]
           /\ publico' = publico
  BY DEF OperarSinc
<1>3. i \in Imagens /\ sinc[s].copiar \in BOOLEAN
  BY DEF TiposImagem
<1>4. /\ sinc'[s].passo = "OPERAR" /\ sinc'[s].restam = sinc[s].restam \ {i}
      /\ sinc'[s].copiar = sinc[s].copiar
      /\ ~sinc'[s].falhou => ~sinc[s].falhou
      /\ \A o \in Sincronizadores \ {s} : sinc'[o] = sinc[o]
      /\ sinc' \in [Sincronizadores -> [passo : {"FORA", "ESPERAR", "OPERAR"},
                       restam : SUBSET Imagens, copiar : BOOLEAN, falhou : BOOLEAN]]
  <2> DEFINE Rs == [passo : {"FORA", "ESPERAR", "OPERAR"}, restam : SUBSET Imagens,
                    copiar : BOOLEAN, falhou : BOOLEAN]
  <2>1. sinc \in [Sincronizadores -> Rs]
    BY DEF TiposImagem
  <2>2. PICK r \in Rs : r = sinc[s]
    BY <2>1
  <2>3. PICK n \in Rs :
          /\ n.passo = r.passo /\ n.restam = r.restam \ {i} /\ n.copiar = r.copiar
          /\ ~n.falhou => ~r.falhou
          /\ sinc' = [sinc EXCEPT ![s] = n]
    <3>1. CASE sinc' = [sinc EXCEPT ![s].restam = @ \ {i}]
      <4> DEFINE n == [r EXCEPT !.restam = r.restam \ {i}]
      <4>1. n \in Rs
        OBVIOUS
      <4>2. /\ n.passo = r.passo /\ n.restam = r.restam \ {i} /\ n.copiar = r.copiar
            /\ n.falhou = r.falhou
        OBVIOUS
      <4>3. sinc' = [sinc EXCEPT ![s] = n]
        BY <2>1, <2>2, <3>1
      <4> QED BY <4>1, <4>2, <4>3
    <3>2. CASE sinc' = [sinc EXCEPT ![s].restam = @ \ {i}, ![s].falhou = TRUE]
      <4> DEFINE n == [r EXCEPT !.restam = r.restam \ {i}, !.falhou = TRUE]
      <4>1. n \in Rs
        OBVIOUS
      <4>2. /\ n.passo = r.passo /\ n.restam = r.restam \ {i} /\ n.copiar = r.copiar
            /\ n.falhou
        OBVIOUS
      <4>3. sinc' = [sinc EXCEPT ![s] = n]
        BY <2>1, <2>2, <3>2
      <4> QED BY <4>1, <4>2, <4>3
    <3> QED BY <1>2, <3>1, <3>2
  <2> HIDE DEF Rs
  <2>4. sinc'[s] = n /\ \A o \in Sincronizadores \ {s} : sinc'[o] = sinc[o]
    BY <2>1, <2>3
  <2>5. sinc' \in [Sincronizadores -> Rs]
    BY <2>1, <2>3
  <2> QED BY <1>1, <2>2, <2>3, <2>4, <2>5 DEF Rs
<1>5. /\ publico' \subseteq Imagens /\ \A j \in Imagens \ {i} : j \in publico' <=> j \in publico
      /\ i \in publico' => i \in privado \cup publico
      /\ ~sinc'[s].falhou => (i \in publico' <=> sinc[s].copiar)
  BY <1>2, <1>3 DEF TiposImagem
<1>6. TiposImagem'
  BY <1>1, <1>4, <1>5 DEF TiposImagem
<1>7. Trancas'
  BY <1>1, <1>4 DEF Trancas, Sincronizadores
<1>8. Fases'
  <2>1. i \notin cruzadas' => Fase(i)'
    BY <1>1, <1>3, <1>5 DEF Fases, Fase
  <2>2. envioImg'[i] = "INICIO" => i \notin cruzadas' \cup privado' \cup publico'
    BY <1>1, <1>3, <1>5 DEF Fases
  <2> QED BY <1>1, <1>3, <1>5, <2>1, <2>2, FasesDasOutras
<1>9. AlvosDaLimpeza' /\ LidoEmDia'
  BY <1>1, AlvosQuietos, LidoQuieto
<1>10. EmDia'
  <2> SUFFICES ASSUME \A o \in Sincronizadores : sinc'[o].passo # "ESPERAR"
               PROVE  \A o \in Sincronizadores : sinc'[o].passo = "OPERAR" =>
                        /\ sinc'[o].copiar = Publicavel'
                        /\ \A j \in Imagens \ sinc'[o].restam :
                             ~sinc'[o].falhou => Visivel(j, sinc[o].copiar)'
    BY <1>1, <1>4, ImagemAssumption DEF EmDia, Trancas, Sincronizadores
  <2>1. \A o \in Sincronizadores : sinc[o].passo # "ESPERAR"
    BY <1>1, <1>4
  <2>2. \A o \in Sincronizadores : sinc'[o].passo = "OPERAR" => o = s
    BY <1>1, <1>4 DEF Trancas
  <2>3. Publicavel' = Publicavel /\ sinc[s].copiar = Publicavel
    BY <1>1, <2>1 DEF EmDia, Publicavel
  <2>4. ASSUME NEW j \in Imagens \ sinc'[s].restam, ~sinc'[s].falhou
        PROVE  Visivel(j, sinc[s].copiar)'
    <3>1. CASE j = i
      BY <1>4, <1>5, <2>4, <3>1 DEF Visivel
    <3>2. CASE j # i
      <4>1. Visivel(j, sinc[s].copiar)
        BY <1>1, <1>4, <2>1, <2>4, <3>2 DEF EmDia
      <4> QED BY <1>1, <1>4, <1>5, <3>2, <4>1 DEF Visivel
    <3> QED BY <3>1, <3>2
  <2> QED BY <1>4, <2>2, <2>3, <2>4
<1> QED
  BY <1>6, <1>7, <1>8, <1>9, <1>10

\* A synchronisation that ends: what it leaves is what it should.
LEMMA FimDaSincPasso ==
  ASSUME ImagemInv, NEW s \in Sincronizadores, FimDaSinc(s),
         trancaImg' = Vaga, sinc' = [sinc EXCEPT ![s] = SincParada], emDia' = ~sinc[s].falhou,
         UNCHANGED <<disponivel, garagemAtiva, imagem, privado, publico, edicoesCruzadas>>,
         cruzadas \subseteq cruzadas'
  PROVE  /\ sinc' \in [Sincronizadores -> [passo : {"FORA", "ESPERAR", "OPERAR"},
                         restam : SUBSET Imagens, copiar : BOOLEAN, falhou : BOOLEAN]]
         /\ sinc'[s].passo = "FORA" /\ emDia' \in BOOLEAN
         /\ \A o \in Sincronizadores \ {s} : sinc'[o] = sinc[o] /\ sinc[o].passo # "OPERAR"
         /\ \A o \in Sincronizadores : (sinc'[o].passo = "OPERAR") <=> (trancaImg' = o)
         /\ EmDia'
<1> USE DEF ImagemInv
<1>1. /\ SincParada \in [passo : {"FORA", "ESPERAR", "OPERAR"}, restam : SUBSET Imagens,
                         copiar : BOOLEAN, falhou : BOOLEAN]
      /\ SincParada.passo = "FORA"
  BY DEF SincParada
<1>2. /\ sinc'[s] = SincParada /\ \A o \in Sincronizadores \ {s} : sinc'[o] = sinc[o]
      /\ sinc[s].passo = "OPERAR" /\ sinc[s].restam = {}
  BY DEF TiposImagem, FimDaSinc
<1>3. \A o \in Sincronizadores \ {s} : sinc[o].passo # "OPERAR"
  BY <1>2 DEF Trancas
<1>4. \A o \in Sincronizadores : o # Vaga
  BY ImagemAssumption DEF Sincronizadores
<1>5. EmDia'
  <2> SUFFICES ASSUME \A o \in Sincronizadores : sinc'[o].passo # "ESPERAR", emDia'
               PROVE  \A i \in Imagens : Visivel(i, Publicavel)'
    BY <1>1, <1>2, <1>3 DEF EmDia
  <2>1. \A o \in Sincronizadores : sinc[o].passo # "ESPERAR"
    BY <1>2
  <2>2. sinc[s].copiar = Publicavel /\ Publicavel' = Publicavel
    BY <1>2, <2>1 DEF EmDia, Publicavel
  <2>3. \A i \in Imagens : Visivel(i, sinc[s].copiar)
    BY <1>2, <2>1 DEF EmDia
  <2> QED BY <2>2, <2>3 DEF Visivel
<1> QED
  BY <1>1, <1>2, <1>3, <1>4, <1>5 DEF TiposImagem

LEMMA EnvioSincronizadoPasso ==
  ASSUME ImagemInv, NEW i \in Imagens, EnvioSincronizado(i)
  PROVE  ImagemInv'
<1> USE DEF ImagemInv
<1>1. /\ envioImg[i] = "SINCRONIZAR" /\ FimDaSinc(i) /\ trancaImg' = Vaga
      /\ sinc' = [sinc EXCEPT ![i] = SincParada] /\ emDia' = ~sinc[i].falhou
      /\ UNCHANGED <<disponivel, garagemAtiva, imagem, privado, publico, exclusao, edicaoImg,
                     varredura, edicoesCruzadas>>
      /\ \/ /\ envioImg' = [envioImg EXCEPT ![i] = "COMPENSAR"] /\ cruzadas' = cruzadas \cup {i}
            /\ desfazer' = [desfazer EXCEPT ![i] = {"PRIVADO", "PUBLICO", "LINHA"}]
         \/ /\ envioImg' = [envioImg EXCEPT ![i] = "FIM"] /\ cruzadas' = cruzadas
            /\ desfazer' = desfazer
  BY DEF EnvioSincronizado, Compensar, frotaImgVars, objetoVars
<1>2. i \in Sincronizadores /\ cruzadas \subseteq cruzadas'
  BY <1>1 DEF Sincronizadores
<1>3. /\ sinc' \in [Sincronizadores -> [passo : {"FORA", "ESPERAR", "OPERAR"},
                         restam : SUBSET Imagens, copiar : BOOLEAN, falhou : BOOLEAN]]
      /\ sinc'[i].passo = "FORA" /\ emDia' \in BOOLEAN
      /\ \A o \in Sincronizadores \ {i} : sinc'[o] = sinc[o] /\ sinc[o].passo # "OPERAR"
      /\ \A o \in Sincronizadores : (sinc'[o].passo = "OPERAR") <=> (trancaImg' = o)
      /\ EmDia'
  BY <1>1, <1>2, FimDaSincPasso
<1>4. TiposImagem'
  BY <1>1, <1>3 DEF TiposImagem
<1>5. Trancas'
  <2>1. \A j \in Imagens : (sinc'[j].passo # "FORA") <=> (envioImg'[j] = "SINCRONIZAR")
    BY <1>1, <1>3 DEF Trancas, Sincronizadores, TiposImagem
  <2>2. \A e \in EdicoesImg : (sinc'[e].passo # "FORA") <=> (edicaoImg'[e].passo = "SINCRONIZAR")
    BY <1>1, <1>3, ImagemAssumption DEF Trancas, Sincronizadores
  <2> QED BY <1>3, <2>1, <2>2 DEF Trancas
<1>6. Fases'
  <2>1. i \notin cruzadas' => Fase(i)'
    BY <1>1 DEF Fases, Fase, TiposImagem
  <2> QED BY <1>1, <2>1, FasesDasOutras DEF TiposImagem
<1>7. AlvosDaLimpeza' /\ LidoEmDia'
  BY <1>1, AlvosQuietos, LidoQuieto DEF TiposImagem
<1> QED
  BY <1>3, <1>4, <1>5, <1>6, <1>7

LEMMA EdicaoSincronizadaPasso ==
  ASSUME ImagemInv, NEW e \in EdicoesImg, EdicaoSincronizada(e)
  PROVE  ImagemInv'
<1> USE DEF ImagemInv
<1>1. /\ edicaoImg[e].passo = "SINCRONIZAR" /\ FimDaSinc(e) /\ trancaImg' = Vaga
      /\ sinc' = [sinc EXCEPT ![e] = SincParada] /\ emDia' = ~sinc[e].falhou
      /\ edicaoImg' = [edicaoImg EXCEPT ![e].passo = "FIM"]
      /\ UNCHANGED <<disponivel, garagemAtiva, imagem, privado, publico, envioImg, desfazer,
                     exclusao, varredura, cruzadas, edicoesCruzadas>>
  BY DEF EdicaoSincronizada, EdicaoUnchanged, frotaImgVars, objetoVars
<1>2. e \in Sincronizadores
  BY DEF Sincronizadores
<1>3. /\ sinc' \in [Sincronizadores -> [passo : {"FORA", "ESPERAR", "OPERAR"},
                         restam : SUBSET Imagens, copiar : BOOLEAN, falhou : BOOLEAN]]
      /\ sinc'[e].passo = "FORA" /\ emDia' \in BOOLEAN
      /\ \A o \in Sincronizadores \ {e} : sinc'[o] = sinc[o] /\ sinc[o].passo # "OPERAR"
      /\ \A o \in Sincronizadores : (sinc'[o].passo = "OPERAR") <=> (trancaImg' = o)
      /\ EmDia'
  BY <1>1, <1>2, FimDaSincPasso
<1>4. edicaoImg'[e].passo = "FIM" /\ \A o \in EdicoesImg \ {e} : edicaoImg'[o] = edicaoImg[o]
  BY <1>1 DEF TiposImagem
<1>5. TiposImagem'
  BY <1>1, <1>3 DEF TiposImagem
<1>6. Trancas'
  BY <1>1, <1>3, <1>4, ImagemAssumption DEF Trancas, Sincronizadores
<1>7. Fases' /\ AlvosDaLimpeza'
  BY <1>1, AlvosQuietos DEF Fases, Fase
<1>8. LidoEmDia'
  BY <1>1, <1>4 DEF LidoEmDia
<1> QED
  BY <1>3, <1>5, <1>6, <1>7, <1>8

-----------------------------------------------------------------------------
(* The cleanup. *)

LEMMA LimparPasso ==
  ASSUME ImagemInv, Limpar
  PROVE  ImagemInv'
<1> USE DEF ImagemInv
<1>1. UNCHANGED <<disponivel, garagemAtiva, imagem, trancaImg, envioImg, desfazer, exclusao,
                  edicaoImg, sinc, cruzadas, edicoesCruzadas, emDia>>
  BY DEF Limpar, ListarLinhas, ListarObjetos, ConfirmarAlvos, ApagarObjeto, FimDaLimpeza,
         LimpezaUnchanged, frotaImgVars, historiaVars
<1>2. Trancas' /\ LidoEmDia'
  BY <1>1, TrancasQuietas, LidoQuieto
<1>3. Linhas \subseteq Imagens
  BY DEF Linhas
\* As long as nothing is deleted.
<1>4. ASSUME UNCHANGED <<privado, publico>>, AlvosDaLimpeza',
             varredura' \in [passo : {"INICIO", "OBJETOS", "CONFIRMAR", "APAGAR"},
                             linhas : SUBSET Imagens, alvos : SUBSET Objetos]
      PROVE  ImagemInv'
  BY <1>1, <1>2, <1>4, EmDiaQuieto DEF TiposImagem, Fases, Fase
<1>5. CASE ListarLinhas
  BY <1>1, <1>3, <1>4, <1>5 DEF ListarLinhas, objetoVars, TiposImagem, AlvosDaLimpeza
<1>6. CASE ListarObjetos
  <2>1. PICK alvos \in SUBSET (({"PRIVADO"} \X privado) \cup ({"PUBLICO"} \X publico)) :
          varredura' = [varredura EXCEPT !.passo = "CONFIRMAR", !.alvos = alvos]
    BY <1>6 DEF ListarObjetos
  <2>2. \A o \in alvos : o \in Objetos /\ o[2] \in Imagens /\ envioImg[o[2]] # "INICIO"
    BY DEF TiposImagem, Objetos, Fases
  <2>3. varredura'.passo = "CONFIRMAR" /\ varredura'.alvos = alvos
    BY <2>1 DEF TiposImagem
  <2>4. varredura' \in [passo : {"INICIO", "OBJETOS", "CONFIRMAR", "APAGAR"},
                        linhas : SUBSET Imagens, alvos : SUBSET Objetos]
    BY <2>1, <2>2 DEF TiposImagem
  <2>5. AlvosDaLimpeza'
    BY <1>1, <2>2, <2>3 DEF AlvosDaLimpeza
  <2> QED BY <1>4, <1>6, <2>4, <2>5 DEF ListarObjetos, objetoVars
<1>7. CASE ConfirmarAlvos
  <2> DEFINE alvos == {o \in varredura.alvos : o[2] \notin Linhas \/ (o[1] = "PUBLICO" /\ ~Publicavel)}
  <2>1. /\ varredura.passo = "CONFIRMAR" /\ UNCHANGED <<privado, publico>>
        /\ varredura' = [passo |-> "APAGAR", linhas |-> Linhas, alvos |-> alvos]
    BY <1>7 DEF ConfirmarAlvos, objetoVars
  <2>2. varredura' \in [passo : {"INICIO", "OBJETOS", "CONFIRMAR", "APAGAR"},
                        linhas : SUBSET Imagens, alvos : SUBSET Objetos]
    BY <1>3, <2>1 DEF TiposImagem
  <2>3. ASSUME NEW o \in alvos
        PROVE  /\ o[1] = "PRIVADO" => o[2] \notin Linhas
               /\ o[2] \notin Linhas \cup cruzadas => imagem[o[2]] = "REMOVIDA"
    <3>1. o[2] \in Imagens /\ envioImg[o[2]] # "INICIO"
      BY <2>1 DEF AlvosDaLimpeza, TiposImagem, Objetos
    <3> QED BY <3>1 DEF Fases, Fase, Linhas, TiposImagem
  <2>4. AlvosDaLimpeza'
    <3>1. varredura'.passo = "APAGAR" /\ varredura'.alvos = alvos /\ varredura'.linhas = Linhas
      BY <2>1
    <3> HIDE DEF alvos
    <3> QED BY <1>1, <2>3, <3>1 DEF AlvosDaLimpeza
  <2> QED BY <1>4, <2>1, <2>2, <2>4
<1>8. CASE ApagarObjeto
  <2>1. PICK o \in varredura.alvos :
          LET comLinha == o[2] \in varredura.linhas
              apaga == ~comLinha \/ (o[2] \in Linhas /\ ~Publicavel)
          IN /\ comLinha => trancaImg = Vaga
             /\ varredura' = [varredura EXCEPT !.alvos = @ \ {o}]
             /\ privado' = IF apaga /\ o[1] = "PRIVADO" THEN privado \ {o[2]} ELSE privado
             /\ publico' = IF apaga /\ o[1] = "PUBLICO" THEN publico \ {o[2]} ELSE publico
    BY <1>8 DEF ApagarObjeto
  <2> DEFINE i == o[2]
  <2>2. /\ i \in Imagens /\ o[1] \in {"PRIVADO", "PUBLICO"} /\ varredura.passo = "APAGAR"
        /\ o[1] = "PRIVADO" => i \notin varredura.linhas
        /\ i \notin varredura.linhas \cup cruzadas => imagem[i] = "REMOVIDA"
    BY <1>8 DEF ApagarObjeto, AlvosDaLimpeza, TiposImagem, Objetos
  <2>3. /\ varredura'.passo = "APAGAR" /\ varredura'.linhas = varredura.linhas
        /\ varredura'.alvos \subseteq varredura.alvos
        /\ varredura' \in [passo : {"INICIO", "OBJETOS", "CONFIRMAR", "APAGAR"},
                           linhas : SUBSET Imagens, alvos : SUBSET Objetos]
    BY <2>1, <2>2 DEF TiposImagem
  <2>4. AlvosDaLimpeza'
    BY <1>1, <2>2, <2>3 DEF AlvosDaLimpeza
  \* The private object goes only without a row; the public one with a row only
  \* when it is not to be seen.
  <2>5. /\ privado' \in {privado, privado \ {i}} /\ publico' \in {publico, publico \ {i}}
        /\ privado' # privado => i \notin varredura.linhas
        /\ publico' # publico => i \notin varredura.linhas \/ (trancaImg = Vaga /\ ~Publicavel)
    BY <2>1, <2>2
  <2> HIDE DEF i
  <2>6. TiposImagem'
    BY <1>1, <2>3, <2>5 DEF TiposImagem
  <2>7. Fases'
    <3>1. i \notin cruzadas' => Fase(i)'
      BY <1>1, <2>2, <2>5 DEF Fases, Fase, TiposImagem
    <3>2. envioImg'[i] = "INICIO" => i \notin cruzadas' \cup privado' \cup publico'
      BY <1>1, <2>2, <2>5 DEF Fases
    <3> QED BY <1>1, <2>2, <2>5, <3>1, <3>2, FasesDasOutras
  <2>8. EmDia'
    <3>1. CASE publico' = publico \/ i \in cruzadas \/ imagem[i] # "READY"
      BY <1>1, <2>2, <2>5, <3>1, EmDiaQuieto
    <3>2. CASE publico' = publico \ {i} /\ i \notin cruzadas /\ imagem[i] = "READY" /\ publico' # publico
      <4>1. trancaImg = Vaga /\ ~Publicavel
        BY <2>2, <2>5, <3>2
      <4>2. \A s \in Sincronizadores : sinc[s].passo # "OPERAR"
        BY <4>1, ImagemAssumption DEF Trancas, Sincronizadores
      <4>3. ~Publicavel'
        BY <1>1, <4>1 DEF Publicavel
      <4> QED BY <1>1, <3>2, <4>1, <4>2, <4>3 DEF EmDia, Visivel
    <3> QED BY <2>5, <3>1, <3>2
  <2> QED BY <1>2, <2>4, <2>6, <2>7, <2>8
<1>9. CASE FimDaLimpeza
  BY <1>1, <1>4, <1>9 DEF FimDaLimpeza, objetoVars, TiposImagem, AlvosDaLimpeza
<1> QED
  BY <1>5, <1>6, <1>7, <1>8, <1>9 DEF Limpar

-----------------------------------------------------------------------------
LEMMA ImagemPasso ==
  ASSUME ImagemInv, [NextImagem]_imagemVars
  PROVE  ImagemInv'
<1>1. CASE UNCHANGED imagemVars
  <2>1. UNCHANGED <<disponivel, garagemAtiva, imagem, privado, publico, trancaImg, envioImg,
                    desfazer, exclusao, edicaoImg, sinc, varredura, cruzadas, edicoesCruzadas,
                    emDia>>
    BY <1>1 DEF imagemVars, frotaImgVars
  <2> QED BY <2>1, LidoQuieto, TrancasQuietas, AlvosQuietos, EmDiaQuieto
             DEF ImagemInv, TiposImagem, Fases, Fase
<1>2. ASSUME NEW i \in Imagens, Enviar(i) PROVE ImagemInv'
  BY <1>2, CriarLinhaPasso, GuardarPrivadoPasso, MarcarProntaPasso, EnvioSincronizadoPasso,
     DesfazerPasso DEF Enviar
<1>3. ASSUME NEW e \in EdicoesImg, Editar(e) PROVE ImagemInv'
  BY <1>3, LerParaEditarPasso, GravarEdicaoPasso, EditarGaragemPasso, EdicaoSincronizadaPasso
     DEF Editar
<1> QED
  BY <1>1, <1>2, <1>3, ExcluirPasso, EntrarSincPasso, OperarSincPasso, LimparPasso
     DEF NextImagem

LEMMA ImagemSempre == SpecImagem => []ImagemInv
BY ImagemInicio, ImagemPasso, PTL DEF SpecImagem

(* The lock is with the synchronisation that operates and the variables keep *)
(* their types.                                                              *)
THEOREM ImagemTipos == SpecImagem => []ImagemTypeOK
<1>1. ImagemInv => ImagemTypeOK
  BY DEF ImagemInv, TiposImagem, Trancas, ImagemTypeOK, Publicavel
<1> QED
  BY <1>1, ImagemSempre, PTL

(* A public object always has its row and a READY row its private file, for  *)
(* any images, edits and limit, whatever fails and although exclusions and   *)
(* half of the cleanup hold no lock (excluir, sincronizarVisibilidade-       *)
(* Veiculo, limparObjetosOrfaos); images whose upload was compensated or     *)
(* crossed by an exclusion are left out.                                     *)
THEOREM ObjetosSempreTemLinha == SpecImagem => []ObjetosTemLinha
<1>1. ImagemInv => ObjetosTemLinha
  <2> SUFFICES ASSUME ImagemInv PROVE ObjetosTemLinha
    OBVIOUS
  <2>1. ASSUME NEW i \in Imagens \ cruzadas
        PROVE  /\ i \in publico => i \in Linhas
               /\ imagem[i] = "READY" => i \in privado
    BY DEF ImagemInv, TiposImagem, Fases, Fase, Linhas
  <2> QED BY <2>1 DEF ImagemInv, TiposImagem, ObjetosTemLinha
<1> QED
  BY <1>1, ImagemSempre, PTL

(* With no synchronisation waiting or running, none of whose calls failed,   *)
(* the public sees exactly the READY images of a vehicle that can be rented, *)
(* if no two edits overlapped between reading and writing, for any images    *)
(* and edits and although the garage is edited without the vehicle's lock.   *)
THEOREM VisibilidadeSempreEmDia == SpecImagem => []VisibilidadeEmDia
<1>1. ImagemInv => VisibilidadeEmDia
  BY DEF ImagemInv, EmDia, Visivel, VisibilidadeEmDia, Repouso
<1> QED
  BY <1>1, ImagemSempre, PTL

=============================================================================
