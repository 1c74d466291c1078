---------------------------- MODULE Avisos_proofs ----------------------------
(***************************************************************************)
(* Proofs about the e-mails the system sends by itself: the notices of an  *)
(* available vehicle, the report of a confirmed reservation, the alerts of *)
(* the monitoring.  For any renters, requests, edits, vehicles, executions *)
(* and limits of attempts, and wherever a write, an e-mail or the process  *)
(* fails.                                                                  *)
(***************************************************************************)
EXTENDS Interesse, NotificacaoReserva, Monitoramento, FiniteSetTheorems, TLAPS

-----------------------------------------------------------------------------
(* The watch list (Interesse).  Each notifier comes to a renter once and   *)
(* is the only one to write its own records.                               *)

Tratando == {"REGISTRAR", "ENVIAR", "MARCAR", "ENCERRAR", "FALHAR"}

\* The notifier is over and done with a renter: it will not write that record
\* again.
Tratado(e, l) ==
  /\ aviso[e].passo \notin {"INICIO", "EDITAR", "LISTAR"}
  /\ l \notin aviso[e].fila
  /\ aviso[e].passo \in Tratando => aviso[e].quem # l

\* What the step of a notifier says of the record and the e-mail it is at.
PassoDoAviso ==
  \A e \in EdicoesVeiculo :
    /\ aviso[e].passo \in Tratando =>
         aviso[e].quem \in Interessados /\ aviso[e].quem \notin aviso[e].fila
    /\ aviso[e].passo \in {"ENVIAR", "MARCAR", "ENCERRAR"} => registro[Par(e)] # "NENHUM"
    /\ aviso[e].passo \in {"MARCAR", "ENCERRAR"} /\ emailLigado => aceito[Par(e)]
    /\ aviso[e].passo = "ENCERRAR" => registro[Par(e)] = "ENVIADA"

\* A subscription closed as NOTIFICADO was closed by a notifier that gave that
\* renter a notice and, where only its record shows it, is done with the renter.
FechadaPorAviso ==
  \A l \in Interessados : inscricao[l] = "NOTIFICADO" =>
    \E e \in EdicoesVeiculo : Avisado(e, l) /\ (emailLigado \/ Tratado(e, l))

InteresseInv ==
  /\ InteresseTypeOK
  /\ PassoDoAviso
  /\ RegistroFielAoEnvio
  /\ FechadaPorAviso

Avisos == [passo : {"INICIO", "EDITAR", "LISTAR", "PROXIMO", "REGISTRAR", "ENVIAR", "MARCAR",
                    "ENCERRAR", "FALHAR", "FIM"},
           lido : {"DISPONIVEL", "MANUTENCAO", "INATIVO"},
           fila : SUBSET Interessados, quem : Interessados \cup {Nenhum}]

LEMMA InteresseInicio == InitInteresse => InteresseInv
<1> SUFFICES ASSUME InitInteresse PROVE InteresseInv
  OBVIOUS
<1> USE DEF InitInteresse, SemPedido, SemAviso
<1>1. InteresseTypeOK
  BY DEF InteresseTypeOK
<1>2. PassoDoAviso
  BY DEF PassoDoAviso, Tratando
<1>3. RegistroFielAoEnvio
  BY DEF RegistroFielAoEnvio
<1>4. FechadaPorAviso
  BY DEF FechadaPorAviso
<1> QED BY <1>1, <1>2, <1>3, <1>4 DEF InteresseInv

\* A notifier that only moves on: it leaves the records alone, and what it may
\* say of the renter it is at it says because it may already.
LEMMA AvisoAnda ==
  ASSUME InteresseInv, NEW e \in EdicoesVeiculo, NEW a \in Avisos,
         aviso' = [aviso EXCEPT ![e] = a],
         UNCHANGED <<emailLigado, optou, pedido, registro, aceito>>,
         situacao' \in {"DISPONIVEL", "MANUTENCAO", "INATIVO"},
         \/ inscricao' = inscricao
         \/ /\ aviso[e].passo = "ENCERRAR"
            /\ a.passo = "PROXIMO" \/ emailLigado
            /\ a.fila = aviso[e].fila
            /\ inscricao' = [inscricao EXCEPT ![aviso[e].quem] = "NOTIFICADO"],
         a.passo \in {"REGISTRAR", "FALHAR"} =>
           a.quem \in Interessados /\ a.quem \notin a.fila,
         a.passo \notin {"ENVIAR", "MARCAR", "ENCERRAR"},
         \A l \in Interessados : Tratado(e, l) =>
           /\ a.passo \notin {"INICIO", "EDITAR", "LISTAR"} /\ l \notin a.fila
           /\ a.passo \in Tratando => a.quem # l
  PROVE  InteresseInv'
<1> USE DEF InteresseInv
<1>1. aviso'[e] = a /\ \A o \in EdicoesVeiculo \ {e} : aviso'[o] = aviso[o]
  BY DEF InteresseTypeOK
<1>2. aviso[e].passo = "ENCERRAR" =>
        /\ aviso[e].quem \in Interessados /\ aviso[e].quem \notin aviso[e].fila
        /\ registro[Par(e)] = "ENVIADA" /\ (emailLigado => aceito[Par(e)])
  BY DEF PassoDoAviso, Tratando
<1>3. InteresseTypeOK'
  BY <1>2 DEF InteresseTypeOK, Avisos
<1>4. PassoDoAviso'
  <2> SUFFICES ASSUME NEW o \in EdicoesVeiculo
               PROVE  /\ aviso'[o].passo \in Tratando =>
                            /\ aviso'[o].quem \in Interessados
                            /\ aviso'[o].quem \notin aviso'[o].fila
                      /\ aviso'[o].passo \in {"ENVIAR", "MARCAR", "ENCERRAR"} =>
                            registro'[<<o, aviso'[o].quem>>] # "NENHUM"
                      /\ aviso'[o].passo \in {"MARCAR", "ENCERRAR"} /\ emailLigado' =>
                            aceito'[<<o, aviso'[o].quem>>]
                      /\ aviso'[o].passo = "ENCERRAR" =>
                            registro'[<<o, aviso'[o].quem>>] = "ENVIADA"
    BY DEF PassoDoAviso, Par
  <2>1. CASE o = e
    BY <1>1, <2>1 DEF Tratando
  <2>2. CASE o # e
    BY <1>1, <2>2 DEF PassoDoAviso, Par
  <2> QED BY <2>1, <2>2
<1>5. RegistroFielAoEnvio'
  BY DEF RegistroFielAoEnvio
<1>6. FechadaPorAviso'
  <2> SUFFICES ASSUME NEW l \in Interessados, inscricao'[l] = "NOTIFICADO"
               PROVE  \E o \in EdicoesVeiculo :
                        Avisado(o, l) /\ (emailLigado \/ Tratado(o, l)')
    BY DEF FechadaPorAviso, Avisado
  <2>1. \A o \in EdicoesVeiculo : Tratado(o, l) => Tratado(o, l)'
    <3> SUFFICES ASSUME NEW o \in EdicoesVeiculo, Tratado(o, l) PROVE Tratado(o, l)'
      OBVIOUS
    <3>1. CASE o = e
      BY <1>1, <3>1 DEF Tratado
    <3>2. CASE o # e
      BY <1>1, <3>2 DEF Tratado
    <3> QED BY <3>1, <3>2
  <2>2. CASE inscricao[l] = "NOTIFICADO"
    BY <2>1, <2>2 DEF FechadaPorAviso
  <2>3. CASE inscricao[l] # "NOTIFICADO"
    <3>1. /\ aviso[e].passo = "ENCERRAR" /\ l = aviso[e].quem
          /\ a.passo = "PROXIMO" \/ emailLigado
          /\ a.fila = aviso[e].fila
      BY <2>3 DEF InteresseTypeOK
    <3>2. Avisado(e, l)
      BY <1>2, <3>1 DEF Avisado, Par
    <3>3. a.passo = "PROXIMO" => Tratado(e, l)'
      BY <1>1, <1>2, <3>1 DEF Tratado, Tratando
    <3> QED BY <3>1, <3>2, <3>3
  <2> QED BY <2>2, <2>3
<1> QED
  BY <1>3, <1>4, <1>5, <1>6

\* A notifier that writes the record of the renter it is at, or sends the e-mail.
LEMMA AvisoGrava ==
  ASSUME InteresseInv, NEW e \in EdicoesVeiculo, NEW p, NEW s, NEW b,
         aviso[e].passo \in Tratando,
         aviso' = [aviso EXCEPT ![e].passo = p],
         p \in {"PROXIMO", "ENVIAR", "MARCAR", "ENCERRAR", "FALHAR"},
         registro' = [registro EXCEPT ![Par(e)] = s],
         s \in {"PENDENTE", "ENVIADA", "FALHA"},
         aceito' = [aceito EXCEPT ![Par(e)] = b],
         b \in BOOLEAN, aceito[Par(e)] => b,
         p \in {"MARCAR", "ENCERRAR"} /\ emailLigado => b,
         s = "ENVIADA" /\ emailLigado => b,
         p = "ENCERRAR" => s = "ENVIADA",
         UNCHANGED <<situacao, emailLigado, optou, inscricao, pedido>>
  PROVE  InteresseInv'
<1> USE DEF InteresseInv
<1> DEFINE l == aviso[e].quem
<1>1. l \in Interessados /\ l \notin aviso[e].fila /\ Par(e) = <<e, l>>
  BY DEF PassoDoAviso, Par
<1>2. /\ aviso'[e] = [aviso[e] EXCEPT !.passo = p]
      /\ \A o \in EdicoesVeiculo \ {e} : aviso'[o] = aviso[o]
  BY DEF InteresseTypeOK
<1>3. \A o \in EdicoesVeiculo, k \in Interessados :
        /\ registro'[<<o, k>>] = IF o = e /\ k = l THEN s ELSE registro[<<o, k>>]
        /\ aceito'[<<o, k>>] = IF o = e /\ k = l THEN b ELSE aceito[<<o, k>>]
  BY <1>1 DEF InteresseTypeOK, Pares
<1>4. InteresseTypeOK'
  <2>1. Par(e) \in Pares
    BY <1>1 DEF Pares
  <2>2. registro' \in [Pares -> {"NENHUM", "PENDENTE", "ENVIADA", "FALHA"}]
    BY <2>1 DEF InteresseTypeOK
  <2>3. aceito' \in [Pares -> BOOLEAN]
    BY <2>1 DEF InteresseTypeOK
  <2>4. aviso' \in [EdicoesVeiculo -> Avisos]
    BY DEF InteresseTypeOK, Avisos
  <2> QED BY <2>2, <2>3, <2>4 DEF InteresseTypeOK, Avisos
<1>5. PassoDoAviso'
  <2> SUFFICES ASSUME NEW o \in EdicoesVeiculo
               PROVE  /\ aviso'[o].passo \in Tratando =>
                            /\ aviso'[o].quem \in Interessados
                            /\ aviso'[o].quem \notin aviso'[o].fila
                      /\ aviso'[o].passo \in {"ENVIAR", "MARCAR", "ENCERRAR"} =>
                            registro'[<<o, aviso'[o].quem>>] # "NENHUM"
                      /\ aviso'[o].passo \in {"MARCAR", "ENCERRAR"} /\ emailLigado' =>
                            aceito'[<<o, aviso'[o].quem>>]
                      /\ aviso'[o].passo = "ENCERRAR" =>
                            registro'[<<o, aviso'[o].quem>>] = "ENVIADA"
    BY DEF PassoDoAviso, Par
  <2>1. CASE o = e
    <3>1. aviso'[e].passo = p /\ aviso'[e].quem = l /\ aviso'[e].fila = aviso[e].fila
      BY <1>2 DEF InteresseTypeOK
    <3>2. registro'[<<e, l>>] = s /\ aceito'[<<e, l>>] = b
      BY <1>1, <1>3
    <3> QED BY <1>1, <2>1, <3>1, <3>2
  <2>2. CASE o # e
    <3>1. aviso'[o] = aviso[o]
      BY <1>2, <2>2
    <3>2. aviso[o].passo \in Tratando =>
            /\ registro'[<<o, aviso[o].quem>>] = registro[<<o, aviso[o].quem>>]
            /\ aceito'[<<o, aviso[o].quem>>] = aceito[<<o, aviso[o].quem>>]
      BY <1>3, <2>2 DEF PassoDoAviso
    <3> QED BY <3>1, <3>2 DEF PassoDoAviso, Par, Tratando
  <2> QED BY <2>1, <2>2
<1>6. RegistroFielAoEnvio'
  <2> SUFFICES ASSUME NEW o \in EdicoesVeiculo, NEW k \in Interessados
               PROVE  /\ aceito'[<<o, k>>] => registro'[<<o, k>>] # "NENHUM"
                      /\ registro'[<<o, k>>] = "ENVIADA" /\ emailLigado => aceito'[<<o, k>>]
    BY DEF RegistroFielAoEnvio, Pares
  <2> QED BY <1>3 DEF RegistroFielAoEnvio, Pares
<1>7. FechadaPorAviso'
  <2> SUFFICES ASSUME NEW k \in Interessados, inscricao[k] = "NOTIFICADO"
               PROVE  \E o \in EdicoesVeiculo :
                        Avisado(o, k)' /\ (emailLigado \/ Tratado(o, k)')
    BY DEF FechadaPorAviso
  <2>1. PICK o \in EdicoesVeiculo : Avisado(o, k) /\ (emailLigado \/ Tratado(o, k))
    BY DEF FechadaPorAviso
  <2>2. ~emailLigado => ~(o = e /\ k = l)
    BY <2>1 DEF Tratado
  <2>3. Avisado(o, k)'
    BY <1>1, <1>3, <2>1, <2>2 DEF Avisado
  <2>4. ASSUME ~emailLigado PROVE Tratado(o, k)'
    <3>1. CASE o = e
      <4>1. aviso'[e].passo = p /\ aviso'[e].quem = l /\ aviso'[e].fila = aviso[e].fila
        BY <1>2 DEF InteresseTypeOK
      <4> QED BY <2>1, <2>2, <2>4, <3>1, <4>1 DEF Tratado
    <3>2. CASE o # e
      BY <1>2, <2>1, <2>4, <3>2 DEF Tratado
    <3> QED BY <3>1, <3>2
  <2> QED BY <2>3, <2>4
<1> QED
  BY <1>4, <1>5, <1>6, <1>7

(* The notifier's steps. *)
LEMMA AvisoPasso ==
  ASSUME InteresseInv, NEW e \in EdicoesVeiculo,
         LerVeiculo(e) \/ EditarVeiculo(e) \/ Notificar(e) \/ PararAviso(e)
  PROVE  InteresseInv'
<1> USE DEF InteresseInv
<1>t. /\ aviso[e] \in Avisos /\ situacao \in {"DISPONIVEL", "MANUTENCAO", "INATIVO"}
      /\ aviso \in [EdicoesVeiculo -> Avisos]
      /\ aviso[e].passo \in Tratando =>
           aviso[e].quem \in Interessados /\ aviso[e].quem \notin aviso[e].fila
  BY DEF InteresseTypeOK, Avisos, PassoDoAviso
<1>1. CASE LerVeiculo(e)
  <2> DEFINE a == [aviso[e] EXCEPT !.passo = "EDITAR", !.lido = situacao]
  <2>1. a \in Avisos /\ a.passo = "EDITAR"
    BY <1>t DEF Avisos
  <2>2. /\ aviso[e].passo = "INICIO" /\ aviso' = [aviso EXCEPT ![e] = a]
        /\ UNCHANGED <<situacao, emailLigado, optou, inscricao, pedido, registro, aceito>>
    BY <1>1 DEF LerVeiculo, envioVars
  <2> HIDE DEF a
  <2> QED BY <1>t, <2>1, <2>2, AvisoAnda DEF Tratado, Tratando
<1>2. CASE EditarVeiculo(e)
  <2>1. PICK p \in {"LISTAR", "FIM"} : aviso' = [aviso EXCEPT ![e].passo = p]
    BY <1>2 DEF EditarVeiculo, IrAviso
  <2> DEFINE a == [aviso[e] EXCEPT !.passo = p]
  <2>2. a \in Avisos /\ a.passo = p
    BY <1>t DEF Avisos
  <2>3. /\ aviso[e].passo = "EDITAR" /\ aviso' = [aviso EXCEPT ![e] = a]
        /\ situacao' \in {"DISPONIVEL", "MANUTENCAO", "INATIVO"}
        /\ UNCHANGED <<emailLigado, optou, inscricao, pedido, registro, aceito>>
    BY <1>2, <2>1 DEF EditarVeiculo, envioVars
  <2> HIDE DEF a
  <2> QED BY <1>t, <2>2, <2>3, AvisoAnda DEF Tratado, Tratando
<1>3. CASE ListarInteressados(e)
  <2> DEFINE ativos == {l \in Interessados : inscricao[l] = "ATIVO"}
             a == [aviso[e] EXCEPT !.passo = "PROXIMO", !.fila = ativos]
  <2>1. a \in Avisos /\ a.passo = "PROXIMO"
    BY <1>t DEF Avisos
  <2>2. /\ aviso[e].passo = "LISTAR" /\ aviso' = [aviso EXCEPT ![e] = a]
        /\ UNCHANGED <<situacao, emailLigado, optou, inscricao, pedido, registro, aceito>>
    BY <1>3 DEF ListarInteressados, envioVars
  <2> HIDE DEF a
  <2> QED BY <1>t, <2>1, <2>2, AvisoAnda DEF Tratado, Tratando
<1>4. ASSUME NEW l \in Interessados, ProximoInteressado(e, l) PROVE InteresseInv'
  <2> DEFINE p == IF emailLigado /\ l \notin optou THEN "PROXIMO" ELSE "REGISTRAR"
             a == [aviso[e] EXCEPT !.fila = aviso[e].fila \ {l}, !.quem = l, !.passo = p]
  <2>1. p \in {"PROXIMO", "REGISTRAR"}
    OBVIOUS
  <2>2. a \in Avisos /\ a.passo = p /\ a.quem = l /\ a.fila = aviso[e].fila \ {l}
    BY <1>t DEF Avisos
  <2>3. aviso' = [aviso EXCEPT ![e] = a]
    BY <1>4, <1>t DEF ProximoInteressado
  <2>4. /\ aviso[e].passo = "PROXIMO" /\ l \in aviso[e].fila
        /\ UNCHANGED <<situacao, emailLigado, optou, inscricao, pedido, registro, aceito>>
    BY <1>4 DEF ProximoInteressado, envioVars
  <2> HIDE DEF p, a
  <2> QED BY <1>t, <2>1, <2>2, <2>3, <2>4, AvisoAnda DEF Tratado, Tratando
<1>5. ASSUME NEW p \in {"PROXIMO", "FALHAR", "FIM"},
             aviso' = [aviso EXCEPT ![e].passo = p],
             UNCHANGED <<situacao, emailLigado, optou, pedido, registro, aceito>>,
             \/ inscricao' = inscricao
             \/ /\ aviso[e].passo = "ENCERRAR" /\ (p = "PROXIMO" \/ emailLigado)
                /\ inscricao' = [inscricao EXCEPT ![aviso[e].quem] = "NOTIFICADO"],
             p # "FIM" => aviso[e].passo \in Tratando
      PROVE  InteresseInv'
  <2> DEFINE a == [aviso[e] EXCEPT !.passo = p]
  <2>1. a \in Avisos /\ a.passo = p /\ a.quem = aviso[e].quem /\ a.fila = aviso[e].fila
    BY <1>t DEF Avisos
  <2>2. aviso' = [aviso EXCEPT ![e] = a]
    BY <1>5
  <2>3. p = "FALHAR" => aviso[e].passo \in Tratando
    BY <1>5
  <2>4. \A l \in Interessados : Tratado(e, l) =>
          /\ a.passo \notin {"INICIO", "EDITAR", "LISTAR"} /\ l \notin a.fila
          /\ a.passo \in Tratando => a.quem # l
    BY <2>1, <2>3 DEF Tratado, Tratando
  <2> HIDE DEF a
  <2> QED BY <1>t, <1>5, <2>1, <2>2, <2>3, <2>4, AvisoAnda
<1>6. ASSUME aviso[e].passo \in Tratando,
             NEW p \in {"PROXIMO", "ENVIAR", "MARCAR", "ENCERRAR", "FALHAR"},
             NEW s \in {"PENDENTE", "ENVIADA", "FALHA"},
             aviso' = [aviso EXCEPT ![e].passo = p],
             registro' = [registro EXCEPT ![Par(e)] = s],
             p \in {"MARCAR", "ENCERRAR"} /\ emailLigado => aceito[Par(e)],
             s = "ENVIADA" /\ emailLigado => aceito[Par(e)],
             p = "ENCERRAR" => s = "ENVIADA",
             UNCHANGED <<situacao, emailLigado, optou, inscricao, pedido, aceito>>
      PROVE  InteresseInv'
  <2>1. Par(e) \in Pares
    BY <1>t, <1>6 DEF Par, Pares
  <2>2. aceito' = [aceito EXCEPT ![Par(e)] = aceito[Par(e)]] /\ aceito[Par(e)] \in BOOLEAN
    BY <1>6, <2>1 DEF InteresseTypeOK
  <2> QED BY <1>6, <2>2, AvisoGrava
<1>7. CASE RegistrarAviso(e)
  <2>1. CASE Registrado(e, "PENDENTE") /\ IrAviso(e, IF emailLigado THEN "ENVIAR" ELSE "MARCAR")
    BY <1>6, <1>7, <2>1 DEF RegistrarAviso, Registrado, IrAviso, Tratando
  <2>2. CASE IrAviso(e, "PROXIMO") /\ Registrado(e, "PENDENTE")
    BY <1>6, <1>7, <2>2 DEF RegistrarAviso, Registrado, IrAviso, Tratando
  <2>3. CASE IrAviso(e, "PROXIMO") /\ UNCHANGED registro
    <3>1. /\ aviso[e].passo = "REGISTRAR" /\ aviso' = [aviso EXCEPT ![e].passo = "PROXIMO"]
          /\ UNCHANGED <<situacao, emailLigado, optou, inscricao, pedido, registro, aceito>>
      BY <1>7, <2>3 DEF RegistrarAviso, IrAviso
    <3> QED BY <1>5, <3>1 DEF Tratando
  <2> QED BY <1>7, <2>1, <2>2, <2>3 DEF RegistrarAviso
<1>8. CASE EnviarAviso(e)
  <2>1. /\ aviso[e].passo = "ENVIAR" /\ Par(e) \in Pares /\ registro[Par(e)] # "NENHUM"
        /\ UNCHANGED <<situacao, emailLigado, optou, inscricao, pedido, registro>>
    BY <1>8, <1>t DEF EnviarAviso, Par, Pares, PassoDoAviso, Tratando
  <2>2. PICK p \in {"MARCAR", "FALHAR"}, b \in BOOLEAN :
          /\ aviso' = [aviso EXCEPT ![e].passo = p]
          /\ aceito' = [aceito EXCEPT ![Par(e)] = b]
          /\ (aceito[Par(e)] => b) /\ (p = "MARCAR" => b)
    <3>1. aceito = [aceito EXCEPT ![Par(e)] = aceito[Par(e)]] /\ aceito[Par(e)] \in BOOLEAN
      BY <2>1 DEF InteresseTypeOK
    <3> QED BY <1>8, <3>1 DEF EnviarAviso, IrAviso
  <2> QED
    <3> DEFINE s == registro[Par(e)]
    <3>1. s \in {"PENDENTE", "ENVIADA", "FALHA"} /\ registro' = [registro EXCEPT ![Par(e)] = s]
      BY <2>1 DEF InteresseTypeOK
    <3>2. s = "ENVIADA" /\ emailLigado => b
      BY <2>1, <2>2 DEF RegistroFielAoEnvio
    <3>3. aviso[e].passo \in Tratando
      BY <2>1 DEF Tratando
    <3>4. /\ p \in {"PROXIMO", "ENVIAR", "MARCAR", "ENCERRAR", "FALHAR"} /\ p # "ENCERRAR"
          /\ p \in {"MARCAR", "ENCERRAR"} /\ emailLigado => b
          /\ aceito[Par(e)] => b
      BY <2>2
    <3> HIDE DEF s
    <3> QED BY <2>1, <2>2, <3>1, <3>2, <3>3, <3>4, AvisoGrava
<1>9. CASE MarcarEnviada(e)
  <2>1. aviso[e].passo = "MARCAR" /\ (emailLigado => aceito[Par(e)])
    BY <1>9 DEF MarcarEnviada, PassoDoAviso
  <2>2. CASE Registrado(e, "ENVIADA") /\ IrAviso(e, "ENCERRAR")
    BY <1>6, <1>9, <2>1, <2>2 DEF MarcarEnviada, Registrado, IrAviso, Tratando
  <2>3. CASE IrAviso(e, AposErro) /\ Registrado(e, "ENVIADA")
    BY <1>6, <1>9, <2>1, <2>3 DEF MarcarEnviada, Registrado, IrAviso, AposErro, Tratando
  <2>4. CASE IrAviso(e, AposErro) /\ UNCHANGED registro
    <3> DEFINE p == AposErro
    <3>1. p \in {"FALHAR", "PROXIMO"}
      BY DEF AposErro
    <3>2. /\ aviso' = [aviso EXCEPT ![e].passo = p]
          /\ UNCHANGED <<situacao, emailLigado, optou, inscricao, pedido, registro, aceito>>
      BY <1>9, <2>4 DEF MarcarEnviada, IrAviso
    <3> HIDE DEF p
    <3> QED BY <1>5, <2>1, <3>1, <3>2 DEF Tratando
  <2> QED BY <1>9, <2>2, <2>3, <2>4 DEF MarcarEnviada
<1>10. CASE MarcarNotificado(e)
  <2>1. /\ aviso[e].passo = "ENCERRAR"
        /\ UNCHANGED <<situacao, emailLigado, optou, pedido, registro, aceito>>
    BY <1>10 DEF MarcarNotificado, envioVars
  <2>2. CASE Fechada(e) /\ IrAviso(e, "PROXIMO")
    <3>1. aviso' = [aviso EXCEPT ![e].passo = "PROXIMO"]
      BY <2>2 DEF IrAviso
    <3> QED BY <1>5, <2>1, <2>2, <3>1 DEF Fechada, Tratando
  <2>3. CASE IrAviso(e, AposErro) /\ (Fechada(e) \/ UNCHANGED inscricao)
    <3> DEFINE p == AposErro
    <3>1. p \in {"FALHAR", "PROXIMO"} /\ (p = "PROXIMO" \/ emailLigado)
      BY DEF AposErro
    <3>2. aviso' = [aviso EXCEPT ![e].passo = p]
      BY <2>3 DEF IrAviso
    <3> HIDE DEF p
    <3> QED BY <1>5, <2>1, <2>3, <3>1, <3>2 DEF Fechada, Tratando
  <2> QED BY <1>10, <2>2, <2>3 DEF MarcarNotificado
<1>11. CASE MarcarFalha(e)
  <2>1. CASE Registrado(e, "FALHA")
    BY <1>6, <1>11, <2>1 DEF MarcarFalha, Registrado, IrAviso, Tratando
  <2>2. CASE UNCHANGED registro
    <3>1. /\ aviso[e].passo = "FALHAR" /\ aviso' = [aviso EXCEPT ![e].passo = "PROXIMO"]
          /\ UNCHANGED <<situacao, emailLigado, optou, inscricao, pedido, registro, aceito>>
      BY <1>11, <2>2 DEF MarcarFalha, IrAviso
    <3> QED BY <1>5, <3>1 DEF Tratando
  <2> QED BY <1>11, <2>1, <2>2 DEF MarcarFalha
<1>12. CASE PararAviso(e)
  BY <1>5, <1>12, <1>t DEF PararAviso, IrAviso, Tratando, envioVars, Avisos
<1> QED
  BY <1>1, <1>2, <1>3, <1>4, <1>7, <1>8, <1>9, <1>10, <1>11, <1>12 DEF Notificar

(* The renters' steps: none closes a subscription as NOTIFICADO. *)
LEMMA PedidoPasso ==
  ASSUME InteresseInv,
         \/ \E l \in Interessados : MudarPreferencia(l)
         \/ \E q \in Pedidos : PedidoDeLocatario(q)
  PROVE  InteresseInv'
<1> USE DEF InteresseInv
<1>1. /\ UNCHANGED <<situacao, emailLigado, aviso, registro, aceito>>
      /\ optou' \subseteq Interessados
      /\ pedido' \in [Pedidos -> [passo : {"LIVRE", "LER", "GRAVAR", "CANCELAR"},
                                  quem : Interessados \cup {Nenhum}, achou : BOOLEAN]]
      /\ inscricao' \in [Interessados -> {"NENHUMA", "ATIVO", "CANCELADO", "NOTIFICADO"}]
      /\ \A l \in Interessados : inscricao'[l] = "NOTIFICADO" => inscricao[l] = "NOTIFICADO"
  <2> USE DEF envioVars, IrPedido, SemPedido
  <2>1. CASE \E l \in Interessados : MudarPreferencia(l)
    BY <2>1 DEF MudarPreferencia, InteresseTypeOK
  <2>2. CASE \E q \in Pedidos : PedidoDeLocatario(q)
    <3>1. PICK q \in Pedidos : PedidoDeLocatario(q)
      BY <2>2
    <3>2. pedido[q] \in [passo : {"LIVRE", "LER", "GRAVAR", "CANCELAR"},
                         quem : Interessados \cup {Nenhum}, achou : BOOLEAN]
      BY DEF InteresseTypeOK
    <3>3. CASE \E l \in Interessados : PedirInscricao(q, l)
      BY <3>3 DEF PedirInscricao, InteresseTypeOK
    <3>4. CASE \E l \in Interessados : PedirCancelamento(q, l)
      BY <3>4 DEF PedirCancelamento, InteresseTypeOK
    <3>5. CASE LerInscricao(q)
      BY <3>2, <3>5 DEF LerInscricao, InteresseTypeOK
    <3>6. CASE GravarInscricao(q)
      BY <3>2, <3>6 DEF GravarInscricao, InteresseTypeOK
    <3>7. CASE CancelarInscricao(q)
      BY <3>2, <3>7 DEF CancelarInscricao, InteresseTypeOK
    <3> QED BY <3>1, <3>3, <3>4, <3>5, <3>6, <3>7 DEF PedidoDeLocatario
  <2> QED BY <2>1, <2>2
<1> QED
  BY <1>1 DEF InteresseTypeOK, PassoDoAviso, RegistroFielAoEnvio, FechadaPorAviso, Avisado,
              Tratado, Par

LEMMA InteresseSempre == SpecInteresse => []InteresseInv
<1>1. InteresseInv /\ [NextInteresse]_interesseVars => InteresseInv'
  <2>1. CASE UNCHANGED interesseVars
    BY <2>1 DEF interesseVars, InteresseInv, InteresseTypeOK, PassoDoAviso, RegistroFielAoEnvio,
                FechadaPorAviso, Avisado, Tratado, Par
  <2> QED BY <2>1, AvisoPasso, PedidoPasso DEF NextInteresse
<1> QED
  BY <1>1, InteresseInicio, PTL DEF SpecInteresse

(* Every e-mail the server accepted has its record, and no record says       *)
(* ENVIADA of one that never left, for any renters, edits and requests and   *)
(* wherever writes, e-mails and the process fail (notificarInteressado).     *)
THEOREM RegistroSempreFiel == SpecInteresse => [](InteresseTypeOK /\ RegistroFielAoEnvio)
BY InteresseSempre, PTL DEF InteresseInv

(* A renter whose subscription is closed as NOTIFICADO had a notice, however *)
(* many edits and requests overlap and whatever fails: the notifier that     *)
(* closed it never comes back to that renter, and no other writes that       *)
(* record (marcarNotificado after send and marcarEnviada).                   *)
THEOREM NotificadoSempreAvisado == SpecInteresse => []NotificadoTemAviso
<1>1. InteresseInv => NotificadoTemAviso
  BY DEF InteresseInv, FechadaPorAviso, NotificadoTemAviso
<1> QED
  BY <1>1, InteresseSempre, PTL

-----------------------------------------------------------------------------
(* The report of a reservation (NotificacaoReserva). *)

\* What the step of the notifier says of the record and of the copies.
RelatorioInv ==
  /\ NotificacaoTypeOK
  /\ copias <= tentativaN
  /\ envio \in {"INICIO", "REGISTRAR"} => relatorio = "NENHUM" /\ tentativaN = 0
  /\ copias > 0 => relatorio # "NENHUM"
  /\ relatorio = "ENVIADA" => copias > 0
  /\ envio \in {"ENVIAR", "ENVIADO", "FALHOU"} => relatorio # "NENHUM"
  /\ envio = "ENVIAR" => tentativaN < MaxEnvios
  /\ envio = "ENVIADO" => copias > 0

(* Every copy of the report has its record, ENVIADA is said only of one that *)
(* left, and there are never more copies than attempts nor more attempts     *)
(* than the limit, for any limit (notificarReservaConfirmada,                *)
(* retryComBackoff).                                                         *)
THEOREM RelatorioSempreRegistrado ==
  SpecNotificacao => [](NotificacaoTypeOK /\ RelatorioRegistrado)
<1>1. InitNotificacao => RelatorioInv
  BY NotificacaoAssumption DEF InitNotificacao, RelatorioInv, NotificacaoTypeOK
<1>2. RelatorioInv /\ [NextNotificacao]_notificacaoVars => RelatorioInv'
  <2> SUFFICES ASSUME RelatorioInv, [NextNotificacao]_notificacaoVars
               PROVE  RelatorioInv'
    OBVIOUS
  <2> USE NotificacaoAssumption DEF RelatorioInv, NotificacaoTypeOK
  <2>1. CASE NotificarConfirmada
    BY <2>1 DEF NotificarConfirmada
  <2>2. CASE RegistrarRelatorio
    BY <2>2 DEF RegistrarRelatorio
  <2>3. CASE EnviarRelatorio
    BY <2>3 DEF EnviarRelatorio
  <2>4. CASE RelatorioEnviado
    BY <2>4 DEF RelatorioEnviado
  <2>5. CASE RelatorioFalhou
    BY <2>5 DEF RelatorioFalhou
  <2>6. CASE PararNotificacao
    BY <2>6 DEF PararNotificacao
  <2>7. CASE UNCHANGED notificacaoVars
    BY <2>7 DEF notificacaoVars
  <2> QED
    BY <2>1, <2>2, <2>3, <2>4, <2>5, <2>6, <2>7 DEF NextNotificacao
<1>3. RelatorioInv => NotificacaoTypeOK /\ RelatorioRegistrado
  BY NotificacaoAssumption DEF RelatorioInv, NotificacaoTypeOK, RelatorioRegistrado
<1> QED
  BY <1>1, <1>2, <1>3, PTL DEF SpecNotificacao

-----------------------------------------------------------------------------
(* The alerts (Monitoramento).  Nothing locks the rows: as long as         *)
(* executions do not overlap, the one that is running is alone with them   *)
(* from the search of a row to its last write.                             *)

LinhaAlerta == [status : {"PENDENTE", "ENVIADA", "FALHA"}, tentativas : Nat, aberto : BOOLEAN]

PassosDaRegra == {"INICIO", "CANDIDATOS", "PROXIMO", "REGISTRAR", "DESPACHAR", "MARCAR",
                  "DISPENSAR", "FALHAR", "RESOLVER"}

Andamento == [passo : PassosDaRegra, candidatos : SUBSET Veiculos, restam : SUBSET Veiculos,
              veiculo : Veiculos \cup {Nulo}, indice : Nat,
              resolver : SUBSET (Veiculos \X Nat)]

MonitorTipos ==
  /\ alerta \in [Veiculos -> Seq(LinhaAlerta)]
  /\ execucao \in [Execucoes -> Andamento]
  /\ condicao \subseteq Veiculos

\* What a row says of the attempts made for it.
LinhasBem ==
  \A v \in Veiculos : \A i \in DOMAIN alerta[v] :
    /\ alerta[v][i].tentativas <= MaxTentativas
    /\ alerta[v][i].status = "PENDENTE" => alerta[v][i].tentativas = 0

\* An execution on its way to send the e-mail of a row may send it.
NaMao(x) ==
  /\ execucao[x].veiculo \in Veiculos
  /\ execucao[x].indice \in DOMAIN alerta[execucao[x].veiculo]
  /\ Status(x) # "ENVIADA"
  /\ alerta[execucao[x].veiculo][execucao[x].indice].tentativas < MaxTentativas

\* What the step of an execution says of the vehicle and of the row it is at.
PassoDaExecucao(x) ==
  /\ execucao[x].passo = "REGISTRAR" =>
       execucao[x].veiculo \in Veiculos /\ Abertos(execucao[x].veiculo) = {}
  /\ execucao[x].passo \in {"DESPACHAR", "MARCAR", "DISPENSAR", "FALHAR"} => NaMao(x)
  /\ \A par \in execucao[x].resolver : par[2] \in DOMAIN alerta[par[1]]

\* One execution at a time is alone with the alerts.
MonitorSozinho ==
  /\ MonitorTipos
  /\ \A x, y \in Correndo : x = y
  /\ LinhasBem /\ AlertaUnico /\ ~reenviado
  /\ \A x \in Execucoes : PassoDaExecucao(x)

MonitorInv == sobrepostas \in BOOLEAN /\ (~sobrepostas => MonitorSozinho)

LEMMA MonitorInicio == InitMonitor => MonitorInv
<1> SUFFICES ASSUME InitMonitor PROVE MonitorInv
  OBVIOUS
<1> USE DEF InitMonitor, Parada
<1>1. MonitorTipos
  <2>1. Parada \in Andamento
    BY DEF Andamento, PassosDaRegra
  <2>2. <<>> \in Seq(LinhaAlerta)
    OBVIOUS
  <2> QED BY <2>1, <2>2 DEF MonitorTipos
<1>2. LinhasBem /\ AlertaUnico
  BY DEF LinhasBem, AlertaUnico, Abertos, AlertaAberto
<1>3. \A x \in Execucoes : PassoDaExecucao(x)
  BY DEF PassoDaExecucao
<1>4. Correndo = {}
  BY DEF Correndo
<1> QED
  BY <1>1, <1>2, <1>3, <1>4 DEF MonitorInv, MonitorSozinho

\* The execution that is running goes on to a; the rows only grow in number.
LEMMA SozinhaAnda ==
  ASSUME MonitorSozinho, NEW x \in Correndo, NEW a \in Andamento,
         execucao' = [execucao EXCEPT ![x] = a], condicao' = condicao,
         alerta' \in [Veiculos -> Seq(LinhaAlerta)],
         \A v \in Veiculos : DOMAIN alerta[v] \subseteq DOMAIN alerta'[v],
         LinhasBem', AlertaUnico', ~reenviado', PassoDaExecucao(x)'
  PROVE  MonitorSozinho'
<1> USE DEF MonitorSozinho
<1>1. x \in Execucoes /\ execucao'[x] = a
      /\ \A y \in Execucoes \ {x} : execucao'[y] = execucao[y] /\ execucao[y].passo = "INICIO"
  BY DEF Correndo, MonitorTipos
<1>2. MonitorTipos'
  BY <1>1 DEF MonitorTipos
<1>3. \A y, z \in Correndo' : y = z
  BY <1>1 DEF Correndo
<1>4. ASSUME NEW y \in Execucoes PROVE PassoDaExecucao(y)'
  <2>1. CASE y = x
    BY <2>1
  <2>2. CASE y # x
    <3>1. \A par \in execucao[y].resolver : par[1] \in Veiculos
      BY DEF MonitorTipos, Andamento
    <3> QED BY <1>1, <2>2, <3>1 DEF PassoDaExecucao
  <2> QED BY <2>1, <2>2
<1> QED
  BY <1>2, <1>3, <1>4

\* The same without a write to the rows.
LEMMA SozinhaLe ==
  ASSUME MonitorSozinho, NEW x \in Correndo, NEW a \in Andamento,
         execucao' = [execucao EXCEPT ![x] = a], alerta' = alerta, ~reenviado',
         condicao' = condicao,
         a.passo = "REGISTRAR" => a.veiculo \in Veiculos /\ Abertos(a.veiculo) = {},
         a.passo \in {"DESPACHAR", "MARCAR", "DISPENSAR", "FALHAR"} =>
           /\ a.veiculo \in Veiculos /\ a.indice \in DOMAIN alerta[a.veiculo]
           /\ alerta[a.veiculo][a.indice].status # "ENVIADA"
           /\ alerta[a.veiculo][a.indice].tentativas < MaxTentativas,
         \A par \in a.resolver : par[2] \in DOMAIN alerta[par[1]]
  PROVE  MonitorSozinho'
<1>1. execucao'[x] = a
  BY DEF Correndo, MonitorSozinho, MonitorTipos
<1>2. PassoDaExecucao(x)'
  BY <1>1 DEF PassoDaExecucao, NaMao, Status, Abertos, AlertaAberto
<1>3. LinhasBem' /\ AlertaUnico' /\ alerta' \in [Veiculos -> Seq(LinhaAlerta)]
  BY DEF MonitorSozinho, MonitorTipos, LinhasBem, AlertaUnico, Abertos, AlertaAberto
<1> QED
  BY <1>2, <1>3, SozinhaAnda

\* It may stop at any step.
LEMMA PararSozinha ==
  ASSUME MonitorSozinho, NEW x \in Correndo, execucao' = [execucao EXCEPT ![x] = Parada],
         alerta' = alerta, ~reenviado', condicao' = condicao
  PROVE  MonitorSozinho'
<1>1. /\ Parada \in Andamento /\ Parada.passo = "INICIO" /\ Parada.resolver = {}
  BY DEF Parada, Andamento, PassosDaRegra
<1> QED
  BY <1>1, SozinhaLe

\* One row of a vehicle is written: what holds of it and of the others holds.
LEMMA LinhaEscrita ==
  ASSUME MonitorSozinho, NEW v \in Veiculos, NEW i \in DOMAIN alerta[v],
         NEW r \in LinhaAlerta, alerta' = [alerta EXCEPT ![v] = [@ EXCEPT ![i] = r]],
         r.aberto => alerta[v][i].aberto,
         r.tentativas <= MaxTentativas, r.status = "PENDENTE" => r.tentativas = 0
  PROVE  /\ alerta' \in [Veiculos -> Seq(LinhaAlerta)]
         /\ \A w \in Veiculos : DOMAIN alerta'[w] = DOMAIN alerta[w]
         /\ LinhasBem' /\ AlertaUnico'
<1>1. /\ alerta \in [Veiculos -> Seq(LinhaAlerta)] /\ LinhasBem /\ AlertaUnico
  BY DEF MonitorSozinho, MonitorTipos
<1>2. alerta[v] \in Seq(LinhaAlerta)
  BY <1>1
<1>3. [alerta[v] EXCEPT ![i] = r] \in Seq(LinhaAlerta)
  BY <1>2
<1>4. alerta'[v] = [alerta[v] EXCEPT ![i] = r] /\ \A w \in Veiculos \ {v} : alerta'[w] = alerta[w]
  BY <1>1
<1>5. alerta' \in [Veiculos -> Seq(LinhaAlerta)]
  BY <1>1, <1>3, <1>4
<1>6. /\ \A w \in Veiculos : DOMAIN alerta'[w] = DOMAIN alerta[w]
      /\ \A w \in Veiculos : \A j \in DOMAIN alerta[w] :
           alerta'[w][j] = IF w = v /\ j = i THEN r ELSE alerta[w][j]
  BY <1>4
<1>7. LinhasBem'
  BY <1>1, <1>6 DEF LinhasBem
<1>8. AlertaUnico'
  <2>1. \A w \in Veiculos : Abertos(w)' \subseteq Abertos(w)
    BY <1>6 DEF Abertos, AlertaAberto
  <2> QED BY <1>1, <2>1 DEF AlertaUnico
<1> QED
  BY <1>5, <1>6, <1>7, <1>8

(* The steps of an execution that is alone. *)
LEMMA RegraPasso ==
  ASSUME MonitorSozinho, NEW x \in Execucoes, ExecutarRegra(x), UNCHANGED sobrepostas
  PROVE  MonitorSozinho'
<1> DEFINE b == execucao[x]
           v == b.veiculo
           i == b.indice
<1>1. /\ execucao \in [Execucoes -> Andamento] /\ alerta \in [Veiculos -> Seq(LinhaAlerta)]
      /\ b \in Andamento /\ ~reenviado /\ PassoDaExecucao(x)
  BY DEF MonitorSozinho, MonitorTipos
<1>2. b.passo # "INICIO" => x \in Correndo
  BY DEF Correndo
<1>3. b.passo \in {"DESPACHAR", "MARCAR", "DISPENSAR", "FALHAR"} =>
        /\ v \in Veiculos /\ i \in DOMAIN alerta[v] /\ alerta[v][i] \in LinhaAlerta
        /\ alerta[v][i].status # "ENVIADA" /\ alerta[v][i].tentativas < MaxTentativas
  <2> SUFFICES ASSUME b.passo \in {"DESPACHAR", "MARCAR", "DISPENSAR", "FALHAR"}
               PROVE  /\ v \in Veiculos /\ i \in DOMAIN alerta[v] /\ alerta[v][i] \in LinhaAlerta
                      /\ alerta[v][i].status # "ENVIADA"
                      /\ alerta[v][i].tentativas < MaxTentativas
    OBVIOUS
  <2>1. v \in Veiculos /\ i \in DOMAIN alerta[v]
        /\ alerta[v][i].status # "ENVIADA" /\ alerta[v][i].tentativas < MaxTentativas
    BY <1>1 DEF PassoDaExecucao, NaMao, Status
  <2>2. alerta[v] \in Seq(LinhaAlerta)
    BY <1>1, <2>1
  <2> QED BY <2>1, <2>2
<1>r. \A par \in b.resolver :
        /\ par \in Veiculos \X Nat /\ par[1] \in Veiculos /\ par[2] \in DOMAIN alerta[par[1]]
  BY <1>1 DEF PassoDaExecucao, Andamento
\* A step that only moves the execution on, with its row in hand or without.
<1>4. ASSUME NEW p \in {"PROXIMO", "MARCAR", "DISPENSAR", "FALHAR"}, Ir(x, p),
             alerta' = alerta, ~reenviado', condicao' = condicao,
             b.passo \in {"DESPACHAR", "MARCAR", "DISPENSAR", "FALHAR"}
      PROVE  MonitorSozinho'
  <2> DEFINE a == IF p = "PROXIMO" THEN [b EXCEPT !.passo = p, !.veiculo = Nulo, !.indice = 0]
                  ELSE [b EXCEPT !.passo = p]
  <2>1. /\ a \in Andamento /\ a.passo = p /\ a.resolver = b.resolver
        /\ p # "PROXIMO" => a.veiculo = v /\ a.indice = i
    BY <1>1 DEF Andamento, PassosDaRegra
  <2>2. execucao' = [execucao EXCEPT ![x] = a]
    BY <1>4 DEF Ir
  <2> HIDE DEF a
  <2> QED BY <1>2, <1>3, <1>4, <1>r, <2>1, <2>2, SozinhaLe
<1>5. CASE LerCandidatos(x)
  <2> DEFINE a == [b EXCEPT !.passo = "PROXIMO", !.candidatos = condicao, !.restam = condicao]
  <2>1. b.passo = "CANDIDATOS" /\ alerta' = alerta /\ ~reenviado' /\ condicao' = condicao
        /\ execucao' = [execucao EXCEPT ![x] = a]
    BY <1>1, <1>5 DEF LerCandidatos, Passo, Resto
  <2>2. a \in Andamento /\ a.passo = "PROXIMO" /\ a.resolver = b.resolver
    BY <1>1 DEF Andamento, PassosDaRegra, MonitorSozinho, MonitorTipos
  <2> HIDE DEF a
  <2> QED BY <1>2, <1>r, <2>1, <2>2, SozinhaLe
<1>6. ASSUME NEW w \in Veiculos, ProcurarAlerta(x, w) PROVE MonitorSozinho'
  <2> DEFINE n == CHOOSE k \in Abertos(w) : \A o \in Abertos(w) : o <= k
             segue == IF Abertos(w) = {} THEN "REGISTRAR"
                      ELSE IF DeixarAlerta(alerta[w][n]) THEN "PROXIMO" ELSE "DESPACHAR"
             a == [b EXCEPT !.restam = b.restam \ {w}, !.passo = segue,
                            !.veiculo = IF segue = "PROXIMO" THEN Nulo ELSE w,
                            !.indice = IF segue = "DESPACHAR" THEN n ELSE 0]
  <2>1. alerta[w] \in Seq(LinhaAlerta) /\ Abertos(w) \subseteq DOMAIN alerta[w]
    BY <1>1 DEF Abertos
  <2>2. Abertos(w) # {} => n \in Abertos(w)
    <3> SUFFICES ASSUME NEW k \in Abertos(w) PROVE n \in Abertos(w)
      OBVIOUS
    <3>1. \A o \in Abertos(w) : o = k
      BY DEF MonitorSozinho, AlertaUnico
    <3>2. k \in Nat
      BY <2>1
    <3>3. \A o \in Abertos(w) : o <= k
      BY <3>1, <3>2
    <3> QED BY <3>3
  <2>3. Abertos(w) # {} => n \in Nat /\ n \in DOMAIN alerta[w] /\ alerta[w][n] \in LinhaAlerta
    BY <2>1, <2>2
  <2> HIDE DEF n
  <2>4. /\ segue \in {"REGISTRAR", "PROXIMO", "DESPACHAR"}
        /\ segue = "REGISTRAR" => Abertos(w) = {}
        /\ segue = "DESPACHAR" => Abertos(w) # {} /\ ~DeixarAlerta(alerta[w][n])
    OBVIOUS
  <2>5. segue = "DESPACHAR" =>
          /\ alerta[w][n].status # "ENVIADA" /\ alerta[w][n].tentativas < MaxTentativas
    <3> SUFFICES ASSUME segue = "DESPACHAR"
                 PROVE  alerta[w][n].status # "ENVIADA" /\ alerta[w][n].tentativas < MaxTentativas
      OBVIOUS
    <3>1. n \in DOMAIN alerta[w] /\ alerta[w][n] \in LinhaAlerta
          /\ ~DeixarAlerta(alerta[w][n])
      BY <2>3, <2>4
    <3>2. alerta[w][n].status = "PENDENTE" => alerta[w][n].tentativas = 0
      BY <3>1 DEF MonitorSozinho, LinhasBem
    <3> HIDE DEF segue
    <3> QED BY <3>1, <3>2, MonitoramentoAssumption DEF LinhaAlerta, DeixarAlerta
  <2>6. b.passo = "PROXIMO" /\ alerta' = alerta /\ reenviado' = reenviado /\ condicao' = condicao
    BY <1>6 DEF ProcurarAlerta, Passo, Resto
  <2>e. execucao' = [execucao EXCEPT ![x] = a]
    <3>1. execucao' = [execucao EXCEPT ![x].restam = @ \ {w}, ![x].passo = segue,
                         ![x].veiculo = IF segue = "PROXIMO" THEN Nulo ELSE w,
                         ![x].indice = IF segue = "DESPACHAR" THEN n ELSE 0]
      BY <1>6 DEF ProcurarAlerta, n
    <3> HIDE DEF segue
    <3> QED BY <1>1, <3>1
  <2> HIDE DEF segue
  <2>7. a \in Andamento /\ a.passo = segue /\ a.resolver = b.resolver
        /\ (segue # "PROXIMO" => a.veiculo = w) /\ (segue = "DESPACHAR" => a.indice = n)
    BY <1>1, <2>3, <2>4 DEF Andamento, PassosDaRegra
  <2> HIDE DEF a
  <2> QED BY <1>1, <1>2, <1>r, <2>3, <2>4, <2>5, <2>6, <2>e, <2>7, SozinhaLe
<1>7. CASE RegistrarAlerta(x)
  <2> DEFINE nova == [status |-> "PENDENTE", tentativas |-> 0, aberto |-> TRUE]
             m == Len(alerta[v]) + 1
             a == [b EXCEPT !.passo = "DESPACHAR", !.indice = m]
  <2>1. /\ b.passo = "REGISTRAR" /\ alerta' = [alerta EXCEPT ![v] = Append(@, nova)]
        /\ execucao' = [execucao EXCEPT ![x] = a] /\ ~reenviado' /\ condicao' = condicao
    BY <1>1, <1>7 DEF RegistrarAlerta, Passo, Resto
  <2>2. v \in Veiculos /\ Abertos(v) = {}
    BY <1>1, <2>1 DEF PassoDaExecucao
  <2>3. nova \in LinhaAlerta /\ nova.aberto /\ nova.status = "PENDENTE" /\ nova.tentativas = 0
    BY DEF LinhaAlerta
  <2> HIDE DEF nova
  <2>4. /\ alerta[v] \in Seq(LinhaAlerta) /\ m \in Nat /\ DOMAIN alerta[v] = 1..(m - 1)
        /\ Append(alerta[v], nova) \in Seq(LinhaAlerta)
        /\ DOMAIN Append(alerta[v], nova) = 1..m
        /\ \A j \in 1..m : Append(alerta[v], nova)[j] = IF j = m THEN nova ELSE alerta[v][j]
    BY <1>1, <2>2, <2>3
  <2> HIDE DEF m
  <2>5. alerta'[v] = Append(alerta[v], nova) /\ \A w \in Veiculos \ {v} : alerta'[w] = alerta[w]
    BY <1>1, <2>1, <2>2
  <2>6. alerta' \in [Veiculos -> Seq(LinhaAlerta)]
    BY <1>1, <2>1, <2>4, <2>5
  <2>7. \A w \in Veiculos : DOMAIN alerta[w] \subseteq DOMAIN alerta'[w]
    <3>1. DOMAIN alerta[v] \subseteq DOMAIN alerta'[v]
      BY <2>4, <2>5
    <3> QED BY <2>5, <3>1
  <2>8. LinhasBem'
    <3> SUFFICES ASSUME NEW w \in Veiculos, NEW j \in DOMAIN alerta'[w]
                 PROVE  /\ alerta'[w][j].tentativas <= MaxTentativas
                        /\ alerta'[w][j].status = "PENDENTE" => alerta'[w][j].tentativas = 0
      BY DEF LinhasBem
    <3>1. CASE w = v /\ j = m
      <4>1. alerta'[w][j] = nova
        BY <2>4, <2>5, <3>1
      <4> QED BY <2>3, <4>1, MonitoramentoAssumption
    <3>2. CASE ~(w = v /\ j = m)
      <4>1. j \in DOMAIN alerta[w] /\ alerta'[w][j] = alerta[w][j]
        BY <2>4, <2>5, <3>2
      <4> QED BY <4>1 DEF MonitorSozinho, LinhasBem
    <3> QED BY <3>1, <3>2
  <2>9. AlertaUnico'
    <3> SUFFICES ASSUME NEW w \in Veiculos, NEW j \in Abertos(w)', NEW k \in Abertos(w)'
                 PROVE  j = k
      BY DEF AlertaUnico
    <3>1. CASE w = v
      <4>1. \A o \in Abertos(w)' : o = m
        <5> SUFFICES ASSUME NEW o \in Abertos(w)', o # m PROVE FALSE
          OBVIOUS
        <5>1. o \in 1..m /\ alerta'[v][o].aberto
          BY <2>4, <2>5, <3>1 DEF Abertos, AlertaAberto
        <5>2. o \in DOMAIN alerta[v] /\ alerta'[v][o] = alerta[v][o]
          BY <2>4, <2>5, <5>1
        <5> QED BY <2>2, <5>1, <5>2 DEF Abertos, AlertaAberto
      <4> QED BY <4>1
    <3>2. CASE w # v
      BY <2>5, <3>2 DEF MonitorSozinho, AlertaUnico, Abertos, AlertaAberto
    <3> QED BY <3>1, <3>2
  <2>10. a \in Andamento /\ a.passo = "DESPACHAR" /\ a.veiculo = v /\ a.indice = m
         /\ a.resolver = b.resolver
    BY <1>1, <2>4 DEF Andamento, PassosDaRegra
  <2>11. execucao'[x] = a
    BY <1>1, <2>1
  <2>12. alerta'[v][m] = nova /\ m \in DOMAIN alerta'[v]
    BY <2>4, <2>5
  <2> HIDE DEF a
  <2>13. PassoDaExecucao(x)'
    <3>1. NaMao(x)'
      BY <2>2, <2>3, <2>10, <2>11, <2>12, MonitoramentoAssumption DEF NaMao, Status
    <3>2. \A par \in b.resolver : par[2] \in DOMAIN alerta'[par[1]]
      BY <1>r, <2>7
    <3> QED BY <2>10, <2>11, <3>1, <3>2 DEF PassoDaExecucao
  <2> QED BY <1>2, <2>1, <2>6, <2>7, <2>8, <2>9, <2>10, <2>13, SozinhaAnda
<1>8. CASE Despachar(x)
  <2>1. b.passo = "DESPACHAR" /\ alerta' = alerta /\ condicao' = condicao
    BY <1>8 DEF Despachar, Passo, Resto
  <2>2. ~reenviado'
    BY <1>1, <1>3, <1>8, <2>1 DEF Despachar, Status
  <2>3. Ir(x, "DISPENSAR") \/ Ir(x, "PROXIMO") \/ Ir(x, "MARCAR") \/ Ir(x, "FALHAR")
    BY <1>8 DEF Despachar
  <2> QED BY <1>4, <2>1, <2>2, <2>3
\* A step that writes the row in hand and puts it away.
<1>9. ASSUME NEW r \in LinhaAlerta, Ir(x, "PROXIMO"), ~reenviado', condicao' = condicao,
             b.passo \in {"MARCAR", "DISPENSAR", "FALHAR"},
             alerta' = [alerta EXCEPT ![v] = [@ EXCEPT ![i] = r]],
             r.aberto = alerta[v][i].aberto, r.tentativas <= MaxTentativas,
             r.status # "PENDENTE"
      PROVE  MonitorSozinho'
  <2>1. /\ alerta' \in [Veiculos -> Seq(LinhaAlerta)]
        /\ \A w \in Veiculos : DOMAIN alerta'[w] = DOMAIN alerta[w]
        /\ LinhasBem' /\ AlertaUnico'
    <3>1. v \in Veiculos /\ i \in DOMAIN alerta[v]
      BY <1>3, <1>9
    <3> HIDE DEF v, i
    <3> QED BY <1>9, <3>1, LinhaEscrita
  <2> DEFINE a == [b EXCEPT !.passo = "PROXIMO", !.veiculo = Nulo, !.indice = 0]
  <2>2. a \in Andamento /\ a.passo = "PROXIMO" /\ a.resolver = b.resolver
    BY <1>1 DEF Andamento, PassosDaRegra
  <2>3. execucao' = [execucao EXCEPT ![x] = a]
    BY <1>9 DEF Ir
  <2>4. execucao'[x] = a
    BY <1>1, <2>3
  <2> HIDE DEF a
  <2>5. PassoDaExecucao(x)'
    BY <1>r, <2>1, <2>2, <2>4 DEF PassoDaExecucao
  <2> QED BY <1>2, <1>9, <2>1, <2>2, <2>3, <2>5, SozinhaAnda
<1>10. CASE MarcarEnviado(x)
  <2>1. /\ b.passo \in {"MARCAR", "DISPENSAR"} /\ ~reenviado' /\ condicao' = condicao
    BY <1>1, <1>10 DEF MarcarEnviado, Resto
  <2>2. CASE alerta' = [alerta EXCEPT ![v][i].status = "ENVIADA"] /\ Ir(x, "PROXIMO")
    <3> DEFINE r == [alerta[v][i] EXCEPT !.status = "ENVIADA"]
    <3>1. v \in Veiculos /\ alerta[v][i] \in LinhaAlerta /\ alerta[v][i].tentativas < MaxTentativas
      BY <1>3, <2>1
    <3>2. /\ r \in LinhaAlerta /\ r.aberto = alerta[v][i].aberto /\ r.tentativas <= MaxTentativas
          /\ r.status # "PENDENTE"
      BY <3>1, MonitoramentoAssumption DEF LinhaAlerta
    <3>3. alerta' = [alerta EXCEPT ![v] = [@ EXCEPT ![i] = r]]
      BY <2>2
    <3> HIDE DEF r
    <3> QED BY <1>9, <2>1, <2>2, <3>2, <3>3
  <2>3. CASE Ir(x, IF Passo(x, "MARCAR") THEN "FALHAR" ELSE "PROXIMO") /\ UNCHANGED alerta
    BY <1>4, <2>1, <2>3
  <2> QED BY <1>10, <2>2, <2>3 DEF MarcarEnviado
<1>11. CASE MarcarTentativa(x)
  <2>1. /\ b.passo = "FALHAR" /\ ~reenviado' /\ condicao' = condicao /\ Ir(x, "PROXIMO")
    BY <1>1, <1>11 DEF MarcarTentativa, Resto, Passo
  <2>2. CASE alerta' = [alerta EXCEPT ![v][i].status = "FALHA", ![v][i].tentativas = @ + 1]
    <3> DEFINE r == [alerta[v][i] EXCEPT !.status = "FALHA", !.tentativas = alerta[v][i].tentativas + 1]
    <3>1. /\ v \in Veiculos /\ i \in DOMAIN alerta[v] /\ alerta[v][i] \in LinhaAlerta
          /\ alerta[v][i].tentativas < MaxTentativas
      BY <1>3, <2>1
    <3>2. /\ r \in LinhaAlerta /\ r.aberto = alerta[v][i].aberto /\ r.tentativas <= MaxTentativas
          /\ r.status # "PENDENTE"
      <4>1. PICK l \in LinhaAlerta : l = alerta[v][i]
        BY <3>1
      <4>2. l.tentativas \in Nat /\ l.tentativas + 1 <= MaxTentativas /\ l.tentativas + 1 \in Nat
        BY <3>1, <4>1, MonitoramentoAssumption DEF LinhaAlerta
      <4>3. r = [l EXCEPT !.status = "FALHA", !.tentativas = l.tentativas + 1]
        BY <4>1
      <4>4. /\ r \in LinhaAlerta /\ r.aberto = l.aberto /\ r.tentativas = l.tentativas + 1
            /\ r.status = "FALHA"
        <5> HIDE DEF r
        <5> QED BY <4>2, <4>3 DEF LinhaAlerta
      <4> HIDE DEF r
      <4> QED BY <4>1, <4>2, <4>4
    <3>3. alerta' = [alerta EXCEPT ![v] = [@ EXCEPT ![i] = r]]
      BY <1>1, <2>2, <3>1 DEF LinhaAlerta
    <3> HIDE DEF r
    <3> QED BY <1>9, <2>1, <3>2, <3>3
  <2>3. CASE UNCHANGED alerta
    BY <1>4, <2>1, <2>3
  <2> QED BY <1>11, <2>2, <2>3 DEF MarcarTentativa
<1>12. CASE ListarAtivos(x)
  <2> DEFINE abertas == UNION {{w} \X Abertos(w) : w \in Veiculos \ b.candidatos}
             a == [b EXCEPT !.passo = "RESOLVER", !.resolver = abertas]
  <2>1. b.passo = "PROXIMO" /\ alerta' = alerta /\ ~reenviado' /\ condicao' = condicao
        /\ execucao' = [execucao EXCEPT ![x] = a]
    BY <1>1, <1>12 DEF ListarAtivos, Passo, Resto
  <2>2. ASSUME NEW par \in abertas
        PROVE  par \in Veiculos \X Nat /\ par[2] \in DOMAIN alerta[par[1]]
    <3>1. PICK w \in Veiculos : par \in {w} \X Abertos(w)
      OBVIOUS
    <3>2. par = <<w, par[2]>> /\ par[1] = w /\ par[2] \in DOMAIN alerta[w]
      BY <3>1 DEF Abertos
    <3>3. alerta[w] \in Seq(LinhaAlerta)
      BY <1>1
    <3> QED BY <3>2, <3>3
  <2>3. abertas \subseteq Veiculos \X Nat
    BY <2>2
  <2> HIDE DEF abertas
  <2>4. a \in Andamento /\ a.passo = "RESOLVER" /\ a.resolver = abertas
    BY <1>1, <2>3 DEF Andamento, PassosDaRegra
  <2> HIDE DEF a
  <2> QED BY <1>2, <2>1, <2>2, <2>4, SozinhaLe
<1>13. CASE Resolver(x)
  <2>1. b.passo = "RESOLVER" /\ ~reenviado' /\ condicao' = condicao
    BY <1>1, <1>13 DEF Resolver, Passo, Resto
  <2>2. PICK par \in b.resolver :
          /\ alerta' = [alerta EXCEPT ![par[1]][par[2]].aberto = FALSE]
          /\ execucao' = [execucao EXCEPT ![x].resolver = @ \ {par}]
    BY <1>13 DEF Resolver
  <2>3. PICK w \in Veiculos : w = par[1] /\ par[2] \in DOMAIN alerta[w]
    BY <1>r
  <2>p. PICK j \in DOMAIN alerta[w] : j = par[2]
    BY <2>3
  <2> DEFINE r == [alerta[w][j] EXCEPT !.aberto = FALSE]
             a == [b EXCEPT !.resolver = b.resolver \ {par}]
  <2>4. alerta[w][j] \in LinhaAlerta
    BY <1>1
  <2>5. /\ r \in LinhaAlerta /\ ~r.aberto /\ r.tentativas = alerta[w][j].tentativas
        /\ r.status = alerta[w][j].status
    BY <2>4 DEF LinhaAlerta
  <2>6. /\ alerta[w][j].tentativas <= MaxTentativas
        /\ alerta[w][j].status = "PENDENTE" => alerta[w][j].tentativas = 0
    BY DEF MonitorSozinho, LinhasBem
  <2>7. alerta' = [alerta EXCEPT ![w] = [@ EXCEPT ![j] = r]]
    BY <2>2, <2>3, <2>p
  <2> HIDE DEF r
  <2>8. /\ alerta' \in [Veiculos -> Seq(LinhaAlerta)]
        /\ \A u \in Veiculos : DOMAIN alerta'[u] = DOMAIN alerta[u]
        /\ LinhasBem' /\ AlertaUnico'
    BY <2>5, <2>6, <2>7, LinhaEscrita
  <2>9. a \in Andamento /\ a.passo = "RESOLVER" /\ a.resolver \subseteq b.resolver
    BY <1>1, <2>1 DEF Andamento
  <2>10. execucao' = [execucao EXCEPT ![x] = a] /\ execucao'[x] = a
    BY <1>1, <2>2
  <2> HIDE DEF a
  <2>11. PassoDaExecucao(x)'
    BY <1>r, <2>8, <2>9, <2>10 DEF PassoDaExecucao
  <2> QED BY <1>2, <2>1, <2>8, <2>9, <2>10, <2>11, SozinhaAnda
<1>14. CASE Terminar(x)
  <2>1. /\ b.passo = "RESOLVER" /\ ~reenviado' /\ condicao' = condicao /\ alerta' = alerta
        /\ execucao' = [execucao EXCEPT ![x] = Parada]
    BY <1>1, <1>14 DEF Terminar, Passo
  <2> QED BY <1>2, <2>1, PararSozinha
<1> QED
  BY <1>5, <1>6, <1>7, <1>8, <1>10, <1>11, <1>12, <1>13, <1>14 DEF ExecutarRegra

LEMMA MonitorPasso ==
  ASSUME MonitorInv, [NextMonitor]_monitorVars
  PROVE  MonitorInv'
<1>1. CASE UNCHANGED monitorVars
  BY <1>1 DEF monitorVars, MonitorInv, MonitorSozinho, MonitorTipos, LinhasBem, AlertaUnico,
              Abertos, AlertaAberto, Correndo, PassoDaExecucao, NaMao, Status
<1>2. ASSUME NEW v \in Veiculos, CondicaoSurge(v) \/ CondicaoSome(v) PROVE MonitorInv'
  <2>1. /\ UNCHANGED <<alerta, execucao, reenviado, sobrepostas>>
        /\ condicao \subseteq Veiculos => condicao' \subseteq Veiculos
    BY <1>2 DEF CondicaoSurge, CondicaoSome
  <2> QED
    BY <2>1 DEF MonitorInv, MonitorSozinho, MonitorTipos, LinhasBem, AlertaUnico,
                Abertos, AlertaAberto, Correndo, PassoDaExecucao, NaMao, Status
<1>3. ASSUME NEW x \in Execucoes, Iniciar(x) PROVE MonitorInv'
  <2>1. /\ execucao[x].passo = "INICIO" /\ UNCHANGED <<condicao, alerta, reenviado>>
        /\ execucao' = [execucao EXCEPT ![x].passo = "CANDIDATOS"]
        /\ sobrepostas' = (sobrepostas \/ Correndo # {})
    BY <1>3 DEF Iniciar
  <2>2. sobrepostas' \in BOOLEAN
    BY <2>1 DEF MonitorInv
  <2> SUFFICES ASSUME ~sobrepostas, Correndo = {} PROVE MonitorSozinho'
    BY <2>1, <2>2 DEF MonitorInv
  <2>3. MonitorSozinho
    BY DEF MonitorInv
  <2> DEFINE a == [execucao[x] EXCEPT !.passo = "CANDIDATOS"]
  <2>4. /\ a \in Andamento /\ a.passo = "CANDIDATOS" /\ a.resolver = execucao[x].resolver
        /\ execucao' = [execucao EXCEPT ![x] = a]
        /\ execucao'[x] = a /\ \A y \in Execucoes \ {x} : execucao'[y] = execucao[y]
    BY <2>1, <2>3 DEF MonitorSozinho, MonitorTipos, Andamento, PassosDaRegra
  <2> HIDE DEF a
  <2>5. MonitorTipos'
    BY <2>1, <2>3, <2>4 DEF MonitorSozinho, MonitorTipos
  <2>6. \A y, z \in Correndo' : y = z
    BY <2>4 DEF Correndo
  <2>7. LinhasBem' /\ AlertaUnico' /\ ~reenviado'
    BY <2>1, <2>3 DEF MonitorSozinho, LinhasBem, AlertaUnico, Abertos, AlertaAberto
  <2>8. ASSUME NEW y \in Execucoes PROVE PassoDaExecucao(y)'
    <3>1. PassoDaExecucao(y)
      BY <2>3 DEF MonitorSozinho
    <3>2. CASE y = x
      BY <2>1, <2>4, <3>1, <3>2 DEF PassoDaExecucao
    <3>3. CASE y # x
      BY <2>1, <2>4, <3>1, <3>3 DEF PassoDaExecucao, NaMao, Status, Abertos, AlertaAberto
    <3> QED BY <3>2, <3>3
  <2> QED BY <2>5, <2>6, <2>7, <2>8 DEF MonitorSozinho
<1>4. ASSUME NEW x \in Execucoes, ExecutarRegra(x) PROVE MonitorInv'
  <2>1. sobrepostas' = sobrepostas
    BY <1>4 DEF ExecutarRegra, LerCandidatos, ProcurarAlerta, RegistrarAlerta, Despachar,
                MarcarEnviado, MarcarTentativa, ListarAtivos, Resolver, Terminar, Resto
  <2> QED BY <1>4, <2>1, RegraPasso DEF MonitorInv
<1>5. ASSUME NEW x \in Execucoes, Interromper(x) PROVE MonitorInv'
  <2>1. /\ x \in Correndo /\ UNCHANGED <<condicao, alerta, reenviado, sobrepostas>>
        /\ execucao' = [execucao EXCEPT ![x] = Parada]
    BY <1>5 DEF Interromper
  <2> QED BY <2>1, PararSozinha DEF MonitorInv, MonitorSozinho
<1>6. ASSUME NEW x \in Execucoes, PerderTrava(x) PROVE MonitorInv'
  <2>1. UNCHANGED <<condicao, alerta, execucao, reenviado, sobrepostas>>
    BY <1>6 DEF PerderTrava
  <2> QED
    BY <2>1 DEF MonitorInv, MonitorSozinho, MonitorTipos, LinhasBem, AlertaUnico,
                Abertos, AlertaAberto, Correndo, PassoDaExecucao, NaMao, Status
<1> QED
  BY <1>1, <1>2, <1>3, <1>4, <1>5, <1>6 DEF NextMonitor, IniciarTick, IniciarAdmin

(* As long as no two executions have overlapped, a vehicle has at most one   *)
(* open alert, none is sent again once ENVIADA and none fails more often     *)
(* than the limit, for any vehicles, executions and limit and wherever an    *)
(* execution stops (executarRegra).                                          *)
THEOREM AlertaNuncaSeRepete == SpecMonitor => []AlertaSemRepeticao
<1>1. MonitorInv => AlertaSemRepeticao
  BY DEF MonitorInv, MonitorSozinho, LinhasBem, AlertaSemRepeticao
<1> QED
  BY <1>1, MonitorInicio, MonitorPasso, PTL DEF SpecMonitor

-----------------------------------------------------------------------------
(* What holds of the alerts although executions overlap: the row in hand   *)
(* exists, whichever execution wrote it last, and no row is taken back.    *)

\* What the step of an execution says of where its vehicle and its rows are.
LinhaExiste(a, linhas) ==
  /\ a.passo \in {"REGISTRAR", "DESPACHAR", "MARCAR", "DISPENSAR", "FALHAR"} =>
       a.veiculo \in Veiculos
  /\ a.passo \in {"DESPACHAR", "MARCAR", "DISPENSAR", "FALHAR"} =>
       a.indice \in DOMAIN linhas[a.veiculo]
  /\ \A par \in a.resolver : par[2] \in DOMAIN linhas[par[1]]

MonitorBase ==
  /\ MonitorTipos
  /\ trava \in Execucoes \cup {Nulo}
  /\ \A x \in Execucoes :
       execucao[x].restam \subseteq execucao[x].candidatos /\ LinhaExiste(execucao[x], alerta)

\* No row is removed, a closed one is not opened again, no attempt is forgotten.
AlertasFicam ==
  \A v \in Veiculos : \A i \in DOMAIN alerta[v] :
    /\ i \in DOMAIN alerta'[v]
    /\ ~alerta[v][i].aberto => ~alerta'[v][i].aberto
    /\ alerta[v][i].tentativas <= alerta'[v][i].tentativas

\* Some row is the newest.
LEMMA MaiorIndice ==
  ASSUME NEW n \in Nat, NEW S \in SUBSET (1..n), S # {}
  PROVE  \E m \in S : \A o \in S : o <= m
<1> DEFINE Acima(k) == {o \in S : o >= k}
           F == {Acima(k) : k \in S}
<1>1. IsFiniteSet(S)
  <2>1. IsFiniteSet(1..n)
    <3>1. 1 \in Int /\ n \in Int
      OBVIOUS
    <3> QED BY <3>1, FS_Interval
  <2> QED BY <2>1, FS_Subset
<1>2. FiniteSubsetsOf(S) = SUBSET S
  BY <1>1, FS_FiniteSubsetsOfFinite
<1>3. F \subseteq FiniteSubsetsOf(S) /\ F # {}
  <2>1. \A k \in S : Acima(k) \in SUBSET S
    OBVIOUS
  <2>2. PICK k \in S : TRUE
    OBVIOUS
  <2>3. Acima(k) \in F
    BY <2>2
  <2>4. F \subseteq SUBSET S
    BY <2>1
  <2> QED BY <1>2, <2>3, <2>4
<1>4. PICK m \in S : \A k \in S : ~(<<Acima(k), Acima(m)>> \in StrictSubsetOrdering(S))
  <2>1. \E X \in F : \A Y \in F : ~(<<Y, X>> \in StrictSubsetOrdering(S))
    <3>1. IsWellFoundedOn(StrictSubsetOrdering(S), FiniteSubsetsOf(S))
      BY FS_StrictSubsetOrderingWellFounded
    <3> HIDE DEF F
    <3> QED BY <1>3, <3>1, WFMin
  <2> QED BY <2>1
<1>5. \A k \in S : ~(Acima(k) \subseteq Acima(m) /\ Acima(k) # Acima(m))
  BY <1>4 DEF StrictSubsetOrdering
<1>6. \A o \in S : o \in Nat
  OBVIOUS
<1>7. ASSUME NEW o \in S, m < o PROVE FALSE
  <2>1. \A k \in S : k >= o => k >= m
    BY <1>6, <1>7
  <2>2. m >= m /\ ~(m >= o)
    BY <1>6, <1>7
  <2>3. Acima(o) \subseteq Acima(m) /\ m \in Acima(m) /\ m \notin Acima(o)
    BY <2>1, <2>2
  <2> QED BY <1>5, <2>3
<1> QED BY <1>6, <1>7

\* An execution goes on; the rows it or another has in hand do not go away.
LEMMA RegraAnda ==
  ASSUME MonitorBase, NEW x \in Execucoes, NEW a \in Andamento,
         execucao' = [execucao EXCEPT ![x] = a], a.restam \subseteq a.candidatos,
         alerta' \in [Veiculos -> Seq(LinhaAlerta)],
         \A v \in Veiculos : DOMAIN alerta[v] \subseteq DOMAIN alerta'[v],
         LinhaExiste(a, alerta'), condicao' \subseteq Veiculos,
         trava' \in Execucoes \cup {Nulo}
  PROVE  MonitorBase'
<1> USE DEF MonitorBase
<1>1. execucao \in [Execucoes -> Andamento]
  BY DEF MonitorTipos
<1>2. MonitorTipos'
  BY <1>1 DEF MonitorTipos
<1>3. ASSUME NEW y \in Execucoes
      PROVE  execucao'[y].restam \subseteq execucao'[y].candidatos
             /\ LinhaExiste(execucao'[y], alerta')
  <2>1. CASE y = x
    BY <1>1, <2>1
  <2>2. CASE y # x
    <3>1. execucao'[y] = execucao[y] /\ execucao[y] \in Andamento
      BY <1>1, <2>2
    <3>2. \A par \in execucao[y].resolver : par[1] \in Veiculos
      BY <3>1 DEF Andamento
    <3>3. LinhaExiste(execucao[y], alerta)
      OBVIOUS
    <3> QED BY <3>1, <3>2, <3>3 DEF LinhaExiste
  <2> QED BY <2>1, <2>2
<1> QED BY <1>2, <1>3

\* The same without a write to the rows.
LEMMA RegraLe ==
  ASSUME MonitorBase, NEW x \in Execucoes, NEW a \in Andamento,
         execucao' = [execucao EXCEPT ![x] = a], a.restam \subseteq a.candidatos,
         UNCHANGED <<alerta, condicao>>, LinhaExiste(a, alerta),
         trava' \in Execucoes \cup {Nulo}
  PROVE  MonitorBase' /\ AlertasFicam
<1>1. alerta' \in [Veiculos -> Seq(LinhaAlerta)] /\ condicao' \subseteq Veiculos
  BY DEF MonitorBase, MonitorTipos
<1>2. AlertasFicam
  <2>1. ASSUME NEW v \in Veiculos, NEW i \in DOMAIN alerta[v]
        PROVE  alerta[v][i].tentativas \in Nat
    <3>1. alerta[v] \in Seq(LinhaAlerta)
      BY DEF MonitorBase, MonitorTipos
    <3>2. alerta[v][i] \in LinhaAlerta
      BY <3>1
    <3> QED BY <3>2 DEF LinhaAlerta
  <2> QED BY <2>1 DEF AlertasFicam
<1> QED BY <1>1, <1>2, RegraAnda

\* One row of a vehicle is written.
LEMMA LinhaMuda ==
  ASSUME MonitorBase, NEW v \in Veiculos, NEW i \in DOMAIN alerta[v],
         NEW r \in LinhaAlerta, alerta' = [alerta EXCEPT ![v] = [@ EXCEPT ![i] = r]],
         r.aberto => alerta[v][i].aberto, alerta[v][i].tentativas <= r.tentativas
  PROVE  /\ alerta' \in [Veiculos -> Seq(LinhaAlerta)]
         /\ \A w \in Veiculos : DOMAIN alerta'[w] = DOMAIN alerta[w]
         /\ AlertasFicam
<1>1. alerta \in [Veiculos -> Seq(LinhaAlerta)]
  BY DEF MonitorBase, MonitorTipos
<1>2. alerta[v] \in Seq(LinhaAlerta)
  BY <1>1
<1>3. [alerta[v] EXCEPT ![i] = r] \in Seq(LinhaAlerta)
  BY <1>2
<1>4. alerta'[v] = [alerta[v] EXCEPT ![i] = r] /\ \A w \in Veiculos \ {v} : alerta'[w] = alerta[w]
  BY <1>1
<1>5. alerta' \in [Veiculos -> Seq(LinhaAlerta)]
  BY <1>1, <1>3, <1>4
<1>6. /\ \A w \in Veiculos : DOMAIN alerta'[w] = DOMAIN alerta[w]
      /\ \A w \in Veiculos : \A j \in DOMAIN alerta[w] :
           alerta'[w][j] = IF w = v /\ j = i THEN r ELSE alerta[w][j]
  BY <1>4
<1>7. ASSUME NEW w \in Veiculos, NEW j \in DOMAIN alerta[w]
      PROVE  alerta[w][j].tentativas \in Nat
  <2>1. alerta[w] \in Seq(LinhaAlerta)
    BY <1>1
  <2>2. alerta[w][j] \in LinhaAlerta
    BY <2>1
  <2> QED BY <2>2 DEF LinhaAlerta
<1>8. AlertasFicam
  BY <1>6, <1>7 DEF AlertasFicam
<1> QED BY <1>5, <1>6, <1>8

LEMMA BaseInicio == InitMonitor => MonitorBase
<1> SUFFICES ASSUME InitMonitor PROVE MonitorBase
  OBVIOUS
<1>1. MonitorTipos
  BY MonitorInicio DEF MonitorInv, MonitorSozinho, InitMonitor
<1>2. \A x \in Execucoes : LinhaExiste(execucao[x], alerta)
  BY DEF InitMonitor, Parada, LinhaExiste
<1>3. \A x \in Execucoes : execucao[x].restam \subseteq execucao[x].candidatos
  BY DEF InitMonitor, Parada
<1> QED BY <1>1, <1>2, <1>3 DEF MonitorBase, InitMonitor

\* What is in hand when an execution is stopped or starts: nothing.
LEMMA ParadaBem ==
  ASSUME NEW linhas
  PROVE  /\ Parada \in Andamento /\ LinhaExiste(Parada, linhas)
         /\ Parada.restam \subseteq Parada.candidatos
  BY DEF Parada, Andamento, PassosDaRegra, LinhaExiste

\* A step of the rule keeps the types, whatever other executions do.
LEMMA RegraTipada ==
  ASSUME MonitorBase, NEW x \in Execucoes, ExecutarRegra(x)
  PROVE  MonitorBase' /\ AlertasFicam
<1> DEFINE b == execucao[x]
           v == b.veiculo
           i == b.indice
<1>1. /\ execucao \in [Execucoes -> Andamento] /\ alerta \in [Veiculos -> Seq(LinhaAlerta)]
      /\ b \in Andamento /\ LinhaExiste(b, alerta) /\ b.restam \subseteq b.candidatos
      /\ condicao \subseteq Veiculos /\ trava \in Execucoes \cup {Nulo}
  BY DEF MonitorBase, MonitorTipos
<1>2. b.passo \in {"DESPACHAR", "MARCAR", "DISPENSAR", "FALHAR"} =>
        v \in Veiculos /\ i \in DOMAIN alerta[v] /\ alerta[v][i] \in LinhaAlerta
  <2> SUFFICES ASSUME b.passo \in {"DESPACHAR", "MARCAR", "DISPENSAR", "FALHAR"}
               PROVE  v \in Veiculos /\ i \in DOMAIN alerta[v] /\ alerta[v][i] \in LinhaAlerta
    OBVIOUS
  <2>1. v \in Veiculos /\ i \in DOMAIN alerta[v]
    BY <1>1 DEF LinhaExiste
  <2>2. alerta[v] \in Seq(LinhaAlerta)
    BY <1>1, <2>1
  <2> QED BY <2>1, <2>2
<1>r. \A par \in b.resolver : par[1] \in Veiculos /\ par[2] \in DOMAIN alerta[par[1]]
  BY <1>1 DEF LinhaExiste, Andamento
\* A step that only moves the execution on.
<1>3. ASSUME NEW p \in {"PROXIMO", "MARCAR", "DISPENSAR", "FALHAR"}, Ir(x, p),
             UNCHANGED <<alerta, Resto>>,
             b.passo \in {"DESPACHAR", "MARCAR", "DISPENSAR", "FALHAR"}
      PROVE  MonitorBase' /\ AlertasFicam
  <2> DEFINE a == IF p = "PROXIMO" THEN [b EXCEPT !.passo = p, !.veiculo = Nulo, !.indice = 0]
                  ELSE [b EXCEPT !.passo = p]
  <2>1. /\ a \in Andamento /\ a.passo = p /\ a.resolver = b.resolver
        /\ a.restam = b.restam /\ a.candidatos = b.candidatos
        /\ p # "PROXIMO" => a.veiculo = v /\ a.indice = i
    BY <1>1 DEF Andamento, PassosDaRegra
  <2>2. execucao' = [execucao EXCEPT ![x] = a]
    BY <1>3 DEF Ir
  <2> HIDE DEF a
  <2>3. LinhaExiste(a, alerta)
    BY <1>2, <1>3, <1>r, <2>1 DEF LinhaExiste
  <2>4. UNCHANGED <<alerta, condicao>> /\ trava' = trava
    BY <1>3 DEF Resto
  <2> QED BY <1>1, <2>1, <2>2, <2>3, <2>4, RegraLe
\* A step that writes the row in hand and puts it away.
<1>4. ASSUME NEW r \in LinhaAlerta, Ir(x, "PROXIMO"), UNCHANGED Resto,
             b.passo \in {"MARCAR", "DISPENSAR", "FALHAR"},
             alerta' = [alerta EXCEPT ![v] = [@ EXCEPT ![i] = r]],
             r.aberto = alerta[v][i].aberto, alerta[v][i].tentativas <= r.tentativas
      PROVE  MonitorBase' /\ AlertasFicam
  <2>1. /\ alerta' \in [Veiculos -> Seq(LinhaAlerta)]
        /\ \A w \in Veiculos : DOMAIN alerta'[w] = DOMAIN alerta[w]
        /\ AlertasFicam
    <3>1. v \in Veiculos /\ i \in DOMAIN alerta[v]
      BY <1>2, <1>4
    <3> HIDE DEF v, i
    <3> QED BY <1>4, <3>1, LinhaMuda
  <2> DEFINE a == [b EXCEPT !.passo = "PROXIMO", !.veiculo = Nulo, !.indice = 0]
  <2>2. /\ a \in Andamento /\ a.passo = "PROXIMO" /\ a.resolver = b.resolver
        /\ a.restam = b.restam /\ a.candidatos = b.candidatos
    BY <1>1 DEF Andamento, PassosDaRegra
  <2>3. execucao' = [execucao EXCEPT ![x] = a]
    BY <1>4 DEF Ir
  <2> HIDE DEF a
  <2>4. LinhaExiste(a, alerta')
    BY <1>r, <2>1, <2>2 DEF LinhaExiste
  <2>5. condicao' \subseteq Veiculos /\ trava' \in Execucoes \cup {Nulo}
    BY <1>1, <1>4 DEF Resto
  <2> QED BY <1>1, <2>1, <2>2, <2>3, <2>4, <2>5, RegraAnda
<1>5. CASE LerCandidatos(x)
  <2> DEFINE a == [b EXCEPT !.passo = "PROXIMO", !.candidatos = condicao, !.restam = condicao]
  <2>1. UNCHANGED <<alerta, condicao>> /\ trava' = trava /\ execucao' = [execucao EXCEPT ![x] = a]
    BY <1>5 DEF LerCandidatos, Resto
  <2>2. /\ a \in Andamento /\ a.passo = "PROXIMO" /\ a.resolver = b.resolver
        /\ a.restam = condicao /\ a.candidatos = condicao
    BY <1>1 DEF Andamento, PassosDaRegra
  <2> HIDE DEF a
  <2>3. LinhaExiste(a, alerta)
    BY <1>r, <2>2 DEF LinhaExiste
  <2> QED BY <1>1, <2>1, <2>2, <2>3, RegraLe
<1>6. ASSUME NEW w \in Veiculos, ProcurarAlerta(x, w) PROVE MonitorBase' /\ AlertasFicam
  <2> DEFINE n == CHOOSE k \in Abertos(w) : \A o \in Abertos(w) : o <= k
             segue == IF Abertos(w) = {} THEN "REGISTRAR"
                      ELSE IF DeixarAlerta(alerta[w][n]) THEN "PROXIMO" ELSE "DESPACHAR"
             a == [b EXCEPT !.restam = b.restam \ {w}, !.passo = segue,
                            !.veiculo = IF segue = "PROXIMO" THEN Nulo ELSE w,
                            !.indice = IF segue = "DESPACHAR" THEN n ELSE 0]
  <2>1. alerta[w] \in Seq(LinhaAlerta) /\ Abertos(w) \subseteq DOMAIN alerta[w]
    BY <1>1 DEF Abertos
  <2>2. Abertos(w) # {} => n \in Abertos(w)
    <3> SUFFICES ASSUME Abertos(w) # {} PROVE n \in Abertos(w)
      OBVIOUS
    <3>1. Len(alerta[w]) \in Nat /\ Abertos(w) \subseteq 1..Len(alerta[w])
      BY <2>1
    <3>2. \E k \in Abertos(w) : \A o \in Abertos(w) : o <= k
      BY <3>1, MaiorIndice
    <3> QED BY <3>2
  <2>3. Abertos(w) # {} => n \in Nat /\ n \in DOMAIN alerta[w]
    BY <2>1, <2>2
  <2> HIDE DEF n
  <2>4. /\ segue \in {"REGISTRAR", "PROXIMO", "DESPACHAR"}
        /\ segue = "DESPACHAR" => Abertos(w) # {}
    OBVIOUS
  <2>5. UNCHANGED <<alerta, condicao>> /\ trava' = trava
    BY <1>6 DEF ProcurarAlerta, Resto
  <2>6. execucao' = [execucao EXCEPT ![x] = a]
    <3>1. execucao' = [execucao EXCEPT ![x].restam = @ \ {w}, ![x].passo = segue,
                         ![x].veiculo = IF segue = "PROXIMO" THEN Nulo ELSE w,
                         ![x].indice = IF segue = "DESPACHAR" THEN n ELSE 0]
      BY <1>6 DEF ProcurarAlerta, n
    <3> HIDE DEF segue
    <3> QED BY <1>1, <3>1
  <2> HIDE DEF segue
  <2>7. a \in Andamento /\ a.passo = segue /\ a.resolver = b.resolver
        /\ a.restam = b.restam \ {w} /\ a.candidatos = b.candidatos
        /\ (segue # "PROXIMO" => a.veiculo = w) /\ (segue = "DESPACHAR" => a.indice = n)
    BY <1>1, <2>3, <2>4 DEF Andamento, PassosDaRegra
  <2> HIDE DEF a
  <2>8. LinhaExiste(a, alerta)
    BY <1>r, <2>3, <2>4, <2>7 DEF LinhaExiste
  <2> QED BY <1>1, <2>5, <2>6, <2>7, <2>8, RegraLe
<1>7. CASE RegistrarAlerta(x)
  <2> DEFINE nova == [status |-> "PENDENTE", tentativas |-> 0, aberto |-> TRUE]
             m == Len(alerta[v]) + 1
             a == [b EXCEPT !.passo = "DESPACHAR", !.indice = m]
  <2>1. /\ b.passo = "REGISTRAR" /\ alerta' = [alerta EXCEPT ![v] = Append(@, nova)]
        /\ execucao' = [execucao EXCEPT ![x] = a] /\ condicao' = condicao /\ trava' = trava
    BY <1>7 DEF RegistrarAlerta, Passo, Resto
  <2>2. v \in Veiculos
    BY <1>1, <2>1 DEF LinhaExiste
  <2>3. nova \in LinhaAlerta
    BY DEF LinhaAlerta
  <2> HIDE DEF nova
  <2>4. /\ alerta[v] \in Seq(LinhaAlerta) /\ m \in Nat /\ DOMAIN alerta[v] = 1..(m - 1)
        /\ Append(alerta[v], nova) \in Seq(LinhaAlerta)
        /\ DOMAIN Append(alerta[v], nova) = 1..m
        /\ \A j \in 1..(m - 1) : Append(alerta[v], nova)[j] = alerta[v][j]
    BY <1>1, <2>2, <2>3
  <2>p. m \in 1..m
    BY <1>1, <2>2
  <2> HIDE DEF m
  <2>5. alerta'[v] = Append(alerta[v], nova) /\ \A w \in Veiculos \ {v} : alerta'[w] = alerta[w]
    BY <1>1, <2>1, <2>2
  <2>6. alerta' \in [Veiculos -> Seq(LinhaAlerta)]
    BY <1>1, <2>1, <2>4, <2>5
  <2>7. \A w \in Veiculos : \A j \in DOMAIN alerta[w] :
          j \in DOMAIN alerta'[w] /\ alerta'[w][j] = alerta[w][j]
    <3>1. \A j \in DOMAIN alerta[v] : j \in DOMAIN alerta'[v] /\ alerta'[v][j] = alerta[v][j]
      BY <2>4, <2>5
    <3> QED BY <2>5, <3>1
  <2>8. AlertasFicam
    <3> SUFFICES ASSUME NEW w \in Veiculos, NEW j \in DOMAIN alerta[w]
                 PROVE  alerta[w][j].tentativas <= alerta'[w][j].tentativas
      BY <2>7 DEF AlertasFicam
    <3>1. alerta[w] \in Seq(LinhaAlerta)
      BY <1>1
    <3>2. alerta[w][j] \in LinhaAlerta
      BY <3>1
    <3> QED BY <2>7, <3>2 DEF LinhaAlerta
  <2>9. a \in Andamento /\ a.passo = "DESPACHAR" /\ a.veiculo = v /\ a.indice = m
        /\ a.resolver = b.resolver /\ a.restam = b.restam /\ a.candidatos = b.candidatos
    BY <1>1, <2>4 DEF Andamento, PassosDaRegra
  <2> HIDE DEF a
  <2>10. LinhaExiste(a, alerta')
    <3>1. m \in DOMAIN alerta'[v]
      BY <2>4, <2>5, <2>p
    <3>2. \A par \in b.resolver : par[2] \in DOMAIN alerta'[par[1]]
      BY <1>r, <2>7
    <3> HIDE DEF v
    <3> QED BY <2>2, <2>9, <3>1, <3>2 DEF LinhaExiste
  <2>11. \A w \in Veiculos : DOMAIN alerta[w] \subseteq DOMAIN alerta'[w]
    BY <2>7
  <2> QED BY <1>1, <2>1, <2>6, <2>8, <2>9, <2>10, <2>11, RegraAnda
<1>8. CASE Despachar(x)
  <2>1. b.passo = "DESPACHAR" /\ UNCHANGED <<alerta, Resto>>
    BY <1>8 DEF Despachar, Passo
  <2>2. Ir(x, "DISPENSAR") \/ Ir(x, "PROXIMO") \/ Ir(x, "MARCAR") \/ Ir(x, "FALHAR")
    BY <1>8 DEF Despachar
  <2> QED BY <1>3, <2>1, <2>2
<1>9. CASE MarcarEnviado(x)
  <2>1. b.passo \in {"MARCAR", "DISPENSAR"} /\ UNCHANGED Resto
    BY <1>9 DEF MarcarEnviado
  <2>2. CASE alerta' = [alerta EXCEPT ![v][i].status = "ENVIADA"] /\ Ir(x, "PROXIMO")
    <3> DEFINE r == [alerta[v][i] EXCEPT !.status = "ENVIADA"]
    <3>1. alerta[v][i] \in LinhaAlerta
      BY <1>2, <2>1
    <3>2. /\ r \in LinhaAlerta /\ r.aberto = alerta[v][i].aberto
          /\ alerta[v][i].tentativas <= r.tentativas
      BY <3>1 DEF LinhaAlerta
    <3>3. alerta' = [alerta EXCEPT ![v] = [@ EXCEPT ![i] = r]]
      BY <2>2
    <3> HIDE DEF r
    <3> QED BY <1>4, <2>1, <2>2, <3>2, <3>3
  <2>3. CASE Ir(x, IF Passo(x, "MARCAR") THEN "FALHAR" ELSE "PROXIMO") /\ UNCHANGED alerta
    BY <1>3, <2>1, <2>3
  <2> QED BY <1>9, <2>2, <2>3 DEF MarcarEnviado
<1>10. CASE MarcarTentativa(x)
  <2>1. b.passo = "FALHAR" /\ UNCHANGED Resto /\ Ir(x, "PROXIMO")
    BY <1>10 DEF MarcarTentativa, Passo
  <2>2. CASE alerta' = [alerta EXCEPT ![v][i].status = "FALHA", ![v][i].tentativas = @ + 1]
    <3>1. PICK l \in LinhaAlerta : l = alerta[v][i]
      BY <1>2, <2>1
    <3>2. l.tentativas \in Nat /\ l.tentativas + 1 \in Nat /\ l.tentativas <= l.tentativas + 1
      BY DEF LinhaAlerta
    <3> DEFINE r == [l EXCEPT !.status = "FALHA", !.tentativas = l.tentativas + 1]
    <3>3. r \in LinhaAlerta /\ r.aberto = l.aberto /\ r.tentativas = l.tentativas + 1
      BY <3>2 DEF LinhaAlerta
    <3>4. alerta' = [alerta EXCEPT ![v] = [@ EXCEPT ![i] = r]]
      BY <1>1, <1>2, <2>1, <2>2, <3>1 DEF LinhaAlerta
    <3> HIDE DEF r
    <3> QED BY <1>4, <2>1, <3>1, <3>2, <3>3, <3>4
  <2>3. CASE UNCHANGED alerta
    BY <1>3, <2>1, <2>3
  <2> QED BY <1>10, <2>2, <2>3 DEF MarcarTentativa
<1>11. CASE ListarAtivos(x)
  <2> DEFINE abertas == UNION {{w} \X Abertos(w) : w \in Veiculos \ b.candidatos}
             a == [b EXCEPT !.passo = "RESOLVER", !.resolver = abertas]
  <2>1. UNCHANGED <<alerta, condicao>> /\ trava' = trava /\ execucao' = [execucao EXCEPT ![x] = a]
    BY <1>11 DEF ListarAtivos, Resto
  <2>2. ASSUME NEW par \in abertas
        PROVE  par \in Veiculos \X Nat /\ par[2] \in DOMAIN alerta[par[1]]
    <3>1. PICK w \in Veiculos : par \in {w} \X Abertos(w)
      OBVIOUS
    <3>2. par = <<w, par[2]>> /\ par[1] = w /\ par[2] \in DOMAIN alerta[w]
      BY <3>1 DEF Abertos
    <3>3. alerta[w] \in Seq(LinhaAlerta)
      BY <1>1
    <3> QED BY <3>2, <3>3
  <2>3. abertas \subseteq Veiculos \X Nat
    BY <2>2
  <2> HIDE DEF abertas
  <2>4. /\ a \in Andamento /\ a.passo = "RESOLVER" /\ a.resolver = abertas
        /\ a.restam = b.restam /\ a.candidatos = b.candidatos
    BY <1>1, <2>3 DEF Andamento, PassosDaRegra
  <2> HIDE DEF a
  <2>5. LinhaExiste(a, alerta)
    BY <2>2, <2>4 DEF LinhaExiste
  <2> QED BY <1>1, <2>1, <2>4, <2>5, RegraLe
<1>12. CASE Resolver(x)
  <2>1. b.passo = "RESOLVER" /\ condicao' = condicao /\ trava' = trava
    BY <1>12 DEF Resolver, Passo, Resto
  <2>2. PICK par \in b.resolver :
          /\ alerta' = [alerta EXCEPT ![par[1]][par[2]].aberto = FALSE]
          /\ execucao' = [execucao EXCEPT ![x].resolver = @ \ {par}]
    BY <1>12 DEF Resolver
  <2>3. PICK w \in Veiculos : w = par[1] /\ par[2] \in DOMAIN alerta[w]
    BY <1>r
  <2>p. PICK j \in DOMAIN alerta[w] : j = par[2]
    BY <2>3
  <2> DEFINE r == [alerta[w][j] EXCEPT !.aberto = FALSE]
             a == [b EXCEPT !.resolver = b.resolver \ {par}]
  <2>4. alerta[w][j] \in LinhaAlerta
    BY <1>1
  <2>5. r \in LinhaAlerta /\ ~r.aberto /\ alerta[w][j].tentativas <= r.tentativas
    <3>1. PICK l \in LinhaAlerta : l = alerta[w][j]
      BY <2>4
    <3>2. r = [l EXCEPT !.aberto = FALSE] /\ l.tentativas \in Nat
      BY <3>1 DEF LinhaAlerta
    <3> HIDE DEF r
    <3>3. r \in LinhaAlerta /\ ~r.aberto /\ r.tentativas = l.tentativas
      BY <3>2 DEF LinhaAlerta
    <3> QED BY <3>1, <3>2, <3>3
  <2>6. alerta' = [alerta EXCEPT ![w] = [@ EXCEPT ![j] = r]]
    BY <2>2, <2>3, <2>p
  <2> HIDE DEF r
  <2>7. /\ alerta' \in [Veiculos -> Seq(LinhaAlerta)]
        /\ \A u \in Veiculos : DOMAIN alerta'[u] = DOMAIN alerta[u]
        /\ AlertasFicam
    BY <2>5, <2>6, LinhaMuda
  <2>8. /\ a \in Andamento /\ a.passo = "RESOLVER" /\ a.resolver \subseteq b.resolver
        /\ a.restam = b.restam /\ a.candidatos = b.candidatos
    BY <1>1, <2>1 DEF Andamento
  <2>9. execucao' = [execucao EXCEPT ![x] = a]
    BY <1>1, <2>2
  <2> HIDE DEF a
  <2>10. LinhaExiste(a, alerta')
    BY <1>r, <2>7, <2>8 DEF LinhaExiste
  <2> QED BY <1>1, <2>1, <2>7, <2>8, <2>9, <2>10, RegraAnda
<1>13. CASE Terminar(x)
  <2>1. /\ UNCHANGED <<alerta, condicao>> /\ execucao' = [execucao EXCEPT ![x] = Parada]
        /\ trava' \in Execucoes \cup {Nulo}
    BY <1>1, <1>13 DEF Terminar, Largar
  <2> QED BY <2>1, ParadaBem, RegraLe
<1> QED
  BY <1>5, <1>6, <1>7, <1>8, <1>9, <1>10, <1>11, <1>12, <1>13 DEF ExecutarRegra

LEMMA BasePasso ==
  ASSUME MonitorBase, [NextMonitor]_monitorVars
  PROVE  MonitorBase' /\ [AlertasFicam]_monitorVars
<1>1. CASE UNCHANGED monitorVars
  BY <1>1 DEF monitorVars, MonitorBase, MonitorTipos
<1>2. ASSUME UNCHANGED alerta PROVE AlertasFicam
  <2>1. ASSUME NEW v \in Veiculos, NEW i \in DOMAIN alerta[v] PROVE alerta[v][i].tentativas \in Nat
    <3>1. alerta[v] \in Seq(LinhaAlerta)
      BY DEF MonitorBase, MonitorTipos
    <3>2. alerta[v][i] \in LinhaAlerta
      BY <3>1
    <3> QED BY <3>2 DEF LinhaAlerta
  <2> QED BY <1>2, <2>1 DEF AlertasFicam
<1>3. ASSUME NEW v \in Veiculos, CondicaoSurge(v) \/ CondicaoSome(v)
      PROVE  MonitorBase' /\ AlertasFicam
  BY <1>2, <1>3 DEF CondicaoSurge, CondicaoSome, MonitorBase, MonitorTipos
<1>4. ASSUME NEW x \in Execucoes, Iniciar(x), trava' \in Execucoes \cup {Nulo}
      PROVE  MonitorBase' /\ AlertasFicam
  <2> DEFINE a == [execucao[x] EXCEPT !.passo = "CANDIDATOS"]
  <2>1. execucao[x] \in Andamento /\ LinhaExiste(execucao[x], alerta)
        /\ execucao[x].restam \subseteq execucao[x].candidatos
    BY DEF MonitorBase, MonitorTipos
  <2>2. /\ a \in Andamento /\ a.passo = "CANDIDATOS" /\ a.resolver = execucao[x].resolver
        /\ a.restam \subseteq a.candidatos
    BY <2>1 DEF Andamento, PassosDaRegra
  <2>3. execucao' = [execucao EXCEPT ![x] = a] /\ UNCHANGED <<alerta, condicao>>
    BY <1>4 DEF Iniciar
  <2> HIDE DEF a
  <2>4. LinhaExiste(a, alerta)
    BY <2>1, <2>2 DEF LinhaExiste
  <2> QED BY <1>4, <2>2, <2>3, <2>4, RegraLe
<1>5. ASSUME NEW x \in Execucoes, IniciarTick(x) \/ IniciarAdmin(x)
      PROVE  MonitorBase' /\ AlertasFicam
  <2>1. Iniciar(x) /\ trava' \in Execucoes \cup {Nulo}
    BY <1>5 DEF IniciarTick, IniciarAdmin, MonitorBase
  <2> QED BY <1>4, <2>1
<1>6. ASSUME NEW x \in Execucoes, Interromper(x) PROVE MonitorBase' /\ AlertasFicam
  <2>1. /\ UNCHANGED <<alerta, condicao>> /\ execucao' = [execucao EXCEPT ![x] = Parada]
        /\ trava' \in Execucoes \cup {Nulo}
    BY <1>6 DEF Interromper, Largar, MonitorBase
  <2> QED BY <2>1, ParadaBem, RegraLe
<1>7. ASSUME NEW x \in Execucoes, PerderTrava(x) PROVE MonitorBase' /\ AlertasFicam
  BY <1>2, <1>7 DEF PerderTrava, MonitorBase, MonitorTipos
<1> QED
  BY <1>1, <1>3, <1>5, <1>6, <1>7, RegraTipada DEF NextMonitor

\* The types are part of what holds however executions overlap.
LEMMA BaseTipada == ASSUME MonitorBase PROVE MonitorTypeOK
<1>1. ASSUME NEW v \in Veiculos, NEW i \in DOMAIN alerta[v] PROVE alerta[v][i] \in LinhaAlerta
  <2>1. alerta[v] \in Seq(LinhaAlerta)
    BY DEF MonitorBase, MonitorTipos
  <2> QED BY <2>1
<1>2. ASSUME NEW x \in Execucoes
      PROVE  /\ execucao[x].passo \in PassosDaRegra
             /\ execucao[x].candidatos \subseteq Veiculos
             /\ execucao[x].restam \subseteq execucao[x].candidatos
  <2>1. execucao[x] \in Andamento
    BY DEF MonitorBase, MonitorTipos
  <2> QED BY <2>1 DEF Andamento, MonitorBase
<1> QED BY <1>1, <1>2 DEF MonitorBase, MonitorTipos, MonitorTypeOK, LinhaAlerta, PassosDaRegra

(* The alerts and executions have their types however executions overlap:   *)
(* no execution writes a row that does not exist (executarRegra).           *)
THEOREM MonitorTipado == SpecMonitor => []MonitorTypeOK
<1>1. MonitorBase => MonitorTypeOK
  BY BaseTipada
<1> QED BY <1>1, BaseInicio, BasePasso, PTL DEF SpecMonitor

(* However executions overlap, stop or fail, no alert is removed, none that  *)
(* is resolved is active again and no attempt is forgotten: the writes of    *)
(* late executions only add (marcarEnviado, marcarTentativa, resolver).      *)
THEOREM AlertasNaoVoltam == SpecMonitor => [][AlertasFicam]_monitorVars
<1> QED BY BaseInicio, BasePasso, PTL DEF SpecMonitor

==============================================================================
