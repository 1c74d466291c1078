-------------------------- MODULE Servicos_proofs --------------------------
(***************************************************************************)
(* The services around the reservation together (MCServicos): their        *)
(* composition takes no step that a component does not, so that what is    *)
(* proved of each component holds of the composition.  No focus is assumed *)
(* beyond the definition of the next-state relation.                       *)
(***************************************************************************)
EXTENDS MCServicos, Reserva_proofs, Avisos_proofs, VeiculoImagem_proofs, Conta_proofs,
        TLAPS

\* Every component begins in one of its own initial states.
LEMMA ServicosInicio ==
  ASSUME MCInit
  PROVE  /\ InitCobranca /\ InitBloqueio /\ InitInteresse /\ InitNotificacao
         /\ InitMonitor /\ InitImagem /\ InitConta /\ InitCondutores
         /\ InitCompartilhamento /\ InitPrecificacao /\ InitAcesso
BY DEF MCInit

\* A step of the composition is one of the component in focus and moves no other.
LEMMA ServicosPasso ==
  ASSUME [MCNext]_servicosVars
  PROVE  /\ [NextCobranca]_cobrancaVars
         /\ UNCHANGED bloqueioVars \/ NextBloqueio
         /\ [NextInteresse]_interesseVars
         /\ [NextNotificacao]_notificacaoVars
         /\ [NextMonitor]_monitorVars
         /\ [NextImagem]_imagemVars
         /\ [NextConta]_contaVars
         /\ [NextCondutores]_condutoresVars
         /\ [NextCompartilhamento]_compartilhamentoVars
         /\ [NextPrecificacao]_precoVars
         /\ [NextAcesso]_acessoVars
<1>1. CASE UNCHANGED servicosVars
  BY <1>1 DEF servicosVars
<1>2. CASE MCNext
  <2>1. Quietos
    BY <1>2 DEF MCNext
  <2>2. [NextCobranca]_cobrancaVars
    BY <1>2, <2>1, BloqueioMoveCobranca DEF MCNext, Quietos
  <2>3. UNCHANGED bloqueioVars \/ NextBloqueio
    BY <1>2, <2>1 DEF MCNext, Quietos
  <2>4. [NextInteresse]_interesseVars
    BY <1>2, <2>1 DEF MCNext, Quietos
  <2>5. [NextNotificacao]_notificacaoVars
    BY <1>2, <2>1 DEF MCNext, Quietos
  <2>6. [NextMonitor]_monitorVars
    BY <1>2, <2>1 DEF MCNext, Quietos
  <2>7. [NextImagem]_imagemVars
    BY <1>2, <2>1 DEF MCNext, Quietos
  <2>8. [NextConta]_contaVars
    BY <1>2, <2>1 DEF MCNext, Quietos, NextConta
  <2>9. [NextCondutores]_condutoresVars
    BY <1>2, <2>1 DEF MCNext, Quietos
  <2>10. [NextCompartilhamento]_compartilhamentoVars
    BY <1>2, <2>1 DEF MCNext, Quietos
  <2>11. [NextPrecificacao]_precoVars
    BY <1>2, <2>1 DEF MCNext, Quietos
  <2>12. [NextAcesso]_acessoVars
    BY <1>2, <2>1 DEF MCNext, Quietos
  <2> QED
    BY <2>2, <2>3, <2>4, <2>5, <2>6, <2>7, <2>8, <2>9, <2>10, <2>11, <2>12
<1> QED
  BY <1>1, <1>2

(* The composition behaves, for each component, as the component alone: the *)
(* theorems about a component are theorems about the composed services.  Of *)
(* the monitoring it keeps the safety part, its fairness being that of      *)
(* MCFair; of the blocks, see ServicosSemImpedimento.                       *)
THEOREM ServicosSaoComponentes ==
  MCSpec => /\ SpecCobranca /\ SpecInteresse /\ SpecNotificacao /\ SpecImagem
            /\ SpecConta /\ SpecCondutores /\ SpecCompartilhamento
            /\ SpecPrecificacao /\ SpecAcesso
            /\ InitMonitor /\ [][NextMonitor]_monitorVars
<1>1. MCSpec => SpecCobranca
  BY ServicosInicio, ServicosPasso, PTL DEF MCSpec, SpecCobranca
<1>2. MCSpec => SpecInteresse
  BY ServicosInicio, ServicosPasso, PTL DEF MCSpec, SpecInteresse
<1>3. MCSpec => SpecNotificacao
  BY ServicosInicio, ServicosPasso, PTL DEF MCSpec, SpecNotificacao
<1>4. MCSpec => SpecImagem
  BY ServicosInicio, ServicosPasso, PTL DEF MCSpec, SpecImagem
<1>5. MCSpec => SpecConta
  BY ServicosInicio, ServicosPasso, PTL DEF MCSpec, SpecConta
<1>6. MCSpec => SpecCondutores
  BY ServicosInicio, ServicosPasso, PTL DEF MCSpec, SpecCondutores
<1>7. MCSpec => SpecCompartilhamento
  BY ServicosInicio, ServicosPasso, PTL DEF MCSpec, SpecCompartilhamento
<1>8. MCSpec => SpecPrecificacao
  BY ServicosInicio, ServicosPasso, PTL DEF MCSpec, SpecPrecificacao
<1>9. MCSpec => SpecAcesso
  BY ServicosInicio, ServicosPasso, PTL DEF MCSpec, SpecAcesso
<1>10. MCSpec => InitMonitor /\ [][NextMonitor]_monitorVars
  BY ServicosInicio, ServicosPasso, PTL DEF MCSpec
<1> QED
  BY <1>1, <1>2, <1>3, <1>4, <1>5, <1>6, <1>7, <1>8, <1>9, <1>10

\* In the focus on charges alone no renter is checked, and no block made.
BloqueioEmFoco ==
  /\ CobrancaTypeOK
  /\ IF foco = "bloqueio" THEN BloqueioInv ELSE InitBloqueio

LEMMA BloqueioSegue ==
  ASSUME BloqueioEmFoco, [MCNext]_servicosVars
  PROVE  BloqueioEmFoco'
<1>1. CobrancaTypeOK'
  BY ServicosPasso, CobrancaTipos DEF BloqueioEmFoco
<1>2. /\ foco' = foco
      /\ foco = "bloqueio" => [NextBloqueio]_<<cobrancaVars, bloqueioVars>>
      /\ foco # "bloqueio" => UNCHANGED bloqueioVars
  <2>1. CASE MCNext
    BY <2>1 DEF MCNext, Quietos
  <2>2. CASE UNCHANGED servicosVars
    BY <2>2 DEF servicosVars
  <2> QED BY <2>1, <2>2
<1>3. CASE foco = "bloqueio"
  BY <1>1, <1>2, <1>3, BloqueioPasso DEF BloqueioEmFoco
<1>4. CASE foco # "bloqueio"
  BY <1>1, <1>2, <1>4 DEF BloqueioEmFoco, InitBloqueio, bloqueioVars
<1> QED
  BY <1>3, <1>4

LEMMA BloqueioSempre == MCSpec => [](BloqueioTypeOK /\ ImpedimentoRecusa)
<1>1. MCInit => BloqueioEmFoco
  <2>1. InitCobranca => CobrancaTypeOK
    BY CobrancaInit DEF CobrancaInv
  <2> QED BY <2>1, ServicosInicio, BloqueioInicio DEF BloqueioEmFoco
<1>2. BloqueioEmFoco => BloqueioTypeOK /\ ImpedimentoRecusa
  BY BloqueioInicio DEF BloqueioEmFoco, BloqueioInv
<1> QED
  BY <1>1, <1>2, BloqueioSegue, PTL DEF MCSpec

(* Also where charges are paid without a check to follow them, no renter is  *)
(* let through with an impediment (assertLocatarioLiberado).                 *)
THEOREM ServicosSemImpedimento == MCSpec => []ImpedimentoRecusa
BY BloqueioSempre, PTL

(* Every variable of every service keeps to its type, for any accounts,     *)
(* charges, vehicles, images and requests, in whatever order they move.     *)
THEOREM ServicosTipados == MCSpec => []ServicosTypeOK
<1>1. MCSpec => [](CobrancaTypeOK /\ BloqueioTypeOK)
  BY ServicosSaoComponentes, CobrancaTipada, BloqueioSempre, PTL
<1>2. MCSpec => [](InteresseTypeOK /\ NotificacaoTypeOK)
  BY ServicosSaoComponentes, RegistroSempreFiel, RelatorioSempreRegistrado, PTL
<1>3. MCSpec => []MonitorTypeOK
  <2>1. MonitorBase => MonitorTypeOK
    BY BaseTipada
  <2> QED BY <2>1, ServicosSaoComponentes, BaseInicio, BasePasso, PTL
<1>4. MCSpec => [](ImagemTypeOK /\ ContaTypeOK)
  BY ServicosSaoComponentes, ImagemTipos, ContaTipada, PTL
<1>5. MCSpec => [](CondutoresTypeOK /\ CompartilhamentoTypeOK)
  BY ServicosSaoComponentes, LimiteMantido, RevogacaoMantida, PTL
<1>6. MCSpec => []PrecificacaoTypeOK
  <2>1. PrecoInv => PrecificacaoTypeOK
    BY DEF PrecoInv, PrecoTipos
  <2> QED BY <2>1, ServicosSaoComponentes, PrecoSempre, PTL
<1>7. MCSpec => []AcessoTypeOK
  BY ServicosSaoComponentes, AcessoTipado, PTL
<1> QED
  BY <1>1, <1>2, <1>3, <1>4, <1>5, <1>6, <1>7, PTL DEF ServicosTypeOK

=============================================================================
