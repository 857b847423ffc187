--------------------------- MODULE NfseRecuperacao ---------------------------
(***************************************************************************)
(* The recovery of past NSUs of NFS-e (src/src/modules/sync/               *)
(* sync.service.ts): the nightly cycle, which goes through the NSUs every  *)
(* control has already left behind, a few at a time, and keeps its own     *)
(* cursor in a file; the recovery and the audit of numbering gaps an       *)
(* operator asks for; and the automatic cycle they share the process with. *)
(*                                                                         *)
(* The incremental synchronisation is NfseSync; here it is the step that   *)
(* moves a control's cursor over one NSU, with or without its document.    *)
(* What it takes to store a document is NfseDocumentos; here it is a step  *)
(* that succeeds or throws.                                                *)
(***************************************************************************)
EXTENDS NfseFaixas, FiniteSets

CONSTANTS
  Controles,            \* rows of nfse_sync_controle
  Clientes, ClienteDe,  \* the client that owns each control
  Manuais,              \* recoveries asked for by operators, at the same time
  Nenhum,               \* no control
  MaxNsu,               \* bound of the NSUs
  Notas,                \* for each control, the note the ADN keeps at each NSU
  ControlesPorRodada,   \* SYNC_NIGHTLY_PAST_NSU_RECOVERY_CONTROLS_PER_RUN
  NsusPorControle,      \* SYNC_NIGHTLY_PAST_NSU_RECOVERY_NSUS_PER_CONTROL
  Alvos,                \* the sets of controls operators ask for (of one client, or all)
  Lacunas,              \* the gaps an operator may ask about: sequences of intervals
  MaxIntervencoes       \* bound of requests, pauses and restarts

Noturna   == "noturna"
Execucoes == Manuais \union {Noturna}

\* A note has a number and was issued by the CNPJ of a control, or by somebody else; an
\* event has no number.
Evento == 0

ASSUME DadosAssumption ==
  /\ IsFiniteSet(Controles) /\ Nenhum \notin Controles /\ Noturna \notin Manuais
  /\ ClienteDe \in [Controles -> Clientes] /\ Alvos \subseteq (SUBSET Controles) \ {{}}
  /\ Notas \in [Controles -> Seq([numero : Nat, emissor : Controles \union {Nenhum}])]
  /\ \A c \in Controles : Len(Notas[c]) <= MaxNsu

ASSUME NumerosAssumption ==
  /\ MaxNsu \in Nat /\ MaxIntervencoes \in Nat
  /\ ControlesPorRodada \in Nat \ {0} /\ NsusPorControle \in Nat \ {0}

\* Gaps without a positive first number, or that end before they begin, are dropped.
ASSUME LacunasAssumption ==
  \A lacunas \in Lacunas :
    lacunas \in Seq([ini : Nat \ {0}, fim : Nat]) /\ \A i \in DOMAIN lacunas : lacunas[i].ini <= lacunas[i].fim

VARIABLES
  \* nfse_sync_controle
  ativo, ultimoNsuConsultado,
  \* nfse_documentos: the control whose note the client keeps under each NSU
  guardado,
  \* the file of the nightly recovery: nextNsu (0: none), and the order of lastAttemptAt
  arquivo,
  \* memory of the process
  autoSyncRunning,
  exec,                 \* [Execucoes -> local state]
  \* history
  revistos,             \* NSUs of each control the nightly recovery went through with an answer
  intervencoes

tabelas == <<ativo, ultimoNsuConsultado, guardado>>
vars    == <<tabelas, arquivo, autoSyncRunning, exec, revistos, intervencoes>>

Nsus     == 1..MaxNsu
Posicoes == 0..Cardinality(Controles)
Arquivos == [nextNsu : [Controles -> 0..MaxNsu + 1], ordem : [Controles -> Posicoes]]
Vazio    == [nextNsu |-> [c \in Controles |-> 0], ordem |-> [c \in Controles |-> 0]]

\* The part of the plan for one control: its row as read then, the NSUs of each range in
\* the order of the scan, the last NSU planned and the missing numbers.
Planos == [controle : Controles, cursor : 0..MaxNsu, faixas : Seq(Seq(Nsus)), nsuFinal : 0..MaxNsu,
           alvos : SUBSET Nat]

Local == [pc       : {"ociosa", "aguardar", "controle", "nsu"},
          estado   : Arquivos,             \* the file as read
          plano    : Seq(Planos),          \* what is left; its head is being worked on
          faixas   : Seq(Seq(Nsus)),       \* what is left of the ranges of the head
          restam   : SUBSET Nat,           \* numbers the tracker still looks for
          \* results, of the nightly recovery (those of the others are only shown)
          falhou   : BOOLEAN,              \* detail.falhas > 0
          limite   : BOOLEAN,              \* interrompidoPorRateLimit
          detalhes : SUBSET [controle : Controles, nsuFinal : 0..MaxNsu, falhou : BOOLEAN]]

Ociosa == [pc |-> "ociosa", estado |-> Vazio, plano |-> <<>>, faixas |-> <<>>, restam |-> {},
           falhou |-> FALSE, limite |-> FALSE, detalhes |-> {}]

TypeOK ==
  /\ ativo \in [Controles -> BOOLEAN]
  /\ ultimoNsuConsultado \in [Controles -> 0..MaxNsu]
  /\ guardado \in [Clientes -> [Nsus -> Controles \union {Nenhum}]]
  /\ arquivo \in Arquivos
  /\ autoSyncRunning \in BOOLEAN
  /\ exec \in [Execucoes -> Local]
  /\ revistos \in [Controles -> SUBSET Nsus]
  /\ intervencoes \in 0..MaxIntervencoes

Init ==
  /\ ativo = [c \in Controles |-> TRUE]
  /\ ultimoNsuConsultado = [c \in Controles |-> 0]
  /\ guardado = [k \in Clientes |-> [n \in Nsus |-> Nenhum]]
  /\ arquivo = Vazio
  /\ autoSyncRunning = FALSE
  /\ exec = [e \in Execucoes |-> Ociosa]
  /\ revistos = [c \in Controles |-> {}]
  /\ intervencoes = 0

Intervir == intervencoes < MaxIntervencoes /\ intervencoes' = intervencoes + 1

Muda(e, local) == exec' = [exec EXCEPT ![e] = local]

\* nightlyPastNsuRecoveryRunning
Recuperando == exec[Noturna].pc # "ociosa"

\* The control an execution works on, and whether its client keeps a note at NSU n.
Atual(e)         == Head(exec[e].plano)
GuardadoEm(c, n) == guardado[ClienteDe[c]][n]
Tem(c, n)        == GuardadoEm(c, n) # Nenhum

\* What the client keeps once these documents of control c are stored: a note under an NSU that
\* has one is not replaced, and an event leaves the notes alone.
ComDocumentosDe(c, docs) ==
  [guardado EXCEPT ![ClienteDe[c]] =
    [n \in Nsus |-> IF n \in docs /\ @[n] = Nenhum /\ Notas[c][n].numero # Evento THEN c ELSE @[n]]]

\* What it keeps once the synchronisation stores the document of NSU n of control c: a row its client has
\* under this NSU, of another control, becomes this note's.
ComNotaDe(c, n) ==
  IF Notas[c][n].numero = Evento THEN guardado ELSE [guardado EXCEPT ![ClienteDe[c]][n] = c]

-----------------------------------------------------------------------------
(* Mutants: forms of the operators below that a plausible mistake would    *)
(* give them.  Each one breaks a property of this module.                  *)

\* A control without an entry in the file starts at NSU 0.
NextNsuSemMinimo(estado, c) == estado.nextNsu[c]

\* A certificate that cannot be decrypted ends the range without counting as a failure.
FalhaDecifrarSemContar(e) == [exec[e] EXCEPT !.faixas = Tail(@)]

\* The tracker takes one off its count for every document that goes by, whatever its number.
ResolverQualquer(restam, numeros) == IF restam = {} THEN restam ELSE restam \ {CHOOSE x \in restam : TRUE}

\* The next round starts at the last NSU of this one.
ContinuarNoUltimo(detalhe) == detalhe.nsuFinal

-----------------------------------------------------------------------------
(* The nightly cycle: the wait, the choice of the controls and the file    *)

\* runNightlyPastNsuRecoveryCycle sets its flag first; no automatic cycle starts from here on.
IniciarNoturna ==
  /\ ~Recuperando
  /\ Muda(Noturna, [Ociosa EXCEPT !.pc = "aguardar"])
  /\ UNCHANGED <<tabelas, arquivo, autoSyncRunning, revistos, intervencoes>>

\* waitForAutomaticSyncToFinish gives up after five minutes.
EsperaEsgotada ==
  /\ exec[Noturna].pc = "aguardar" /\ autoSyncRunning
  /\ Muda(Noturna, Ociosa)
  /\ UNCHANGED <<tabelas, arquivo, autoSyncRunning, revistos, intervencoes>>

\* resolveNightlyPastNsuNextNsu, for a control whose cursor is at least 1
NextNsu(estado, c) == MaiorDe(1, estado.nextNsu[c])

FimDoLote(c, nextNsu) == MenorDe(ultimoNsuConsultado[c], nextNsu + NsusPorControle - 1)

Elegiveis(estado) ==
  {c \in Controles : /\ ativo[c] /\ ultimoNsuConsultado[c] >= 1
                     /\ NextNsu(estado, c) <= ultimoNsuConsultado[c]}

PlanoNoturno(estado, c) ==
  LET ini == NextNsu(estado, c)
      fim == FimDoLote(c, ini) IN
  [controle |-> c, cursor |-> ultimoNsuConsultado[c], alvos |-> {}, nsuFinal |-> fim,
   faixas |-> <<IteratePastNsuScanOrder([ini |-> ini, fim |-> fim, prioritarios |-> <<>>])>>]

\* The file as it is, or nothing when it cannot be read; the eligible controls that were
\* tried longest ago.  (Only this cycle writes the file, so reading it and the rows is one step.)
PrepararNoturna(estado) ==
  /\ exec[Noturna].pc = "aguardar" /\ ~autoSyncRunning
  /\ \E ordem \in SetToSeqs(Elegiveis(estado)) :
       /\ \A i, j \in DOMAIN ordem : i < j => estado.ordem[ordem[i]] <= estado.ordem[ordem[j]]
       /\ LET escolhidos == SubSeq(ordem, 1, MenorDe(ControlesPorRodada, Len(ordem))) IN
          Muda(Noturna,
               IF escolhidos = <<>> THEN Ociosa
               ELSE [Ociosa EXCEPT !.pc = "controle", !.estado = estado,
                       !.plano = [i \in DOMAIN escolhidos |-> PlanoNoturno(estado, escolhidos[i])]])
  /\ UNCHANGED <<tabelas, arquivo, autoSyncRunning, revistos, intervencoes>>

LerArquivo == PrepararNoturna(arquivo)

ArquivoIlegivel == arquivo # Vazio /\ PrepararNoturna(Vazio)

\* The ranks of f, made consecutive; 0 (never tried) stays 0.
Compacta(f) == [c \in Controles |-> Cardinality({f[d] : d \in Controles} \cap (1..f[c]))]

\* Where the next round of a control that was gone through goes on.
Continuar(detalhe) == detalhe.nsuFinal + 1

\* The plan is done: the results and saveNightlyPastNsuRecoveryState.  A control goes on from the NSU
\* after its range when nothing failed and no rate limit ended the round; one that was tried moves
\* to the end.
Salvar ==
  LET r == exec[Noturna]
      tentados == {d.controle : d \in r.detalhes}
      concluidos == IF r.limite THEN {} ELSE {d \in r.detalhes : ~d.falhou} IN
  /\ r.pc = "controle" /\ r.plano = <<>>
  /\ arquivo' = [nextNsu |-> [c \in Controles |->
                    IF \E d \in concluidos : d.controle = c
                    THEN Continuar(CHOOSE d \in concluidos : d.controle = c) ELSE r.estado.nextNsu[c]],
                 ordem |-> Compacta([c \in Controles |->
                    IF c \in tentados THEN Cardinality(Controles) + 1 ELSE r.estado.ordem[c]])]
  /\ Muda(Noturna, Ociosa)
  /\ UNCHANGED <<tabelas, autoSyncRunning, revistos, intervencoes>>

-----------------------------------------------------------------------------
(* The recoveries of the operators                                         *)

\* The whole sequence: from NSU 1 to the cursor, whatever the status of the control.
PlanoCompleto(c) ==
  LET fim == ultimoNsuConsultado[c] IN
  [controle |-> c, cursor |-> fim, alvos |-> {}, nsuFinal |-> fim,
   faixas |-> IF fim >= 1 THEN <<EmOrdem(1, fim)>> ELSE <<>>]

\* The stored notes issued by the control's CNPJ.
Itens(c) ==
  {[nsu |-> n, numero |-> Notas[GuardadoEm(c, n)][n].numero] :
     n \in {m \in Nsus : Tem(c, m) /\ Notas[GuardadoEm(c, m)][m].emissor = c}}

PlanoDeLacunas(c, lacunas) ==
  LET itens  == Itens(c)
      faltam == RemoveStoredNfseNumbersFromGaps(lacunas, {i.numero : i \in itens})
      faixas == BuildGapAuditRanges(ultimoNsuConsultado[c], faltam, itens) IN
  [controle |-> c, cursor |-> ultimoNsuConsultado[c],
   alvos |-> UNION {faltam[i].ini..faltam[i].fim : i \in DOMAIN faltam},
   nsuFinal |-> IF faixas = <<>> THEN 0 ELSE Last(faixas).fim,
   faixas |-> [i \in DOMAIN faixas |-> IteratePastNsuScanOrder(faixas[i])]]

\* startPastNsuRecoveryExecution and reprocessPastNsus: the plan is made and the work goes on in the
\* background or in the request.  (The same request again is answered with the one that runs.)
Reprocessar(m, S) ==
  /\ Intervir
  /\ exec[m].pc = "ociosa"
  /\ \E ordem \in SetToSeqs(S) :
       Muda(m, [Ociosa EXCEPT !.pc = "controle", !.plano = [i \in DOMAIN ordem |-> PlanoCompleto(ordem[i])]])
  /\ UNCHANGED <<tabelas, arquivo, autoSyncRunning, revistos>>

\* Only controls with a number still missing are planned.
AuditarLacunas(m, S, lacunas) ==
  /\ Intervir
  /\ exec[m].pc = "ociosa"
  /\ \E ordem \in SetToSeqs({c \in S : PlanoDeLacunas(c, lacunas).alvos # {}}) :
       /\ ordem # <<>>
       /\ Muda(m, [Ociosa EXCEPT !.pc = "controle",
                     !.plano = [i \in DOMAIN ordem |-> PlanoDeLacunas(ordem[i], lacunas)]])
  /\ UNCHANGED <<tabelas, arquivo, autoSyncRunning, revistos>>

-----------------------------------------------------------------------------
(* reprocessPastNsusInternal: one control after the other                  *)

\* isRateLimitCooldownActive: what is left of the plan is given up.  (The time up to which the
\* cooldown lasts is not kept: whatever synchronisation or recovery met a limit may have begun it.)
InterromperPorCooldown(e) ==
  /\ exec[e].pc = "controle" /\ exec[e].plano # <<>>
  /\ Muda(e, IF e = Noturna THEN [exec[e] EXCEPT !.plano = <<>>, !.limite = TRUE] ELSE Ociosa)
  /\ UNCHANGED <<tabelas, arquivo, autoSyncRunning, revistos, intervencoes>>

\* The control is done, and what is left of the plan is this; an operator's recovery ends with it.  (updateControlAfterPastNsuReprocess
\* writes counters, a message and ultimoNsuComDocumento, which are not kept here.)
Concluido(e, plano, falhou) ==
  LET r == exec[e]
      p == Atual(e) IN
  IF e = Noturna
  THEN [r EXCEPT !.pc = "controle", !.plano = plano, !.faixas = <<>>, !.falhou = FALSE,
          !.detalhes = @ \union {[controle |-> p.controle, nsuFinal |-> p.nsuFinal, falhou |-> falhou]}]
  ELSE IF plano = <<>> THEN Ociosa
  ELSE [r EXCEPT !.pc = "controle", !.plano = plano, !.faixas = <<>>, !.restam = {}]

Concluir(e, plano, falhou) == Muda(e, Concluido(e, plano, falhou))

\* No range, or no certificate: the control is done, with a failure in the second case.
SemFaixa(e) ==
  /\ exec[e].pc = "controle" /\ exec[e].plano # <<>>
  /\ Atual(e).faixas = <<>>
  /\ Concluir(e, Tail(exec[e].plano), FALSE)
  /\ UNCHANGED <<tabelas, arquivo, autoSyncRunning, revistos, intervencoes>>

SemCertificado(e) ==
  /\ exec[e].pc = "controle" /\ exec[e].plano # <<>>
  /\ Atual(e).faixas # <<>>
  /\ Concluir(e, Tail(exec[e].plano), TRUE)
  /\ UNCHANGED <<tabelas, arquivo, autoSyncRunning, revistos, intervencoes>>

IniciarControle(e) ==
  /\ exec[e].pc = "controle" /\ exec[e].plano # <<>>
  /\ Atual(e).faixas # <<>>
  /\ Muda(e, [exec[e] EXCEPT !.pc = "nsu", !.faixas = Atual(e).faixas, !.restam = Atual(e).alvos])
  /\ UNCHANGED <<tabelas, arquivo, autoSyncRunning, revistos, intervencoes>>

-----------------------------------------------------------------------------
(* ... and one NSU after the other                                         *)

\* remainingNumbers = 0, in an audit
Encontrados(e) == Atual(e).alvos # {} /\ exec[e].restam = {}

Nsu(e)  == Head(Head(exec[e].faixas))
Visita(e) == exec[e].pc = "nsu" /\ exec[e].faixas # <<>> /\ ~Encontrados(e)

\* What is left of the ranges after their first NSU.
Resto(faixas) ==
  IF Len(Head(faixas)) = 1 THEN Tail(faixas) ELSE <<Tail(Head(faixas))>> \o Tail(faixas)

\* GapRecoveryTargetTracker.resolve
Resolver(restam, numeros) == restam \ numeros

\* The numbers missing have all been found: the other NSUs are not asked for.
Dispensar(e) ==
  /\ exec[e].pc = "nsu" /\ Encontrados(e)
  /\ Concluir(e, Tail(exec[e].plano), exec[e].falhou)
  /\ UNCHANGED <<tabelas, arquivo, autoSyncRunning, revistos, intervencoes>>

FimDasFaixas(e) ==
  /\ exec[e].pc = "nsu" /\ exec[e].faixas = <<>> /\ ~Encontrados(e)
  /\ Concluir(e, Tail(exec[e].plano), exec[e].falhou)
  /\ UNCHANGED <<tabelas, arquivo, autoSyncRunning, revistos, intervencoes>>

\* The client keeps a note under this NSU already.
JaBaixado(e) ==
  LET c == Atual(e).controle
      n == Nsu(e) IN
  /\ Visita(e) /\ Tem(c, n)
  /\ Muda(e, [exec[e] EXCEPT !.faixas = Resto(@), !.restam = Resolver(@, {Notas[GuardadoEm(c, n)][n].numero})])
  /\ UNCHANGED <<tabelas, arquivo, autoSyncRunning, revistos, intervencoes>>

\* It does not, and the ADN is asked (fetchPastNsuWithRetries: the answers below are those of the
\* last attempt).  What is stored meanwhile is seen before anything is written.
Consulta(e) == Visita(e) /\ ~Tem(Atual(e).controle, Nsu(e))

Revisto(e) ==
  revistos' = IF e = Noturna THEN [revistos EXCEPT ![Atual(e).controle] = @ \union {Nsu(e)}] ELSE revistos

\* No document (or a refusal with a 4xx): the NSU is gone through.
SemDocumento(e) ==
  /\ Consulta(e)
  /\ Muda(e, [exec[e] EXCEPT !.faixas = Resto(@)])
  /\ Revisto(e)
  /\ UNCHANGED <<tabelas, arquivo, autoSyncRunning, intervencoes>>

\* The document of the NSU and some of the next ones, or only one of a later NSU; those past the
\* cursor that was read are left to the synchronisation.
Lotes(c, n) == UNION {{n..m, {m}} : m \in n..Len(Notas[c])}

\* Each is stored unless the client keeps a note under its NSU, and its number is looked up among
\* the missing ones either way.
DocumentosDe(e, lote) == {d \in lote : d <= Atual(e).cursor}

ComDocumentos(e) ==
  LET c == Atual(e).controle IN
  /\ Consulta(e)
  /\ \E lote \in Lotes(c, Nsu(e)) :
       LET docs == DocumentosDe(e, lote) IN
       /\ docs # {}
       /\ guardado' = ComDocumentosDe(c, docs)
       /\ Muda(e, [exec[e] EXCEPT !.faixas = Resto(@), !.restam = Resolver(@, {Notas[c][d].numero : d \in docs})])
  /\ Revisto(e)
  /\ UNCHANGED <<ativo, ultimoNsuConsultado, arquivo, autoSyncRunning, intervencoes>>

\* One of them cannot be stored: the exception ends the execution, and those before it stay.
FalhaAoGravar(e) ==
  /\ Consulta(e)
  /\ \E lote \in Lotes(Atual(e).controle, Nsu(e)) :
       \E gravados \in (SUBSET DocumentosDe(e, lote)) \ {DocumentosDe(e, lote)} :
         guardado' = ComDocumentosDe(Atual(e).controle, gravados)
  /\ Muda(e, Ociosa)
  /\ UNCHANGED <<ativo, ultimoNsuConsultado, arquivo, autoSyncRunning, revistos, intervencoes>>

\* A timeout or a 5xx: the next NSU, all the same.
FalhaTemporaria(e) ==
  /\ Consulta(e)
  /\ Muda(e, [exec[e] EXCEPT !.faixas = Resto(@), !.falhou = e = Noturna])
  /\ UNCHANGED <<tabelas, arquivo, autoSyncRunning, revistos, intervencoes>>

\* The certificate cannot be decrypted: the rest of this range is given up.
AposFalhaDecifrar(e) == [exec[e] EXCEPT !.faixas = Tail(@), !.falhou = e = Noturna]

FalhaDecifrar(e) ==
  /\ Consulta(e)
  /\ Muda(e, AposFalhaDecifrar(e))
  /\ UNCHANGED <<tabelas, arquivo, autoSyncRunning, revistos, intervencoes>>

\* 429: the cooldown, and the whole execution ends with this control.
LimiteExcedido(e) ==
  /\ Consulta(e)
  /\ Muda(e, [Concluido(e, <<>>, TRUE) EXCEPT !.limite = e = Noturna])
  /\ UNCHANGED <<tabelas, arquivo, autoSyncRunning, revistos, intervencoes>>

\* An exception ends the execution: what was stored stays; the night's progress is not saved.
Excecao(e) ==
  /\ exec[e].pc \notin {"ociosa", "aguardar"}
  /\ Muda(e, Ociosa)
  /\ UNCHANGED <<tabelas, arquivo, autoSyncRunning, revistos, intervencoes>>

-----------------------------------------------------------------------------
(* The synchronisation, the operator and the process                       *)

\* runAutomaticSyncCycle does nothing while a cycle or the nightly recovery runs.
IniciarCiclo ==
  /\ ~autoSyncRunning /\ ~Recuperando
  /\ autoSyncRunning' = TRUE
  /\ UNCHANGED <<tabelas, arquivo, exec, revistos, intervencoes>>

EncerrarCiclo ==
  /\ autoSyncRunning
  /\ autoSyncRunning' = FALSE
  /\ UNCHANGED <<tabelas, arquivo, exec, revistos, intervencoes>>

\* A runNow, of the cycle or of an operator, moves the cursor over the next NSU: its document is
\* stored, or there is none to store (or it was refused).
Sincronizar(c) ==
  LET n == ultimoNsuConsultado[c] + 1 IN
  /\ n <= Len(Notas[c])
  /\ ultimoNsuConsultado' = [ultimoNsuConsultado EXCEPT ![c] = n]
  /\ guardado' \in {guardado, ComNotaDe(c, n)}
  /\ UNCHANGED <<ativo, arquivo, autoSyncRunning, exec, revistos, intervencoes>>

PausarOuRetomar(c) ==
  /\ Intervir
  /\ ativo' = [ativo EXCEPT ![c] = ~@]
  /\ UNCHANGED <<ultimoNsuConsultado, guardado, arquivo, autoSyncRunning, exec, revistos>>

Reiniciar ==
  /\ Intervir
  /\ autoSyncRunning' = FALSE
  /\ exec' = [e \in Execucoes |-> Ociosa]
  /\ UNCHANGED <<tabelas, arquivo, revistos>>

-----------------------------------------------------------------------------

CicloNoturno == IniciarNoturna \/ EsperaEsgotada \/ LerArquivo \/ ArquivoIlegivel \/ Salvar

Reprocessamento(e) ==
  \/ InterromperPorCooldown(e) \/ SemFaixa(e) \/ SemCertificado(e) \/ IniciarControle(e)
  \/ Dispensar(e) \/ FimDasFaixas(e) \/ JaBaixado(e)
  \/ SemDocumento(e) \/ ComDocumentos(e) \/ FalhaTemporaria(e) \/ FalhaDecifrar(e) \/ LimiteExcedido(e)
  \/ FalhaAoGravar(e) \/ Excecao(e)

Operar ==
  \/ \E m \in Manuais : \E S \in Alvos :
       Reprocessar(m, S) \/ \E lacunas \in Lacunas : AuditarLacunas(m, S, lacunas)
  \/ \E c \in Controles : PausarOuRetomar(c)
  \/ Reiniciar

Sincronizacao ==
  \/ IniciarCiclo \/ EncerrarCiclo
  \/ \E c \in Controles : Sincronizar(c)

Next == CicloNoturno \/ (\E e \in Execucoes : Reprocessamento(e)) \/ Operar \/ Sincronizacao

Spec == Init /\ [][Next]_vars

\* The nightly slots come again and again, what was started goes on and cycles end.
FairSpec ==
  /\ Spec
  /\ WF_vars(CicloNoturno)
  /\ \A e \in Execucoes : WF_vars(Reprocessamento(e))
  /\ WF_vars(EncerrarCiclo)

-----------------------------------------------------------------------------
(* Properties                                                              *)

\* docs/sync-flow.md:28: the nightly cursor "avanca ... apenas quando o lote termina sem falha" and
\* does not go through again what was attended to: every NSU behind it is one whose note the
\* client keeps or that a recovery has gone through with an answer of the ADN, whatever failed,
\* stopped or was restarted on the way.
RevistoCoberto ==
  \A c \in Controles : \A n \in 1..arquivo.nextNsu[c] - 1 : n \in revistos[c] \/ Tem(c, n)

\* README:289: the audit "encerra a busca quando todos os numeros pendentes forem encontrados": when
\* it leaves NSUs out, each missing number is the number of a note the client keeps.
AuditoriaCompleta ==
  [][\A e \in Execucoes : Dispensar(e) =>
       LET c == Atual(e).controle IN
       \A x \in Atual(e).alvos : \E n \in Nsus : Tem(c, n) /\ Notas[GuardadoEm(c, n)][n].numero = x]_vars

\* sync.service.ts:1197, "NFS-e esperada para a lacuna ja estava armazenada": a number an audit takes off those
\* it looks for is the number of a note the client keeps from then on.
\* (Proved, under a condition on the NSUs of one client: NfseRecuperacaoProofs.)
NumerosRiscados ==
  [][\A e \in Execucoes : exec[e].pc = "nsu" /\ exec'[e].pc = "nsu" =>
       LET c == Atual(e).controle IN
       \A x \in exec[e].restam \ exec'[e].restam :
         \E n \in Nsus : (Tem(c, n) /\ Notas[GuardadoEm(c, n)][n].numero = x)']_vars

\* A step that only looks like a failure is not one: an NSU gone through in a round that has failed
\* before, the end of an execution.
FalhasCessam ==
  <>[][/\ ~EsperaEsgotada /\ (ArquivoIlegivel => LerArquivo)
       /\ \A e \in Execucoes :
            /\ ~InterromperPorCooldown(e) /\ ~SemCertificado(e) /\ ~FalhaDecifrar(e) /\ ~LimiteExcedido(e)
            /\ FalhaTemporaria(e) => SemDocumento(e)
            /\ FalhaAoGravar(e) \/ Excecao(e) => Salvar \/ SemFaixa(e) \/ Dispensar(e) \/ FimDasFaixas(e)]_vars

\* docs/sync-flow.md:28, "retoma na proxima janela": once failures cease, every NSU an active control
\* has left behind is one whose note the client keeps or that a recovery gets an answer for, however
\* few controls and NSUs each round takes.
AtrasadoRevisto ==
  FalhasCessam =>
    \A c \in Controles, n \in Nsus :
      (ativo[c] /\ n <= ultimoNsuConsultado[c]) ~> (n \in revistos[c] \/ Tem(c, n) \/ ~ativo[c])
=============================================================================
