------------------------------ MODULE NfseSync ------------------------------
(***************************************************************************)
(* The incremental synchronisation of NFS-e by NSU: SyncService.runNow,    *)
(* the claim it takes on each control, the operator's pause, resume and    *)
(* activation, the nightly activation, the certificate job and the         *)
(* restart of a process (src/src/modules/sync/sync.service.ts).            *)
(*                                                                         *)
(* A control is a row of nfse_sync_controle.  Dates are kept as the ticks  *)
(* that are left until they are due: proximaExecucao[c] = 0 stands for     *)
(* null as well as for a date in the past, which the code treats alike.    *)
(* A worker is one execution of runNow: the automatic cycle is one, every  *)
(* POST /sync/rodar-agora in flight is another.                            *)
(***************************************************************************)
EXTENDS Integers, FiniteSets

CONSTANTS
  Controles,            \* rows of nfse_sync_controle
  Clientes, ClienteDe,  \* the client that owns each control
  Workers,              \* concurrent executions of runNow
  Processos, ProcessoDe,\* the Node process each worker lives in
  Nenhum,               \* no row
  MaxNsu,               \* bound of the NSUs
  Take,                 \* rows one runNow takes (50)
  MaxPassos,            \* SYNC_DAILY_MAX_NSU_PER_RUN
  StopOnFirst,          \* SYNC_DAILY_STOP_ON_FIRST_DOCUMENT
  ClaimTtl, RetryDelay, RetryJitter, RateCooldown,
  DailyInterval, SuccessCooldown, ActivationJitter,   \* durations, in ticks
  Falhas,               \* the failing answers the ADN may give
  MaxIntervencoes,      \* bound of operator interventions and restarts
  DentroDoTtl           \* a control is worked on for less than its claim's TTL

TodasFalhas == {"http4xx", "temporario", "http429", "decifrar"}

\* The part of a row that runNow keeps from its findMany and goes on using.
Linhas == [controle : Controles, nsu : 0..MaxNsu, diario : BOOLEAN]

ASSUME DadosAssumption ==
  /\ Nenhum \notin Linhas
  /\ ClienteDe \in [Controles -> Clientes]
  /\ ProcessoDe \in [Workers -> Processos]
  /\ Falhas \subseteq TodasFalhas
  /\ StopOnFirst \in BOOLEAN /\ DentroDoTtl \in BOOLEAN

ASSUME NumerosAssumption ==
  /\ MaxNsu \in Nat /\ MaxIntervencoes \in Nat
  /\ Take \in Nat \ {0} /\ MaxPassos \in Nat \ {0} /\ ClaimTtl \in Nat \ {0}
  /\ RetryDelay \in Nat /\ RetryJitter \in Nat /\ RateCooldown \in Nat
  /\ DailyInterval \in Nat /\ SuccessCooldown \in Nat /\ ActivationJitter \in Nat

VARIABLES
  \* nfse_sync_controle
  status, modoSync, nsuInicial, ultimoNsuConsultado, proximaExecucao,
  \* nfse_documentos: the NSUs of each control whose document is stored
  armazenados,
  \* certificados: the best usable certificate a control can resolve to
  certificado,
  \* memory of the processes
  run,                  \* [Workers -> local state of runNow]
  cooldown,             \* [Processos -> ticks left of rateLimitCooldownUntil]
  verificacao,          \* rows the certificate job still has to visit
  \* the ADN, and what it has answered
  publicados,           \* NSUs that hold a document
  vazios,               \* NSUs it answered to hold nothing
  recusados,            \* NSUs it refused to answer (4xx, unreadable body)
  \* history
  retorno,              \* ticks left of the last backoff after a failure
  reaberto,             \* claims reset from outside while a worker held them
  intervencoes          \* operator interventions and restarts so far

tabela   == <<status, modoSync, nsuInicial, ultimoNsuConsultado, proximaExecucao>>
adn      == <<publicados, vazios, recusados>>
historia == <<retorno, reaberto, intervencoes>>
vars     == <<tabela, armazenados, certificado, run, cooldown, verificacao, adn, historia>>

Maior(a, b) == IF a >= b THEN a ELSE b
Menor(a, b) == IF a <= b THEN a ELSE b

Estados == {"inexistente", "ativo", "pausado", "erro_certificado"}
Modos   == {"historico_desde_nsu_1", "somente_novas"}
Niveis  == {"estabelecimento", "cliente", "nenhum"}
Prazo   == 0..Maior(Maior(Maior(ClaimTtl, RetryDelay + RetryJitter), Maior(RateCooldown, DailyInterval)),
                    Maior(SuccessCooldown, ActivationJitter))

Run == [pc       : {"ocioso", "reservar", "certificado", "consultar", "resposta", "fechar"},
        fila     : SUBSET Linhas,
        linha    : Linhas \union {Nenhum},
        nsu      : 0..MaxNsu,           \* currentNsu
        passo    : 0..MaxPassos - 1,    \* step
        salvou   : BOOLEAN,             \* documentsSavedForControl > 0
        resposta : TodasFalhas \union {"nenhuma", "semDocumento", "lote"},
        lote     : SUBSET (1..MaxNsu),  \* documents still to persist
        teto     : 0..MaxNsu,           \* maxProcessedNsu
        prazo    : Prazo]               \* ticks left of the claim taken, when DentroDoTtl

Ocioso == [pc |-> "ocioso", fila |-> {}, linha |-> Nenhum, nsu |-> 0, passo |-> 0, salvou |-> FALSE,
           resposta |-> "nenhuma", lote |-> {}, teto |-> 0, prazo |-> 0]

TypeOK ==
  /\ status \in [Controles -> Estados]
  /\ modoSync \in [Controles -> Modos]
  /\ nsuInicial \in [Controles -> 1..MaxNsu + 1]
  /\ ultimoNsuConsultado \in [Controles -> 0..MaxNsu]
  /\ proximaExecucao \in [Controles -> Prazo]
  /\ armazenados \in [Controles -> SUBSET (1..MaxNsu)]
  /\ certificado \in [Controles -> Niveis]
  /\ run \in [Workers -> Run]
  /\ cooldown \in [Processos -> Prazo]
  /\ verificacao \in [ativos : SUBSET Controles, erros : SUBSET Controles]
  /\ publicados \in [Controles -> SUBSET (1..MaxNsu)]
  /\ vazios \in [Controles -> SUBSET (1..MaxNsu)]
  /\ recusados \in [Controles -> SUBSET (1..MaxNsu)]
  /\ retorno \in [Controles -> Prazo]
  /\ reaberto \in [Controles -> BOOLEAN]
  /\ intervencoes \in 0..MaxIntervencoes

Init ==
  /\ status = [c \in Controles |-> "inexistente"]
  /\ modoSync = [c \in Controles |-> "historico_desde_nsu_1"]
  /\ nsuInicial = [c \in Controles |-> 1]
  /\ ultimoNsuConsultado = [c \in Controles |-> 0]
  /\ proximaExecucao = [c \in Controles |-> 0]
  /\ armazenados = [c \in Controles |-> {}]
  /\ certificado = [c \in Controles |-> "estabelecimento"]
  /\ run = [w \in Workers |-> Ocioso]
  /\ cooldown = [p \in Processos |-> 0]
  /\ verificacao = [ativos |-> {}, erros |-> {}]
  /\ publicados = [c \in Controles |-> {}]
  /\ vazios = [c \in Controles |-> {}]
  /\ recusados = [c \in Controles |-> {}]
  /\ retorno = [c \in Controles |-> 0]
  /\ reaberto = [c \in Controles |-> FALSE]
  /\ intervencoes = 0

-----------------------------------------------------------------------------
(* Mutants: forms of the operators below that a plausible mistake would    *)
(* give them.  Each one breaks a property of this module.                  *)

\* The run is not ended after its last control (autoSyncRunning is never reset).
SeguinteSemFim(r) == [Ocioso EXCEPT !.pc = "reservar", !.fila = r.fila]

\* The updateMany of the claim does not check that the row is still due.
ClaimSemCondicao(c) ==
  /\ status[c] = "ativo"
  /\ proximaExecucao' = [proximaExecucao EXCEPT ![c] = ClaimTtl]

\* The document of the NSU that was asked for is left out of a batch.
LoteSemPrimeiro(c, n, m) == {k \in publicados[c] : n < k /\ k <= m}

\* A timeout (status 0) or a 5xx counts as an answer.
RetrySoDeLimite(resposta) == resposta = "http429"

\* The failure is recorded without a date for the next attempt.
NovaTentativaSemData(c) ==
  /\ proximaExecucao' = [proximaExecucao EXCEPT ![c] = 0]
  /\ retorno' = [retorno EXCEPT ![c] = RetryDelay]

\* Any failure waits for the rate limit too.
NovaTentativaSomada(c) ==
  /\ proximaExecucao' = [proximaExecucao EXCEPT ![c] = RetryDelay + RateCooldown]
  /\ retorno' = [retorno EXCEPT ![c] = RetryDelay + RateCooldown]

-----------------------------------------------------------------------------
(* runNow: the snapshot, the claim and the certificate                     *)

Vencido(c) == status[c] = "ativo" /\ proximaExecucao[c] = 0

Linha(c) == [controle |-> c, nsu |-> ultimoNsuConsultado[c], diario |-> modoSync[c] = "somente_novas"]

\* What is left of a runNow that is done with its current control.
Seguinte(r) == IF r.fila = {} THEN Ocioso ELSE [Ocioso EXCEPT !.pc = "reservar", !.fila = r.fila]

Ocupa(w, c) == run[w].linha # Nenhum /\ run[w].linha.controle = c

\* findMany of the due controls (those still below the bound MaxNsu); the rows are
\* not read again by this run.
RunNow(w) ==
  /\ run[w].pc = "ocioso"
  /\ cooldown[ProcessoDe[w]] = 0
  /\ LET vencidos == {c \in Controles : Vencido(c) /\ ultimoNsuConsultado[c] < MaxNsu} IN
     \E F \in SUBSET vencidos :
       /\ F # {}
       /\ Cardinality(F) = Menor(Take, Cardinality(vencidos))
       /\ run' = [run EXCEPT ![w] = [Ocioso EXCEPT !.pc = "reservar", !.fila = {Linha(c) : c \in F}]]
  /\ UNCHANGED <<tabela, armazenados, certificado, cooldown, verificacao, adn, historia>>

\* The updateMany of tryClaimDueControl, which checks again that the row is due.
TryClaimDueControl(c) ==
  /\ Vencido(c)
  /\ proximaExecucao' = [proximaExecucao EXCEPT ![c] = ClaimTtl]

\* (The backoff on record of a row that was reset from outside is void.)
Reservar(w, l) ==
  /\ run[w].pc = "reservar"
  /\ l \in run[w].fila
  /\ TryClaimDueControl(l.controle)
  /\ run' = [run EXCEPT ![w] = [Ocioso EXCEPT !.pc = "certificado", !.fila = run[w].fila \ {l},
                                              !.linha = l, !.prazo = ClaimTtl]]
  /\ reaberto' = [reaberto EXCEPT ![l.controle] = @ /\ \E v \in Workers : Ocupa(v, l.controle)]
  /\ retorno' = [retorno EXCEPT ![l.controle] = IF reaberto[l.controle] THEN 0 ELSE @]
  /\ UNCHANGED <<status, modoSync, nsuInicial, ultimoNsuConsultado, armazenados, certificado,
                 cooldown, verificacao, adn, intervencoes>>

IgnorarReservado(w, l) ==
  /\ run[w].pc = "reservar"
  /\ l \in run[w].fila
  /\ ~Vencido(l.controle)
  /\ run' = [run EXCEPT ![w] = Seguinte([run[w] EXCEPT !.fila = @ \ {l}])]
  /\ UNCHANGED <<tabela, armazenados, certificado, cooldown, verificacao, adn, historia>>

\* No certificate, or only an expired one: the status is overwritten whatever it is now.
SemCertificado(w) ==
  /\ run[w].pc = "certificado"
  /\ certificado[run[w].linha.controle] = "nenhum"
  /\ status' = [status EXCEPT ![run[w].linha.controle] = "erro_certificado"]
  /\ run' = [run EXCEPT ![w] = Seguinte(run[w])]
  /\ UNCHANGED <<modoSync, nsuInicial, ultimoNsuConsultado, proximaExecucao, armazenados,
                 certificado, cooldown, verificacao, adn, historia>>

ComCertificado(w) ==
  /\ run[w].pc = "certificado"
  /\ certificado[run[w].linha.controle] # "nenhum"
  /\ run' = [run EXCEPT ![w].pc = "consultar", ![w].nsu = run[w].linha.nsu]
  /\ UNCHANGED <<tabela, armazenados, certificado, cooldown, verificacao, adn, historia>>

-----------------------------------------------------------------------------
(* runNow: the request for the NSU after currentNsu and its outcomes       *)

\* nextNsu
ProximoNsu(r) == r.nsu + 1

\* Some of the documents from n on, in order, when lote=true; the last one is m.
Lote(c, n, m) == {k \in publicados[c] : n <= k /\ k <= m}

Recebe(w, n, resposta, lote, teto) ==
  run' = [run EXCEPT ![w] = [@ EXCEPT !.pc = "resposta", !.resposta = resposta, !.lote = lote, !.teto = teto]]

ConsultarComLote(w) ==
  LET c == run[w].linha.controle
      n == ProximoNsu(run[w]) IN
  /\ run[w].pc = "consultar"
  /\ \E m \in publicados[c] :
       /\ n <= m
       /\ Recebe(w, n, "lote", Lote(c, n, m), m)
       /\ vazios' = [vazios EXCEPT ![c] = @ \union ((n..m) \ publicados[c])]
  /\ UNCHANGED <<tabela, armazenados, certificado, cooldown, verificacao, publicados, recusados, historia>>

ConsultarSemDocumento(w) ==
  LET c == run[w].linha.controle
      n == ProximoNsu(run[w]) IN
  /\ run[w].pc = "consultar"
  /\ n <= MaxNsu
  /\ n \notin publicados[c]
  /\ Recebe(w, n, "semDocumento", {}, n)
  /\ vazios' = [vazios EXCEPT ![c] = @ \union {n}]
  /\ UNCHANGED <<tabela, armazenados, certificado, cooldown, verificacao, publicados, recusados, historia>>

ConsultarComFalha(w, f) ==
  LET c == run[w].linha.controle
      n == ProximoNsu(run[w]) IN
  /\ run[w].pc = "consultar"
  /\ n <= MaxNsu
  /\ Recebe(w, n, f, {}, n)
  /\ recusados' = IF f = "http4xx" THEN [recusados EXCEPT ![c] = @ \union {n}] ELSE recusados
  /\ UNCHANGED <<tabela, armazenados, certificado, cooldown, verificacao, publicados, vazios, historia>>

\* mustRetryWithoutAdvancingNsu: only status 0, 429 and 5xx keep the NSU where it is.
MustRetryWithoutAdvancingNsu(resposta) == resposta \in {"temporario", "http429"}

AvancaSemDocumento(resposta) ==
  resposta \notin {"lote", "decifrar"} /\ ~MustRetryWithoutAdvancingNsu(resposta)

\* isCertificateDecryptError
FalhaDecifrar(w) ==
  LET c == run[w].linha.controle IN
  /\ run[w].pc = "resposta" /\ run[w].resposta = "decifrar"
  /\ status' = [status EXCEPT ![c] = "erro_certificado"]
  /\ proximaExecucao' = [proximaExecucao EXCEPT ![c] = 0]
  /\ run' = [run EXCEPT ![w] = Seguinte(run[w])]
  /\ UNCHANGED <<modoSync, nsuInicial, ultimoNsuConsultado, armazenados, certificado, cooldown,
                 verificacao, adn, historia>>

\* computeRetryDate for an error that is not a rate limit, and the row that waits for it.
AgendarNovaTentativa(c) ==
  /\ proximaExecucao' = [proximaExecucao EXCEPT ![c] = RetryDelay]
  /\ retorno' = [retorno EXCEPT ![c] = RetryDelay]

ErroTemporario(w) ==
  /\ run[w].pc = "resposta" /\ run[w].resposta = "temporario"
  /\ MustRetryWithoutAdvancingNsu(run[w].resposta)
  /\ AgendarNovaTentativa(run[w].linha.controle)
  /\ run' = [run EXCEPT ![w] = Seguinte(run[w])]
  /\ UNCHANGED <<status, modoSync, nsuInicial, ultimoNsuConsultado, armazenados, certificado,
                 cooldown, verificacao, adn, reaberto, intervencoes>>

\* 429: activateRateLimitCooldown, the row waits for the cooldown, the whole runNow ends.
LimiteExcedido(w) ==
  LET c == run[w].linha.controle IN
  /\ run[w].pc = "resposta" /\ run[w].resposta = "http429"
  /\ MustRetryWithoutAdvancingNsu(run[w].resposta)
  /\ cooldown' = [cooldown EXCEPT ![ProcessoDe[w]] = Maior(@, RateCooldown)]
  /\ \E j \in 0..RetryJitter :
       LET espera == Maior(RetryDelay + j, cooldown'[ProcessoDe[w]]) IN
       /\ proximaExecucao' = [proximaExecucao EXCEPT ![c] = espera]
       /\ retorno' = [retorno EXCEPT ![c] = espera]
  /\ run' = [run EXCEPT ![w] = Ocioso]
  /\ UNCHANGED <<status, modoSync, nsuInicial, ultimoNsuConsultado, armazenados, certificado,
                 verificacao, adn, reaberto, intervencoes>>

\* Nothing to store: the NSU counts as consulted and this control is done.
SemDocumento(w) ==
  LET c == run[w].linha.controle IN
  /\ run[w].pc = "resposta" /\ AvancaSemDocumento(run[w].resposta)
  /\ ultimoNsuConsultado' = [ultimoNsuConsultado EXCEPT ![c] = ProximoNsu(run[w])]
  /\ proximaExecucao' = [proximaExecucao EXCEPT ![c] = IF run[w].linha.diario THEN DailyInterval ELSE 0]
  /\ run' = [run EXCEPT ![w] = Seguinte(run[w])]
  /\ UNCHANGED <<status, modoSync, nsuInicial, armazenados, certificado, cooldown, verificacao,
                 adn, historia>>

\* persistDfeDocumentFromNsu for one document of the batch, in any order.  It counts as
\* saved, or not when the document was already known (events always count).
PersistirDocumento(w, d) ==
  LET c == run[w].linha.controle IN
  /\ run[w].pc = "resposta" /\ d \in run[w].lote
  /\ armazenados' = [armazenados EXCEPT ![c] = @ \union {d}]
  /\ \E novo \in BOOLEAN :
       run' = [run EXCEPT ![w] = [run[w] EXCEPT !.lote = @ \ {d}, !.salvou = @ \/ novo]]
  /\ UNCHANGED <<tabela, certificado, cooldown, verificacao, adn, historia>>

\* It throws: what was stored stays, the NSU does not advance.
FalhaPersistencia(w) ==
  /\ run[w].pc = "resposta" /\ run[w].lote # {}
  /\ AgendarNovaTentativa(run[w].linha.controle)
  /\ run' = [run EXCEPT ![w] = Seguinte(run[w])]
  /\ UNCHANGED <<status, modoSync, nsuInicial, ultimoNsuConsultado, armazenados, certificado,
                 cooldown, verificacao, adn, reaberto, intervencoes>>

\* maxSteps
Passos(l) == IF l.diario THEN MaxPassos ELSE 1

\* The batch is stored: the cursor jumps to its last NSU, and the same row is
\* released (unless daily mode stops at the first document) while the loop goes on.
\* The bound MaxNsu ends the loop the way maxSteps does.
AvancarNsu(w) ==
  LET r == run[w]
      para == r.linha.diario /\ StopOnFirst IN
  /\ r.pc = "resposta" /\ r.resposta = "lote" /\ r.lote = {}
  /\ ultimoNsuConsultado' = [ultimoNsuConsultado EXCEPT ![r.linha.controle] = r.teto]
  /\ proximaExecucao' = [proximaExecucao EXCEPT ![r.linha.controle] = IF para THEN SuccessCooldown ELSE 0]
  /\ run' = [run EXCEPT ![w] =
       IF ~para /\ r.passo + 1 < Passos(r.linha) /\ r.teto < MaxNsu
       THEN [r EXCEPT !.pc = "consultar", !.nsu = r.teto, !.passo = r.passo + 1,
                      !.resposta = "nenhuma", !.teto = 0]
       ELSE IF ~para /\ r.linha.diario /\ r.salvou
       THEN [r EXCEPT !.pc = "fechar", !.nsu = r.teto, !.resposta = "nenhuma", !.teto = 0]
       ELSE Seguinte(r)]
  /\ UNCHANGED <<status, modoSync, nsuInicial, armazenados, certificado, cooldown, verificacao,
                 adn, historia>>

\* The update after the loop of a daily batch in which every step found a document.
FecharLote(w) ==
  /\ run[w].pc = "fechar"
  /\ proximaExecucao' = [proximaExecucao EXCEPT ![run[w].linha.controle] = SuccessCooldown]
  /\ run' = [run EXCEPT ![w] = Seguinte(run[w])]
  /\ UNCHANGED <<status, modoSync, nsuInicial, ultimoNsuConsultado, armazenados, certificado,
                 cooldown, verificacao, adn, historia>>

-----------------------------------------------------------------------------
(* The operator, the nightly activation, the job and the environment       *)

Intervir == intervencoes < MaxIntervencoes /\ intervencoes' = intervencoes + 1

\* The due date of c is reset from outside; a claim in force is lost with it.
Reabrir(S) == reaberto' = [c \in Controles |-> reaberto[c] \/ (c \in S /\ \E w \in Workers : Ocupa(w, c))]

DoCliente(k) == {c \in Controles : ClienteDe[c] = k /\ status[c] # "inexistente"}

PausarSync(k) ==
  /\ Intervir
  /\ DoCliente(k) # {}
  /\ status' = [c \in Controles |-> IF c \in DoCliente(k) THEN "pausado" ELSE status[c]]
  /\ UNCHANGED <<modoSync, nsuInicial, ultimoNsuConsultado, proximaExecucao, armazenados,
                 certificado, run, cooldown, verificacao, adn, retorno, reaberto>>

RetomarSync(k) ==
  /\ Intervir
  /\ DoCliente(k) # {}
  /\ status' = [c \in Controles |-> IF c \in DoCliente(k) THEN "ativo" ELSE status[c]]
  /\ proximaExecucao' = [c \in Controles |-> IF c \in DoCliente(k) THEN 0 ELSE proximaExecucao[c]]
  /\ retorno' = [c \in Controles |-> IF c \in DoCliente(k) THEN 0 ELSE retorno[c]]
  /\ Reabrir(DoCliente(k))
  /\ UNCHANGED <<modoSync, nsuInicial, ultimoNsuConsultado, armazenados, certificado, run,
                 cooldown, verificacao, adn>>

\* buildActivationSchedule: at once when manual, within five minutes when nightly.
BuildActivationSchedule(origem) == IF origem = "noturna" THEN 0..ActivationJitter ELSE {0}

Origens(modo) == IF modo = "somente_novas" THEN {"manual", "noturna"} ELSE {"manual"}

\* activateSyncControlsForClient, one establishment of its loop: a row that exists
\* goes back to ativo, whatever its status, and keeps its NSU.
Reativar(c, modo, origem) ==
  /\ Intervir
  /\ status[c] # "inexistente"
  /\ status' = [status EXCEPT ![c] = "ativo"]
  /\ modoSync' = [modoSync EXCEPT ![c] = modo]
  /\ \E d \in BuildActivationSchedule(origem) : proximaExecucao' = [proximaExecucao EXCEPT ![c] = d]
  /\ retorno' = [retorno EXCEPT ![c] = 0]
  /\ Reabrir({c})
  /\ UNCHANGED <<nsuInicial, ultimoNsuConsultado, armazenados, certificado, run, cooldown,
                 verificacao, adn>>

\* resolveInitialNsuForOnlyNew: the last NSU among the stored documents that name the
\* CNPJ; they came through other controls of the client, so it may be any NSU.
NsusIniciais(modo) == IF modo = "somente_novas" THEN 0..MaxNsu ELSE {0}

CriarControle(c, modo, origem) ==
  /\ status[c] = "inexistente"
  /\ status' = [status EXCEPT ![c] = "ativo"]
  /\ modoSync' = [modoSync EXCEPT ![c] = modo]
  /\ \E n \in NsusIniciais(modo) :
       /\ ultimoNsuConsultado' = [ultimoNsuConsultado EXCEPT ![c] = n]
       /\ nsuInicial' = [nsuInicial EXCEPT ![c] = n + 1]
  /\ \E d \in BuildActivationSchedule(origem) : proximaExecucao' = [proximaExecucao EXCEPT ![c] = d]
  /\ UNCHANGED <<armazenados, certificado, run, cooldown, verificacao, adn, historia>>

\* VerificarCertificadosJob: findMany of the rows, then one row at a time.
IniciarVerificacao ==
  /\ verificacao = [ativos |-> {}, erros |-> {}]
  /\ verificacao' = [ativos |-> {c \in Controles : status[c] = "ativo"},
                     erros  |-> {c \in Controles : status[c] = "erro_certificado"}]
  /\ verificacao' # verificacao
  /\ UNCHANGED <<tabela, armazenados, certificado, run, cooldown, adn, historia>>

\* The job looks for a certificate of the establishment only.
JobVeCertificado(c) == certificado[c] = "estabelecimento"

VerificarAtivo(c) ==
  /\ c \in verificacao.ativos
  /\ verificacao' = [verificacao EXCEPT !.ativos = @ \ {c}]
  /\ status' = IF JobVeCertificado(c) THEN status ELSE [status EXCEPT ![c] = "erro_certificado"]
  /\ UNCHANGED <<modoSync, nsuInicial, ultimoNsuConsultado, proximaExecucao, armazenados,
                 certificado, run, cooldown, adn, historia>>

VerificarErro(c) ==
  /\ c \in verificacao.erros
  /\ verificacao' = [verificacao EXCEPT !.erros = @ \ {c}]
  /\ IF JobVeCertificado(c)
     THEN /\ status' = [status EXCEPT ![c] = "ativo"]
          /\ proximaExecucao' = [proximaExecucao EXCEPT ![c] = 0]
          /\ retorno' = [retorno EXCEPT ![c] = 0]
          /\ Reabrir({c})
     ELSE UNCHANGED <<status, proximaExecucao, retorno, reaberto>>
  /\ UNCHANGED <<modoSync, nsuInicial, ultimoNsuConsultado, armazenados, certificado, run,
                 cooldown, adn, intervencoes>>

\* A certificate is registered, linked, removed or expires.
TrocarCertificado(c, nivel) ==
  /\ Intervir
  /\ nivel # certificado[c]
  /\ certificado' = [certificado EXCEPT ![c] = nivel]
  /\ UNCHANGED <<tabela, armazenados, run, cooldown, verificacao, adn, retorno, reaberto>>

\* A process stops and starts again: its memory is lost, the claims stay in the table.
Reiniciar(p) ==
  /\ Intervir
  /\ run' = [w \in Workers |-> IF ProcessoDe[w] = p THEN Ocioso ELSE run[w]]
  /\ cooldown' = [cooldown EXCEPT ![p] = 0]
  /\ UNCHANGED <<tabela, armazenados, certificado, verificacao, adn, retorno, reaberto>>

\* The ADN assigns the NSUs of a CNPJ in increasing order, with or without gaps.
Publicar(c, n) ==
  /\ \A k \in publicados[c] : k < n
  /\ publicados' = [publicados EXCEPT ![c] = @ \union {n}]
  /\ UNCHANGED <<tabela, armazenados, certificado, run, cooldown, verificacao, vazios, recusados,
                 historia>>

Antes(t) == IF t = 0 THEN 0 ELSE t - 1

\* Time passes.  With DentroDoTtl a control is left before its claim runs out.
Tick ==
  /\ DentroDoTtl => \A w \in Workers : run[w].linha # Nenhum => run[w].prazo > 1
  /\ proximaExecucao' = [c \in Controles |-> Antes(proximaExecucao[c])]
  /\ retorno' = [c \in Controles |-> Antes(retorno[c])]
  /\ cooldown' = [p \in Processos |-> Antes(cooldown[p])]
  /\ run' = [w \in Workers |-> [run[w] EXCEPT !.prazo = IF DentroDoTtl THEN Antes(@) ELSE @]]
  /\ UNCHANGED <<status, modoSync, nsuInicial, ultimoNsuConsultado, armazenados, certificado,
                 verificacao, adn, reaberto, intervencoes>>

-----------------------------------------------------------------------------

Trabalhar(w) ==
  \/ \E l \in run[w].fila : Reservar(w, l) \/ IgnorarReservado(w, l)
  \/ SemCertificado(w) \/ ComCertificado(w)
  \/ ConsultarComLote(w) \/ ConsultarSemDocumento(w) \/ \E f \in Falhas : ConsultarComFalha(w, f)
  \/ FalhaDecifrar(w) \/ ErroTemporario(w) \/ LimiteExcedido(w) \/ SemDocumento(w)
  \/ (\E d \in run[w].lote : PersistirDocumento(w, d)) \/ FalhaPersistencia(w)
  \/ AvancarNsu(w) \/ FecharLote(w)

Operar ==
  \/ \E k \in Clientes : PausarSync(k) \/ RetomarSync(k)
  \/ \E c \in Controles : \E modo \in Modos : \E origem \in Origens(modo) :
       Reativar(c, modo, origem) \/ CriarControle(c, modo, origem)

Verificar == IniciarVerificacao \/ \E c \in Controles : VerificarAtivo(c) \/ VerificarErro(c)

Ambiente ==
  \/ \E c \in Controles, nivel \in Niveis : TrocarCertificado(c, nivel)
  \/ \E p \in Processos : Reiniciar(p)
  \/ \E c \in Controles, n \in 1..MaxNsu : Publicar(c, n)
  \/ Tick

Next == (\E w \in Workers : RunNow(w) \/ Trabalhar(w)) \/ Operar \/ Verificar \/ Ambiente

Spec == Init /\ [][Next]_vars

\* The automatic cycle starts a runNow again and again (setInterval), a runNow goes on
\* (its timeouts turn a silent ADN into an answer) and time passes.
FairSpec ==
  /\ Spec
  /\ WF_vars(Tick)
  /\ \A w \in Workers : WF_vars(RunNow(w)) /\ WF_vars(Trabalhar(w))

-----------------------------------------------------------------------------
(* Properties                                                              *)

\* README:249: a temporary error does not move the NSU "para evitar pulo de documentos".
\* No NSU that a control has left behind went without an answer: it was stored, or the
\* ADN said it holds nothing, or the ADN refused it with a definitive status.
CursorCoberto ==
  \A c \in Controles : \A n \in nsuInicial[c]..ultimoNsuConsultado[c] :
    n \in armazenados[c] \union vazios[c] \union recusados[c]

\* sync.service.ts:598 "ja foi reservado por outro worker": two executions of runNow
\* never work on one control at a time, unless an operator or the certificate job
\* reset the row's due date while it was held.
Exclusividade ==
  \A c \in Controles : \A v, w \in Workers :
    v # w /\ Ocupa(v, c) /\ Ocupa(w, c) => reaberto[c]

\* README:247: the cycle "respeita proximaExecucao quando houver backoff": nobody asks
\* the ADN for a control whose retry after a failure is not due.
BackoffRespeitado ==
  \A w \in Workers : run[w].pc = "consultar" =>
    retorno[run[w].linha.controle] = 0 \/ reaberto[run[w].linha.controle]

FalhasCessam ==
  <>[][\A w \in Workers : ~FalhaPersistencia(w) /\ \A f \in Falhas : ~ConsultarComFalha(w, f)]_vars

\* README:246: an active control enters the automatic cycle: once the ADN and the storage
\* stop failing, every published NSU of an active control is reached, whatever backoff,
\* cooldown, claim or restart came before.
PublicadoAlcancado ==
  FalhasCessam =>
    \A c \in Controles, n \in 1..MaxNsu :
      (n \in publicados[c] /\ nsuInicial[c] <= n /\ status[c] = "ativo")
        ~> (ultimoNsuConsultado[c] >= n \/ status[c] # "ativo")

\* The NSUs of each control that had their answer, for the abstract consumer.
Respondidos == [c \in Controles |-> armazenados[c] \union vazios[c] \union recusados[c]]

Consumo == INSTANCE ConsumoNsu WITH
  criados <- {c \in Controles : status[c] # "inexistente"},
  inicio <- nsuInicial,
  cursor <- ultimoNsuConsultado,
  respondidos <- Respondidos

\* The synchronisation, with its claims, retries, operators and restarts, does what an
\* incremental consumer promises.
ConsumoCorreto == Consumo!Spec
=============================================================================
