------------------------------- MODULE NfceSc -------------------------------
(***************************************************************************)
(* The distribution of NFC-e (model 65) by SEF/SC: NfceScService          *)
(* (src/src/modules/nfce-sc/nfce-sc.service.ts).  One row of               *)
(* nfce_sc_sync_controle carries two kinds of execution: the normal        *)
(* sequence, owned by proximaExecucao while status is 'processando', and   *)
(* the review of an interval of NSUs, owned by reprocessamentoLease while  *)
(* reprocessamentoStatus is.  Executions are background promises of        *)
(* several processes; requests of the operator read the row, decide and    *)
(* write it, with others in between.  Rows share nothing: one is modelled. *)
(*                                                                         *)
(* Failures: a process restarts, the database throws at any query, SEF/SC  *)
(* fails or sends an entry without a document, an execution outlives its   *)
(* lease.  A due date matters for two things, whether it has passed and    *)
(* whether it is the one an execution remembers: the row says the first,   *)
(* and an execution has lease = TRUE while the row carries its date.       *)
(***************************************************************************)
EXTENDS Integers, FiniteSets

CONSTANTS
  Processos,        \* Node processes
  Requisicoes,      \* requests of the operator that may be in flight
  Filtros, Nula,    \* values of indAtor, and null
  Intervalos,       \* intervals an operator may ask to review
  MaxNsu,           \* bound of the NSUs
  BatchSize         \* BATCH_SIZE, documents in a full answer (50)

ASSUME DadosAssumption ==
  /\ Nula \notin Filtros \union Processos
  /\ MaxNsu \in Nat /\ BatchSize \in Nat \ {0}
  /\ Intervalos \subseteq [inicial : 0..MaxNsu, final : 1..MaxNsu]
  /\ \A i \in Intervalos : i.inicial <= i.final

VARIABLES
  linha,            \* the row of nfce_sc_sync_controle
  persistidos,      \* NSUs whose document is stored
  revistos,         \* NSUs stored again by a review
  execucao,         \* [Processos -> local state of the background execution]
  requisicao,       \* [Requisicoes -> what a request has read and decided]
  publicados,       \* [Filtros -> NSUs of the documents that SEF/SC lets through]
  vazios            \* NSUs it passed over: no document for the filter, or an entry without one

sef  == <<publicados, vazios>>
vars == <<linha, persistidos, revistos, execucao, requisicao, sef>>

\* erro stands for erro_api, erro_autorizacao and erro_certificado, which this service treats
\* alike; erro_9999 is erro_api with a message that begins with "SEF/SC 9999:".
Erros       == {"erro", "erro_9999"}
Estados     == {"inexistente", "ativo", "pausado", "processando"} \union Erros
Prazos      == {"nula", "futura", "passada"}
EstadosRep  == {"nenhum", "processando", "pausado", "erro", "concluido"}
SemIntervalo == [inicial |-> 0, final |-> 0]

\* (rep stands for reprocessamento)
Linha == [status : Estados, indAtor : Filtros \union {Nula}, ultimoNsuConsultado : 0..MaxNsu,
          totalDocumentosBaixados : 0..MaxNsu + 1, proximaExecucao : Prazos,
          repStatus : EstadosRep, repIntervalo : Intervalos \union {SemIntervalo},
          repNsuAtual : 0..MaxNsu, repLease : Prazos]

Execucao ==
  [pc       : {"parada", "inicio", "renovar", "pedir", "persistir", "fechar", "erro", "excecao",
               "erroFinal"},
   tipo     : {"normal", "reprocessamento"},
   lease    : BOOLEAN,                  \* the row carries leaseUntil
   nsu      : 0..MaxNsu,                \* ultimoNsu sent: requestCursor
   final    : 0..MaxNsu,                \* nsuFinal
   ator     : Filtros \union {Nula},      \* control.indAtor
   lote     : SUBSET (1..MaxNsu),       \* result.documentos
   resta    : SUBSET (1..MaxNsu),       \* those still to persist
   cStat    : {"117", "118"} \union Erros]

Parada == [pc |-> "parada", tipo |-> "normal", lease |-> FALSE, nsu |-> 0, final |-> 0, ator |-> Nula,
           lote |-> {}, resta |-> {}, cStat |-> "118"]

Requisicao ==
  {[tipo |-> "livre"], [tipo |-> "pausar"]}
    \union [tipo : {"configurar"}, ator : Filtros]
    \union [tipo : {"consultar"}, ignoraData : BOOLEAN]
    \union [tipo : {"reprocessar"}, intervalo : Intervalos, atual : 0..MaxNsu]

Livre == [tipo |-> "livre"]

TypeOK ==
  /\ linha \in Linha
  /\ persistidos \subseteq 1..MaxNsu /\ revistos \subseteq 1..MaxNsu
  /\ execucao \in [Processos -> Execucao]
  /\ requisicao \in [Requisicoes -> Requisicao]
  /\ publicados \in [Filtros -> SUBSET (1..MaxNsu)]
  /\ vazios \subseteq 1..MaxNsu

Init ==
  /\ linha = [status |-> "inexistente", indAtor |-> Nula, ultimoNsuConsultado |-> 0,
              totalDocumentosBaixados |-> 0, proximaExecucao |-> "nula", repStatus |-> "nenhum",
              repIntervalo |-> SemIntervalo, repNsuAtual |-> 0, repLease |-> "nula"]
  /\ persistidos = {} /\ revistos = {}
  /\ execucao = [p \in Processos |-> Parada]
  /\ requisicao = [r \in Requisicoes |-> Livre]
  /\ publicados = [f \in Filtros |-> {}]
  /\ vazios = {}

-----------------------------------------------------------------------------
(* The row and the executions                                              *)

\* A new date in the row: the executions of these kinds, p apart, carry an older one.
Novo(E, tipos, p) ==
  [q \in Processos |-> IF q # p /\ E[q].tipo \in tipos THEN [E[q] EXCEPT !.lease = FALSE] ELSE E[q]]

Passa(p, e) == execucao' = [execucao EXCEPT ![p] = e]

\* The same, when p has written a new date that concerns these kinds.
PassaComData(p, e, tipos) == execucao' = Novo([execucao EXCEPT ![p] = e], tipos, p)

\* proximaExecucao is the lease of the normal sequence; a review writes both dates.
Datas(tipo) == IF tipo = "normal" THEN {"normal"} ELSE {"normal", "reprocessamento"}

Existe == linha.status # "inexistente"
Ocupada == linha.status = "processando" \/ linha.repStatus = "processando"

\* proximaExecucao is null or in the past.
Liberada == linha.proximaExecucao # "futura"

\* startBackgroundExecution, startBackgroundRecovery on the date just written: one execution
\* per control and process; when it is still busy, nobody starts.
Inicia(p, tipo) ==
  LET E == Novo(execucao, Datas(tipo), Nula) IN
  execucao' = IF execucao[p].pc = "parada"
              THEN [E EXCEPT ![p] = [Parada EXCEPT !.pc = "inicio", !.tipo = tipo, !.lease = TRUE]]
              ELSE E

\* The check of an execution that has read the row.
Reconhece(e) ==
  IF e.tipo = "normal"
  THEN linha.status = "processando" /\ e.lease
  ELSE linha.repStatus = "processando" /\ e.lease

\* Mutant: the writes look at the status only.
TitularSemLease(e) ==
  /\ IF e.tipo = "normal" THEN linha.status = "processando" ELSE linha.repStatus = "processando"
  /\ e.tipo = "reprocessamento" => linha.status # "processando"

\* The where clause of its writes.
Titular(e) == Reconhece(e) /\ (e.tipo = "reprocessamento" => linha.status # "processando")

Dono(p) == execucao[p].pc \in {"pedir", "persistir", "fechar", "erro"} /\ Titular(execucao[p])

Maximo(S, n) == CHOOSE m \in S \union {n} : \A k \in S \union {n} : k <= m

-----------------------------------------------------------------------------
(* The requests of the operator                                            *)

Recebe(r, pedido) ==
  /\ requisicao[r] = Livre
  /\ requisicao' = [requisicao EXCEPT ![r] = pedido]

Responde(r) == requisicao' = [requisicao EXCEPT ![r] = Livre]

LerConfiguracao(r, ator) ==
  /\ ~Ocupada
  /\ Recebe(r, [tipo |-> "configurar", ator |-> ator])
  /\ UNCHANGED <<linha, persistidos, revistos, execucao, sef>>

\* Mutant: a new configuration starts the sequence again.
GravarDoInicio(r) ==
  /\ requisicao[r].tipo = "configurar"
  /\ linha' = [linha EXCEPT !.status = "ativo", !.indAtor = requisicao[r].ator,
                            !.ultimoNsuConsultado = 0, !.proximaExecucao = "nula"]
  /\ execucao' = Novo(execucao, {"normal"}, Nula)
  /\ Responde(r)
  /\ UNCHANGED <<persistidos, revistos, sef>>

\* The upsert checks nothing again.
GravarConfiguracao(r) ==
  /\ requisicao[r].tipo = "configurar"
  /\ linha' = [linha EXCEPT !.status = "ativo", !.indAtor = requisicao[r].ator,
                            !.proximaExecucao = "nula"]
  /\ execucao' = Novo(execucao, {"normal"}, Nula)
  /\ Responde(r)
  /\ UNCHANGED <<persistidos, revistos, sef>>

Pause(r) ==
  /\ Existe
  /\ Recebe(r, [tipo |-> "pausar"])
  /\ linha' = [linha EXCEPT !.status = "pausado", !.proximaExecucao = "nula"]
  /\ execucao' = Novo(execucao, {"normal"}, Nula)
  /\ UNCHANGED <<persistidos, revistos, sef>>

\* The second statement of pause.
PausarReprocessamento(r) ==
  /\ requisicao[r].tipo = "pausar"
  /\ IF linha.repStatus = "processando"
     THEN /\ linha' = [linha EXCEPT !.repStatus = "pausado", !.repLease = "nula"]
          /\ execucao' = Novo(execucao, {"reprocessamento"}, Nula)
     ELSE UNCHANGED <<linha, execucao>>
  /\ Responde(r)
  /\ UNCHANGED <<persistidos, revistos, sef>>

LerRun(r) ==
  /\ Existe /\ ~Ocupada
  /\ Liberada \/ linha.status = "erro_9999"
  /\ Recebe(r, [tipo |-> "consultar", ignoraData |-> linha.status = "erro_9999"])
  /\ UNCHANGED <<linha, persistidos, revistos, execucao, sef>>

Run(r, p) ==
  /\ requisicao[r].tipo = "consultar"
  /\ IF ~Ocupada /\ (requisicao[r].ignoraData \/ Liberada)
     THEN /\ linha' = [linha EXCEPT !.status = "processando", !.proximaExecucao = "futura"]
          /\ Inicia(p, "normal")
     ELSE UNCHANGED <<linha, execucao>>
  /\ Responde(r)
  /\ UNCHANGED <<persistidos, revistos, sef>>

\* Mutant: no floor at zero.
AnteriorSemPiso(n) == n - 1

\* initialCursor
Anterior(n) == IF n > 0 THEN n - 1 ELSE 0

\* Mutant: any stopped review is resumed, whatever its interval.
RetomaQualquer(i) == linha.repStatus \in {"pausado", "erro"}

\* isResume: the same interval, stopped before its end.
Retoma(i) == linha.repIntervalo = i /\ linha.repStatus \in {"pausado", "erro"}

LerReprocessNsus(r, i) ==
  /\ Existe /\ ~Ocupada /\ Liberada
  /\ i.final <= linha.ultimoNsuConsultado
  /\ Recebe(r, [tipo |-> "reprocessar", intervalo |-> i,
                atual |-> IF Retoma(i) THEN linha.repNsuAtual ELSE Anterior(i.inicial)])
  /\ UNCHANGED <<linha, persistidos, revistos, execucao, sef>>

ReprocessNsus(r, p) ==
  /\ requisicao[r].tipo = "reprocessar"
  /\ IF ~Ocupada /\ Liberada
     THEN /\ linha' = [linha EXCEPT !.repStatus = "processando", !.repIntervalo = requisicao[r].intervalo,
                                    !.repNsuAtual = requisicao[r].atual, !.repLease = "futura",
                                    !.proximaExecucao = "futura"]
          /\ Inicia(p, "reprocessamento")
     ELSE UNCHANGED <<linha, execucao>>
  /\ Responde(r)
  /\ UNCHANGED <<persistidos, revistos, sef>>

\* The process of the request dies, or the database fails it.
Desistir(r) ==
  /\ requisicao[r] # Livre
  /\ Responde(r)
  /\ UNCHANGED <<linha, persistidos, revistos, execucao, sef>>

-----------------------------------------------------------------------------
(* resumeExpiredExecutions                                                 *)

ResumeExpired(p) ==
  /\ linha.status = "processando" /\ linha.proximaExecucao = "passada"
  /\ execucao[p].pc = "parada"
  /\ linha' = [linha EXCEPT !.proximaExecucao = "futura"]
  /\ Inicia(p, "normal")
  /\ UNCHANGED <<persistidos, revistos, requisicao, sef>>

\* Mutant: it looks for reviews of rows that are not paused.
RetomarRevisaoDeAtivo(p) ==
  /\ linha.status \notin {"processando", "pausado"}
  /\ linha.repStatus = "processando" /\ linha.repLease = "passada"
  /\ execucao[p].pc = "parada"
  /\ linha' = [linha EXCEPT !.proximaExecucao = "futura", !.repLease = "futura"]
  /\ Inicia(p, "reprocessamento")
  /\ UNCHANGED <<persistidos, revistos, requisicao, sef>>

ResumeExpiredRecovery(p) ==
  /\ linha.status # "processando" /\ linha.repStatus = "processando" /\ linha.repLease = "passada"
  /\ execucao[p].pc = "parada"
  /\ linha' = [linha EXCEPT !.proximaExecucao = "futura", !.repLease = "futura"]
  /\ Inicia(p, "reprocessamento")
  /\ UNCHANGED <<persistidos, revistos, requisicao, sef>>

-----------------------------------------------------------------------------
(* processAllAvailableBatches and processNsuRecovery                       *)

\* A review whose cursor is at the end of its interval only has to be finished.
LerControle(p) ==
  LET e == execucao[p]
      lido == [e EXCEPT !.ator = linha.indAtor] IN
  /\ e.pc = "inicio"
  /\ Passa(p, CASE ~Reconhece(e) -> Parada
                [] Reconhece(e) /\ e.tipo = "normal" ->
                     [lido EXCEPT !.pc = "renovar", !.nsu = linha.ultimoNsuConsultado]
                [] Reconhece(e) /\ e.tipo = "reprocessamento" ->
                     IF linha.repNsuAtual >= linha.repIntervalo.final
                     THEN [lido EXCEPT !.pc = "fechar", !.nsu = linha.repIntervalo.final,
                                       !.final = linha.repIntervalo.final, !.cStat = "117"]
                     ELSE [lido EXCEPT !.pc = "renovar", !.nsu = linha.repNsuAtual,
                                       !.final = linha.repIntervalo.final])
  /\ UNCHANGED <<linha, persistidos, revistos, requisicao, sef>>

RenovarLease(p) ==
  LET e == execucao[p] IN
  /\ e.pc = "renovar"
  /\ IF Titular(e)
     THEN /\ linha' = [linha EXCEPT !.proximaExecucao = "futura",
                                    !.repLease = IF e.tipo = "normal" THEN @ ELSE "futura"]
          /\ PassaComData(p, [e EXCEPT !.pc = "pedir"], Datas(e.tipo))
     ELSE Passa(p, Parada) /\ UNCHANGED linha
  /\ UNCHANGED <<persistidos, revistos, requisicao, sef>>

\* The entries of an answer: the first ones for the filter after the NSU sent, and maybe
\* earlier ones again.
Respostas(e) ==
  {D \in SUBSET publicados[e.ator] :
     /\ D # {} /\ Cardinality(D) <= BatchSize
     /\ \A n \in publicados[e.ator] \ D, m \in D : n <= e.nsu \/ m < n}

\* A review looks at what lies after the NSU sent, the normal sequence at the whole answer.
Considerados(e, L) == IF e.tipo = "normal" THEN L ELSE {n \in L : n > e.nsu}

\* Mutant: the normal sequence leaves the last document of a batch to the next one.
GravarSemUltimo(e, L) ==
  IF e.tipo = "normal" THEN {n \in L : \E m \in L : n < m} ELSE {n \in L : n <= e.final}

\* What the loop of the execution stores: a review leaves what lies after its interval.
AGravar(e, L) == IF e.tipo = "normal" THEN L ELSE {n \in L : n <= e.final}

\* cStat 118.  extractBatchEntries leaves out the entries without a document.
BaixarLote(p) ==
  LET e == execucao[p] IN
  /\ e.pc = "pedir"
  /\ \E D \in Respostas(e) : \E L \in SUBSET D :
       LET lote == Considerados(e, L) IN
       /\ Passa(p, [e EXCEPT !.pc = IF AGravar(e, lote) = {} THEN "fechar" ELSE "persistir",
                             !.lote = lote, !.resta = AGravar(e, lote), !.cStat = "118"])
       /\ vazios' = vazios \union (((e.nsu + 1)..Maximo(D, e.nsu)) \ L)
  /\ UNCHANGED <<linha, persistidos, revistos, requisicao, publicados>>

\* The answer is forgotten, and what was asked.
ComErro(e) == [Parada EXCEPT !.pc = "erro", !.tipo = e.tipo, !.lease = e.lease]

\* cStat 117 and the others; a review stops with an error on the others.
BaixarSemLote(p, cStat) ==
  LET e == execucao[p] IN
  /\ e.pc = "pedir"
  /\ cStat = "117" => \A n \in publicados[e.ator] : n <= e.nsu
  /\ Passa(p, IF cStat = "117" \/ e.tipo = "normal" THEN [e EXCEPT !.pc = "fechar", !.cStat = cStat]
              ELSE ComErro(e))
  /\ UNCHANGED <<linha, persistidos, revistos, requisicao, sef>>

\* The request fails, or (normal sequence) storing a document does.
Falhar(p) ==
  LET e == execucao[p] IN
  /\ e.pc = "pedir" \/ (e.pc = "persistir" /\ e.tipo = "normal")
  /\ Passa(p, ComErro(e))
  /\ UNCHANGED <<linha, persistidos, revistos, requisicao, sef>>

Cheio(e) == e.cStat = "118" /\ Cardinality(e.lote) = BatchSize

\* A full batch that leaves the cursor where it was; in a review that cannot be, because it
\* considers later documents only.
SemAvanco(e) == e.tipo = "normal" /\ Cheio(e) /\ Maximo(e.lote, e.nsu) = e.nsu

\* persistNfceScDocument, one document after the other.
Persistir(p) ==
  LET e == execucao[p] IN
  /\ e.pc = "persistir"
  /\ \E n \in e.resta :
       /\ \A m \in e.resta : n <= m
       /\ persistidos' = persistidos \union {n}
       /\ revistos' = IF e.tipo = "reprocessamento" THEN revistos \union {n} ELSE revistos
       /\ Passa(p, IF e.resta # {n} THEN [e EXCEPT !.resta = @ \ {n}]
                   ELSE IF SemAvanco(e) THEN ComErro(e)
                   ELSE [e EXCEPT !.resta = {}, !.pc = "fechar"])
  /\ UNCHANGED <<linha, requisicao, sef>>

\* The execution ends, or goes on on the date just written.
Segue(p, e, continua) ==
  PassaComData(p, IF continua THEN [Parada EXCEPT !.pc = "inicio", !.tipo = e.tipo, !.lease = TRUE]
                  ELSE Parada, Datas(e.tipo))

Estado(e) == IF Cheio(e) THEN "processando" ELSE IF e.cStat \in Erros THEN e.cStat ELSE "ativo"

\* The whole answer is counted, what SEF/SC sent again included.  (The count stops at MaxNsu + 1.)
FecharLote(p) ==
  LET e == execucao[p]
      total == linha.totalDocumentosBaixados + Cardinality(e.lote) IN
  /\ e.pc = "fechar" /\ e.tipo = "normal"
  /\ IF Titular(e)
     THEN /\ linha' = [linha EXCEPT !.status = Estado(e), !.ultimoNsuConsultado = Maximo(e.lote, e.nsu),
                                    !.totalDocumentosBaixados = IF total > MaxNsu THEN MaxNsu + 1 ELSE total,
                                    !.proximaExecucao = "futura"]
          /\ Segue(p, e, Cheio(e))
     ELSE Passa(p, Parada) /\ UNCHANGED linha
  /\ UNCHANGED <<persistidos, revistos, requisicao, sef>>

\* reprocessamentoNsuAtual after an answer: outOfRange moves it to the end of the interval,
\* unless nothing of the interval was in the answer.
AtualAposLote(e) ==
  LET gravados == AGravar(e, e.lote) IN
  IF gravados # {} /\ gravados # e.lote THEN e.final ELSE Maximo(gravados, e.nsu)

\* The interval is done: 117, nothing of it in the answer, past its end, or a short batch.
Completo(e) == ~Cheio(e) \/ AtualAposLote(e) >= e.final \/ AGravar(e, e.lote) = {}

FecharReprocessamento(p) ==
  LET e == execucao[p] IN
  /\ e.pc = "fechar" /\ e.tipo = "reprocessamento"
  /\ IF Titular(e)
     THEN /\ linha' = [linha EXCEPT !.repNsuAtual = AtualAposLote(e), !.proximaExecucao = "futura",
                                    !.repLease = IF Completo(e) THEN "nula" ELSE "futura",
                                    !.repStatus = IF Completo(e) THEN "concluido" ELSE @]
          /\ Segue(p, e, ~Completo(e))
     ELSE Passa(p, Parada) /\ UNCHANGED linha
  /\ UNCHANGED <<persistidos, revistos, requisicao, sef>>

\* stopAfterError
StopAfterError(p) ==
  LET e == execucao[p] IN
  /\ e.pc = "erro" /\ e.tipo = "normal"
  /\ IF Titular(e)
     THEN /\ linha' = [linha EXCEPT !.status = "erro", !.proximaExecucao = "futura"]
          /\ Segue(p, e, FALSE)
     ELSE Passa(p, Parada) /\ UNCHANGED linha
  /\ UNCHANGED <<persistidos, revistos, requisicao, sef>>

StopNsuRecoveryAfterError(p) ==
  LET e == execucao[p] IN
  /\ e.pc \in {"erro", "erroFinal"} /\ e.tipo = "reprocessamento"
  /\ IF Titular(e)
     THEN /\ linha' = [linha EXCEPT !.repStatus = "erro", !.repLease = "nula", !.proximaExecucao = "futura"]
          /\ Segue(p, e, FALSE)
     ELSE Passa(p, Parada) /\ UNCHANGED linha
  /\ UNCHANGED <<persistidos, revistos, requisicao, sef>>

\* A query throws, or storing a document of a review does.  The normal sequence is only
\* logged; the review goes through its catch, unless it is there already.
FalhaInterna(p) ==
  LET e == execucao[p] IN
  /\ \/ e.pc \in {"inicio", "renovar", "fechar", "erro", "excecao", "erroFinal"}
     \/ e.pc = "persistir" /\ e.tipo = "reprocessamento"
  /\ Passa(p, IF e.tipo = "normal" \/ e.pc \in {"excecao", "erroFinal"} THEN Parada
              ELSE [Parada EXCEPT !.pc = "excecao", !.tipo = e.tipo])
  /\ UNCHANGED <<linha, persistidos, revistos, requisicao, sef>>

\* The catch of a review takes the lease the row carries now, whoever holds it.
LerAposExcecao(p) ==
  /\ execucao[p].pc = "excecao"
  /\ Passa(p, IF linha.repStatus = "processando" /\ linha.repLease # "nula"
              THEN [execucao[p] EXCEPT !.pc = "erroFinal", !.lease = TRUE]
              ELSE Parada)
  /\ UNCHANGED <<linha, persistidos, revistos, requisicao, sef>>

-----------------------------------------------------------------------------
(* The environment                                                         *)

\* Time passes the dates of the row: both are the same when neither is null.
Vencer ==
  /\ "futura" \in {linha.proximaExecucao, linha.repLease}
  /\ linha' = [linha EXCEPT !.proximaExecucao = IF @ = "futura" THEN "passada" ELSE @,
                            !.repLease = IF @ = "futura" THEN "passada" ELSE @]
  /\ UNCHANGED <<persistidos, revistos, execucao, requisicao, sef>>

Reiniciar(p) ==
  /\ execucao[p] # Parada
  /\ Passa(p, Parada)
  /\ UNCHANGED <<linha, persistidos, revistos, requisicao, sef>>

\* SEF/SC assigns the NSUs of an interested party in increasing order.
Publicar(F, n) ==
  /\ \A f \in Filtros : \A k \in publicados[f] : k < n
  /\ publicados' = [f \in Filtros |-> IF f \in F THEN publicados[f] \union {n} ELSE publicados[f]]
  /\ UNCHANGED <<linha, persistidos, revistos, execucao, requisicao, vazios>>

-----------------------------------------------------------------------------

Trabalhar(p) ==
  \/ LerControle(p) \/ RenovarLease(p)
  \/ BaixarLote(p) \/ \E cStat \in {"117"} \union Erros : BaixarSemLote(p, cStat)
  \/ Falhar(p) \/ Persistir(p) \/ FecharLote(p) \/ FecharReprocessamento(p)
  \/ StopAfterError(p) \/ StopNsuRecoveryAfterError(p) \/ FalhaInterna(p) \/ LerAposExcecao(p)

Operar(r) ==
  \/ \E ator \in Filtros : LerConfiguracao(r, ator)
  \/ GravarConfiguracao(r) \/ Pause(r) \/ PausarReprocessamento(r) \/ LerRun(r)
  \/ \E i \in Intervalos : LerReprocessNsus(r, i)
  \/ \E p \in Processos : Run(r, p) \/ ReprocessNsus(r, p)
  \/ Desistir(r)

Ambiente ==
  \/ Vencer
  \/ \E p \in Processos : Reiniciar(p)
  \/ \E F \in (SUBSET Filtros) \ {{}}, n \in 1..MaxNsu : Publicar(F, n)

Next ==
  \/ \E p \in Processos : Trabalhar(p) \/ ResumeExpired(p) \/ ResumeExpiredRecovery(p)
  \/ \E r \in Requisicoes : Operar(r)
  \/ Ambiente

Spec == Init /\ [][Next]_vars

\* The timer of line 37 looks for expired leases every 30 seconds, executions go on (the
\* request has a timeout) and time passes.  Requests may hang for ever.
FairSpec ==
  /\ Spec
  /\ WF_vars(Vencer)
  /\ \A p \in Processos :
       WF_vars(Trabalhar(p)) /\ WF_vars(ResumeExpired(p)) /\ WF_vars(ResumeExpiredRecovery(p))

-----------------------------------------------------------------------------
(* Properties                                                              *)

\* The two kinds of execution exclude each other on the row, and of all the executions that
\* hold a lease, in whatever process and of whatever kind, one at most still owns it, also
\* after leases ran out, pauses between two statements and requests decided on an old row.
TitularUnico ==
  /\ ~(linha.status = "processando" /\ linha.repStatus = "processando")
  /\ \A p, q \in Processos : Dono(p) /\ Dono(q) => p = q

\* docs/nfce-sc.md:15 "nao retrocede nem altera o cursor normal": the cursor never moves back.
\* A takeover writes a new lease, so this needs no bound on how long an execution lasts.
CursorNaoRegride == [][linha'.ultimoNsuConsultado >= linha.ultimoNsuConsultado]_vars

\* The documents of a batch that SEF/SC sent although the cursor was past them.
Repetidos(e) == {n \in e.lote : n <= e.nsu}

\* The count of a control grows in the owner's write only, by no more than the stored documents
\* this write moves the cursor past and those that SEF/SC sent again: a batch asked for again
\* after a failure or a takeover, and a review, count nothing twice of themselves.
ContagemUnica ==
  [][linha'.totalDocumentosBaixados # linha.totalDocumentosBaixados =>
       \E p \in Processos :
         /\ Dono(p) /\ execucao[p].tipo = "normal"
         /\ linha'.totalDocumentosBaixados - linha.totalDocumentosBaixados
              <= Cardinality({n \in persistidos : /\ linha.ultimoNsuConsultado < n
                                                  /\ n <= linha'.ultimoNsuConsultado})
                 + Cardinality(Repetidos(execucao[p]))]_vars

\* docs/nfce-sc.md:15 "pausar/retomar preserva o intervalo": between the first NSU of the
\* interval on the row and the review's cursor everything was stored again, or SEF/SC had
\* nothing there, although a resumed review starts from a cursor read before others wrote it.
IntervaloRevisto ==
  linha.repStatus # "nenhum" =>
    \A n \in 1..linha.repNsuAtual : n >= linha.repIntervalo.inicial => n \in revistos \union vazios

\* An execution that finds its lease gone, and ends.
Abandona(p) ==
  ~Titular(execucao[p]) /\ (LerControle(p) \/ RenovarLease(p) \/ FecharLote(p) \/ FecharReprocessamento(p)
                             \/ StopAfterError(p) \/ StopNsuRecoveryAfterError(p))

\* Restarts and failures of the database come to an end.
FalhasCessam ==
  <>[][\A p \in Processos : FalhaInterna(p) \/ Reiniciar(p) => Abandona(p) \/ LerAposExcecao(p)]_vars

\* From some time on the executions under way are faster than their leases.
LeaseBasta ==
  <>[][\A p \in Processos :
         execucao[p].pc # "parada" /\ Titular(execucao[p]) => ~Vencer]_vars

\* docs/nfce-sc.md:13 and :15 "Se o servidor reiniciar, a consulta e retomada": whoever died, was
\* overtaken or found the process busy with the other kind, a row in 'processando' moves on.
Retomada ==
  FalhasCessam /\ LeaseBasta =>
    \A n \in 0..MaxNsu :
      /\ (linha.status = "processando" /\ linha.ultimoNsuConsultado = n)
           ~> (linha.status # "processando" \/ linha.ultimoNsuConsultado # n)
      /\ (linha.repStatus = "processando" /\ linha.repNsuAtual = n)
           ~> (linha.repStatus # "processando" \/ linha.repNsuAtual # n)

Consumo == INSTANCE ConsumoNsu WITH
  Controles <- {"controle"},
  criados <- IF Existe THEN {"controle"} ELSE {},
  inicio <- [c \in {"controle"} |-> 1],
  cursor <- [c \in {"controle"} |-> linha.ultimoNsuConsultado],
  respondidos <- [c \in {"controle"} |-> persistidos \union vazios]

\* The normal sequence, with reviews next to it, does what an incremental consumer promises.
ConsumoCorreto == Consumo!Spec
=============================================================================
