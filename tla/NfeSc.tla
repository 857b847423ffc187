------------------------------- MODULE NfeSc -------------------------------
(***************************************************************************)
(* The distribution of NF-e (model 55) by SEF/SC: NfeScService             *)
(* (src/src/modules/nfe-sc/nfe-sc.service.ts).  A control is a row of      *)
(* nfe_sc_sync_controle.  An execution is a background promise of one      *)
(* process; it owns the row while the row is 'processando' and its due     *)
(* date is the lease the execution wrote last, and every write of it is an *)
(* updateMany that requires this.  Several processes may run.              *)
(*                                                                         *)
(* A date matters for two things only: whether it is the one an execution  *)
(* remembers, and whether it has passed.  So a due date is a member of     *)
(* Datas, a new one is none that anybody remembers (the clock has moved),  *)
(* and vencida[c] says that it has passed.                                 *)
(***************************************************************************)
EXTENDS Integers, FiniteSets

CONSTANTS
  Controles,        \* rows of nfe_sc_sync_controle
  Processos,        \* Node processes
  Datas, Nula,      \* due dates, and null
  Filtros,          \* values of indAtor
  MaxNsu,           \* bound of the NSUs
  BatchSize,        \* documents in a full answer (50)
  MaxIntervencoes,  \* bound of the operator's calls and the restarts
  DentroDoLease     \* an execution never works past the lease it renewed

ASSUME DadosAssumption ==
  /\ Nula \notin Datas \union Filtros
  /\ MaxNsu \in Nat /\ BatchSize \in Nat \ {0} /\ MaxIntervencoes \in Nat
  /\ DentroDoLease \in BOOLEAN

VARIABLES
  \* nfe_sc_sync_controle
  status, indAtor, ultimoNsuConsultado, totalDocumentosBaixados, proximaExecucao, vencida,
  persistidos,      \* NSUs whose NF-e or event is stored
  rastreados,       \* nfe_sc_documentos_distribuidos: the NSUs paired with a document
  \* memory of the processes
  execucao,         \* [Processos -> [Controles -> local state of processAllAvailableBatches]]
  configuracao,     \* a configure that has read the row and not yet written it
  \* SEF/SC, and what it has answered
  publicados,       \* [Controles -> [Filtros -> NSUs of documents the filter lets through]]
  vazios,           \* NSUs it passed over, having no document for the filter
  intervencoes

linha == <<status, indAtor, ultimoNsuConsultado, totalDocumentosBaixados, proximaExecucao, vencida>>
dados == <<persistidos, rastreados>>
sef   == <<publicados, vazios>>
vars  == <<linha, dados, execucao, configuracao, sef, intervencoes>>

Nenhuma == [controle |-> Nula]

Estados   == {"inexistente", "ativo", "pausado", "processando", "erro_api", "erro_autorizacao", "erro_certificado"}
Desfechos == {"ativo", "erro_api", "erro_autorizacao", "erro_certificado", "suspenso"}

Execucao ==
  [pc       : {"parada", "inicio", "renovar", "pedir", "persistir", "rastrear", "fechar", "erro",
               "excecao", "erroFinal"},
   lease    : Datas \union {Nula},       \* leaseUntil
   nsu      : 0..MaxNsu,                 \* control.ultimoNsuConsultado, then cursor
   ator     : Filtros \union {Nula},       \* control.indAtor
   docs     : SUBSET (1..MaxNsu),        \* documents of the answer still to process
   continua : BOOLEAN,                   \* shouldContinue
   desfecho : Desfechos]

Parada == [pc |-> "parada", lease |-> Nula, nsu |-> 0, ator |-> Nula, docs |-> {}, continua |-> FALSE,
           desfecho |-> "ativo"]

TypeOK ==
  /\ status \in [Controles -> Estados]
  /\ indAtor \in [Controles -> Filtros \union {Nula}]
  /\ ultimoNsuConsultado \in [Controles -> 0..MaxNsu]
  /\ totalDocumentosBaixados \in [Controles -> 0..MaxNsu + 1]
  /\ proximaExecucao \in [Controles -> Datas \union {Nula}]
  /\ vencida \in [Controles -> BOOLEAN]
  /\ persistidos \in [Controles -> SUBSET (1..MaxNsu)]
  /\ rastreados \in [Controles -> SUBSET (1..MaxNsu)]
  /\ execucao \in [Processos -> [Controles -> Execucao]]
  /\ configuracao \in {Nenhuma} \union [controle : Controles, ator : Filtros]
  /\ publicados \in [Controles -> [Filtros -> SUBSET (1..MaxNsu)]]
  /\ vazios \in [Controles -> SUBSET (1..MaxNsu)]
  /\ intervencoes \in 0..MaxIntervencoes

Init ==
  /\ status = [c \in Controles |-> "inexistente"]
  /\ indAtor = [c \in Controles |-> Nula]
  /\ ultimoNsuConsultado = [c \in Controles |-> 0]
  /\ totalDocumentosBaixados = [c \in Controles |-> 0]
  /\ proximaExecucao = [c \in Controles |-> Nula]
  /\ vencida = [c \in Controles |-> FALSE]
  /\ persistidos = [c \in Controles |-> {}]
  /\ rastreados = [c \in Controles |-> {}]
  /\ execucao = [p \in Processos |-> [c \in Controles |-> Parada]]
  /\ configuracao = Nenhuma
  /\ publicados = [c \in Controles |-> [f \in Filtros |-> {}]]
  /\ vazios = [c \in Controles |-> {}]
  /\ intervencoes = 0

-----------------------------------------------------------------------------
(* Dates and executions                                                    *)

\* A date later than any that somebody remembers for this control.
Novas(c) == Datas \ ({proximaExecucao[c]} \union {execucao[p][c].lease : p \in Processos})

\* The row waits for the date d, which has not passed.
Agenda(c, d) ==
  /\ proximaExecucao' = [proximaExecucao EXCEPT ![c] = d]
  /\ vencida' = [vencida EXCEPT ![c] = FALSE]

Passa(p, c, e) == execucao' = [execucao EXCEPT ![p] = [@ EXCEPT ![c] = e]]

\* A fence that forgets the lease.
TitularSemLease(p, c) == status[c] = "processando"

\* The where clause of the writes: the row still carries this execution's lease.
Titular(p, c) == status[c] = "processando" /\ proximaExecucao[c] = execucao[p][c].lease

\* The execution has renewed its lease, and the row still carries it.
Dono(p, c) ==
  /\ execucao[p][c].pc \in {"pedir", "persistir", "rastrear", "fechar", "erro"}
  /\ Titular(p, c)

\* startBackgroundExecution: at most one execution per control and process.
Inicia(p, c, d) ==
  IF execucao[p][c].pc = "parada"
  THEN Passa(p, c, [Parada EXCEPT !.pc = "inicio", !.lease = d])
  ELSE UNCHANGED execucao

Intervir == intervencoes < MaxIntervencoes /\ intervencoes' = intervencoes + 1

-----------------------------------------------------------------------------
(* The operator                                                            *)

\* configure reads the row and decides ...
LerConfiguracao(c, ator) ==
  /\ Intervir
  /\ configuracao = Nenhuma
  /\ status[c] # "processando"
  /\ ultimoNsuConsultado[c] > 0 => indAtor[c] = ator
  /\ configuracao' = [controle |-> c, ator |-> ator]
  /\ UNCHANGED <<linha, dados, execucao, sef>>

\* ... and upserts it, whatever it has become.
GravarConfiguracao(c) ==
  /\ configuracao # Nenhuma /\ configuracao.controle = c
  /\ status' = [status EXCEPT ![c] = "ativo"]
  /\ indAtor' = [indAtor EXCEPT ![c] = configuracao.ator]
  /\ configuracao' = Nenhuma
  /\ UNCHANGED <<ultimoNsuConsultado, totalDocumentosBaixados, proximaExecucao, vencida, dados,
                 execucao, sef, intervencoes>>

Pause(c) ==
  /\ Intervir
  /\ status[c] # "inexistente"
  /\ status' = [status EXCEPT ![c] = "pausado"]
  /\ proximaExecucao' = [proximaExecucao EXCEPT ![c] = Nula]
  /\ vencida' = [vencida EXCEPT ![c] = FALSE]
  /\ UNCHANGED <<indAtor, ultimoNsuConsultado, totalDocumentosBaixados, dados, execucao,
                 configuracao, sef>>

\* A run that forgets the controls whose wait is over.
VencidoSoNovo(c) == status[c] = "ativo" /\ proximaExecucao[c] = Nula

\* What the updateMany of run requires.
Vencido(c) ==
  \/ status[c] = "ativo" /\ proximaExecucao[c] = Nula
  \/ status[c] \notin {"inexistente", "processando"} /\ proximaExecucao[c] # Nula /\ vencida[c]

Run(p, c) ==
  /\ Vencido(c)
  /\ \E d \in Novas(c) :
       /\ Agenda(c, d)
       /\ Inicia(p, c, d)
  /\ status' = [status EXCEPT ![c] = "processando"]
  /\ UNCHANGED <<indAtor, ultimoNsuConsultado, totalDocumentosBaixados, dados, configuracao, sef,
                 intervencoes>>

\* startDueConfiguredControls
RunAutomatico(p, c) == status[c] \in {"ativo", "erro_api"} /\ Run(p, c)

\* A recovery that looks for the wrong status.
ExpiradaAtiva(c) == status[c] = "ativo" /\ proximaExecucao[c] # Nula /\ vencida[c]

\* resumeExpiredExecutions: the lease of an execution has run out.
Expirada(c) == status[c] = "processando" /\ proximaExecucao[c] # Nula /\ vencida[c]

ResumeExpired(p, c) ==
  /\ Expirada(c)
  /\ execucao[p][c].pc = "parada"
  /\ Inicia(p, c, proximaExecucao[c])
  /\ UNCHANGED <<linha, dados, configuracao, sef, intervencoes>>

-----------------------------------------------------------------------------
(* processAllAvailableBatches                                              *)

LerControle(p, c) ==
  LET e == execucao[p][c] IN
  /\ e.pc = "inicio"
  /\ Passa(p, c, IF Titular(p, c)
                 THEN [e EXCEPT !.pc = "renovar", !.nsu = ultimoNsuConsultado[c], !.ator = indAtor[c]]
                 ELSE Parada)
  /\ UNCHANGED <<linha, dados, configuracao, sef, intervencoes>>

\* A renewal that checks the lease and writes the same one.
RenovarMesmaLease(p, c) ==
  /\ execucao[p][c].pc = "renovar"
  /\ Passa(p, c, IF Titular(p, c) THEN [execucao[p][c] EXCEPT !.pc = "pedir"] ELSE Parada)
  /\ UNCHANGED <<linha, dados, configuracao, sef, intervencoes>>

\* Each turn of the loop renews the lease first.
RenovarLease(p, c) ==
  LET e == execucao[p][c] IN
  /\ e.pc = "renovar"
  /\ IF Titular(p, c)
     THEN \E d \in Novas(c) :
            /\ Agenda(c, d)
            /\ Passa(p, c, [e EXCEPT !.pc = "pedir", !.lease = d])
     ELSE Passa(p, c, Parada) /\ UNCHANGED <<proximaExecucao, vencida>>
  /\ UNCHANGED <<status, indAtor, ultimoNsuConsultado, totalDocumentosBaixados, dados,
                 configuracao, sef, intervencoes>>

\* The documents an answer may hold: the first ones for the filter after the NSU sent, and
\* maybe earlier ones again.
Respostas(c, e) ==
  {D \in SUBSET publicados[c][e.ator] :
     /\ D # {} /\ Cardinality(D) <= BatchSize
     /\ \A n \in publicados[c][e.ator] \ D, m \in D : n <= e.nsu \/ m < n}

\* cStat 118.  What lies between the documents has nothing for this filter.
BaixarLote(p, c) ==
  LET e == execucao[p][c] IN
  /\ e.pc = "pedir"
  /\ \E D \in Respostas(c, e) :
       /\ Passa(p, c, [e EXCEPT !.pc = "persistir", !.docs = D, !.desfecho = "ativo",
                                !.continua = Cardinality(D) = BatchSize])
       /\ vazios' = [vazios EXCEPT ![c] = @ \union
            {n \in (e.nsu + 1)..MaxNsu : (\E m \in D : n < m) /\ n \notin publicados[c][e.ator]}]
  /\ UNCHANGED <<linha, dados, configuracao, publicados, intervencoes>>

\* cStat 117 (ativo) and the others: 632 is suspenso, without a next date.
BaixarSemLote(p, c, desfecho) ==
  LET e == execucao[p][c] IN
  /\ e.pc = "pedir"
  /\ desfecho = "ativo" => \A n \in publicados[c][e.ator] : n <= e.nsu
  /\ Passa(p, c, [e EXCEPT !.pc = "fechar", !.continua = FALSE, !.desfecho = desfecho])
  /\ UNCHANGED <<linha, dados, configuracao, sef, intervencoes>>

\* Transport or certificate failure, an inconsistent answer, an invalid document.
Falhar(p, c) ==
  LET e == execucao[p][c] IN
  /\ e.pc \in {"pedir", "persistir", "rastrear"}
  /\ Passa(p, c, [e EXCEPT !.pc = "erro", !.docs = {}])
  /\ UNCHANGED <<linha, dados, configuracao, sef, intervencoes>>

\* The answer in descending order.
Derradeiro(e, n) == n \in e.docs /\ \A m \in e.docs : m <= n

\* The document the loop is at: extractBatchEntries sorts them.
Primeiro(e, n) == n \in e.docs /\ \A m \in e.docs : n <= m

\* persistSefScNfeDocument
Persistir(p, c) ==
  LET e == execucao[p][c] IN
  /\ e.pc = "persistir"
  /\ \E n \in 1..MaxNsu :
       /\ Primeiro(e, n) /\ n > e.nsu
       /\ persistidos' = [persistidos EXCEPT ![c] = @ \union {n}]
  /\ Passa(p, c, [e EXCEPT !.pc = "rastrear"])
  /\ UNCHANGED <<linha, rastreados, configuracao, sef, intervencoes>>

\* document.nsu <= cursor
ForaDeOrdem(p, c) ==
  LET e == execucao[p][c] IN
  /\ e.pc = "persistir"
  /\ \E n \in 1..MaxNsu : Primeiro(e, n) /\ n <= e.nsu
  /\ Passa(p, c, [e EXCEPT !.pc = "erro", !.docs = {}])
  /\ UNCHANGED <<linha, dados, configuracao, sef, intervencoes>>

\* A cursor that rests on the next NSU to ask for.
AvancaAlem(c, n) ==
  /\ ultimoNsuConsultado' = [ultimoNsuConsultado EXCEPT ![c] = n + 1]
  /\ UNCHANGED totalDocumentosBaixados

\* The cursor and the count of one more document (the count stops at MaxNsu + 1).
Avanca(c, n) ==
  /\ ultimoNsuConsultado' = [ultimoNsuConsultado EXCEPT ![c] = n]
  /\ totalDocumentosBaixados' =
       [totalDocumentosBaixados EXCEPT ![c] = IF @ > MaxNsu THEN @ ELSE @ + 1]

\* The transaction: the pair is recorded also when the row belongs to another by now.
Rastrear(p, c) ==
  LET e == execucao[p][c] IN
  /\ e.pc = "rastrear"
  /\ \E n \in 1..MaxNsu :
       /\ Primeiro(e, n)
       /\ rastreados' = [rastreados EXCEPT ![c] = @ \union {n}]
       /\ IF Titular(p, c)
          THEN /\ Avanca(c, n)
               /\ Passa(p, c, [e EXCEPT !.pc = IF e.docs = {n} THEN "fechar" ELSE "persistir",
                                        !.nsu = n, !.docs = @ \ {n}])
          ELSE Passa(p, c, Parada) /\ UNCHANGED <<ultimoNsuConsultado, totalDocumentosBaixados>>
  /\ UNCHANGED <<status, indAtor, proximaExecucao, vencida, persistidos, configuracao, sef,
                 intervencoes>>

\* A full batch: a new lease, and the next request.
Continuar(p, c) ==
  LET e == execucao[p][c] IN
  /\ e.pc = "fechar" /\ e.continua
  /\ IF Titular(p, c)
     THEN \E d \in Novas(c) :
            /\ Agenda(c, d)
            /\ Passa(p, c, [Parada EXCEPT !.pc = "inicio", !.lease = d])
     ELSE Passa(p, c, Parada) /\ UNCHANGED <<proximaExecucao, vencida>>
  /\ UNCHANGED <<status, indAtor, ultimoNsuConsultado, totalDocumentosBaixados, dados,
                 configuracao, sef, intervencoes>>

\* The row gets a status and waits for a date; suspenso has none.
Encerra(c, desfecho) ==
  /\ status' = [status EXCEPT ![c] = IF desfecho = "suspenso" THEN "erro_api" ELSE desfecho]
  /\ IF desfecho = "suspenso"
     THEN /\ proximaExecucao' = [proximaExecucao EXCEPT ![c] = Nula]
          /\ vencida' = [vencida EXCEPT ![c] = FALSE]
     ELSE \E d \in Novas(c) : Agenda(c, d)

Encerrar(p, c) ==
  LET e == execucao[p][c] IN
  /\ e.pc = "fechar" /\ ~e.continua
  /\ IF Titular(p, c) THEN Encerra(c, e.desfecho) ELSE UNCHANGED <<status, proximaExecucao, vencida>>
  /\ Passa(p, c, Parada)
  /\ UNCHANGED <<indAtor, ultimoNsuConsultado, totalDocumentosBaixados, dados, configuracao, sef,
                 intervencoes>>

StopAfterError(p, c) ==
  /\ execucao[p][c].pc \in {"erro", "erroFinal"}
  /\ IF Titular(p, c) THEN Encerra(c, "erro_api") ELSE UNCHANGED <<status, proximaExecucao, vencida>>
  /\ Passa(p, c, Parada)
  /\ UNCHANGED <<indAtor, ultimoNsuConsultado, totalDocumentosBaixados, dados, configuracao, sef,
                 intervencoes>>

\* A query to the database throws: the catch of startBackgroundExecution, which gives up
\* when it fails itself.
FalhaInterna(p, c) ==
  LET e == execucao[p][c] IN
  /\ e.pc \in {"inicio", "renovar", "fechar", "erro", "excecao", "erroFinal"}
  /\ Passa(p, c, IF e.pc \in {"excecao", "erroFinal"} THEN Parada ELSE [e EXCEPT !.pc = "excecao", !.docs = {}])
  /\ UNCHANGED <<linha, dados, configuracao, sef, intervencoes>>

\* The catch takes the lease the row carries now, which may be another execution's.
LerAposExcecao(p, c) ==
  /\ execucao[p][c].pc = "excecao"
  /\ Passa(p, c, IF status[c] = "processando" /\ proximaExecucao[c] # Nula
                 THEN [execucao[p][c] EXCEPT !.pc = "erroFinal", !.lease = proximaExecucao[c]]
                 ELSE Parada)
  /\ UNCHANGED <<linha, dados, configuracao, sef, intervencoes>>

-----------------------------------------------------------------------------
(* The environment                                                         *)

\* Time passes the due date.
Vencer(c) ==
  /\ proximaExecucao[c] # Nula /\ ~vencida[c]
  /\ DentroDoLease => \A p \in Processos : ~Dono(p, c)
  /\ vencida' = [vencida EXCEPT ![c] = TRUE]
  /\ UNCHANGED <<status, indAtor, ultimoNsuConsultado, totalDocumentosBaixados, proximaExecucao,
                 dados, execucao, configuracao, sef, intervencoes>>

Reiniciar(p) ==
  /\ Intervir
  /\ execucao' = [execucao EXCEPT ![p] = [c \in Controles |-> Parada]]
  /\ UNCHANGED <<linha, dados, configuracao, sef>>

\* SEF/SC assigns the NSUs of an interested party in increasing order.
Publicar(c, F, n) ==
  /\ \A f \in Filtros : \A k \in publicados[c][f] : k < n
  /\ publicados' = [publicados EXCEPT ![c] =
                      [f \in Filtros |-> IF f \in F THEN @[f] \union {n} ELSE @[f]]]
  /\ UNCHANGED <<linha, dados, execucao, configuracao, vazios, intervencoes>>

-----------------------------------------------------------------------------

Trabalhar(p, c) ==
  \/ LerControle(p, c) \/ RenovarLease(p, c)
  \/ BaixarLote(p, c) \/ \E desfecho \in Desfechos : BaixarSemLote(p, c, desfecho)
  \/ Falhar(p, c) \/ Persistir(p, c) \/ ForaDeOrdem(p, c) \/ Rastrear(p, c)
  \/ Continuar(p, c) \/ Encerrar(p, c) \/ StopAfterError(p, c)
  \/ FalhaInterna(p, c) \/ LerAposExcecao(p, c)

Operar ==
  \E c \in Controles :
    \/ \E ator \in Filtros : LerConfiguracao(c, ator)
    \/ GravarConfiguracao(c) \/ Pause(c)
    \/ \E p \in Processos : Run(p, c) \/ ResumeExpired(p, c)

Ambiente ==
  \/ \E c \in Controles :
       Vencer(c) \/ \E F \in (SUBSET Filtros) \ {{}}, n \in 1..MaxNsu : Publicar(c, F, n)
  \/ \E p \in Processos : Reiniciar(p)

Next == (\E p \in Processos, c \in Controles : Trabalhar(p, c)) \/ Operar \/ Ambiente

Spec == Init /\ [][Next]_vars

\* The timer starts what is due and what has expired, executions go on (a silent SEF/SC
\* becomes an exception) and time passes.
FairSpec ==
  /\ Spec
  /\ \A c \in Controles : WF_vars(Vencer(c))
  /\ \A p \in Processos, c \in Controles :
       WF_vars(Trabalhar(p, c)) /\ WF_vars(RunAutomatico(p, c)) /\ WF_vars(ResumeExpired(p, c))

-----------------------------------------------------------------------------
(* Properties                                                              *)

\* docs/nfe-sc.md:36 "O cursor so avanca depois que o documento e validado ..., persistido
\* ... e o par controle/NSU/documento e gravado": nothing up to the cursor lacks its pair,
\* unless SEF/SC passed over it.
CursorRastreado ==
  \A c \in Controles : \A n \in 1..ultimoNsuConsultado[c] :
    n \in vazios[c] \/ (n \in rastreados[c] /\ n \in persistidos[c])

\* While no execution works past the lease it renewed (DentroDoLease), the cursor does not move
\* back, although its owner writes from a row it read before its renewal, next to executions that
\* died, failed, were paused or never came to renew.  Past its lease one can move it back: of two
\* executions started on one expired lease the second reads the cursor, the first moves it, and
\* the second renews and writes from what it had read.
CursorNaoRegride ==
  [][\A c \in Controles : ultimoNsuConsultado'[c] >= ultimoNsuConsultado[c]]_vars

\* A document that two executions handled, or that was asked for again after a restart, is
\* counted once, while no execution works past the lease it renewed (DentroDoLease).
ContagemUnica ==
  \A c \in Controles :
    totalDocumentosBaixados[c] <= Cardinality({n \in rastreados[c] : n <= ultimoNsuConsultado[c]})

\* "O consumidor conserva leases": of the executions that renewed their lease, one at most
\* still owns the row, also when both were started on the same expired lease.
UmTitular ==
  \A c \in Controles : \A p, q \in Processos :
    Dono(p, c) /\ Dono(q, c) => p = q

BancoVolta == <>[][\A p \in Processos, c \in Controles : ~FalhaInterna(p, c)]_vars

\* A row in 'processando' is never left behind: whoever died, was overtaken or found the
\* control busy, the row leaves that status or its cursor moves, once the database answers.
Retomada ==
  BancoVolta =>
    \A c \in Controles, n \in 0..MaxNsu :
      (status[c] = "processando" /\ ultimoNsuConsultado[c] = n)
        ~> (status[c] # "processando" \/ ultimoNsuConsultado[c] # n)

FalhasCessam ==
  <>[][\A p \in Processos, c \in Controles :
         /\ ~Falhar(p, c) /\ ~ForaDeOrdem(p, c) /\ ~FalhaInterna(p, c)
         /\ \A d \in Desfechos \ {"ativo"} : ~BaixarSemLote(p, c, d)]_vars

Agendavel(c) ==
  \/ status[c] \in {"ativo", "processando"}
  \/ status[c] = "erro_api" /\ proximaExecucao[c] # Nula

Alcancado(c, n) ==
  ultimoNsuConsultado[c] >= n \/ indAtor[c] = Nula \/ n \notin publicados[c][indAtor[c]]

\* With automatic polling, once SEF/SC and the database stop failing, every document for
\* the filter of a control is reached, unless the control is paused, suspended or refused.
DocumentoAlcancado ==
  FalhasCessam =>
    \A c \in Controles, n \in 1..MaxNsu :
      Agendavel(c) ~> (Alcancado(c, n) \/ ~Agendavel(c))

Consumo == INSTANCE ConsumoNsu WITH
  criados <- {c \in Controles : status[c] # "inexistente"},
  inicio <- [c \in Controles |-> 1],
  cursor <- ultimoNsuConsultado,
  respondidos <- [c \in Controles |-> persistidos[c] \union vazios[c]]

\* The distribution does what an incremental consumer promises.
ConsumoCorreto == Consumo!Spec
=============================================================================
