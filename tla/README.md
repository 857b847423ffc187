# NotaSync: TLA+ verification project

TLA+ modules for the NotaSync backend (NestJS, Prisma, PostgreSQL; sources under `src/`), the TLC
configurations that check them on small instances and the TLAPS proofs that hold for every instance.
Line numbers refer to the repository; `PROJECT.json` maps every definition to its lines.

## 1. Inventory

State lives in PostgreSQL tables, in a few JSON files of the object storage, and in the fields of the Nest
services (one copy per Node process: the API, and each `run-*-once` script is a process of its own). There
are no message queues: concurrency comes from `setInterval` cycles, from HTTP requests, from background
promises nobody awaits, and from the separate processes, all interleaved at every `await`.

| component | state | operations | what makes it hard | what makes it correct |
|---|---|---|---|---|
| NFS-e synchronisation (`modules/sync`) | `nfse_sync_controle` (status, mode, cursor, due date); cooldown, cycle flags, ADN request slot in memory; two JSON state files | `runNow`, activation, pause, resume, recovery of past NSUs, nightly sweep, event cycles | rows read once and used for minutes; the due date is also the lock; failures that must or must not move the cursor | no NSU left behind without an answer; one execution per control; backoff respected; published NSUs reached |
| Certificate job (`jobs/verificar-certificados`) | reads certificates, writes statuses | one pass over the controls | decides on a stale snapshot | stops only controls without a usable certificate |
| NFS-e documents (`modules/nfse`, persistence part of `sync.service.ts`) | `nfse_documentos`, `_vinculos`, `_eventos`, files | persist by NSU, by key, by file; reconcile, merge, link | four unique keys, check-then-act without transactions | no document lost or attached to a wrong client, cancellations never undone |
| SEF/SC NF-e (`modules/nfe-sc`) | `nfe_sc_sync_controle`, tracked document/NSU pairs, running set, request gate | configure, run, pause, resume expired | lease fencing across processes | cursor only over tracked documents |
| SEF/SC NFC-e (`modules/nfce-sc`) | `nfce_sc_sync_controle` | configure, run, pause, reprocess an interval | two kinds of execution on one row, each with a lease of its own | the review never moves the normal cursor; a resumed review skips nothing |
| National NF-e (`modules/nfe`) | `nfe_sync_controle`, `nfe_documentos`, events, links, actor locks in memory | `distNSU`, recovery of a period by `consNSU`, nightly sweep, start, pause, lookup by key, import | waits and unfinished recoveries are kept as sentences of `ultimaMensagem`, which every writer replaces | no NSU passed over; SEFAZ's hour kept by whoever can know of it; a recovery leaves no gap |
| Manifestation (`nfe-manifestacao.service.ts`) | `nfe_manifestacoes`, `nfe_xml_recuperacoes`, settings | register, reconcile, authorise, revoke, claim, send Ciencia, recover XML | an external event that must not be sent twice at a time, answers that get lost | one Ciencia in flight, none without authorisation, results that are true |
| CT-e (`modules/cte`) | documents, events | import, lookup | sequential | - |
| Sessions (`modules/auth`) | `sessoes_usuario`, access events | login, refresh, logout, expire, reset | token rotation without a compare-and-set | a revoked session stays revoked |
| Certificates, clients, establishments | tables, encrypted files | CRUD | validation | - |
| Alerts, audit, document checks, SPED comparison, Simples Nacional import, storage | tables | CRUD, batch import | small | - |
| Integrations | none | one HTTP or SOAP call each | failures reported as statuses | a failure is never an answer |
| Web page, scripts, deployment | browser state | - | calls `POST /sync/rodar-agora` in a loop | - |

The NFS-e synchronisation calls the certificate lookup, the ADN adapter and the persistence of documents; the
certificate job, the operator's requests and the nightly sweep write the same control rows, and the recovery of past
NSUs goes over the same sequence a second time with a cursor of its own. The national distribution stores the events
that the manifestation reconciles, and the manifestation's worker asks the distribution for the XML. `PROJECT.json`
lists the hazards of this code at the line where they bite, with the properties that cover them or the reason none
does.

## 2. Modules

| module | what it is |
|---|---|
| `ConsumoNsu` | what any incremental consumer of an NSU sequence promises: the saved cursor rests only on NSUs below which everything was answered, answers are never forgotten |
| `NfseSync` | the NFS-e synchronisation in full detail; implements `ConsumoNsu` |
| `MCNfseSync` | small instances of `NfseSync` for TLC |
| `NfseSyncProofs` | types, inductive invariant, coverage of the cursor, refinement, the claim as a lock, the backoff, for all constants |
| `NfeSc` | the distribution of NF-e by SEF/SC, executions fenced by leases in several processes; implements `ConsumoNsu` |
| `MCNfeSc` | small instances of `NfeSc` for TLC |
| `NfeScProofs` | types, inductive invariant, tracked pairs, one owner per row, refinement, for all constants |
| `NfeScLease` | what holds besides when no execution works past its lease, for all constants |
| `NfceSc`, `MCNfceSc` | the distribution of NFC-e by SEF/SC: the sequence and the review of an interval on one row; implements `ConsumoNsu` |
| `NfceScProofs` | types, one owner, the count, the reviewed interval, the cursor, refinement, for all constants |
| `NfseDocumentos`, `MCNfseDocumentos` | what an item of the ADN does to the document tables, statement by statement |
| `NfseDocumentosProofs` | types; what becomes of notes, cancellations, links and custody while no two executions store one note at a time |
| `NfseFaixas` | pure operators: missing numbers of a gap, ranges inferred from neighbours, merging, order of the scan |
| `NfseRecuperacao`, `MCNfseRecuperacao` | the recovery of past NSUs: the night, the requests of operators, the automatic cycle; uses `NfseFaixas` |
| `NfseRecuperacaoProofs` | types; what lies behind the night's own cursor was gone through; where an audit looks and when it may stop, for all constants |
| `NfeManifestacao`, `MCNfeManifestacao` | manifestations about one NF-e, the automatic worker, the distribution that brings events and the XML |
| `NfeManifestacaoProofs` | types, true results, one Ciencia on its way, authorisation, for all constants |
| `NfeNacional`, `MCNfeNacional` | the national distribution for one CPF control: incremental run, recovery of a period, night, operator |
| `NfeNacionalProofs` | types, coverage of the cursor and of a recovery, SEFAZ's hour, for all constants |

How they fit: `ConsumoNsu` is the abstract specification of three of them. `NfseSync` treats the persistence of a
document as one step that may fail, which `NfseDocumentos` takes apart; `NfseRecuperacao` treats a run of `NfseSync` as
a step over one NSU (`Sincronizar`), and `NfeManifestacao` the distribution as a process that stores an event or the XML.

### NfseSync and the code

A *worker* is one call of `runNow`; `run[w]` is its local state between two `await`s.

| code (`sync.service.ts`) | model |
|---|---|
| row of `nfse_sync_controle` | `status`, `modoSync`, `nsuInicial`, `ultimoNsuConsultado`, `proximaExecucao` |
| `findMany` of due rows, 576-587 | `RunNow`: the rows go into `run[w].fila` and are not read again |
| `tryClaimDueControl`, 4122 | `Reservar`, or `IgnorarReservado` when the row is no longer due |
| certificate lookup, 602-628 | `ComCertificado`, `SemCertificado` |
| `getDFeByNsu`, 637-647 | `ConsultarComLote`, `ConsultarSemDocumento`, `ConsultarComFalha` |
| outcomes, 649-792 | `FalhaDecifrar`, `ErroTemporario`, `LimiteExcedido`, `SemDocumento`, `PersistirDocumento`, `FalhaPersistencia`, `AvancarNsu` |
| update after the step loop, 795-803 | `FecharLote` |
| `iniciarSync`, nightly activation | `CriarControle`, `Reativar` |
| `pausarSync`, `retomarSync` | `PausarSync`, `RetomarSync` |
| `VerificarCertificadosJob` | `IniciarVerificacao`, `VerificarAtivo`, `VerificarErro` |
| process restart, ADN, clock, certificate changes | `Reiniciar`, `Publicar`, `Tick`, `TrocarCertificado` |

Dates are the ticks left until they are due, so the state space is finite without bounding time; 0 stands for
`null` and for the past, which every query of the code treats alike. `armazenados[c]` abstracts the document
tables to the NSUs whose document is stored. The values of `SyncStatus` that no code writes to this table
(`erro_autorizacao`, `erro_api`, `finalizado_historico`) are left out. The ADN is external: it assigns NSUs in increasing order with or without gaps, and a batch
(`lote=true`) holds every document of a range that starts at the NSU asked for; an NSU inside the range
without a document counts as answered. `vazios` and `recusados` record what it answered, for the properties only.

### NfeSc and the code

`execucao[p][c]` is the local state of `processAllAvailableBatches` for control `c` in process `p` (`runningControls`
allows one). Its `pc` names the await it is at.

| code (`nfe-sc.service.ts`) | model |
|---|---|
| row of `nfe_sc_sync_controle` | `status`, `indAtor`, `ultimoNsuConsultado`, `totalDocumentosBaixados`, `proximaExecucao`, `vencida` |
| `configure`, 177-192 and 194-234 | `LerConfiguracao`, `GravarConfiguracao` (another request may come in between) |
| `pause`, `run`, 237-288 | `Pause`, `Run`; started by the timer: `RunAutomatico` |
| `resumeExpiredExecutions`, 415 | `ResumeExpired` |
| head of the loop, 294-303 | `LerControle`, `RenovarLease` (two statements, hence two steps) |
| request, 305-329, 385-388 | `BaixarLote` (118), `BaixarSemLote` (the other codes), `Falhar` |
| documents, 330-363 | `Persistir`, `ForaDeOrdem`, `Rastrear` (one transaction) |
| end of a batch, 365-398 | `Continuar`, `Encerrar` |
| `stopAfterError`, 402; catch of the background promise, 449 | `StopAfterError`; `FalhaInterna`, `LerAposExcecao` |
| process restart, clock, SEF/SC | `Reiniciar`, `Vencer`, `Publicar` |

The code uses a date to recognise its own lease and to see whether it has passed. So dates are opaque values, a
new one is none that the row or an execution remembers (the clock has moved between two leases), `vencida` says
that the row's date has passed, and dates are interchangeable, which makes symmetry sound. `Titular` is the
`where` clause of the writes. The documents of an answer are the first ones for the
filter after the NSU sent, and maybe older ones; the code refuses those. The check of line 366 is left out: the
documents of a batch have been checked to lie after the cursor, so it cannot fail. `persistidos` abstracts the
documents and events of `persistSefScNfeDocument`. The lost acknowledgement of a committed transaction is not modelled.

### NfceSc and the code

One row is modelled, because rows share nothing. `execucao[p]` is the background execution of process `p`
(`runningControls`), `requisicao[r]` what a request of the operator has read and decided before its conditional write.

| code (`nfce-sc.service.ts`) | model |
|---|---|
| `configure`, 240-305 | `LerConfiguracao`, `GravarConfiguracao` |
| `pause`, 307-326 (two statements) | `Pause`, `PausarReprocessamento` |
| `run`, 328-383 | `LerRun`, `Run` |
| `reprocessNsus`, 385-465 | `LerReprocessNsus`, `ReprocessNsus`; `Retoma` decides whether a review resumes |
| `resumeExpired*`, 833-878 | `ResumeExpired`, `ResumeExpiredRecovery` |
| loop, 503-816 | `LerControle`, `RenovarLease`, `BaixarLote`, `BaixarSemLote`, `Falhar`, `Persistir`, `FecharLote`, `FecharReprocessamento` |
| `stopAfterError`, 818 and 667; catch, 486-501 | `StopAfterError`, `StopNsuRecoveryAfterError`; `FalhaInterna`, `LerAposExcecao` |

A due date matters for two things: whether it has passed (`nula`, `futura`, `passada`) and whether it is the one an
execution remembers (`lease` in its local state). That keeps time out of the state without losing a race. An answer holds
the first documents after the NSU sent, and maybe earlier ones again (`Respostas`): the review leaves those out (`Considerados`,
576), the normal sequence stores and counts them (745-755, 807) and stops with an error when a full batch does not move the
cursor (`SemAvanco`, 762-770).

### NfseDocumentos and the code

Each control's execution stores the items of its sequence one after the other; every Prisma statement is an action,
and between any two of them another client's execution, an exception or a restart may come (`Falhar`).

| code (`sync.service.ts`) | model |
|---|---|
| `persistDfeDocumentFromNsu`, 3357-3530 | `Receber` or `Repetir`, `LerReferencia`, then the reconciliation |
| `resolveExistingDocumentoBeforeUpsert`, 3801-3896 | `LerPorChave`, `LerPorNsu` |
| `linkDocumentoAsVinculo`, 3904; `syncDocumentoVinculos` (`nfse.service.ts`, 2010-2068) | `Vincular`, once per role |
| `mergeDocumentoDuplicates`, 4078-4106 | `RealocarEventos`, `RemoverEventos`, `RemoverDuplicado` |
| `updateDocumentoById`, 4018-4054 | `LerCustodia`, `Atualizar` |
| `upsertDocumentoResolvingNsuConflict`, 3755-3799 | `Upsert`, `NovaTentativa` |
| `tryReconcileDocumentoByNsu`, 3950-4010 | `LerConflito`, `DesligarEventos`, `AtualizarConflito` |
| `persistEventoFromNsu`, 3639-3664 | `GravarEvento` |

The unique keys are `Conflita` and `repetido` in `Vincular`. Identities of rows are reused once nobody knows them
(`Livres`): that bounds them without bounding the history.

### NfseFaixas, NfseRecuperacao and the code

| code (`sync.service.ts`) | model |
|---|---|
| nightly cycle, 1807-1877 and 2435-2476 | `IniciarNoturna`, `EsperaEsgotada`, `LerArquivo`, `ArquivoIlegivel`, `Salvar` |
| request for a recovery, 855-910; for an audit of gaps, 2501-2605 | `Reprocessar`, `AuditarLacunas` |
| planning of an audit, 2647-3020 | `NfseFaixas` |
| `reprocessPastNsusInternal`, 926-1342 | `InterromperPorCooldown` to `Excecao`: one action per outcome of an NSU |
| automatic cycle, 2198-2214; a run of the synchronisation | `IniciarCiclo`, `EncerrarCiclo`; `Sincronizar` |
| pause, resume; restart | `PausarOuRetomar`; `Reiniciar` |

The time of the cooldown is not kept (it may be found active whenever a control begins); the documents of one answer
are stored in one step, which may throw after some of them (`FalhaAoGravar`); `lastAttemptAt` is kept as an order. Two
requests with one signature are one.

### NfeManifestacao and the code

| code | model |
|---|---|
| `registrar`, `nfe-manifestacao.service.ts` 793-1006 | `LerHistorico`, `Criar`, `FalharAntes`, `Enviar`, `Responder`, then the schedule |
| `scheduleManualScienceRecovery`, 1220-1355 | `AgendarConfig`, `AgendarTarefa`, `AgendarLer`, `AgendarGravar` |
| reconciliation, 708-791 | `Reconciliar`, `LerEventos`, `ReconciliarTentativa`, `LiberarTarefa` |
| claim, 434-466; preparation, 468-540 | `LerFila`, `TomarPosse`; `Preparar`, `LerHistoricoDaTarefa` |
| automatic Ciencia, 1008-1119 | `AbrirCiencia`, `LerAnteriores`, `LerAutorizacao`, `Criar`, `Enviar`, `Responder` |
| worker's point query, `nfe.service.ts` 5386-5462 and 4321-4552 | `ConsultarComXml`, `ConsultarSemXml`, `LerPersistido`, `Registrar`, `Excecao` |
| observation of what the distribution stores, 376-432 | `DistribuirEvento`, `DistribuirXml`, `DistribuirResumo`, `Observar`, `ObservarNovo`, `ObservarXml` |
| settings and revocation, 117-254 | `Salvar`, `Revogar` |

One note and its task. `leaseAte` and `proximaTentativaEm` are not kept: a lease may be found expired at any time.
Whether earlier uncertain attempts are old enough is open at each decision. Statuses of the task that no statement
tells apart are one status (listed in the module).

### NfeNacional and the code

| code (`nfe.service.ts`) | model |
|---|---|
| `iniciarSync`, 1559; `pausarSync`, 1613 | `IniciarSync`; `PausarSync` |
| automatic cycle and night, 5464-5554 | `ComecarCiclo`, `OutraRetomada`, `Passa` |
| activation of the night, 514-634 | `Reativar`, `CapturarBase`, `GravarBase`, `FalharBase` |
| `runNowInternal`, 3827-4130 | `LerControles`, `Tomar`, `SemDocumentos`, `ConsumoIndevido`, `ReceberLote`, `PersistirDocumento`, `Avancar`, `Falhar` |
| `registerSefazDfeCooldown`, 6307-6338 (the counter of point queries, then two statements on the row) | `Pausar`, `PausarStatus`; `PodeContar` when it breaks off in between |
| recovery of a period, 2015-2355 | `PedirPeriodo`, `ComecarPeriodo`, `Marcar`, `ReservarConsulta`, `ConsultarNsu`, `ConsumoIndevidoPontual`, `Interromper`, `GuardarDocumento`, `Progredir`, `Encerrar`, `EncerrarStatus` |
| what is read back from `ultimaMensagem`, 6000-6038 and 6243-6338 | `Suspensa`, `EsperaDita`, `Marca`, `Texto` |

A text is the pair of what the code's regular expressions find in it: the kind of wait and the mark of an unfinished
recovery. `hora` and `desfeita` are history: the wait SEFAZ last asked for, while its hour lasts, and whether since then the row
was rewritten by someone who did not know of it, or the wait was lost with the execution that alone knew of it
(`SoEmMemoria`). `antiga` marks an execution that took the lock in such an hour on a copy the row had left behind.

## 3. Runs

| run | instance | shows |
|---|---|---|
| `nfse_claim` | 1 control, 2 workers, NSUs 1..2, all failures, 1 intervention; daily mode stops at the first document, the claim's TTL is not exceeded | `TypeOK`; no NSU left behind without an answer; the claim is a lock; the retry date is respected; `ConsumoNsu` is implemented |
| `nfse_alcance` | 2 controls, 1 worker, 1 NSU, timeouts, 429s, 1 intervention, fairness | every published NSU of an active control is reached |
| `nfesc_lapso` | 1 control, 2 processes, NSUs 1..2, leases may be outlived, 2 interventions | `TypeOK`; tracked pairs; one owner; `ConsumoNsu` is implemented |
| `nfesc_lease` | 2 processes, batches of 1, leases not outlived, 3 interventions | a document is counted once; the cursor does not go back |
| `nfesc_alcance` | 1 process, batches of 1, 3 interventions, fairness | a row in `processando` moves on; every document for the filter is reached |
| `nfcesc_linha` | 2 processes (interchangeable), 1 request, NSUs 1..2, batches of 1, intervals [0,2] and [2,2] | `TypeOK`; one owner of the row for either kind; nothing counted again that was not sent again; a review has gone through all below its position; the cursor does not go back; `ConsumoNsu` is implemented |
| `nfcesc_alcance` | 1 process, 1 request, NSUs 1..2, batches of 2, interval [1,1], fairness | neither kind of execution leaves the row in `processando` without moving |
| `nfse_notas` | 2 clients that are the parties of 2 notes, sequences of 3 items in different orders, failures and repetitions anywhere, fairness | notes and cancellations stay; both clients see them; custody stays; both sequences come to their end |
| `nfe_envios` | 1 operator, 1 worker, Ciencia and one conclusive kind, 2 attempts | what a row says of an event is true; one Ciencia in flight; none sent without authorisation |
| `nfe_reconcilia` (violation) | 1 operator, a Ciencia sent again after a lost answer, fairness | the second attempt never gets its result |
| `nfe_nacional` | the night and a recovery of a period on one row, NSUs 1..2, one of them may grow too old | the cursor passes over no document; a recovery leaves no gap above its mark; SEFAZ's hour is kept while the row or its holder says of it, by those who took the lock on the row as it is |
| `nfse_noites` | 2 controls of 2 clients, NSUs 1..2, one control and one NSU per night, 1 request, 1 intervention, fairness | the night's cursor skips nothing; an audit stops early only when all is found; every control left behind is gone through |

### The violation

`reconcileImportedManifestations` writes the official result to every attempt without one, oldest first. After a lost
answer and a second sending there are two attempts and one event: the first becomes `registrada`, the update of the second
meets the partial unique index of active Ciencias and the request fails. So does every later one. `docs/nfe-distribuicao.md:127` says
that the reconciliation updates the protocol and releases the recovery.

### Bounds

*NFS-e synchronisation.* Two NSUs allow a batch with a gap, a cursor inside a batch and a stale cursor; two
workers give every pairwise race of claims; one intervention allows a pause, a resume, a restart or a change of
certificate, each against everything else. `nfse_alcance` has two controls, because a rate limit ends the work on all of
them, and one NSU each.
`Tick` is not bounded. `RunNow` leaves out rows whose cursor reached `MaxNsu`, the only place where the bound stops the
system; that is also why starvation by `take: 50` cannot show here. A daily batch that goes on to a second
NSU (`StopOnFirst = FALSE`, two NSUs or more) is beyond these runs; `CursorSempreCoberto` and `ImplementaConsumo`
are proved for it as for every other value of the constants. With two executions the cursor *can* go back: the second one
computes it from a row it read earlier. No document is lost by that, NSUs are asked for again.

*NF-e of SEF/SC.* Two processes give the race for an expired lease, two NSUs a batch of two and a full batch of one that
continues; `Datas` has two more values than processes, so that a new one always exists (`alcance` has three for one
process). `ContagemUnica` and `CursorNaoRegride` hold only while no execution works past the lease it renewed
(`DentroDoLease`: five minutes, renewed before each request but not while the documents of a batch are stored).

*NFC-e of SEF/SC.* Two NSUs and batches of one make the sequence and the review renew between two documents, which is
where the other process takes over; the two intervals let one review replace another that overlaps it. One request is in flight at a
time; two at once are beyond these runs, and `NfceScProofs` holds for any number of them. With batches of one a document sent
again makes a full batch that does not advance, so it ends in the error path (`SemAvanco`) and is never counted; batches of two, in which it
is, are in `nfcesc_alcance` only, and `ContagemUnica` is proved for every size (with batches of two `nfcesc_linha` has more
than six million states).

*Documents.* Every note comes to both parties, the cancellation of one of them too, and the orders differ: the client
that has the custody of one note is the other party of the other one, and equal NSUs mean different items. `MaxIds`
bounds the rows in use at a time; four are never exhausted (five give the same states). Properties exclude the notes in `disputadas`, which
two executions have stored at the same time (below).

*Manifestation.* Two attempts are what a second sending, and a conflict of the unique indexes, need.
`nfe_envios` takes the event in its full form only, `nfe_reconcilia` in every form.

*National NF-e.* Two executions, of which the kinds are the nightly sweep and a recovery of a period; a batch of two, one
NSU per recovery, so that each recovery is interrupted and another one resumes it; one NSU may grow older than SEFAZ's 90 days.

*Recovery of past NSUs.* One control per night out of two and one NSU per control give the rotation and a cursor that stops
half way; the missing number of the audit belongs to a note of the first control. Two establishments of one client are left to
the proofs.

Deadlock is checked except where the system may really stop: in the runs of `NfeSc` and `NfceSc` (a paused row, nothing
left that the operator may do within the bound) and of `NfseDocumentos` (both sequences stored).

### Fairness

`NfseSync`: time passes (`WF(Tick)`); `setInterval` starts `runNow` again and again (`WF(RunNow)`), and a started one goes
on, because the HTTP client turns a silent ADN into an answer (`WF(Trabalhar)`). `PublicadoAlcancado` assumes that
failures cease (`FalhasCessam`), not that any particular answer is given before. Nothing is assumed of operators, of
the job or of publication.

`NfeSc`: time passes (`WF(Vencer)`), the timer of line 44 starts what is due and what has expired every 30 seconds
(`WF(RunAutomatico)`, `WF(ResumeExpired)`), and an execution goes on. `RunAutomatico` exists with
`NFE_SC_AUTO_RUN_ENABLED=true` only, which `DocumentoAlcancado` therefore presupposes. `Retomada` assumes that the
database answers in the end (`BancoVolta`). `DocumentoAlcancado` assumes that all failures cease (`FalhasCessam`).

`NfceSc`: the same timer (line 25) and time; `Retomada` assumes that failures cease and that in the end a lease is long
enough (`LeaseBasta`). An execution that finds its lease gone and ends is not a failure.

`NfseDocumentos`: the control asks for its next item again and again, and an execution goes on. An exception the code
throws because of a key is a step of the code, not one of the failures that cease: `SequenciaTermina` says that no key
makes an item fail for ever.

`NfeManifestacao` (`nfe_reconcilia` only): requests are answered, and the operator who asks for the reconciliation again and again
(strong fairness, because the request competes with others for the same operator) goes through it.

`NfseRecuperacao`: the nightly timer (`WF(CicloNoturno)`), executions go on, the automatic cycle ends.
`AtrasadoRevisto` assumes that failures cease.

### Behaviours of the code that have no run of their own

They are true of the models as of the code, and a document, a comment or a reader would expect otherwise.

NFS-e synchronisation (`sync.service.ts`):
- A stored step releases the row: in the default daily batch each one writes `proximaExecucao = null` (778), so a
  second execution claims the row the first one still works on. `Exclusividade` is checked and proved with `StopOnFirst`.
- A 4xx, or a 200 that cannot be read, counts as "no document" (4232): the cursor passes a published document
  (`docs/sync-flow.md:50`).
- The cooldown after a 429 is looked at when a `runNow` starts (565); another execution already in its loop goes on asking,
  although `README.md:160` calls it global.
- The step loop never reads the status again (403): a control paused while an execution holds it is consulted up to
  `SYNC_DAILY_MAX_NSU_PER_RUN` times more (`README.md:247`).
- The certificate job looks for the establishment's certificate only (job, 48), and stops a control that the client's
  certificate serves (`docs/certificate-management.md:20`).

SEF/SC NF-e (`nfe-sc.service.ts`):
- Past a lease a document is counted twice (298; `docs/nfe-sc.md:36`) and the cursor goes back (294-298): B reads NSU 0 on A's
  expired lease, A moves the cursor to 2, B renews and writes 1. `CursorNaoRegride` and `ContagemUnica` say nothing of it: they are
  checked and proved under `DentroDoLease`.
- A `configure` that read the row before a run changes the filter after the first NSU (194; `docs/nfe-sc.md:20`). No property
  catches the change itself: `nfesc_lapso` has one filter, and `vazios` excuses what another one would have returned.

SEF/SC NFC-e: a document that SEF/SC sends again in the normal sequence is stored and counted again (745-755, 807), which is why
`ContagemUnica` allows for the repeated documents of the owner's batch; whether a rejection 9999 is the second in a row is decided on a row read earlier (335); an entry without a
document is left out of the answer and passed (`real-nfce-sc.client.ts`, 216), which may also end a review early.

Documents (`sync.service.ts`):
- Two clients store one note at the same time: the second upsert updates the first one's row (3770), its NSU, its
  cancellation or, from an event, its custody. Such notes are in `disputadas`.
- Two establishments of one client have independent NSUs and one unique key: the second document takes over the row of the
  first (3887). The runs give each client one control.
- An event that comes before its note makes a row without the note's data, in the custody of the event's client (3768). The
  note of the other client is then only linked to it (3832), and its data are never stored.
- In the race of two executions about one note, an event's upsert hands the row to its client and keeps the NSU of the
  other one (3770). If that NSU is later another note's, this note takes the row over (3887), and the update of the first
  note that is still pending overwrites it: a note that nobody else stored at the time is lost. The race has to meet that
  number, which the instance of `nfse_notas` does not.
- An event of the client without the custody leaves the status of the row alone, although `docs/database.md:36` has
  cancellations prevail.
- Cancellation is read before the files are written (3372): an event stored meanwhile is undone. The merge is three statements (4086).

Recovery of past NSUs: the audit compares number and series, not the issuer (2777), so a note received from somebody else
with the missing number ends the search early (`README.md:289`, `docs/sync-flow.md:17`); with two controls of one client an
NSU stored for one is "ja baixado" for the other (1040, 3190), and a document the audit of one receives is skipped and its number
taken off the list because the other's note lies under its NSU (1175): the note is nowhere, and the search may end. TLC finds
this violation of `NumerosRiscados`, checked alone, in nine states when `ClienteDe`, `Notas` and `Lacunas` of `nfse_noites` are given `UmDono`,
`DuasFiliais` and `DuasLacunas`, and `Clientes` is `{k1}` (`NumerosRiscados` is in no run; section 4 says when it holds); an unreadable state file is taken for an empty one and
written over (2441); the check of the signature of a request and its registration are apart (868, 907). An NSU consumed
before its document was published is gone through once more and no further.

Manifestation (`nfe-manifestacao.service.ts`): the worker writes `rejeitada` for a 573, an event the SEFAZ has (1106); a
revocation between 1054 and 1097 is not seen; an exception of the scheduling after a successful sending is taken for
one of the sending (1118); a late lost answer overwrites the result a reconciliation has written (743, 938); a conflict
of the index ends the task as rejected (1091); a local failure is never tried again (1048); a process that dies
after the registration leaves no task (986); `scheduleManualScienceRecovery` overwrites `xml_disponivel` (1323); the claim does not look at
the status again (460).

National NF-e (`nfe.service.ts`): activation, `iniciarSync` and `pausarSync` erase waits and marks (551, 1559, 1613;
`docs/nfe-distribuicao.md:73`, `:77`); a recovery counts as attempted before it is (5491; `:141`); a mark whose next NSU is
0 stays (2121); a recovery under way replaces the sentence of a 137 by its mark (2175, 6298) and keeps the sentence in a local variable, so after an
exception or a restart the recovery that resumes it finds none (2076), ends with a text that asks for no wait (2325), and
distNSU goes out in the hour (`docs/nfe-distribuicao.md:77`); a wait whose text could not be written, or that a crash came before, is
forgotten (6322); an execution that took the lock on an old copy of the row asks in the hour (3827); the text of a batch without progress is not recognised as a wait (2319, 6008); a 656 of a point query is
first written without the mark (6215); a control at NSU 0 is positioned anew (546); a running execution writes over
`pausado` (4073).

## 4. Proofs

Every theorem holds for all values of the constants that satisfy the assumptions of its module, which TLC evaluates in
every run. They are types and kinds of constants (`DadosAssumption`, `NumerosAssumption`, `ConstantesValidas`), finite sets
where the code has the rows of a table (`IsFiniteSet(Controles)` in `NfseRecuperacao`), and that the value standing for
`null` is none of the values it is mixed with (`NenhumAssumption`, `NenhumNaoELinha`). `LacunasAssumption` of `NfseRecuperacao`
says of the gaps what normalising a request ensures: a positive first number, not after the last one. Each inductive invariant was
checked by TLC on the instances of section 3 before it was proved. Every module has one lemma per action, and one that
assembles them.

`NfseSyncProofs`. `CursorCoberto` is not inductive: `runNow` writes a cursor computed from a row read long
before, so the invariant has to speak of every worker's local state. `IInv` adds that for each worker the NSUs
from the control's first one up to its `currentNsu` are answered (`RunOK`, for the rows still queued as well),
that a pending batch lacks only the documents still to be stored, and that the queued rows belong to existing
controls. It is preserved because answers are never forgotten and `nsuInicial` never changes after creation,
so what was true when the row was read is still true. From it follow `TipoCorreto`, `CursorSempreCoberto` and
`ImplementaConsumo`; for the refinement every step maps to `Criar`, `Responder`, `Mover` or a stutter of `ConsumoNsu`.
Under `StopOnFirst` (a step that stores a document ends the work on the row) and `DentroDoTtl`
(a row is left before its claim expires) a second invariant says that a row held and not reset from outside has a
due date at least as late as the holder's claim, hence not due, hence not claimable, and that a recorded
backoff is never later than the due date. It gives `ClaimExclusivo` and `BackoffSempreRespeitado`. The first
condition is needed: see "a stored step releases the row" in section 3.

`NfeScProofs`. `IInv` strengthens `CursorRastreado` to the local states: for
an execution that has read the row every NSU up to the cursor it works from is tracked or passed over, and every NSU
between that cursor and a document of its answer is in the answer or passed over (`ExecucaoOK`). Answers and pairs are never
forgotten, so what was true of the row when it was read is true of it later, whoever wrote it meanwhile. `UmTitular`
is inductive because a new lease is one nobody remembers. `ImplementaConsumo` maps every step to one of `ConsumoNsu`.

`NfeScLease`. Under `DentroDoLease` the owner of a row works from the row's cursor, its lease has not run out, nobody
else may still renew that lease, and whoever is about to renew has read the cursor as it is (`Leases`). Then the only
write to the cursor is the owner's, to a later NSU (`SemRegresso`), and each one adds a pair behind the cursor to the
counted ones (`Contagem`). Both carry `DentroDoLease` as a hypothesis, which is needed (section 3).

`NfceScProofs`. All six safety properties of `nfcesc_linha`, without a condition: the write of the cursor and the count is
fenced by a lease that a takeover renews. `ContagemUnica` is a property of steps: the owner's write counts no more than the stored
documents it moves the cursor past and those SEF/SC sent again (`Repetidos`). It rests on the cursor of the row being the one the owner sent. `LinhaOK` says what the row may claim, `ExecucaoOK` what an execution holds (while the row
carries its date, the row still says what it read there), `PedidoOK` that the position a request will write was
reviewed, `UmLease` that no two executions of one kind hold the row's date. The catch of a review is left out of `UmLease`: it
takes a lease it was not given. That the batch has a last document is `MaximoExiste`, from the finiteness of intervals.

`NfeNacionalProofs`. The row is copied into many places, each of which may be written back later, so the invariant bounds
every copy: it never claims more than what was stored or is too old (`FotoOK`, `MarcaOK`, `Confiavel`). Since
documents are never lost and SEFAZ only publishes and forgets (`Cresce`), an old copy that was right is still right, and
`CursorCoberto` and `RecuperacaoSemLacuna` need no lock. `PausaRespeitada` does: `JInv` says that one execution holds the
actor's lock, and that while an hour of SEFAZ is in force and its text was neither overwritten from outside nor lost (`Vigente`), the row says
so, or the holder is about to write it: in a registration, or as a recovery that keeps the sentence of a 137 or has stopped before its
end, whose last text asks for the hour again. What is exempt
is what the code does not keep: an execution that took the lock on an old copy (`antiga`, for distNSU), and everyone once the wait is lost
(`desfeita`), until SEFAZ asks again. An exception or a restart loses it only where the row does not say it (`SoEmMemoria`).

`NfeManifestacaoProofs`. `CienciaUnica` is the second partial unique index; the invariant adds that rows only say what
the SEFAZ has answered (`Verdadeira`), that rows are in the order of their creation, and what each process carries in its local
state (`Correto`): whom it sends, what it will write, that it was authorised, where it is. Attempts in hand are
distinct, so no two processes write one row. `EmVooUnica` follows from the index, not from the reading of earlier events, which
races. That the reconciliation goes through the rows oldest first needs a least element (`MenorElemento`, from
`WellFoundedInduction`).

`NfseRecuperacaoProofs`. `RevistoCoberto` (`IInv`): what lies behind the cursor in the night's file is covered, and so is the
copy the night works on; every range it has planned starts right after covered NSUs; the range under way is the rest of the
planned one, and all before it is covered unless the round has failed; a result without failure is covered to its end. Coverage
only grows. The night reads no operator's plan, so `IInv` does not type them.

`TypeOK` needs what an audit computes: that the ranges it infers, merges and orders hold NSUs up to the cursor. The operators of
`NfseFaixas` are therefore written without folds, as sets put in order, and three theorems say what they return for every list of
gaps, every set of stored notes and every width of the windows: `SoOsAusentes` (what is left to look for are the numbers no note
has), `FaixasPlanejadas` (the ranges lie between 1 and the last NSU, in order and apart), `VarreduraCompleta` (the scan visits
every NSU of a range once). `FlattenSeq` of the community modules is recursive; that its result is made of elements of the sequences it joins
is shown by a least counterexample (`WellFoundedInduction`), without an induction theorem. `TInv` adds that every operator's
plan is well-formed (`Bem`), and that what a client keeps under an NSU is a note one of its own controls received
there (`GuardadoOK`).

`AuditoriaCompleta` follows from `PInv`: while an audit works on a control, each number it no longer looks for is that of a note
the client keeps. A number stays found as long as no other note takes over its row, and a document that is skipped counts only
for what is kept in its place, so the theorems have the hypothesis `NsusSemConflito`: two controls of one client receive no two notes with
different numbers under one NSU. It holds where a client has one control, or its establishments' notes lie at different NSUs; nothing in
the code ensures it, and without it both `NumerosRiscados` and `AuditoriaCompleta` fail (section 3). Under it they are proved (`AuditoriaSempreCompleta`,
`RiscadosGuardados`), with any number of audits, nights, synchronisations and restarts in between. What `AuditoriaCompleta` says is what
the code counts: a number, whoever issued the note.

`NfseDocumentosProofs`. `TipoCorreto` is unconditional. The others assume `Calma`:
- `UmControlePorCliente` and `NotaAntes`: one control per client, and no event before its note;
- `DeUmaParte`: an item comes to a party of the note only;
- `disputadas = {}`: no two executions have stored items of one note at the same time so far.

Each says of every state in which `Calma` holds that its property does, whether or not a race follows (a note once disputed stays so);
only `CustodiaSempre`, a property of steps, supposes it throughout.

The conditions are not there for the provers' sake: without one control per client, with an event before its note, or with a race
about one note, a note can be lost (section 3, Documents). Under `Calma` client and NSU
of a row determine its key (`ChaveDoNsu`), so a row found by NSU is the note's own and the merge, the take-over and the
resolution of conflicts are not reached; an execution writes to the row, the links and the event of its own note only
(`SoDaChave`), and what the others rely on stays (`AndamentoAlheio`, `GuardadoAlheio`). The cancellation a note copies is the
one its row still has when the note is written (`Andamento`, `ReescritoDaNota`). `Calma` holds in complete histories, with every item
of both sequences stored; what the merge and the take-over do is checked by `nfse_notas` only.

Model-checked only: the properties of `NfseDocumentos` outside `Calma`, and all liveness (`PublicadoAlcancado`, `Retomada`,
`DocumentoAlcancado`, `SequenciaTermina`, `AtrasadoRevisto`, the violation of `ReconciliacaoLibera`). Every other property of the
runs is a theorem. That the window of an inferred range is the one its neighbours suggest has no theorem: it is a heuristic.

## 5. Not modelled, and the plan

`PROJECT.json` gives the reason per component. Parsing, PDF layout, the page and the scripts are not planned: they hold
no state that several actors share. In the modelled components these parts are missing:

- NFS-e: the state file of the event cycles (2230), the hours of the nightly slots, starvation by `take: 50` (586), tests
  of a single NSU, the progress shown to the operator; manual import and search by key.
- SEF/SC: the gate that spaces the requests of a process.
- National NF-e: the point queries by key or by NSU an operator asks for (`consultarNsu`, `consultarChave`, 4286-4354), which share the
  lock of the actor, look at the wait before they take it, and write the row on a 656; CNPJ controls, diagnostics, the Dominio routes, several controls of one actor, the count of point queries as
  a number, a first NSU other than 1, manual import.
- Manifestation: several notes at once, archived artefacts, deadlines as dates.

Theorems worth proving next: `NfseDocumentos` with two executions about one note, as far as it holds (types and the links are
unconditional, a note of which only other notes were disputed is not).

Components next: sessions (rotation of refresh tokens against logout and expiry), the batch import of Simples Nacional,
CT-e import.
