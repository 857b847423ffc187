--------------------------- MODULE NfeManifestacao ---------------------------
(***************************************************************************)
(* Manifestations of the recipient about one NF-e and the recovery of its  *)
(* XML (src/src/modules/nfe/nfe-manifestacao.service.ts, and the worker    *)
(* and the observation of stored documents in nfe.service.ts).             *)
(*                                                                         *)
(* Operators send events of an allowed kind and reconcile them with those  *)
(* the SEFAZ distributes; one worker per process claims the recovery task, *)
(* sends a Ciencia if the establishment's authorisation allows it, and     *)
(* asks for the XML; the distribution stores events and the XML.  Every    *)
(* statement is a step: answers get lost, processes die, leases run out.   *)
(*                                                                         *)
(* Left out: what identifies the note, the establishment and its           *)
(* certificate, the archived artefacts, the history shown to the user.     *)
(* autorizacaoAtiva always equals cienciaAutomatica and is not kept apart. *)
(* Of the task's statuses one stands for all those that no statement tells *)
(* apart: ciencia_aguardando_envio also for aguardando_ciencia and the     *)
(* certificado_* ones, aguardando_xml for aguardando_sefaz and             *)
(* aguardando_evento_distribuicao, erro_processamento for                  *)
(* manifestacao_rejeitada, ciencia_fora_prazo and resumo_nao_autorizado.   *)
(***************************************************************************)
EXTENDS Integers, FiniteSets, FiniteSetsExt

CONSTANTS
  Operadores,       \* requests of the API that may be open at the same time
  Trabalhadores,    \* processes, each with its automatic cycle
  Distribuicao,     \* the synchronisation that stores what the SEFAZ distributes
  Pedidos,          \* bodies of POST /nfe/:id/manifestacoes: [id, tipo, reenvio, retificar]
  Conclusivas,      \* the conclusive kinds of event
  Configuracoes,    \* what the panel saves: [ciencia, xml]
  Formas,           \* how an event is stored: "procEvento", "semSequencia", "resEvento"
  MaxTentativas,    \* bound of the rows of nfe_manifestacoes
  Nenhum

Tipos   == {"ciencia"} \union Conclusivas
Eventos == Tipos \X (1..2)
Aceitos == {"registrada", "registrada_sem_vinculo"}
Incertos == {"enviando", "resultado_indeterminado"}
Indices == 1..MaxTentativas
Processos == Operadores \union Trabalhadores \union {Distribuicao}

Pedido == [id : {p.id : p \in Pedidos}, tipo : Tipos, reenvio : BOOLEAN, retificar : BOOLEAN]

Configuracao == [ciencia : BOOLEAN, xml : BOOLEAN]

ASSUME ManifestacaoAssumption ==
  /\ MaxTentativas \in Nat \ {0}
  /\ Pedidos \subseteq Pedido /\ Configuracoes \subseteq Configuracao
  /\ Formas \subseteq {"procEvento", "semSequencia", "resEvento"}
  /\ Operadores \intersect Trabalhadores = {} /\ Distribuicao \notin Operadores \union Trabalhadores
  /\ Nenhum \notin Pedidos \union Processos \union {p.id : p \in Pedidos}
  /\ "ciencia" \notin Conclusivas

VARIABLES
  config,           \* nfe_automacao_configuracoes: [ciencia, xml]
  tarefa,           \* nfe_xml_recuperacoes: the note's row, or Nenhum
  tentativas,       \* nfe_manifestacoes: [Indices -> row or Nenhum], in order of creation
  xml,              \* xmlCompletoDisponivel of the note
  importado,        \* nfe_eventos: [Eventos -> what loadImportedManifestations says of it, or Nenhum]
  sefaz,            \* [Eventos -> how the SEFAZ has registered it, or Nenhum]
  exec,             \* [Processos -> local state]
  transmitidas      \* history: attempts whose request reached the SEFAZ

banco == <<config, tarefa, tentativas, xml, importado>>
vars  == <<banco, sefaz, exec, transmitidas>>

StatusTarefa ==
  {"ciencia_aguardando_envio", "autorizacao_revogada", "aguardando_xml", "ciencia_registrada",
   "resultado_indeterminado", "erro_processamento", "xml_disponivel"}

Tarefa    == [status : StatusTarefa, lease : Trabalhadores \union {Nenhum}]
Tentativa == [tipo : Tipos, seq : 1..2, pedido : {p.id : p \in Pedidos} \union {Nenhum},
              status : Aceitos \union Incertos \union {"rejeitada", "falha_local"}]
Importado == [tipo : Tipos, seq : 0..2, status : Aceitos \union {"resultado_indeterminado"}]
Respostas == Aceitos \union {"573", "rejeitada", "falha_local", "perdida"}

\* A column that is null is none of its values, and a row that is absent is no row.
ASSUME NenhumAssumption == Nenhum \notin Tarefa \union Tentativa \union Importado \union Respostas

Execucao ==
  [pc     : {"ocioso", "historico", "criar", "enviar", "resposta", "agendarConfig", "agendarTarefa",
             "agendarLer", "agendarGravar", "eventos", "reconciliar", "liberarTarefa", "posse", "preparar",
             "ciencia", "anteriores", "autorizacao", "gravar", "liberar", "consultar", "persistido",
             "registrar", "observar", "observarNovo", "observarXml"},
   pedido : Pedidos \union {Nenhum},
   seq    : 1..2,
   tent   : Indices \union {0},             \* the attempt being sent
   resp   : Respostas \union {Nenhum},
   cfg    : Configuracao,  \* configuracao as it was read with the task
   status : StatusTarefa \union {Nenhum},   \* to be written to the task
   alvos  : SUBSET Indices,                 \* attempts to reconcile
   lease  : Trabalhadores \union {Nenhum},  \* the task's when it was found due
   autorizada : BOOLEAN]                    \* history: authorised since the earlier events were read

Ocioso == [pc |-> "ocioso", pedido |-> Nenhum, seq |-> 1, tent |-> 0, resp |-> Nenhum,
           cfg |-> [ciencia |-> FALSE, xml |-> FALSE], status |-> Nenhum, alvos |-> {},
           lease |-> Nenhum, autorizada |-> FALSE]

TypeOK ==
  /\ config \in Configuracao
  /\ tarefa \in Tarefa \union {Nenhum}
  /\ tentativas \in [Indices -> Tentativa \union {Nenhum}]
  /\ xml \in BOOLEAN
  /\ importado \in [Eventos -> Importado \union {Nenhum}]
  /\ sefaz \in [Eventos -> Aceitos \union {Nenhum}]
  /\ exec \in [Processos -> Execucao]
  /\ transmitidas \subseteq Indices

Init ==
  /\ config = [ciencia |-> FALSE, xml |-> FALSE] /\ tarefa = Nenhum
  /\ tentativas = [i \in Indices |-> Nenhum]
  /\ xml = FALSE
  /\ importado = [e \in Eventos |-> Nenhum] /\ sefaz = [e \in Eventos |-> Nenhum]
  /\ exec = [p \in Processos |-> Ocioso]
  /\ transmitidas = {}

-----------------------------------------------------------------------------
(* The tables                                                              *)

Linhas == {i \in Indices : tentativas[i] # Nenhum}
Tentadas   == {[tipo |-> tentativas[i].tipo, seq |-> tentativas[i].seq, status |-> tentativas[i].status]
                 : i \in Linhas}
Importados == {importado[e] : e \in Eventos} \ {Nenhum}
Historico  == Tentadas \union Importados

Ha(S, tipos, status) == \E r \in S : r.tipo \in tipos /\ r.status \in status

\* Mutant of Unica: the partial unique indexes are missing.
UnicaSemIndices(i, t) == TRUE

\* The partial unique indexes: one event of a kind being sent, one active Ciencia.
Unica(i, t) ==
  \A j \in Linhas \ {i} :
    tentativas[j].tipo = t.tipo =>
      /\ ~(t.status = "enviando" /\ tentativas[j].status = "enviando")
      /\ t.tipo = "ciencia" =>
           ~({t.status, tentativas[j].status} \subseteq Aceitos \union {"enviando"})

Tipo(p) == IF p \in Trabalhadores THEN "ciencia" ELSE exec[p].pedido.tipo

Passa(p, e) == exec' = [exec EXCEPT ![p] = e]
Ir(p, pc)   == Passa(p, [exec[p] EXCEPT !.pc = pc])
Inicia(p, pc) == Passa(p, [Ocioso EXCEPT !.pc = pc])
Termina(p)  == Passa(p, Ocioso)

NovaTarefa(status) == [status |-> status, lease |-> Nenhum]

\* updateRecoveryTask follows: the status is written if the worker still has the lease.
Gravar(w, status) == Passa(w, [Ocioso EXCEPT !.pc = "gravar", !.status = status])

\* Mutant of Resultado: the Ciencia's status becomes the task's.
ResultadoCru(w, r) ==
  IF r = "registrada" THEN (IF exec[w].cfg.xml THEN Inicia(w, "consultar") ELSE Gravar(w, "ciencia_registrada"))
  ELSE Gravar(w, r)

\* What prepareAutomaticRecovery makes of the Ciencia's result.
Resultado(w, r) ==
  CASE r = "registrada" -> IF exec[w].cfg.xml THEN Inicia(w, "consultar") ELSE Gravar(w, "ciencia_registrada")
    [] r = "registrada_sem_vinculo" -> Gravar(w, "aguardando_xml")
    [] r = "resultado_indeterminado" -> Gravar(w, "resultado_indeterminado")
    [] OTHER -> Gravar(w, "erro_processamento")

-----------------------------------------------------------------------------
(* registrar                                                               *)

\* The summary without the XML, and a requestId that has not been used.
Submeter(p, q) ==
  /\ exec[p].pc = "ocioso"
  /\ ~xml /\ \A i \in Linhas : tentativas[i].pedido # q.id
  /\ Passa(p, [Ocioso EXCEPT !.pc = "historico", !.pedido = q])
  /\ UNCHANGED <<banco, sefaz, transmitidas>>

UltimaSeq(tipo) ==
  Max({0} \union {IF r.seq = 0 THEN 1 ELSE r.seq : r \in {h \in Historico : h.tipo = tipo /\ h.status \in Aceitos}})

Finais == MapThenSumSet(UltimaSeq, Conclusivas)

\* The refusals between the reads and the row.
Recusado(q) ==
  \/ q.reenvio /\ ( \/ q.tipo # "ciencia"
                    \/ ~Ha(Historico, {"ciencia"}, {"resultado_indeterminado"})
                    \/ \E r \in Importados : r.tipo = "ciencia" )
  \/ Ha(Historico, Conclusivas, {"resultado_indeterminado"})
  \/ ~q.reenvio /\ Ha(Importados, Tipos, {"resultado_indeterminado"})
  \/ Ha(Tentadas, Tipos, {"enviando"})
  \/ ~q.reenvio /\ Ha(Tentadas, {"ciencia"}, {"resultado_indeterminado"})
  \/ q.tipo = "ciencia" /\ (Finais > 0 \/ Ha(Historico, {"ciencia"}, Aceitos))
  \/ q.tipo # "ciencia" /\ (Finais >= 2 \/ (Finais > 0 /\ ~q.retificar))
  \/ UltimaSeq(q.tipo) >= 2

LerHistorico(p) ==
  LET q == exec[p].pedido IN
  /\ exec[p].pc = "historico"
  /\ IF Recusado(q) THEN Termina(p)
     ELSE Passa(p, [exec[p] EXCEPT !.pc = "criar", !.seq = UltimaSeq(q.tipo) + 1])
  /\ UNCHANGED <<banco, sefaz, transmitidas>>

\* A row that an index refuses: the request fails, the worker takes the last Ciencia's status.
Criar(p) ==
  LET pedido == IF p \in Trabalhadores THEN Nenhum ELSE exec[p].pedido.id
      nova == [tipo |-> Tipo(p), seq |-> exec[p].seq, pedido |-> pedido, status |-> "enviando"]
      i == Cardinality(Linhas) + 1
      ciencias == {j \in Linhas : tentativas[j].tipo = "ciencia"}
      repetido == p \notin Trabalhadores /\ \E j \in Linhas : tentativas[j].pedido = pedido IN
  /\ exec[p].pc = "criar"
  /\ IF Unica(i, nova) /\ ~repetido
     THEN /\ i \in Indices
          /\ tentativas' = [tentativas EXCEPT ![i] = nova]
          /\ Passa(p, [exec[p] EXCEPT !.pc = "enviar", !.tent = i])
     ELSE /\ IF p \in Trabalhadores THEN Resultado(p, tentativas[Max(ciencias)].status) ELSE Termina(p)
          /\ UNCHANGED tentativas
  /\ UNCHANGED <<config, tarefa, xml, importado, sefaz, transmitidas>>

-----------------------------------------------------------------------------
(* sendManifestacao and what follows                                       *)

\* Certificate or signature fail before anything is sent.
FalharAntes(p) ==
  /\ exec[p].pc = "enviar"
  /\ Passa(p, [exec[p] EXCEPT !.pc = "resposta", !.resp = "falha_local"])
  /\ UNCHANGED <<banco, sefaz, transmitidas>>

\* The SEFAZ answers for the event, not for the lot: registered, with or without a link to the
\* note, rejected, or 573 for one it has; or no answer comes, whatever it did.
Enviar(p) ==
  LET e == <<Tipo(p), exec[p].seq>> IN
  /\ exec[p].pc = "enviar"
  /\ \E r \in (IF sefaz[e] = Nenhum THEN Aceitos \union {"rejeitada"} ELSE {"573"}), chega \in BOOLEAN :
       /\ sefaz' = [sefaz EXCEPT ![e] = IF r \in Aceitos THEN r ELSE @]
       /\ Passa(p, [exec[p] EXCEPT !.pc = "resposta", !.resp = IF chega THEN r ELSE "perdida"])
  /\ transmitidas' = transmitidas \union {exec[p].tent}
  /\ UNCHANGED banco

\* Mutant of StatusDe: the lot was processed (128), so the event is registered.
StatusDeLote(p) ==
  LET r == exec[p].resp IN
  IF r = "perdida" THEN "resultado_indeterminado" ELSE IF r \in {"573", "rejeitada"} THEN "registrada" ELSE r

\* The worker has no case of its own for 573.
StatusDe(p) ==
  LET r == exec[p].resp IN
  IF r = "perdida" \/ (r = "573" /\ p \notin Trabalhadores) THEN "resultado_indeterminado"
  ELSE IF r = "573" THEN "rejeitada" ELSE r

\* If an index refuses the status, the request fails with the row as it was; the worker has
\* the statement inside its try and writes the row off as indeterminate.
Responder(p) ==
  LET i == exec[p].tent
      dada == [tentativas[i] EXCEPT !.status = StatusDe(p)]
      t == IF Unica(i, dada) THEN dada ELSE [dada EXCEPT !.status = "resultado_indeterminado"]
      e == exec[p] IN
  /\ exec[p].pc = "resposta"
  /\ IF p \notin Trabalhadores /\ t # dada THEN Termina(p) /\ UNCHANGED tentativas
     ELSE /\ tentativas' = [tentativas EXCEPT ![i] = t]
          /\ IF p \in Trabalhadores
             THEN CASE t.status = "registrada" -> Passa(p, [e EXCEPT !.pc = "agendarLer"])
                    [] e.resp = "falha_local" -> \E s \in {"ciencia_aguardando_envio", "erro_processamento"} : Gravar(p, s)
                    [] OTHER -> Resultado(p, t.status)
             ELSE IF Tipo(p) = "ciencia" /\ e.resp \in Aceitos \union {"573"}
                  THEN Passa(p, [Ocioso EXCEPT !.pc = "agendarConfig", !.resp = e.resp])
                  ELSE IF e.resp \in Aceitos THEN Inicia(p, "agendarLer")
                  ELSE Termina(p)
  /\ UNCHANGED <<config, tarefa, xml, importado, sefaz, transmitidas>>

\* scheduleManualScienceRecovery: the configuration, and the task whatever it was.
AgendarConfig(p) ==
  /\ exec[p].pc = "agendarConfig"
  /\ config' = [config EXCEPT !.xml = TRUE]
  /\ Ir(p, "agendarTarefa")
  /\ UNCHANGED <<tarefa, tentativas, xml, importado, sefaz, transmitidas>>

AgendarTarefa(p) ==
  /\ exec[p].pc = "agendarTarefa"
  /\ tarefa' = NovaTarefa(IF exec[p].resp \in Aceitos THEN "aguardando_xml" ELSE "resultado_indeterminado")
  /\ Termina(p)
  /\ UNCHANGED <<config, tentativas, xml, importado, sefaz, transmitidas>>

\* scheduleXmlRecovery: a read, and an update by id.
DepoisDeAgendar(p) == IF p \in Trabalhadores THEN Resultado(p, "registrada") ELSE Termina(p)

AgendarLer(p) ==
  /\ exec[p].pc = "agendarLer"
  /\ IF tarefa = Nenhum \/ ~config.xml THEN DepoisDeAgendar(p)
     ELSE IF tarefa.status = "xml_disponivel" THEN DepoisDeAgendar(p)
     ELSE Ir(p, "agendarGravar")
  /\ UNCHANGED <<banco, sefaz, transmitidas>>

AgendarGravar(p) ==
  /\ exec[p].pc = "agendarGravar"
  /\ tarefa' = [tarefa EXCEPT !.status = "aguardando_xml"]
  /\ DepoisDeAgendar(p)
  /\ UNCHANGED <<config, tentativas, xml, importado, sefaz, transmitidas>>

-----------------------------------------------------------------------------
(* reconcileImportedManifestations                                         *)

\* The attempts without a result; one that has been on its way for ten minutes has none, and
\* its process is gone: a send ends after thirty seconds.
Reconciliar(p) ==
  LET abertas == {i \in Linhas : tentativas[i].status \in Incertos} IN
  /\ exec[p].pc = "ocioso"
  /\ abertas # {}
  /\ \E velhas \in SUBSET {i \in abertas : \A q \in Processos : exec[q].tent # i} :
       tentativas' = [i \in Indices |-> IF i \in velhas
                                        THEN [tentativas[i] EXCEPT !.status = "resultado_indeterminado"]
                                        ELSE tentativas[i]]
  /\ Passa(p, [Ocioso EXCEPT !.pc = "eventos", !.alvos = abertas])
  /\ UNCHANGED <<config, tarefa, xml, importado, sefaz, transmitidas>>

\* Same kind, same sequence; a Ciencia without one has the only one there is.
Oficiais(i) ==
  {r \in Importados :
     /\ r.tipo = tentativas[i].tipo /\ r.status \in Aceitos
     /\ r.seq = tentativas[i].seq \/ (r.seq = 0 /\ r.tipo = "ciencia")}

LerEventos(p) ==
  LET alvos == {i \in exec[p].alvos : Oficiais(i) # {}} IN
  /\ exec[p].pc = "eventos"
  /\ IF alvos = {} THEN Termina(p) ELSE Passa(p, [exec[p] EXCEPT !.pc = "reconciliar", !.alvos = alvos])
  /\ UNCHANGED <<banco, sefaz, transmitidas>>

\* Oldest first, each with its task; an index that refuses one ends the request.
ReconciliarTentativa(p) ==
  LET i == Min(exec[p].alvos) IN
  /\ exec[p].pc = "reconciliar"
  /\ \E r \in Oficiais(i) :
       LET t == [tentativas[i] EXCEPT !.status = r.status] IN
       IF Unica(i, t)
       THEN /\ tentativas' = [tentativas EXCEPT ![i] = t]
            /\ Ir(p, "liberarTarefa")
       ELSE Termina(p) /\ UNCHANGED tentativas
  /\ UNCHANGED <<config, tarefa, xml, importado, sefaz, transmitidas>>

LiberarTarefa(p) ==
  LET resto == exec[p].alvos \ {Min(exec[p].alvos)} IN
  /\ exec[p].pc = "liberarTarefa"
  /\ tarefa' = IF tarefa = Nenhum THEN Nenhum
               ELSE IF tarefa.status = "resultado_indeterminado"
               THEN NovaTarefa("aguardando_xml") ELSE tarefa
  /\ IF resto = {} THEN Termina(p) ELSE Passa(p, [exec[p] EXCEPT !.pc = "reconciliar", !.alvos = resto])
  /\ UNCHANGED <<config, tentativas, xml, importado, sefaz, transmitidas>>

-----------------------------------------------------------------------------
(* The worker: claimDueRecoveryTasks, prepareAutomaticRecovery,            *)
(* registerAutomaticScience, runAutomaticXmlRecoveryCycle                  *)

Devida ==
  /\ tarefa # Nenhum
  /\ \/ config.ciencia /\ tarefa.status = "ciencia_aguardando_envio"
     \/ config.xml /\ tarefa.status = "aguardando_xml"

LerFila(w) ==
  /\ exec[w].pc = "ocioso"
  /\ Devida
  /\ Passa(w, [Ocioso EXCEPT !.pc = "posse", !.lease = tarefa.lease])
  /\ UNCHANGED <<banco, sefaz, transmitidas>>

\* The update asks for the lease only.
TomarPosse(w) ==
  /\ exec[w].pc = "posse"
  /\ IF tarefa.lease \in {Nenhum, exec[w].lease}
     THEN tarefa' = [tarefa EXCEPT !.lease = w] /\ Inicia(w, "preparar")
     ELSE Termina(w) /\ UNCHANGED tarefa
  /\ UNCHANGED <<config, tentativas, xml, importado, sefaz, transmitidas>>

Preparar(w) ==
  /\ exec[w].pc = "preparar"
  /\ IF tarefa.lease # w THEN Inicia(w, "liberar")
     ELSE IF xml THEN Gravar(w, "xml_disponivel")
     ELSE Passa(w, [exec[w] EXCEPT !.pc = "historico", !.cfg = config])
  /\ UNCHANGED <<banco, sefaz, transmitidas>>

LerHistoricoDaTarefa(w) ==
  LET ciencia == Ha(Historico, {"ciencia"}, {"registrada"})
      aceita  == ciencia \/ Ha(Historico, Conclusivas, Aceitos) IN
  /\ exec[w].pc = "historico"
  /\ IF Ha(Historico, Tipos, Incertos) THEN Gravar(w, "resultado_indeterminado")
     ELSE IF aceita THEN Resultado(w, "registrada")
     ELSE IF Ha(Historico, {"ciencia"}, {"registrada_sem_vinculo"}) THEN Gravar(w, "aguardando_xml")
     ELSE IF ~exec[w].cfg.ciencia THEN Gravar(w, "ciencia_aguardando_envio")
     ELSE Ir(w, "ciencia")
  /\ UNCHANGED <<banco, sefaz, transmitidas>>

\* The note again: it must still be a summary.  The certificate and the ten days may end it.
AbrirCiencia(w) ==
  /\ exec[w].pc = "ciencia"
  /\ IF xml THEN Gravar(w, "erro_processamento")
     ELSE \/ Ir(w, "anteriores")
          \/ \E s \in {"ciencia_aguardando_envio", "erro_processamento"} : Gravar(w, s)
  /\ UNCHANGED <<banco, sefaz, transmitidas>>

\* The last Ciencia decides; one that failed before it was sent may be repeated.
LerAnteriores(w) ==
  LET ciencias == {i \in Linhas : tentativas[i].tipo = "ciencia"}
      ultimas == {r.status : r \in {m \in Importados : m.tipo = "ciencia"}}
                 \union (IF ciencias = {} THEN {} ELSE {tentativas[Max(ciencias)].status})
      Prosseguir == Passa(w, [exec[w] EXCEPT !.pc = "autorizacao", !.autorizada = config.ciencia]) IN
  /\ exec[w].pc = "anteriores"
  /\ IF Ha(Historico, Tipos, Incertos) THEN Gravar(w, "resultado_indeterminado")
     ELSE IF Ha(Historico, Conclusivas, Aceitos) THEN Gravar(w, "erro_processamento")
     ELSE IF ultimas \subseteq {"falha_local"} THEN Prosseguir
     ELSE \E r \in ultimas : IF r = "falha_local" THEN Prosseguir ELSE Resultado(w, r)
  /\ UNCHANGED <<banco, sefaz, transmitidas>>

\* Mutant of LerAutorizacao: the configuration read with the task is used.
LerAutorizacaoDaTarefa(w) ==
  /\ exec[w].pc = "autorizacao"
  /\ IF exec[w].cfg.ciencia THEN Ir(w, "criar") ELSE Gravar(w, "autorizacao_revogada")
  /\ UNCHANGED <<banco, sefaz, transmitidas>>

LerAutorizacao(w) ==
  /\ exec[w].pc = "autorizacao"
  /\ IF config.ciencia THEN Ir(w, "criar") ELSE Gravar(w, "autorizacao_revogada")
  /\ UNCHANGED <<banco, sefaz, transmitidas>>

\* updateRecoveryTask
GravarTarefa(w) ==
  LET status == exec[w].status IN
  /\ exec[w].pc = "gravar"
  /\ tarefa' = IF tarefa.lease = w THEN [tarefa EXCEPT !.status = status] ELSE tarefa
  /\ Inicia(w, "liberar")
  /\ UNCHANGED <<config, tentativas, xml, importado, sefaz, transmitidas>>

\* releaseRecoveryTask
Liberar(w) ==
  /\ exec[w].pc = "liberar"
  /\ tarefa' = IF tarefa.lease = w THEN [tarefa EXCEPT !.lease = Nenhum] ELSE tarefa
  /\ Termina(w)
  /\ UNCHANGED <<config, tentativas, xml, importado, sefaz, transmitidas>>

\* The SEFAZ delivers the XML to a recipient that has taken notice or a position.
XmlLiberado == sefaz[<<"ciencia", 1>>] = "registrada" \/ \E e \in Conclusivas \X (1..2) : sefaz[e] # Nenhum

\* consultarChave with persistir: the XML is stored, then observed; or the summary comes again.
ConsultarComXml(w) ==
  /\ exec[w].pc = "consultar" /\ XmlLiberado
  /\ xml' = TRUE
  /\ Ir(w, "observarXml")
  /\ UNCHANGED <<config, tarefa, tentativas, importado, sefaz, transmitidas>>

ConsultarSemXml(w) ==
  /\ exec[w].pc = "consultar"
  /\ Ir(w, "persistido")
  /\ UNCHANGED <<banco, sefaz, transmitidas>>

\* What the document has become; cStat 656 is a wait too.
LerPersistido(w) ==
  /\ exec[w].pc = "persistido"
  /\ Passa(w, [exec[w] EXCEPT !.pc = "registrar",
                              !.status = IF xml THEN "xml_disponivel" ELSE "aguardando_xml"])
  /\ UNCHANGED <<banco, sefaz, transmitidas>>

\* recordAutomaticRecoveryResult gives the lease back itself.
Registrar(w) ==
  LET status == exec[w].status IN
  /\ exec[w].pc = "registrar"
  /\ tarefa' = IF tarefa.lease = w THEN NovaTarefa(status) ELSE tarefa
  /\ Termina(w)
  /\ UNCHANGED <<config, tentativas, xml, importado, sefaz, transmitidas>>

\* A statement or the query throws.  Around the answer that is an indeterminate result, unless it
\* cannot be written either; around the query a new attempt later; elsewhere, and then, the rows
\* are left as they are.
Excecao(w) ==
  /\ exec[w].pc \notin {"ocioso", "liberar", "registrar", "enviar"}
  /\ \/ /\ exec[w].pc \in {"resposta", "agendarLer", "agendarGravar"}
        /\ tentativas' = [tentativas EXCEPT ![exec[w].tent].status = "resultado_indeterminado"]
        /\ Gravar(w, "resultado_indeterminado")
     \/ /\ CASE exec[w].pc \in {"consultar", "observarXml", "persistido"} ->
                  Passa(w, [exec[w] EXCEPT !.pc = "registrar", !.status = "aguardando_xml"])
             [] exec[w].pc = "posse" -> Termina(w)
             [] OTHER -> Inicia(w, "liberar")
        /\ UNCHANGED tentativas
  /\ UNCHANGED <<config, tarefa, xml, importado, sefaz, transmitidas>>

-----------------------------------------------------------------------------
(* The distribution: documents are stored, then observePersistedDocument   *)

\* resEvento has no answer in it, some answers have no sequence.
Lido(e, forma) ==
  [tipo |-> e[1], seq |-> IF forma = "procEvento" THEN e[2] ELSE 0,
   status |-> IF forma = "resEvento" THEN "resultado_indeterminado" ELSE sefaz[e]]

DistribuirEvento(d, e) ==
  /\ exec[d].pc = "ocioso"
  /\ sefaz[e] # Nenhum /\ importado[e] = Nenhum
  /\ \E forma \in Formas : importado' = [importado EXCEPT ![e] = Lido(e, forma)]
  /\ Ir(d, "observar")
  /\ UNCHANGED <<config, tarefa, tentativas, xml, sefaz, transmitidas>>

DistribuirXml(d) ==
  /\ exec[d].pc = "ocioso"
  /\ XmlLiberado /\ ~xml
  /\ xml' = TRUE
  /\ Ir(d, "observar")
  /\ UNCHANGED <<config, tarefa, tentativas, importado, sefaz, transmitidas>>

DistribuirResumo(d) ==
  /\ exec[d].pc = "ocioso"
  /\ tarefa = Nenhum /\ ~xml
  /\ Ir(d, "observar")
  /\ UNCHANGED <<banco, sefaz, transmitidas>>

Observar(d) ==
  /\ exec[d].pc = "observar"
  /\ IF xml THEN Ir(d, "observarXml")
     ELSE IF config.ciencia \/ config.xml THEN Ir(d, "observarNovo")
     ELSE Termina(d)
  /\ UNCHANGED <<banco, sefaz, transmitidas>>

ObservarXml(p) ==
  /\ exec[p].pc = "observarXml"
  /\ tarefa' = IF tarefa = Nenhum THEN Nenhum ELSE NovaTarefa("xml_disponivel")
  /\ IF p \in Trabalhadores THEN Ir(p, "persistido") ELSE Termina(p)
  /\ UNCHANGED <<config, tentativas, xml, importado, sefaz, transmitidas>>

StatusInicial == "ciencia_aguardando_envio"

ObservarNovo(d) ==
  /\ exec[d].pc = "observarNovo"
  /\ tarefa' = IF tarefa = Nenhum THEN NovaTarefa(StatusInicial) ELSE tarefa
  /\ Termina(d)
  /\ UNCHANGED <<config, tentativas, xml, importado, sefaz, transmitidas>>

-----------------------------------------------------------------------------
(* The panel: updateAutomationSettings, revokeAutomationAuthorization      *)

\* The configuration, the tasks of notes that have none, the tasks it sets free.
Salvar(c) ==
  /\ config' = c
  /\ tarefa' =
       IF tarefa = Nenhum
       THEN IF (c.ciencia \/ c.xml) /\ ~xml THEN NovaTarefa(StatusInicial) ELSE Nenhum
       ELSE CASE c.xml /\ tarefa.status = "ciencia_registrada" ->
                   [tarefa EXCEPT !.status = "aguardando_xml"]
              [] c.ciencia /\ tarefa.status = "autorizacao_revogada" ->
                   [tarefa EXCEPT !.status = "ciencia_aguardando_envio"]
              [] OTHER -> tarefa
  /\ exec' = [p \in Processos |->
                IF c.ciencia /\ exec[p].pc = "autorizacao" THEN [exec[p] EXCEPT !.autorizada = TRUE] ELSE exec[p]]
  /\ UNCHANGED <<tentativas, xml, importado, sefaz, transmitidas>>

Revogar ==
  /\ config' = [config EXCEPT !.ciencia = FALSE]
  /\ UNCHANGED <<tarefa, tentativas, xml, importado, sefaz, exec, transmitidas>>

-----------------------------------------------------------------------------
(* Failures                                                                *)

\* The process dies, or a statement of a request or of the distribution throws.
Falhar(p) ==
  /\ exec[p] # Ocioso
  /\ Termina(p)
  /\ UNCHANGED <<banco, sefaz, transmitidas>>

-----------------------------------------------------------------------------

Transmissao(p) ==
  \/ Criar(p) \/ FalharAntes(p) \/ Enviar(p) \/ Responder(p) \/ AgendarLer(p) \/ AgendarGravar(p)

Atender(p) ==
  \/ LerHistorico(p) \/ Transmissao(p) \/ AgendarConfig(p) \/ AgendarTarefa(p)
  \/ LerEventos(p) \/ ReconciliarTentativa(p) \/ LiberarTarefa(p)

Trabalhar(w) ==
  \/ LerFila(w) \/ TomarPosse(w) \/ Preparar(w) \/ LerHistoricoDaTarefa(w) \/ AbrirCiencia(w)
  \/ LerAnteriores(w) \/ LerAutorizacao(w) \/ Transmissao(w) \/ GravarTarefa(w) \/ Liberar(w)
  \/ ConsultarComXml(w) \/ ConsultarSemXml(w) \/ ObservarXml(w) \/ LerPersistido(w) \/ Registrar(w)

Distribuir(d) == Observar(d) \/ ObservarXml(d) \/ ObservarNovo(d)

Next ==
  \/ \E p \in Operadores : Atender(p) \/ Reconciliar(p) \/ \E q \in Pedidos : Submeter(p, q)
  \/ \E w \in Trabalhadores : Trabalhar(w) \/ Excecao(w)
  \/ Distribuir(Distribuicao) \/ DistribuirXml(Distribuicao) \/ DistribuirResumo(Distribuicao)
  \/ \E e \in Eventos : DistribuirEvento(Distribuicao, e)
  \/ \E c \in Configuracoes : Salvar(c)
  \/ Revogar
  \/ \E p \in Processos : Falhar(p)

Spec == Init /\ [][Next]_vars

\* A request and the distribution go on and the cycle comes round.  An operator reconciles
\* again and again, and no statement of that fails every time.
FairSpec ==
  /\ Spec
  /\ \A p \in Operadores :
       WF_vars(Atender(p)) /\ SF_vars(Reconciliar(p)) /\ SF_vars(LerEventos(p)) /\ SF_vars(ReconciliarTentativa(p))
  /\ \A w \in Trabalhadores : WF_vars(Trabalhar(w))
  /\ WF_vars(Distribuir(Distribuicao))

-----------------------------------------------------------------------------
(* Properties                                                              *)

\* docs/nfe-distribuicao.md:125 "Lote 128 sozinho nunca e tratado como registro individual": an
\* attempt is registered only if the SEFAZ has registered that event, whoever wrote the row
\* last; and falha_local, after which the worker sends again, is said of none that was sent.
ResultadoVerdadeiro ==
  \A i \in Linhas :
    LET t == tentativas[i] IN
    /\ t.status \in Aceitos => sefaz[<<t.tipo, t.seq>>] # Nenhum
    /\ t.status = "falha_local" => i \notin transmitidas

\* Two Ciencias are never on their way at once: whichever of the operators' requests and the
\* workers read the history before the other one's row was there.
EmVooUnica ==
  \A p, q \in Operadores \union Trabalhadores :
    exec[p].pc = "enviar" /\ exec[q].pc = "enviar" /\ Tipo(p) = "ciencia" /\ Tipo(q) = "ciencia" => p = q

\* docs/nfe-distribuicao.md:119 "Revogar a autorizacao bloqueia novos envios": a worker sends
\* only if the establishment was authorised at some time after it had read the earlier events.
EnvioAutorizado == \A w \in Trabalhadores : exec[w].pc \in {"criar", "enviar"} => exec[w].autorizada

\* docs/nfe-distribuicao.md:127 "se encontrar o mesmo tipo e sequencia, atualiza o protocolo e
\* libera a recuperacao": once the registered Ciencia has been distributed, no attempt of it
\* stays without a result.
ReconciliacaoLibera ==
  importado[<<"ciencia", 1>>] # Nenhum
    ~> (Ha(Importados, {"ciencia"}, {"resultado_indeterminado"}) \/ ~Ha(Tentadas, {"ciencia"}, Incertos))
=============================================================================
