--------------------------- MODULE NfseDocumentos ---------------------------
(***************************************************************************)
(* What an item of the ADN's distribution does to the tables of NFS-e:     *)
(* persistDfeDocumentFromNsu, persistEventoFromNsu, the reconciliation by  *)
(* access key and by NSU (src/src/modules/sync/sync.service.ts) and        *)
(* syncDocumentoVinculos (src/src/modules/nfse/nfse.service.ts).           *)
(*                                                                         *)
(* A note is distributed to the establishments of both its parties, each   *)
(* with its own sequence of NSUs, and its cancellation as an item of its   *)
(* own later.  One row per note is kept, in the custody of the client that *)
(* came first; the other one gets a link (vinculo).  There are no          *)
(* transactions: every statement is a step, others come in between, and    *)
(* any of them may be the last before a failure or a restart, after which  *)
(* the item is asked for again.                                            *)
(*                                                                         *)
(* Left out: the columns that do not decide anything, the files, ambiente  *)
(* (one is modelled), items without NSU, events that are no cancellation.  *)
(***************************************************************************)
EXTENDS Integers, FiniteSets

CONSTANTS
  Controles,        \* establishments with a control, one execution each
  Clientes,
  ClienteDe,        \* [Controles -> Clientes]
  Chaves,           \* access keys of the notes
  Parte,            \* [Chaves -> [Papeis -> Controles \union {Nenhum}]]
  Sequencia,        \* [Controles -> [NSU -> item]], what the ADN has for each
  Inicio,           \* [Controles -> NSU the control starts after]
  Nenhum,
  MaxNsu,
  MaxIds,           \* bound of the identities of rows in use at a time
  Tentativas        \* SYNC_NSU_CONFLICT_RETRY_COUNT

Papeis == {"emissao", "tomada"}
Ids    == 1..MaxIds
Itens  == [tipo : {"nota", "cancelamento"}, chave : Chaves]

ASSUME DadosAssumption ==
  /\ MaxNsu \in Nat /\ MaxIds \in Nat /\ Tentativas \in Nat
  /\ ClienteDe \in [Controles -> Clientes]
  /\ Parte \in [Chaves -> [Papeis -> Controles \union {Nenhum}]]
  /\ Sequencia \in [Controles -> [1..MaxNsu -> Itens \union {Nenhum}]]
  /\ Inicio \in [Controles -> 0..MaxNsu]
  /\ Nenhum \notin Controles \union Clientes \union Chaves \union Itens

VARIABLES
  documentos,       \* nfse_documentos: [Ids -> row or Nenhum]
  vinculos,         \* nfse_documento_vinculos: [Ids -> [Papeis -> link or Nenhum]]
  eventos,          \* nfse_eventos: [Chaves -> id of the row of the cancellation's note, or 0]
  exec,             \* [Controles -> local state of persistDfeDocumentFromNsu]
  feitos,           \* [Controles -> last NSU stored], the cursor of the control
  disputadas        \* notes of which two items were being stored at the same time

tabelas == <<documentos, vinculos, eventos>>
vars    == <<tabelas, exec, feitos, disputadas>>

\* fiscal is the note whose data the row holds; nsu 0 is null.
Documento == [cliente : Clientes, chave : Chaves, nsu : 0..MaxNsu, cancelada : BOOLEAN,
              dataCancelamento : BOOLEAN, fiscal : Chaves \union {Nenhum}]
Vinculo   == [cliente : Clientes, nsu : 0..MaxNsu]

\* The reference found before the files are written: what a note copies from it.
Referencia == [cancelada : BOOLEAN, dataCancelamento : BOOLEAN]

ASSUME NenhumAssumption == Nenhum \notin Documento \union Vinculo \union Referencia

Execucao ==
  [pc        : {"ocioso", "referencia", "chave", "nsu", "vincular", "realocar", "removerEventos",
                "removerDuplicado", "desligar", "custodia", "atualizar", "upsert", "conflito",
                "desligarConflito", "atualizarConflito", "evento"},
   nsu       : 0..MaxNsu,
   ref       : Referencia \union {Nenhum},
   id        : Ids \union {0},          \* existingByChave, then the row that is written
   outro     : Ids \union {0},          \* existingByNsu
   partes    : Chaves \union {Nenhum},   \* note whose CNPJs the links are for
   papeis    : SUBSET Papeis,           \* links still to write
   novaChave : BOOLEAN,                 \* identityChanged
   tentativa : 0..Tentativas]

Ocioso == [pc |-> "ocioso", nsu |-> 0, ref |-> Nenhum, id |-> 0, outro |-> 0,
           partes |-> Nenhum, papeis |-> {}, novaChave |-> FALSE, tentativa |-> 0]

Vivos == {i \in Ids : documentos[i] # Nenhum}

\* Identities that neither a row nor an execution nor an event knows: a new row gets one of
\* them, which nobody can tell from one never used.
Livres ==
  {i \in Ids \ Vivos : /\ \A c \in Controles : i \notin {exec[c].id, exec[c].outro}
                       /\ \A k \in Chaves : eventos[k] # i
                       /\ \A p \in Papeis : vinculos[i][p] = Nenhum}

TypeOK ==
  /\ documentos \in [Ids -> Documento \union {Nenhum}]
  /\ vinculos \in [Ids -> [Papeis -> Vinculo \union {Nenhum}]]
  /\ eventos \in [Chaves -> Ids \union {0}]
  /\ exec \in [Controles -> Execucao]
  /\ feitos \in [Controles -> 0..MaxNsu] /\ disputadas \subseteq Chaves

Init ==
  /\ documentos = [i \in Ids |-> Nenhum]
  /\ vinculos = [i \in Ids |-> [p \in Papeis |-> Nenhum]]
  /\ eventos = [k \in Chaves |-> 0]
  /\ exec = [c \in Controles |-> Ocioso]
  /\ feitos = Inicio /\ disputadas = {}

-----------------------------------------------------------------------------
(* The tables                                                              *)

Item(c) == Sequencia[c][exec[c].nsu]
Eu(c)   == ClienteDe[c]

\* The unique keys: (ambiente, chaveAcesso) and (clienteId, ambiente, nsu).
PorChave(k) == IF \E i \in Vivos : documentos[i].chave = k
               THEN CHOOSE i \in Vivos : documentos[i].chave = k ELSE 0

\* Mutant: the NSU alone, as if all clients shared one sequence.
PorNsuDeTodos(cliente, n) ==
  LET achados == {i \in Vivos : documentos[i].nsu = n} IN
  IF achados # {} THEN CHOOSE i \in achados : TRUE ELSE 0

PorNsu(cliente, n) ==
  LET achados == {i \in Vivos : documentos[i].cliente = cliente /\ documentos[i].nsu = n} IN
  IF achados # {} THEN CHOOSE i \in achados : TRUE ELSE 0

Ligados(i) == {vinculos[i][p] : p \in Papeis} \ {Nenhum}

\* Row i cannot become d: another one has a key of it.
Conflita(i, d) ==
  \E j \in Vivos \ {i} :
    \/ documentos[j].chave = d.chave
    \/ d.nsu # 0 /\ <<documentos[j].cliente, documentos[j].nsu>> = <<d.cliente, d.nsu>>

Passa(c, e) == exec' = [exec EXCEPT ![c] = e]

\* It throws: the control will ask for the item again.
Lanca(c) == Passa(c, Ocioso) /\ UNCHANGED <<tabelas, feitos>>

Maior(m, n) == IF m < n THEN n ELSE m

\* The document is stored; an event still has to be.
Guarda(c, i) ==
  IF Item(c).tipo = "nota"
  THEN Passa(c, Ocioso) /\ feitos' = [feitos EXCEPT ![c] = Maior(@, exec[c].nsu)]
  ELSE Passa(c, [exec[c] EXCEPT !.pc = "evento", !.id = i]) /\ UNCHANGED feitos

\* Mutant: the note is written with the status of its XML.
ComDadosDoXml(c, d) ==
  IF Item(c).tipo = "cancelamento" THEN [d EXCEPT !.cancelada = TRUE, !.dataCancelamento = TRUE]
  ELSE [d EXCEPT !.cancelada = FALSE, !.fiscal = Item(c).chave]

\* updateData laid over a row: a note carries the cancellation it has read, and leaves the
\* date alone if it found no reference; a cancellation touches nothing else.
ComDados(c, d) ==
  LET ref == exec[c].ref IN
  IF Item(c).tipo = "cancelamento" THEN [d EXCEPT !.cancelada = TRUE, !.dataCancelamento = TRUE]
  ELSE [d EXCEPT !.cancelada = ref # Nenhum /\ (ref.cancelada \/ ref.dataCancelamento),
                 !.dataCancelamento = IF ref = Nenhum THEN @ ELSE ref.dataCancelamento,
                 !.fiscal = Item(c).chave]

\* The same when the row becomes the note's: custody, NSU, key, and no date but its own.
Reescrito(c, d) ==
  ComDados(c, [d EXCEPT !.cliente = Eu(c), !.chave = Item(c).chave, !.nsu = exec[c].nsu,
                        !.dataCancelamento = IF exec[c].novaChave THEN FALSE ELSE @])

Novo(c) ==
  ComDados(c, [cliente |-> Eu(c), chave |-> Item(c).chave, nsu |-> exec[c].nsu, cancelada |-> FALSE,
               dataCancelamento |-> FALSE, fiscal |-> Nenhum])

-----------------------------------------------------------------------------
(* persistDfeDocumentFromNsu                                               *)

Abrir(c, n) ==
  LET item == Sequencia[c][n] IN
  /\ exec[c].pc = "ocioso"
  /\ item # Nenhum
  /\ Passa(c, [Ocioso EXCEPT !.pc = IF item.tipo = "nota" THEN "referencia" ELSE "chave", !.nsu = n])
  /\ disputadas' = IF \E d \in Controles \ {c} : exec[d] # Ocioso /\ Item(d).chave = item.chave
                   THEN disputadas \union {item.chave} ELSE disputadas
  /\ UNCHANGED <<tabelas, feitos>>

\* The next item of the sequence; NSUs without one are answered and passed.
Receber(c, n) ==
  /\ feitos[c] < n
  /\ \A m \in (feitos[c] + 1)..(n - 1) : Sequencia[c][m] = Nenhum
  /\ Abrir(c, n)

\* One that was stored before: a batch that failed half way, the recovery of past NSUs.
Repetir(c, n) ==
  /\ Inicio[c] < n /\ n <= feitos[c]
  /\ Abrir(c, n)

\* findClienteReferenceForChave: the client's own row, or the one it has a link to, with the
\* NSU of that.
NsusDe(cliente, i) ==
  CASE i = 0 -> {}
    [] i # 0 /\ documentos[i].cliente = cliente -> {documentos[i].nsu}
    [] OTHER -> {v.nsu : v \in {u \in Ligados(i) : u.cliente = cliente}}

\* shouldSkipPersistedDocumento: the same document has come with the same NSU.
LerReferencia(c) ==
  LET i == PorChave(Item(c).chave) IN
  /\ exec[c].pc = "referencia"
  /\ IF NsusDe(Eu(c), i) = {}
     THEN Passa(c, [exec[c] EXCEPT !.pc = "chave"]) /\ UNCHANGED feitos
     ELSE \E n \in NsusDe(Eu(c), i) :
            IF documentos[i].fiscal = Item(c).chave /\ n = exec[c].nsu
            THEN Guarda(c, i)
            ELSE /\ Passa(c, [exec[c] EXCEPT !.pc = "chave",
                                 !.ref = [cancelada |-> documentos[i].cancelada,
                                          dataCancelamento |-> documentos[i].dataCancelamento]])
                 /\ UNCHANGED feitos
  /\ UNCHANGED tabelas

-----------------------------------------------------------------------------
(* resolveExistingDocumentoBeforeUpsert                                    *)

\* Mutant: the row of another client is enough.
LerPorChaveSemVinculo(c) ==
  LET i == PorChave(Item(c).chave) IN
  /\ exec[c].pc = "chave"
  /\ IF i # 0 /\ documentos[i].cliente # Eu(c) THEN Guarda(c, i)
     ELSE Passa(c, [exec[c] EXCEPT !.pc = "nsu", !.id = i]) /\ UNCHANGED feitos
  /\ UNCHANGED tabelas

\* Mutant: the row of another client is updated like one's own.
LerPorChaveSemCustodia(c) ==
  LET i == PorChave(Item(c).chave) IN
  /\ exec[c].pc = "chave"
  /\ Passa(c, [exec[c] EXCEPT !.id = i,
                 !.pc = IF i # 0 /\ documentos[i].cliente # Eu(c) THEN "atualizar" ELSE "nsu"])
  /\ UNCHANGED <<tabelas, feitos>>

\* Mutant: there is nothing to store for the row of another client.
LerPorChaveSemEvento(c) ==
  LET i == PorChave(Item(c).chave) IN
  /\ exec[c].pc = "chave"
  /\ IF i # 0 /\ documentos[i].cliente # Eu(c)
     THEN Passa(c, Ocioso) /\ feitos' = [feitos EXCEPT ![c] = Maior(@, exec[c].nsu)]
     ELSE Passa(c, [exec[c] EXCEPT !.pc = "nsu", !.id = i]) /\ UNCHANGED feitos
  /\ UNCHANGED tabelas

\* A row of another client's only gets a link, for the CNPJs of the note or, from an event,
\* for those the row has.
LerPorChave(c) ==
  LET i == PorChave(Item(c).chave)
      partes == IF Item(c).tipo = "nota" THEN Item(c).chave ELSE documentos[i].fiscal IN
  /\ exec[c].pc = "chave"
  /\ IF i # 0 /\ documentos[i].cliente # Eu(c)
     THEN LET papeis == IF partes = Nenhum THEN {}
                        ELSE {p \in Papeis : Parte[partes][p] # Nenhum} IN
          IF papeis = {} THEN Guarda(c, i)
          ELSE /\ Passa(c, [exec[c] EXCEPT !.pc = "vincular", !.id = i, !.partes = partes,
                                           !.papeis = papeis])
               /\ UNCHANGED feitos
     ELSE Passa(c, [exec[c] EXCEPT !.pc = "nsu", !.id = i]) /\ UNCHANGED feitos
  /\ UNCHANGED tabelas

\* Mutant: the NSU is written to every link.
VincularComNsu(c) ==
  LET e == exec[c]
      p == IF "emissao" \in e.papeis THEN "emissao" ELSE "tomada"
      vinculo == [cliente |-> ClienteDe[Parte[e.partes][p]], nsu |-> e.nsu]
      repetido == \E i \in Ids, q \in Papeis : <<i, q>> # <<e.id, p>> /\ vinculos[i][q] = vinculo IN
  /\ e.pc = "vincular"
  /\ IF e.id \notin Vivos \/ repetido THEN Lanca(c)
     ELSE /\ vinculos' = [vinculos EXCEPT ![e.id][p] = vinculo]
          /\ IF e.papeis = {p} THEN Guarda(c, e.id)
             ELSE Passa(c, [e EXCEPT !.papeis = @ \ {p}]) /\ UNCHANGED feitos
          /\ UNCHANGED <<documentos, eventos>>

\* syncDocumentoVinculos, one role; the NSU is written to the client's own link.
Vincular(c) ==
  LET e == exec[c]
      p == IF "emissao" \in e.papeis THEN "emissao" ELSE "tomada"
      cliente == ClienteDe[Parte[e.partes][p]]
      vinculo == [cliente |-> cliente,
                  nsu |-> IF cliente = Eu(c) THEN e.nsu
                          ELSE IF vinculos[e.id][p] # Nenhum THEN vinculos[e.id][p].nsu ELSE 0]
      repetido == \E i \in Ids, q \in Papeis :
                    /\ <<i, q>> # <<e.id, p>> /\ vinculos[i][q] # Nenhum
                    /\ vinculos[i][q] = vinculo /\ vinculo.nsu # 0 IN
  /\ e.pc = "vincular"
  /\ IF e.id \notin Vivos \/ repetido THEN Lanca(c)
     ELSE /\ vinculos' = [vinculos EXCEPT ![e.id][p] = vinculo]
          /\ IF e.papeis = {p} THEN Guarda(c, e.id)
             ELSE Passa(c, [e EXCEPT !.papeis = @ \ {p}]) /\ UNCHANGED feitos
          /\ UNCHANGED <<documentos, eventos>>

\* One row for the key and another for the NSU: they are merged.  One for the NSU with
\* another key: it is taken over.
LerPorNsu(c) ==
  LET e == exec[c]
      j == PorNsu(Eu(c), e.nsu) IN
  /\ e.pc = "nsu"
  /\ Passa(c, CASE e.id = 0 /\ j = 0 -> [e EXCEPT !.pc = "upsert"]
                [] e.id # 0 /\ j # 0 /\ e.id # j -> [e EXCEPT !.pc = "realocar", !.outro = j]
                [] j # 0 /\ e.id \in {0, j} /\ documentos[j].chave # Item(c).chave ->
                     [e EXCEPT !.pc = "desligar", !.id = j, !.novaChave = TRUE]
                [] OTHER -> [e EXCEPT !.pc = "custodia", !.id = IF e.id # 0 THEN e.id ELSE j])
  /\ UNCHANGED <<tabelas, feitos>>

\* mergeDocumentoDuplicates: three statements.
RealocarEventos(c) ==
  LET e == exec[c]
      k == Item(c).chave IN
  /\ e.pc = "realocar"
  /\ IF eventos[k] = e.outro /\ e.id \notin Vivos THEN Lanca(c)
     ELSE /\ eventos' = [eventos EXCEPT ![k] = IF @ = e.outro THEN e.id ELSE @]
          /\ Passa(c, [e EXCEPT !.pc = "removerEventos"])
          /\ UNCHANGED <<documentos, vinculos, feitos>>

SemEventosDe(i, S) == [k \in Chaves |-> IF eventos[k] = i /\ k \in S THEN 0 ELSE eventos[k]]

RemoverEventos(c) ==
  /\ exec[c].pc = "removerEventos"
  /\ eventos' = SemEventosDe(exec[c].outro, Chaves)
  /\ Passa(c, [exec[c] EXCEPT !.pc = "removerDuplicado"])
  /\ UNCHANGED <<documentos, vinculos, feitos>>

\* Links and events go with the row.
RemoverDuplicado(c) ==
  LET i == exec[c].outro IN
  /\ exec[c].pc = "removerDuplicado"
  /\ IF i \notin Vivos THEN Lanca(c)
     ELSE /\ documentos' = [documentos EXCEPT ![i] = Nenhum]
          /\ vinculos' = [vinculos EXCEPT ![i] = [p \in Papeis |-> Nenhum]]
          /\ eventos' = SemEventosDe(i, Chaves)
          /\ Passa(c, [exec[c] EXCEPT !.pc = "custodia", !.outro = 0])
          /\ UNCHANGED feitos

\* detachStaleEventosOnIdentityChange
DesligarEventos(c) ==
  LET e == exec[c] IN
  /\ e.pc \in {"desligar", "desligarConflito"}
  /\ eventos' = SemEventosDe(e.id, Chaves \ {Item(c).chave})
  /\ Passa(c, [e EXCEPT !.pc = IF e.pc = "desligar" THEN "custodia" ELSE "atualizarConflito"])
  /\ UNCHANGED <<documentos, vinculos, feitos>>

\* updateDocumentoById: the check of the custody, and the update.
LerCustodia(c) ==
  /\ exec[c].pc = "custodia"
  /\ IF exec[c].id \in Vivos /\ documentos[exec[c].id].cliente # Eu(c) THEN Lanca(c)
     ELSE Passa(c, [exec[c] EXCEPT !.pc = "atualizar"]) /\ UNCHANGED <<tabelas, feitos>>

Escreve(c, i, d) ==
  /\ documentos' = [documentos EXCEPT ![i] = d]
  /\ Guarda(c, i)
  /\ UNCHANGED <<vinculos, eventos>>

Atualizar(c) ==
  LET i == exec[c].id IN
  /\ exec[c].pc = "atualizar"
  /\ IF i \notin Vivos THEN Lanca(c)
     ELSE IF Conflita(i, Reescrito(c, documentos[i])) THEN Lanca(c)
     ELSE Escreve(c, i, Reescrito(c, documentos[i]))

-----------------------------------------------------------------------------
(* upsertDocumentoResolvingNsuConflict, when neither read found a row       *)

\* A row that has come up meanwhile gets updateData: not the custody from a note, custody but
\* no NSU from an event.
Upsert(c) ==
  LET i == PorChave(Item(c).chave)
      d == IF i = 0 THEN Novo(c)
           ELSE ComDados(c, IF Item(c).tipo = "nota" THEN [documentos[i] EXCEPT !.nsu = exec[c].nsu]
                            ELSE [documentos[i] EXCEPT !.cliente = Eu(c)]) IN
  /\ exec[c].pc = "upsert"
  /\ IF Conflita(i, d)
     THEN Passa(c, [exec[c] EXCEPT !.pc = "conflito"]) /\ UNCHANGED <<tabelas, feitos>>
     ELSE IF i # 0 THEN Escreve(c, i, d)
     ELSE Livres # {} /\ Escreve(c, CHOOSE j \in Livres : TRUE, d)

\* Mutant: one attempt too many.
NovaTentativaUmaAMais(c) ==
  IF exec[c].tentativa > Tentativas THEN Lanca(c)
  ELSE /\ Passa(c, [exec[c] EXCEPT !.pc = "upsert", !.id = 0, !.novaChave = FALSE, !.tentativa = @ + 1])
       /\ UNCHANGED <<tabelas, feitos>>

NovaTentativa(c) ==
  IF exec[c].tentativa >= Tentativas THEN Lanca(c)
  ELSE /\ Passa(c, [exec[c] EXCEPT !.pc = "upsert", !.id = 0, !.novaChave = FALSE, !.tentativa = @ + 1])
       /\ UNCHANGED <<tabelas, feitos>>

\* tryReconcileDocumentoByNsu: the row with the NSU, its events, the update.
LerConflito(c) ==
  LET i == PorNsu(Eu(c), exec[c].nsu) IN
  /\ exec[c].pc = "conflito"
  /\ IF i = 0 THEN NovaTentativa(c)
     ELSE /\ Passa(c, [exec[c] EXCEPT !.pc = "desligarConflito", !.id = i, !.novaChave = TRUE])
          /\ UNCHANGED <<tabelas, feitos>>

AtualizarConflito(c) ==
  LET i == exec[c].id
      j == PorChave(Item(c).chave) IN
  /\ exec[c].pc = "atualizarConflito"
  /\ IF i \notin Vivos THEN Lanca(c)
     ELSE IF ~Conflita(i, Reescrito(c, documentos[i])) THEN Escreve(c, i, Reescrito(c, documentos[i]))
     ELSE IF j = 0 THEN NovaTentativa(c)
     ELSE Guarda(c, j) /\ UNCHANGED tabelas

-----------------------------------------------------------------------------
(* persistEventoFromNsu, its last statement                                *)

GravarEvento(c) ==
  /\ exec[c].pc = "evento"
  /\ IF exec[c].id \notin Vivos THEN Lanca(c)
     ELSE /\ eventos' = [eventos EXCEPT ![Item(c).chave] = exec[c].id]
          /\ feitos' = [feitos EXCEPT ![c] = Maior(@, exec[c].nsu)]
          /\ Passa(c, Ocioso)
          /\ UNCHANGED <<documentos, vinculos>>

-----------------------------------------------------------------------------

\* The database or the storage fails, or the process dies.
Falhar(c) == exec[c] # Ocioso /\ Lanca(c) /\ UNCHANGED disputadas

Persistir(c) ==
  /\ \/ LerReferencia(c) \/ LerPorChave(c) \/ Vincular(c) \/ LerPorNsu(c)
     \/ RealocarEventos(c) \/ RemoverEventos(c) \/ RemoverDuplicado(c) \/ DesligarEventos(c)
     \/ LerCustodia(c) \/ Atualizar(c) \/ Upsert(c) \/ LerConflito(c) \/ AtualizarConflito(c)
     \/ GravarEvento(c)
  /\ UNCHANGED disputadas

Next ==
  \E c \in Controles :
    \/ \E n \in 1..MaxNsu : Receber(c, n) \/ Repetir(c, n)
    \/ Persistir(c)
    \/ Falhar(c)

Spec == Init /\ [][Next]_vars

\* runNow asks for the next NSU again and again, and an execution goes on.
FairSpec ==
  /\ Spec
  /\ \A c \in Controles : WF_vars(\E n \in 1..MaxNsu : Receber(c, n)) /\ WF_vars(Persistir(c))

-----------------------------------------------------------------------------
(* Properties                                                              *)

\* Item n of c was stored, and is one of these.
Feito(c, n, tipo) ==
  /\ Inicio[c] < n /\ n <= feitos[c]
  /\ Sequencia[c][n] # Nenhum /\ Sequencia[c][n].tipo = tipo

\* A note that was answered stays, with its own data: what other clients store next to it,
\* with NSUs of their own that may be the same numbers, retries and failures between any two
\* statements do not take it away.  (Two executions that store the same note may.)
NotaGuardada ==
  \A c \in Controles, n \in 1..MaxNsu :
    LET k == Sequencia[c][n].chave IN
    Feito(c, n, "nota") /\ k \notin disputadas =>
      PorChave(k) # 0 /\ documentos[PorChave(k)].fiscal = k

\* docs/database.md:36: a cancellation that came to the client with the custody is never
\* undone by a note that is stored again later, or that comes after it.
CancelamentoVale ==
  \A c \in Controles, n \in 1..MaxNsu :
    LET k == Sequencia[c][n].chave
        i == PorChave(k) IN
    Feito(c, n, "cancelamento") /\ k \notin disputadas =>
      /\ i # 0
      /\ \/ documentos[i].cliente # ClienteDe[c]
         \/ documentos[i].cancelada /\ documentos[i].dataCancelamento

\* sync.service.ts:3832 "apenas garantimos o vinculo (emissao/tomada) deste cliente": each of
\* the two clients sees the note, by custody or by a link, once its control has stored it.
AmbosVeem ==
  \A c \in Controles, n \in 1..MaxNsu :
    LET i == PorChave(Sequencia[c][n].chave) IN
    Feito(c, n, "nota") /\ Sequencia[c][n].chave \notin disputadas =>
      i # 0 /\ (documentos[i].cliente = ClienteDe[c] \/ \E v \in Ligados(i) : v.cliente = ClienteDe[c])

\* A cancellation that was stored hangs on the row of its note, whatever rows were merged or
\* took over another key meanwhile.
EventoGuardado ==
  \A c \in Controles, n \in 1..MaxNsu :
    Feito(c, n, "cancelamento") /\ Sequencia[c][n].chave \notin disputadas =>
      /\ eventos[Sequencia[c][n].chave] # 0
      /\ eventos[Sequencia[c][n].chave] = PorChave(Sequencia[c][n].chave)

\* sync.service.ts:3832 "preservando a custodia original": as long as a row is the note's, its
\* client stays, whatever the other client's control stores of the note.
CustodiaPreservada ==
  [][\A i \in Vivos :
       /\ documentos'[i] # Nenhum /\ documentos'[i].chave = documentos[i].chave
       /\ documentos[i].chave \notin disputadas
       => documentos'[i].cliente = documentos[i].cliente]_vars

\* An exception of the code's own, on a key, looks like a failure but is not one.
FalhasCessam ==
  <>[][\A c \in Controles : (Falhar(c) => Persistir(c)) /\ \A n \in 1..MaxNsu : ~Repetir(c, n)]_vars

\* No unique key stands in the way of an item for ever: neither the keys of the rows nor those
\* of the links make one fail on every attempt.
SequenciaTermina ==
  FalhasCessam => <>(\A c \in Controles, n \in 1..MaxNsu : Sequencia[c][n] # Nenhum => feitos[c] >= n)
=============================================================================
