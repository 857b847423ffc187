------------------------- MODULE NfseDocumentosProofs -------------------------
(***************************************************************************)
(* The types of NfseDocumentos for every instance and, as long as no two   *)
(* executions store items of one note at the same time, what becomes of    *)
(* every note and every cancellation that was answered.                    *)
(***************************************************************************)
EXTENDS NfseDocumentos, TLAPS

\* What local state e of control c holds besides its types.
PassoOK(c, e) ==
  /\ e.pc # "ocioso" => e.nsu \in 1..MaxNsu /\ Sequencia[c][e.nsu] \in Itens
  /\ e.pc = "vincular" =>
       e.partes \in Chaves /\ e.papeis # {} /\ \A p \in e.papeis : Parte[e.partes][p] \in Controles

TabelasOK ==
  /\ documentos \in [Ids -> Documento \union {Nenhum}]
  /\ vinculos \in [Ids -> [Papeis -> Vinculo \union {Nenhum}]]
  /\ eventos \in [Chaves -> Ids \union {0}]

ExecucoesOK ==
  /\ exec \in [Controles -> Execucao] /\ feitos \in [Controles -> 0..MaxNsu]
  /\ \A c \in Controles : PassoOK(c, exec[c]) /\ Inicio[c] <= feitos[c]

TInv == TabelasOK /\ ExecucoesOK /\ disputadas \subseteq Chaves

-----------------------------------------------------------------------------
(* A client has one sequence of NSUs, its items are about notes the        *)
(* control is a party of, an event comes after the note; and no two        *)
(* executions have stored items of one note at the same time.              *)

UmControlePorCliente == \A c, d \in Controles : ClienteDe[c] = ClienteDe[d] => c = d

DeUmaParte ==
  \A c \in Controles, n \in 1..MaxNsu :
    Sequencia[c][n] # Nenhum => \E p \in Papeis : Parte[Sequencia[c][n].chave][p] = c

NotaAntes ==
  \A c \in Controles, n \in 1..MaxNsu :
    Sequencia[c][n] # Nenhum /\ Sequencia[c][n].tipo = "cancelamento" /\ Inicio[c] < n =>
      \E m \in 1..MaxNsu : /\ Inicio[c] < m /\ m < n /\ Sequencia[c][m] # Nenhum
                           /\ Sequencia[c][m].tipo = "nota"
                           /\ Sequencia[c][m].chave = Sequencia[c][n].chave

Calma == UmControlePorCliente /\ DeUmaParte /\ NotaAntes /\ disputadas = {}

-----------------------------------------------------------------------------
(* The inductive invariant                                                 *)

DaChave(k) == {i \in Vivos : documentos[i].chave = k}

\* A row is the note's, and has the client and the NSU of an item of the note.
LinhaOK(d) ==
  /\ d.fiscal = d.chave
  /\ \E c \in Controles, n \in 1..MaxNsu :
       /\ d.cliente = ClienteDe[c] /\ d.nsu = n
       /\ Sequencia[c][n] # Nenhum /\ Sequencia[c][n].chave = d.chave

\* The client of the party with role p in note k sees row i by a link.
Ligada(i, p, k) == vinculos[i][p] # Nenhum /\ vinculos[i][p].cliente = ClienteDe[Parte[k][p]]

\* One row per note, whose links are for the parties of the note.
Linhas ==
  /\ \A i \in Vivos : LinhaOK(documentos[i])
  /\ \A i, j \in Vivos : documentos[i].chave = documentos[j].chave => i = j
  /\ \A i \in Vivos, p \in Papeis : vinculos[i][p] # Nenhum => Ligada(i, p, documentos[i].chave)

Cancelada(i) == documentos[i].cancelada /\ documentos[i].dataCancelamento

\* What control c relies on in local state e: the rows of its note, which nobody else writes to.
AndamentoDe(c, e) ==
  LET k == Sequencia[c][e.nsu].chave
      tipo == Sequencia[c][e.nsu].tipo
      propria(i) == i \in DaChave(k) /\ documentos[i].cliente = Eu(c) IN
  /\ e.pc \in {"referencia", "chave", "nsu", "vincular", "custodia", "atualizar", "upsert", "evento"}
  /\ ~e.novaChave
  /\ Inicio[c] < e.nsu /\ \A m \in feitos[c] + 1..e.nsu - 1 : Sequencia[c][m] = Nenhum
  /\ tipo = "cancelamento" => DaChave(k) # {} /\ e.pc # "referencia"
  /\ e.pc = "nsu" => IF e.id = 0 THEN DaChave(k) = {} ELSE propria(e.id)
  /\ e.pc = "upsert" => DaChave(k) = {}
  /\ e.pc \in {"custodia", "atualizar"} => propria(e.id)
  /\ e.pc = "vincular" =>
       /\ e.id \in DaChave(k) /\ documentos[e.id].cliente # Eu(c) /\ e.partes = k
       /\ \A p \in Papeis : Parte[k][p] # Nenhum => p \in e.papeis \/ Ligada(e.id, p, k)
  /\ e.pc = "evento" =>
       /\ tipo = "cancelamento" /\ e.id \in DaChave(k)
       /\ documentos[e.id].cliente = Eu(c) => Cancelada(e.id)
  /\ tipo = "nota" /\ e.pc \in {"chave", "nsu", "custodia", "atualizar"} =>
       \A i \in Ids : propria(i) =>
         e.ref = [cancelada |-> documentos[i].cancelada, dataCancelamento |-> documentos[i].dataCancelamento]

Andamento(c) == AndamentoDe(c, exec[c])

Ativos == {c \in Controles : exec[c].pc # "ocioso"}

\* What an item that was answered left behind.
Guardado(c, item) ==
  \E i \in DaChave(item.chave) :
    /\ item.tipo = "nota" =>
         \/ documentos[i].cliente = ClienteDe[c]
         \/ \E p \in Papeis : vinculos[i][p] # Nenhum /\ vinculos[i][p].cliente = ClienteDe[c]
    /\ item.tipo = "cancelamento" =>
         /\ eventos[item.chave] = i
         /\ documentos[i].cliente # ClienteDe[c] \/ Cancelada(i)

IInv ==
  /\ TInv /\ Linhas
  /\ \A c \in Ativos : Andamento(c)
  /\ \A c, d \in Ativos : c # d => Item(c).chave # Item(d).chave
  /\ \A c \in Controles, n \in 1..MaxNsu :
       Inicio[c] < n /\ n <= feitos[c] /\ Sequencia[c][n] # Nenhum => Guardado(c, Sequencia[c][n])
-----------------------------------------------------------------------------
(* The types                                                               *)

LEMMA OciosoTipo == Ocioso \in Execucao /\ \A c \in Controles : PassoOK(c, Ocioso)
  BY DadosAssumption, SMT DEF Ocioso, Execucao, Papeis, PassoOK, Ids

LEMMA ZeroNaoEIdentidade == 0 \notin Ids
  BY DadosAssumption DEF Ids

\* A row is found by its key exactly when there is one.
LEMMA PorChaveAcha ==
  ASSUME NEW k
  PROVE  /\ PorChave(k) \in Ids \union {0}
         /\ PorChave(k) # 0 => PorChave(k) \in DaChave(k)
         /\ DaChave(k) # {} => PorChave(k) # 0
<1>1. CASE \E i \in Vivos : documentos[i].chave = k
  BY <1>1, ZeroNaoEIdentidade DEF PorChave, DaChave, Vivos
<1>2. CASE ~\E i \in Vivos : documentos[i].chave = k
  BY <1>2 DEF PorChave, DaChave
<1> QED BY <1>1, <1>2

LEMMA PorNsuAcha ==
  ASSUME NEW u, NEW n
  PROVE  /\ PorNsu(u, n) \in Ids \union {0}
         /\ PorNsu(u, n) # 0 => /\ PorNsu(u, n) \in Vivos
                                /\ documentos[PorNsu(u, n)].cliente = u
                                /\ documentos[PorNsu(u, n)].nsu = n
<1> DEFINE A == {i \in Vivos : documentos[i].cliente = u /\ documentos[i].nsu = n}
<1>1. CASE A # {}
  BY <1>1 DEF PorNsu, Vivos
<1>2. CASE A = {}
  BY <1>2 DEF PorNsu
<1> QED BY <1>1, <1>2

\* The rows an execution writes are rows.
LEMMA DadosTipo ==
  ASSUME TInv, NEW c \in Controles, exec[c].pc # "ocioso", NEW d \in Documento
  PROVE  ComDados(c, d) \in Documento /\ Reescrito(c, d) \in Documento /\ Novo(c) \in Documento
<1>1. /\ Item(c) \in Itens /\ exec[c].nsu \in 0..MaxNsu /\ Eu(c) \in Clientes
      /\ exec[c].ref \in Referencia \union {Nenhum}
  BY DadosAssumption DEF TInv, ExecucoesOK, PassoOK, Item, Eu, Execucao
<1>2. ASSUME NEW f \in Documento PROVE ComDados(c, f) \in Documento
  <2>1. CASE Item(c).tipo = "cancelamento"
    BY <2>1 DEF ComDados, Documento
  <2>2. CASE Item(c).tipo # "cancelamento"
    BY <2>2, <1>1 DEF ComDados, Documento, Itens, Referencia
  <2> QED BY <2>1, <2>2
<1>3. Item(c).chave \in Chaves
  BY <1>1 DEF Itens
<1>4. [d EXCEPT !.cliente = Eu(c), !.chave = Item(c).chave, !.nsu = exec[c].nsu,
                !.dataCancelamento = IF exec[c].novaChave THEN FALSE ELSE @] \in Documento
  BY <1>1, <1>3 DEF Documento
<1>5. [cliente |-> Eu(c), chave |-> Item(c).chave, nsu |-> exec[c].nsu, cancelada |-> FALSE,
       dataCancelamento |-> FALSE, fiscal |-> Nenhum] \in Documento
  BY <1>1, <1>3 DEF Documento
<1> QED BY <1>2, <1>4, <1>5 DEF Reescrito, Novo

LEMMA MaiorTipo ==
  ASSUME NEW m \in 0..MaxNsu, NEW n \in 0..MaxNsu
  PROVE  Maior(m, n) \in 0..MaxNsu /\ m <= Maior(m, n) /\ n <= Maior(m, n)
  BY DadosAssumption DEF Maior

LEMMA PassaTipo ==
  ASSUME TInv, NEW c \in Controles, NEW e \in Execucao, PassoOK(c, e), Passa(c, e), UNCHANGED feitos
  PROVE  ExecucoesOK'
  BY DEF TInv, ExecucoesOK, Passa

\* The item is done.
LEMMA AvancaTipo ==
  ASSUME TInv, NEW c \in Controles, Passa(c, Ocioso), feitos' = [feitos EXCEPT ![c] = Maior(@, exec[c].nsu)]
  PROVE  ExecucoesOK'
<1>1. exec[c] \in Execucao /\ feitos[c] \in 0..MaxNsu /\ exec[c].nsu \in 0..MaxNsu /\ Inicio[c] \in 0..MaxNsu
  BY DadosAssumption DEF TInv, ExecucoesOK, Execucao
<1>2. Maior(feitos[c], exec[c].nsu) \in 0..MaxNsu /\ Inicio[c] <= Maior(feitos[c], exec[c].nsu)
  <2>1. feitos[c] <= Maior(feitos[c], exec[c].nsu) /\ Maior(feitos[c], exec[c].nsu) \in 0..MaxNsu
    BY <1>1, MaiorTipo
  <2>2. Inicio[c] <= feitos[c]
    BY DEF TInv, ExecucoesOK
  <2> QED BY <1>1, <2>1, <2>2
<1>3. feitos'[c] = Maior(feitos[c], exec[c].nsu) /\ \A d \in Controles : d # c => feitos'[d] = feitos[d]
  BY DEF TInv, ExecucoesOK
<1>4. exec' \in [Controles -> Execucao] /\ \A d \in Controles : PassoOK(d, exec'[d])
  BY OciosoTipo DEF TInv, ExecucoesOK, Passa
<1>5. feitos' \in [Controles -> 0..MaxNsu]
  BY <1>2 DEF TInv, ExecucoesOK
<1>6. \A d \in Controles : Inicio[d] <= feitos'[d]
  BY <1>2, <1>3 DEF TInv, ExecucoesOK
<1> QED BY <1>4, <1>5, <1>6 DEF ExecucoesOK

LEMMA GuardaTipo ==
  ASSUME TInv, NEW c \in Controles, exec[c].pc # "ocioso", NEW i \in Ids \union {0}, Guarda(c, i)
  PROVE  ExecucoesOK'
<1>1. exec[c] \in Execucao /\ PassoOK(c, exec[c]) /\ feitos[c] \in 0..MaxNsu /\ exec[c].nsu \in 0..MaxNsu
  BY DEF TInv, ExecucoesOK, Execucao
<1>2. CASE Item(c).tipo = "nota"
  <2>1. Passa(c, Ocioso) /\ feitos' = [feitos EXCEPT ![c] = Maior(@, exec[c].nsu)]
    BY <1>2 DEF Guarda
  <2> QED BY <2>1, AvancaTipo
<1>3. CASE Item(c).tipo # "nota"
  <2> DEFINE e == [exec[c] EXCEPT !.pc = "evento", !.id = i]
  <2>1. e \in Execucao
    BY <1>1 DEF Execucao
  <2>2. PassoOK(c, e)
    BY <1>1 DEF PassoOK, Execucao
  <2>3. Passa(c, e) /\ UNCHANGED feitos
    BY <1>3 DEF Guarda
  <2> QED BY <2>1, <2>2, <2>3, PassaTipo
<1> QED BY <1>2, <1>3

LEMMA LancaTipo ==
  ASSUME TInv, NEW c \in Controles, Lanca(c)
  PROVE  TabelasOK' /\ ExecucoesOK'
<1>1. ExecucoesOK'
  BY OciosoTipo, PassaTipo DEF Lanca
<1> QED BY <1>1 DEF Lanca, tabelas, TInv, TabelasOK

\* A step of an execution on the item it works at.
LEMMA SegueTipo ==
  ASSUME TInv, NEW c \in Controles, exec[c].pc # "ocioso", NEW e \in Execucao,
         e.nsu = exec[c].nsu, e.pc # "vincular", Passa(c, e), UNCHANGED feitos
  PROVE  ExecucoesOK'
<1>1. PassoOK(c, e)
  BY DEF TInv, ExecucoesOK, PassoOK
<1> QED BY <1>1, PassaTipo

LEMMA TabelasIguais == TInv /\ UNCHANGED tabelas => TabelasOK'
  BY DEF TInv, TabelasOK, tabelas

LEMMA AbrirTipo ==
  ASSUME TInv, NEW c \in Controles, NEW n \in 1..MaxNsu, Abrir(c, n)
  PROVE  TInv'
<1> DEFINE e == [Ocioso EXCEPT !.pc = IF Sequencia[c][n].tipo = "nota" THEN "referencia" ELSE "chave",
                               !.nsu = n]
<1>1. Sequencia[c][n] \in Itens
  BY DadosAssumption DEF Abrir
<1>2. e \in Execucao
  <2> DEFINE q == IF Sequencia[c][n].tipo = "nota" THEN "referencia" ELSE "chave"
  <2>1. q \in {"referencia", "chave"} /\ n \in 0..MaxNsu
    BY DadosAssumption
  <2> HIDE DEF q
  <2>2. [Ocioso EXCEPT !.pc = q, !.nsu = n] \in Execucao
    BY <2>1, OciosoTipo DEF Execucao
  <2> QED BY <2>2 DEF q
<1>3. PassoOK(c, e)
  <2>1. e.nsu = n /\ e.pc \in {"referencia", "chave"}
    BY DEF Ocioso
  <2> QED BY <2>1, <1>1 DEF PassoOK
<1>4. Passa(c, e) /\ UNCHANGED <<tabelas, feitos>>
  BY DEF Abrir
<1>5. ExecucoesOK'
  BY <1>2, <1>3, <1>4, PassaTipo
<1>6. disputadas' \subseteq Chaves
  BY <1>1 DEF Abrir, TInv, Itens
<1> QED BY <1>4, <1>5, <1>6, TabelasIguais DEF TInv

LEMMA LerReferenciaTipo ==
  ASSUME TInv, NEW c \in Controles, LerReferencia(c)
  PROVE  TabelasOK' /\ ExecucoesOK'
<1> DEFINE i == PorChave(Item(c).chave)
<1>1. exec[c].pc = "referencia" /\ UNCHANGED tabelas
  BY DEF LerReferencia
<1>2. exec[c] \in Execucao /\ exec[c].pc # "ocioso"
  BY <1>1 DEF TInv, ExecucoesOK
<1>3. i \in Ids \union {0} /\ (i # 0 => i \in Vivos)
  BY PorChaveAcha DEF DaChave
<1>4. CASE NsusDe(Eu(c), i) = {}
  <2> DEFINE e == [exec[c] EXCEPT !.pc = "chave"]
  <2>1. e \in Execucao /\ e.nsu = exec[c].nsu /\ e.pc # "vincular"
    BY <1>2 DEF Execucao
  <2>2. Passa(c, e) /\ UNCHANGED feitos
    BY <1>4 DEF LerReferencia
  <2> QED BY <1>1, <1>2, <2>1, <2>2, SegueTipo, TabelasIguais
<1>5. ASSUME NEW n \in NsusDe(Eu(c), i), ~(documentos[i].fiscal = Item(c).chave /\ n = exec[c].nsu),
             Passa(c, [exec[c] EXCEPT !.pc = "chave",
                                 !.ref = [cancelada |-> documentos[i].cancelada,
                                          dataCancelamento |-> documentos[i].dataCancelamento]]),
             UNCHANGED feitos
      PROVE  ExecucoesOK'
  <2> DEFINE r == [cancelada |-> documentos[i].cancelada, dataCancelamento |-> documentos[i].dataCancelamento]
             e == [exec[c] EXCEPT !.pc = "chave", !.ref = r]
  <2>1. i # 0
    BY <1>5 DEF NsusDe
  <2>2. documentos[i] \in Documento
    BY <2>1, <1>3 DEF TInv, TabelasOK, Vivos
  <2>3. r \in Referencia
    BY <2>2 DEF Documento, Referencia
  <2>4. e \in Execucao /\ e.nsu = exec[c].nsu /\ e.pc # "vincular"
    BY <1>2, <2>3 DEF Execucao
  <2> QED BY <1>2, <1>5, <2>4, SegueTipo
<1>6. ASSUME NEW n \in NsusDe(Eu(c), i), Guarda(c, i) PROVE ExecucoesOK'
  BY <1>2, <1>3, <1>6, GuardaTipo
<1>7. CASE NsusDe(Eu(c), i) # {}
  <2>1. \E n \in NsusDe(Eu(c), i) :
            IF documentos[i].fiscal = Item(c).chave /\ n = exec[c].nsu
            THEN Guarda(c, i)
            ELSE /\ Passa(c, [exec[c] EXCEPT !.pc = "chave",
                                 !.ref = [cancelada |-> documentos[i].cancelada,
                                          dataCancelamento |-> documentos[i].dataCancelamento]])
                 /\ UNCHANGED feitos
    BY <1>7 DEF LerReferencia
  <2> QED BY <2>1, <1>1, <1>5, <1>6, TabelasIguais
<1> QED BY <1>4, <1>7

LEMMA LerPorChaveTipo ==
  ASSUME TInv, NEW c \in Controles, LerPorChave(c)
  PROVE  TabelasOK' /\ ExecucoesOK'
<1> DEFINE i == PorChave(Item(c).chave)
           partes == IF Item(c).tipo = "nota" THEN Item(c).chave ELSE documentos[i].fiscal
           papeis == IF partes = Nenhum THEN {} ELSE {p \in Papeis : Parte[partes][p] # Nenhum}
<1>1. exec[c].pc = "chave" /\ UNCHANGED tabelas
  BY DEF LerPorChave
<1>2. exec[c] \in Execucao /\ exec[c].pc # "ocioso" /\ PassoOK(c, exec[c])
  BY <1>1 DEF TInv, ExecucoesOK
<1>3. i \in Ids \union {0} /\ (i # 0 => i \in Vivos)
  BY PorChaveAcha DEF DaChave
<1>4. CASE i # 0 /\ documentos[i].cliente # Eu(c) /\ papeis = {}
  <2>1. Guarda(c, i)
    BY <1>4 DEF LerPorChave
  <2> QED BY <2>1, <1>1, <1>2, <1>3, GuardaTipo, TabelasIguais
<1>5. CASE i # 0 /\ documentos[i].cliente # Eu(c) /\ papeis # {}
  <2> DEFINE e == [exec[c] EXCEPT !.pc = "vincular", !.id = i, !.partes = partes, !.papeis = papeis]
  <2>1. Passa(c, e) /\ UNCHANGED feitos
    BY <1>5 DEF LerPorChave
  <2>2. documentos[i] \in Documento
    BY <1>5, <1>3 DEF TInv, TabelasOK, Vivos
  <2>3. partes \in Chaves
    <3>1. partes # Nenhum
      BY <1>5
    <3>2. Item(c) \in Itens
      BY <1>2 DEF PassoOK, Item
    <3> QED BY <3>1, <3>2, <2>2 DEF Itens, Documento
  <2>4. papeis \in SUBSET Papeis /\ papeis # {} /\ \A p \in papeis : Parte[partes][p] \in Controles
    <3> HIDE DEF partes
    <3>1. Parte[partes] \in [Papeis -> Controles \union {Nenhum}]
      BY <2>3, DadosAssumption
    <3> QED BY <3>1, <1>5
  <2> HIDE DEF partes, papeis, i
  <2>5. e \in Execucao /\ e.nsu = exec[c].nsu /\ e.partes = partes /\ e.papeis = papeis /\ e.pc = "vincular"
    BY <1>2, <1>3, <2>3, <2>4 DEF Execucao
  <2>6. PassoOK(c, e)
    BY <2>3, <2>4, <2>5, <1>2 DEF PassoOK
  <2> QED BY <2>1, <2>5, <2>6, <1>1, PassaTipo, TabelasIguais
<1>6. CASE ~(i # 0 /\ documentos[i].cliente # Eu(c))
  <2> DEFINE e == [exec[c] EXCEPT !.pc = "nsu", !.id = i]
  <2>1. Passa(c, e) /\ UNCHANGED feitos
    BY <1>6 DEF LerPorChave
  <2>2. e \in Execucao /\ e.nsu = exec[c].nsu /\ e.pc # "vincular"
    BY <1>2, <1>3 DEF Execucao
  <2> QED BY <2>1, <2>2, <1>1, <1>2, SegueTipo, TabelasIguais
<1> QED BY <1>4, <1>5, <1>6

LEMMA VincularTipo ==
  ASSUME TInv, NEW c \in Controles, Vincular(c)
  PROVE  TabelasOK' /\ ExecucoesOK'
<1> DEFINE e == exec[c]
           p == IF "emissao" \in e.papeis THEN "emissao" ELSE "tomada"
           u == ClienteDe[Parte[e.partes][p]]
           v == [cliente |-> u,
                 nsu |-> IF u = Eu(c) THEN e.nsu
                         ELSE IF vinculos[e.id][p] # Nenhum THEN vinculos[e.id][p].nsu ELSE 0]
<1>1. e.pc = "vincular" /\ e \in Execucao /\ PassoOK(c, e)
  BY DEF Vincular, TInv, ExecucoesOK
<1>2. CASE Lanca(c)
  BY <1>2, LancaTipo
<1>3. CASE ~Lanca(c)
  <2>1. /\ e.id \in Vivos
        /\ vinculos' = [vinculos EXCEPT ![e.id][p] = v]
        /\ IF e.papeis = {p} THEN Guarda(c, e.id)
           ELSE Passa(c, [e EXCEPT !.papeis = @ \ {p}]) /\ UNCHANGED feitos
        /\ UNCHANGED <<documentos, eventos>>
    BY <1>3 DEF Vincular
  <2>2. e.id \in Ids /\ e.nsu \in 0..MaxNsu
    BY <2>1, <1>1 DEF Vivos, Execucao
  <2>3. p \in e.papeis /\ p \in Papeis /\ Parte[e.partes][p] \in Controles
    <3>1. e.papeis # {} /\ e.papeis \subseteq Papeis
      BY <1>1 DEF PassoOK, Execucao
    <3>2. p \in e.papeis
      BY <3>1 DEF Papeis
    <3> QED BY <3>1, <3>2, <1>1 DEF PassoOK
  <2>4. u \in Clientes
    BY <2>3, DadosAssumption
  <2>5. vinculos[e.id][p] \in Vinculo \union {Nenhum}
    BY <2>2, <2>3 DEF TInv, TabelasOK
  <2>6. v \in Vinculo
    BY <2>2, <2>4, <2>5, DadosAssumption DEF Vinculo
  <2>7. vinculos' \in [Ids -> [Papeis -> Vinculo \union {Nenhum}]]
    <3> HIDE DEF v, p, e
    <3> QED BY <2>1, <2>2, <2>3, <2>6 DEF TInv, TabelasOK
  <2>8. TabelasOK'
    BY <2>1, <2>7 DEF TInv, TabelasOK
  <2>9. CASE e.papeis = {p}
    BY <2>1, <2>2, <2>8, <2>9, <1>1, GuardaTipo
  <2>10. CASE e.papeis # {p}
    <3> DEFINE f == [e EXCEPT !.papeis = @ \ {p}]
    <3>1. Passa(c, f) /\ UNCHANGED feitos
      BY <2>1, <2>10
    <3> HIDE DEF p
    <3>2. f \in Execucao /\ f.nsu = e.nsu /\ f.partes = e.partes /\ f.papeis = e.papeis \ {p} /\ f.pc = e.pc
      BY <1>1 DEF Execucao
    <3>3. PassoOK(c, f)
      BY <1>1, <3>2, <2>3, <2>10 DEF PassoOK
    <3> QED BY <3>1, <3>2, <3>3, <2>8, PassaTipo
  <2> QED BY <2>9, <2>10
<1> QED BY <1>2, <1>3

LEMMA LerPorNsuTipo ==
  ASSUME TInv, NEW c \in Controles, LerPorNsu(c)
  PROVE  TabelasOK' /\ ExecucoesOK'
<1> DEFINE e == exec[c]
           j == PorNsu(Eu(c), e.nsu)
<1>1. e.pc = "nsu" /\ e \in Execucao /\ UNCHANGED <<tabelas, feitos>>
  BY DEF LerPorNsu, TInv, ExecucoesOK
<1>2. j \in Ids \union {0}
  BY PorNsuAcha
<1>3. PICK f : Passa(c, f) /\ f \in {[e EXCEPT !.pc = "upsert"], [e EXCEPT !.pc = "realocar", !.outro = j],
                                     [e EXCEPT !.pc = "desligar", !.id = j, !.novaChave = TRUE],
                                     [e EXCEPT !.pc = "custodia", !.id = IF e.id # 0 THEN e.id ELSE j]}
  BY DEF LerPorNsu
<1>4. f \in Execucao /\ f.nsu = e.nsu /\ f.pc # "vincular"
  <2>1. e.id \in Ids \union {0}
    BY <1>1 DEF Execucao
  <2> DEFINE q == IF e.id # 0 THEN e.id ELSE j
  <2>2. q \in Ids \union {0}
    BY <1>2, <2>1
  <2> HIDE DEF j, q
  <2>3. CASE f = [e EXCEPT !.pc = "upsert"]
    BY <1>1, <2>3 DEF Execucao
  <2>4. CASE f = [e EXCEPT !.pc = "realocar", !.outro = j]
    BY <1>1, <1>2, <2>4 DEF Execucao
  <2>5. CASE f = [e EXCEPT !.pc = "desligar", !.id = j, !.novaChave = TRUE]
    BY <1>1, <1>2, <2>5 DEF Execucao
  <2>6. CASE f = [e EXCEPT !.pc = "custodia", !.id = q]
    BY <1>1, <2>2, <2>6 DEF Execucao
  <2> QED BY <1>3, <2>3, <2>4, <2>5, <2>6 DEF q
<1> QED BY <1>1, <1>3, <1>4, SegueTipo, TabelasIguais

LEMMA SemEventosTipo ==
  ASSUME TInv, NEW i, NEW S
  PROVE  SemEventosDe(i, S) \in [Chaves -> Ids \union {0}]
  BY DEF TInv, TabelasOK, SemEventosDe

LEMMA RealocarEventosTipo ==
  ASSUME TInv, NEW c \in Controles, RealocarEventos(c)
  PROVE  TabelasOK' /\ ExecucoesOK'
<1> DEFINE e == exec[c]
           k == Item(c).chave
<1>1. e.pc = "realocar" /\ e \in Execucao
  BY DEF RealocarEventos, TInv, ExecucoesOK
<1>2. CASE Lanca(c)
  BY <1>2, LancaTipo
<1>3. CASE ~Lanca(c)
  <2>1. /\ eventos' = [eventos EXCEPT ![k] = IF @ = e.outro THEN e.id ELSE @]
        /\ Passa(c, [e EXCEPT !.pc = "removerEventos"])
        /\ UNCHANGED <<documentos, vinculos, feitos>>
    BY <1>3 DEF RealocarEventos
  <2>2. e.id \in Ids \union {0}
    BY <1>1 DEF Execucao
  <2>3. TabelasOK'
    BY <2>1, <2>2 DEF TInv, TabelasOK
  <2>4. [e EXCEPT !.pc = "removerEventos"] \in Execucao
    BY <1>1 DEF Execucao
  <2> QED BY <1>1, <2>1, <2>3, <2>4, SegueTipo DEF Execucao
<1> QED BY <1>2, <1>3

LEMMA RemoverEventosTipo ==
  ASSUME TInv, NEW c \in Controles, RemoverEventos(c)
  PROVE  TabelasOK' /\ ExecucoesOK'
<1>1. exec[c].pc = "removerEventos" /\ exec[c] \in Execucao
  BY DEF RemoverEventos, TInv, ExecucoesOK
<1>2. TabelasOK'
  BY SemEventosTipo DEF RemoverEventos, TInv, TabelasOK
<1>3. [exec[c] EXCEPT !.pc = "removerDuplicado"] \in Execucao
  BY <1>1 DEF Execucao
<1> QED BY <1>1, <1>2, <1>3, SegueTipo DEF Execucao, RemoverEventos

LEMMA RemoverDuplicadoTipo ==
  ASSUME TInv, NEW c \in Controles, RemoverDuplicado(c)
  PROVE  TabelasOK' /\ ExecucoesOK'
<1> DEFINE i == exec[c].outro
<1>1. exec[c].pc = "removerDuplicado" /\ exec[c] \in Execucao
  BY DEF RemoverDuplicado, TInv, ExecucoesOK
<1>2. CASE Lanca(c)
  BY <1>2, LancaTipo
<1>3. CASE ~Lanca(c)
  <2>1. /\ documentos' = [documentos EXCEPT ![i] = Nenhum]
        /\ vinculos' = [vinculos EXCEPT ![i] = [p \in Papeis |-> Nenhum]]
        /\ eventos' = SemEventosDe(i, Chaves)
        /\ Passa(c, [exec[c] EXCEPT !.pc = "custodia", !.outro = 0])
        /\ UNCHANGED feitos
    BY <1>3 DEF RemoverDuplicado
  <2>2. TabelasOK'
    BY <2>1, SemEventosTipo DEF TInv, TabelasOK
  <2>3. [exec[c] EXCEPT !.pc = "custodia", !.outro = 0] \in Execucao
    BY <1>1 DEF Execucao
  <2> QED BY <1>1, <2>1, <2>2, <2>3, SegueTipo DEF Execucao
<1> QED BY <1>2, <1>3

LEMMA DesligarEventosTipo ==
  ASSUME TInv, NEW c \in Controles, DesligarEventos(c)
  PROVE  TabelasOK' /\ ExecucoesOK'
<1> DEFINE q == IF exec[c].pc = "desligar" THEN "custodia" ELSE "atualizarConflito"
<1>1. exec[c].pc # "ocioso" /\ exec[c] \in Execucao /\ q \in {"custodia", "atualizarConflito"}
  BY DEF DesligarEventos, TInv, ExecucoesOK
<1>2. TabelasOK'
  BY SemEventosTipo DEF DesligarEventos, TInv, TabelasOK
<1>3. Passa(c, [exec[c] EXCEPT !.pc = q]) /\ UNCHANGED feitos
  BY DEF DesligarEventos
<1> HIDE DEF q
<1>4. [exec[c] EXCEPT !.pc = q] \in Execucao /\ [exec[c] EXCEPT !.pc = q].pc # "vincular"
  BY <1>1 DEF Execucao
<1> QED BY <1>1, <1>2, <1>3, <1>4, SegueTipo DEF Execucao

LEMMA LerCustodiaTipo ==
  ASSUME TInv, NEW c \in Controles, LerCustodia(c)
  PROVE  TabelasOK' /\ ExecucoesOK'
<1>1. exec[c].pc = "custodia" /\ exec[c] \in Execucao
  BY DEF LerCustodia, TInv, ExecucoesOK
<1>2. CASE Lanca(c)
  BY <1>2, LancaTipo
<1>3. CASE ~Lanca(c)
  <2>1. Passa(c, [exec[c] EXCEPT !.pc = "atualizar"]) /\ UNCHANGED <<tabelas, feitos>>
    BY <1>3 DEF LerCustodia
  <2>2. [exec[c] EXCEPT !.pc = "atualizar"] \in Execucao
    BY <1>1 DEF Execucao
  <2> QED BY <1>1, <2>1, <2>2, SegueTipo, TabelasIguais DEF Execucao
<1> QED BY <1>2, <1>3

LEMMA EscreveTipo ==
  ASSUME TInv, NEW c \in Controles, exec[c].pc # "ocioso", NEW i \in Ids, NEW d \in Documento, Escreve(c, i, d)
  PROVE  TabelasOK' /\ ExecucoesOK'
<1>1. TabelasOK'
  BY DEF Escreve, TInv, TabelasOK
<1>2. ExecucoesOK'
  BY GuardaTipo DEF Escreve
<1> QED BY <1>1, <1>2

LEMMA AtualizarTipo ==
  ASSUME TInv, NEW c \in Controles, Atualizar(c)
  PROVE  TabelasOK' /\ ExecucoesOK'
<1> DEFINE i == exec[c].id
<1>1. CASE Lanca(c)
  BY <1>1, LancaTipo
<1>2. CASE ~Lanca(c)
  <2>1. i \in Vivos /\ Escreve(c, i, Reescrito(c, documentos[i])) /\ exec[c].pc = "atualizar"
    BY <1>2 DEF Atualizar
  <2>2. i \in Ids /\ documentos[i] \in Documento
    BY <2>1 DEF TInv, TabelasOK, Vivos
  <2>3. Reescrito(c, documentos[i]) \in Documento
    BY <2>1, <2>2, DadosTipo
  <2> QED BY <2>1, <2>2, <2>3, EscreveTipo
<1> QED BY <1>1, <1>2

LEMMA UpsertTipo ==
  ASSUME TInv, NEW c \in Controles, Upsert(c)
  PROVE  TabelasOK' /\ ExecucoesOK'
<1> DEFINE i == PorChave(Item(c).chave)
           d == IF i = 0 THEN Novo(c)
                ELSE ComDados(c, IF Item(c).tipo = "nota" THEN [documentos[i] EXCEPT !.nsu = exec[c].nsu]
                                 ELSE [documentos[i] EXCEPT !.cliente = Eu(c)])
<1>1. exec[c].pc = "upsert" /\ exec[c] \in Execucao
  BY DEF Upsert, TInv, ExecucoesOK
<1>2. i \in Ids \union {0} /\ (i # 0 => i \in Vivos)
  BY PorChaveAcha DEF DaChave
<1>3. CASE Conflita(i, d)
  <2>1. Passa(c, [exec[c] EXCEPT !.pc = "conflito"]) /\ UNCHANGED <<tabelas, feitos>>
    BY <1>3 DEF Upsert
  <2>2. [exec[c] EXCEPT !.pc = "conflito"] \in Execucao
    BY <1>1 DEF Execucao
  <2> QED BY <1>1, <2>1, <2>2, SegueTipo, TabelasIguais DEF Execucao
<1>4. CASE ~Conflita(i, d) /\ i # 0
  <2>1. Escreve(c, i, d)
    BY <1>4 DEF Upsert
  <2>2. documentos[i] \in Documento
    BY <1>2, <1>4 DEF TInv, TabelasOK, Vivos
  <2>3. /\ [documentos[i] EXCEPT !.nsu = exec[c].nsu] \in Documento
        /\ [documentos[i] EXCEPT !.cliente = Eu(c)] \in Documento
    BY <2>2, <1>1, DadosAssumption DEF Documento, Execucao, Eu
  <2>4. d \in Documento
    <3> HIDE DEF i
    <3>1. CASE Item(c).tipo = "nota"
      BY <3>1, <1>1, <1>4, <2>3, DadosTipo
    <3>2. CASE Item(c).tipo # "nota"
      BY <3>2, <1>1, <1>4, <2>3, DadosTipo
    <3> QED BY <3>1, <3>2
  <2> QED BY <1>1, <1>2, <1>4, <2>1, <2>4, EscreveTipo
<1>5. CASE ~Conflita(i, d) /\ i = 0
  <2>1. Livres # {} /\ Escreve(c, CHOOSE j \in Livres : TRUE, d)
    BY <1>5 DEF Upsert
  <2>2. (CHOOSE j \in Livres : TRUE) \in Ids
    BY <2>1 DEF Livres
  <2>3. d \in Documento
    <3>1. d = Novo(c)
      BY <1>5
    <3>2. PICK f : f \in Documento
      <4>1. [cliente |-> Eu(c), chave |-> Item(c).chave, nsu |-> exec[c].nsu, cancelada |-> FALSE,
             dataCancelamento |-> FALSE, fiscal |-> Nenhum] \in Documento
        BY <1>1, DadosAssumption DEF TInv, ExecucoesOK, PassoOK, Item, Itens, Eu, Execucao, Documento
      <4> QED BY <4>1
    <3> QED BY <3>1, <3>2, <1>1, DadosTipo
  <2> QED BY <1>1, <2>1, <2>2, <2>3, EscreveTipo
<1> QED BY <1>3, <1>4, <1>5

LEMMA NovaTentativaTipo ==
  ASSUME TInv, NEW c \in Controles, exec[c].pc # "ocioso", NovaTentativa(c)
  PROVE  TabelasOK' /\ ExecucoesOK'
<1>1. CASE Lanca(c)
  BY <1>1, LancaTipo
<1>2. CASE ~Lanca(c)
  <2> DEFINE e == [exec[c] EXCEPT !.pc = "upsert", !.id = 0, !.novaChave = FALSE, !.tentativa = @ + 1]
  <2>1. ~(exec[c].tentativa >= Tentativas) /\ Passa(c, e) /\ UNCHANGED <<tabelas, feitos>>
    BY <1>2 DEF NovaTentativa
  <2>2. exec[c] \in Execucao
    BY DEF TInv, ExecucoesOK
  <2>3. exec[c].tentativa + 1 \in 0..Tentativas
    BY <2>1, <2>2, DadosAssumption DEF Execucao
  <2>4. e \in Execucao /\ e.nsu = exec[c].nsu /\ e.pc # "vincular"
    BY <2>2, <2>3 DEF Execucao
  <2> QED BY <2>1, <2>4, SegueTipo, TabelasIguais
<1> QED BY <1>1, <1>2

LEMMA LerConflitoTipo ==
  ASSUME TInv, NEW c \in Controles, LerConflito(c)
  PROVE  TabelasOK' /\ ExecucoesOK'
<1> DEFINE i == PorNsu(Eu(c), exec[c].nsu)
<1>1. exec[c].pc = "conflito" /\ exec[c] \in Execucao
  BY DEF LerConflito, TInv, ExecucoesOK
<1>2. i \in Ids \union {0}
  BY PorNsuAcha
<1>3. CASE i = 0
  BY <1>1, <1>3, NovaTentativaTipo DEF LerConflito
<1>4. CASE i # 0
  <2> DEFINE e == [exec[c] EXCEPT !.pc = "desligarConflito", !.id = i, !.novaChave = TRUE]
  <2>1. Passa(c, e) /\ UNCHANGED <<tabelas, feitos>>
    BY <1>4 DEF LerConflito
  <2>2. e \in Execucao /\ e.nsu = exec[c].nsu /\ e.pc # "vincular"
    BY <1>1, <1>2 DEF Execucao
  <2> QED BY <1>1, <2>1, <2>2, SegueTipo, TabelasIguais
<1> QED BY <1>3, <1>4

LEMMA AtualizarConflitoTipo ==
  ASSUME TInv, NEW c \in Controles, AtualizarConflito(c)
  PROVE  TabelasOK' /\ ExecucoesOK'
<1> DEFINE i == exec[c].id
           j == PorChave(Item(c).chave)
<1>1. exec[c].pc = "atualizarConflito" /\ j \in Ids \union {0}
  BY PorChaveAcha DEF AtualizarConflito
<1>2. CASE Lanca(c)
  BY <1>2, LancaTipo
<1>3. CASE i \in Vivos /\ Escreve(c, i, Reescrito(c, documentos[i]))
  <2>1. i \in Ids /\ documentos[i] \in Documento
    BY <1>3 DEF TInv, TabelasOK, Vivos
  <2> QED BY <1>1, <1>3, <2>1, DadosTipo, EscreveTipo
<1>4. CASE NovaTentativa(c)
  BY <1>1, <1>4, NovaTentativaTipo
<1>5. CASE Guarda(c, j) /\ UNCHANGED tabelas
  BY <1>1, <1>5, GuardaTipo, TabelasIguais
<1> QED BY <1>2, <1>3, <1>4, <1>5 DEF AtualizarConflito

LEMMA GravarEventoTipo ==
  ASSUME TInv, NEW c \in Controles, GravarEvento(c)
  PROVE  TabelasOK' /\ ExecucoesOK'
<1>1. CASE Lanca(c)
  BY <1>1, LancaTipo
<1>2. CASE ~Lanca(c)
  <2>1. /\ exec[c].id \in Vivos
        /\ eventos' = [eventos EXCEPT ![Item(c).chave] = exec[c].id]
        /\ feitos' = [feitos EXCEPT ![c] = Maior(@, exec[c].nsu)]
        /\ Passa(c, Ocioso)
        /\ UNCHANGED <<documentos, vinculos>>
    BY <1>2 DEF GravarEvento
  <2>2. TabelasOK'
    BY <2>1 DEF TInv, TabelasOK, Vivos
  <2>3. ExecucoesOK'
    BY <2>1, AvancaTipo
  <2> QED BY <2>2, <2>3
<1> QED BY <1>1, <1>2

LEMMA Tipos == TInv /\ [Next]_vars => TInv'
<1> SUFFICES ASSUME TInv, [Next]_vars PROVE TInv'
  OBVIOUS
<1>1. CASE UNCHANGED vars
  BY <1>1 DEF vars, tabelas, TInv, TabelasOK, ExecucoesOK
<1>2. ASSUME NEW c \in Controles, NEW n \in 1..MaxNsu, Receber(c, n) \/ Repetir(c, n) PROVE TInv'
  BY <1>2, AbrirTipo DEF Receber, Repetir
<1>3. ASSUME NEW c \in Controles, Persistir(c) PROVE TInv'
  <2>1. TabelasOK' /\ ExecucoesOK'
    BY <1>3, LerReferenciaTipo, LerPorChaveTipo, VincularTipo, LerPorNsuTipo, RealocarEventosTipo,
       RemoverEventosTipo, RemoverDuplicadoTipo, DesligarEventosTipo, LerCustodiaTipo, AtualizarTipo,
       UpsertTipo, LerConflitoTipo, AtualizarConflitoTipo, GravarEventoTipo DEF Persistir
  <2> QED BY <1>3, <2>1 DEF Persistir, TInv
<1>4. ASSUME NEW c \in Controles, Falhar(c) PROVE TInv'
  BY <1>4, LancaTipo DEF Falhar, TInv
<1> QED BY <1>1, <1>2, <1>3, <1>4 DEF Next

LEMMA TiposNoInicio == Init => TInv
  BY DadosAssumption, OciosoTipo DEF Init, TInv, TabelasOK, ExecucoesOK

LEMMA TInvTipa == TInv => TypeOK
  BY DEF TInv, TabelasOK, ExecucoesOK, TypeOK

\* The tables hold rows, links and events, and an execution a state of persistDfeDocumentFromNsu, whatever
\* is stored, merged, taken over, retried or broken off, in every order.
THEOREM TipoCorreto == Spec => []TypeOK
<1>1. Spec => []TInv
  BY Tipos, TiposNoInicio, PTL DEF Spec
<1> QED BY <1>1, TInvTipa, PTL

-----------------------------------------------------------------------------
(* An execution writes to its own note only                                *)

LEMMA ItemTipo ==
  ASSUME TInv, NEW c \in Ativos
  PROVE  /\ c \in Controles /\ exec[c] \in Execucao /\ exec[c].pc # "ocioso" /\ PassoOK(c, exec[c])
         /\ Item(c) \in Itens /\ Item(c).chave \in Chaves /\ Item(c).tipo \in {"nota", "cancelamento"}
         /\ exec[c].nsu \in 1..MaxNsu
  BY DEF TInv, ExecucoesOK, PassoOK, Item, Itens, Ativos

LEMMA LinhaUnica ==
  ASSUME Linhas, NEW k, NEW i \in DaChave(k), NEW j \in DaChave(k)
  PROVE  i = j
  BY DEF Linhas, DaChave

\* The unique key of client and NSU leads to the row of the item with that NSU.
LEMMA ChaveDoNsu ==
  ASSUME Linhas, UmControlePorCliente, NEW c \in Controles, NEW i \in Vivos, documentos[i].cliente = Eu(c)
  PROVE  documentos[i].chave = Sequencia[c][documentos[i].nsu].chave
  BY DEF Linhas, LinhaOK, UmControlePorCliente, Eu

\* What a step may do to the tables that only works at note k.
SoDaChave(k) ==
  /\ \A i \in Ids : documentos'[i] # documentos[i] =>
       (i \in Vivos => documentos[i].chave = k) /\ (documentos'[i] # Nenhum => documentos'[i].chave = k)
  /\ \A i \in Vivos : documentos[i].chave # k => vinculos'[i] = vinculos[i]
  /\ \A h \in Chaves : h # k => eventos'[h] = eventos[h]

LEMMA Alheias ==
  ASSUME NEW k, SoDaChave(k), NEW h, h # k
  PROVE  DaChave(h)' = DaChave(h)
         /\ \A i \in DaChave(h) : documentos'[i] = documentos[i] /\ vinculos'[i] = vinculos[i]
<1>1. ASSUME NEW i \in DaChave(h) PROVE documentos'[i] = documentos[i] /\ vinculos'[i] = vinculos[i]
  BY <1>1 DEF DaChave, SoDaChave, Vivos
<1>2. ASSUME NEW i \in Ids PROVE i \in DaChave(h)' <=> i \in DaChave(h)
  <2>1. CASE documentos'[i] = documentos[i]
    BY <2>1 DEF DaChave, Vivos
  <2>2. CASE documentos'[i] # documentos[i]
    BY <2>2 DEF DaChave, Vivos, SoDaChave
  <2> QED BY <2>1, <2>2
<1>3. DaChave(h)' \subseteq Ids /\ DaChave(h) \subseteq Ids
  BY DEF DaChave, Vivos
<1> QED BY <1>1, <1>2, <1>3

LEMMA AndamentoAlheio ==
  ASSUME NEW k, SoDaChave(k), TInv, NEW d \in Ativos, Item(d).chave # k, Andamento(d),
         exec'[d] = exec[d], feitos'[d] = feitos[d]
  PROVE  Andamento(d)'
<1> DEFINE e == exec[d]
           h == Item(d).chave
           propria(i) == i \in DaChave(h) /\ documentos[i].cliente = Eu(d)
<1>1. Item(d)' = Item(d) /\ Eu(d)' = Eu(d)
  BY DEF Item, Eu
<1>2. DaChave(h)' = DaChave(h)
  BY <1>1, Alheias
<1>3. ASSUME NEW i \in DaChave(h) PROVE documentos'[i] = documentos[i] /\ vinculos'[i] = vinculos[i]
  BY Alheias
<1>4. \A i : propria(i)' <=> propria(i)
  BY <1>1, <1>2, <1>3
<1>5. \A i \in DaChave(h), p \in Papeis : Ligada(i, p, h)' <=> Ligada(i, p, h)
  BY <1>1, <1>3 DEF Ligada
<1>6. \A i \in DaChave(h) : Cancelada(i)' <=> Cancelada(i)
  BY <1>3 DEF Cancelada
<1>7. e' = e /\ h' = h
  BY <1>1
<1>8. (e.pc = "nsu" => IF e.id = 0 THEN DaChave(h) = {} ELSE propria(e.id))'
  <2>1. e.pc = "nsu" => IF e.id = 0 THEN DaChave(h) = {} ELSE propria(e.id)
    BY DEF Andamento, AndamentoDe, Item
  <2> QED BY <2>1, <1>2, <1>4, <1>7
<1>9. (e.pc \in {"custodia", "atualizar"} => propria(e.id))'
  <2>1. e.pc \in {"custodia", "atualizar"} => propria(e.id)
    BY DEF Andamento, AndamentoDe, Item
  <2> QED BY <2>1, <1>4, <1>7
<1>10. (e.pc = "vincular" =>
       /\ e.id \in DaChave(h) /\ documentos[e.id].cliente # Eu(d) /\ e.partes = h
       /\ \A p \in Papeis : Parte[h][p] # Nenhum => p \in e.papeis \/ Ligada(e.id, p, h))'
  <2>1. e.pc = "vincular" =>
       /\ e.id \in DaChave(h) /\ documentos[e.id].cliente # Eu(d) /\ e.partes = h
       /\ \A p \in Papeis : Parte[h][p] # Nenhum => p \in e.papeis \/ Ligada(e.id, p, h)
    BY DEF Andamento, AndamentoDe, Item
  <2>2. e.id \in DaChave(h) => documentos'[e.id] = documentos[e.id]
                               /\ \A p \in Papeis : Ligada(e.id, p, h)' <=> Ligada(e.id, p, h)
    BY <1>3, <1>5
  <2> QED BY <2>1, <2>2, <1>1, <1>2, <1>7
<1>11. (e.pc = "evento" =>
       /\ Item(d).tipo = "cancelamento" /\ e.id \in DaChave(h)
       /\ documentos[e.id].cliente = Eu(d) => Cancelada(e.id))'
  <2>1. e.pc = "evento" =>
       /\ Item(d).tipo = "cancelamento" /\ e.id \in DaChave(h)
       /\ documentos[e.id].cliente = Eu(d) => Cancelada(e.id)
    BY DEF Andamento, AndamentoDe, Item
  <2> QED BY <2>1, <1>1, <1>2, <1>3, <1>6, <1>7
<1>12. (Item(d).tipo = "nota" /\ e.pc \in {"chave", "nsu", "custodia", "atualizar"} =>
       \A i \in Ids : propria(i) =>
         e.ref = [cancelada |-> documentos[i].cancelada, dataCancelamento |-> documentos[i].dataCancelamento])'
  <2>1. Item(d).tipo = "nota" /\ e.pc \in {"chave", "nsu", "custodia", "atualizar"} =>
       \A i \in Ids : propria(i) =>
         e.ref = [cancelada |-> documentos[i].cancelada, dataCancelamento |-> documentos[i].dataCancelamento]
    BY DEF Andamento, AndamentoDe, Item
  <2>2. \A i : propria(i) => documentos'[i] = documentos[i]
    BY <1>3
  <2> QED BY <2>1, <2>2, <1>1, <1>4, <1>7
<1>13. /\ e.pc \in {"referencia", "chave", "nsu", "vincular", "custodia", "atualizar", "upsert", "evento"}
       /\ ~e.novaChave
       /\ Inicio[d] < e.nsu /\ \A m \in feitos[d] + 1..e.nsu - 1 : Sequencia[d][m] = Nenhum
       /\ Item(d).tipo = "cancelamento" => DaChave(h) # {} /\ e.pc # "referencia"
       /\ e.pc = "upsert" => DaChave(h) = {}
  BY DEF Andamento, AndamentoDe, Item
<1>14. (/\ e.pc \in {"referencia", "chave", "nsu", "vincular", "custodia", "atualizar", "upsert", "evento"}
        /\ ~e.novaChave
        /\ Inicio[d] < e.nsu /\ \A m \in feitos[d] + 1..e.nsu - 1 : Sequencia[d][m] = Nenhum
        /\ Item(d).tipo = "cancelamento" => DaChave(h) # {} /\ e.pc # "referencia"
        /\ e.pc = "upsert" => DaChave(h) = {})'
  BY <1>13, <1>1, <1>2, <1>7
<1> QED BY <1>8, <1>9, <1>10, <1>11, <1>12, <1>14 DEF Andamento, AndamentoDe, Item

LEMMA GuardadoAlheio ==
  ASSUME NEW k, SoDaChave(k), NEW c \in Controles, NEW item \in Itens, item.chave # k, Guardado(c, item)
  PROVE  Guardado(c, item)'
<1>1. PICK i \in DaChave(item.chave) :
         /\ item.tipo = "nota" =>
              \/ documentos[i].cliente = ClienteDe[c]
              \/ \E p \in Papeis : vinculos[i][p] # Nenhum /\ vinculos[i][p].cliente = ClienteDe[c]
         /\ item.tipo = "cancelamento" =>
              /\ eventos[item.chave] = i
              /\ documentos[i].cliente # ClienteDe[c] \/ Cancelada(i)
  BY DEF Guardado
<1>2. documentos'[i] = documentos[i] /\ vinculos'[i] = vinculos[i] /\ DaChave(item.chave)' = DaChave(item.chave)
  BY Alheias
<1>3. eventos'[item.chave] = eventos[item.chave]
  BY DEF SoDaChave, Itens
<1> QED BY <1>1, <1>2, <1>3 DEF Guardado, Cancelada

\* A step of c that leaves its note in order leaves everything in order.
LEMMA PassoCalmo ==
  ASSUME IInv, TInv', Linhas', NEW c \in Ativos, SoDaChave(Item(c).chave), NEW e, Passa(c, e),
         e.pc = "ocioso" \/ e.nsu = exec[c].nsu,
         e.pc # "ocioso" => Andamento(c)',
         \A d \in Controles : d # c => feitos'[d] = feitos[d],
         \A d \in Controles, n \in 1..MaxNsu :
           Inicio[d] < n /\ n <= feitos'[d] /\ Sequencia[d][n] # Nenhum =>
             IF Sequencia[d][n].chave = Item(c).chave THEN Guardado(d, Sequencia[d][n])' ELSE n <= feitos[d]
  PROVE  IInv'
<1>1. c \in Controles /\ TInv
  BY ItemTipo DEF IInv
<1>2. exec'[c] = e /\ \A d \in Controles : d # c => exec'[d] = exec[d]
  BY <1>1 DEF Passa, TInv, ExecucoesOK
<1>3. Ativos' \subseteq Ativos
  BY <1>1, <1>2 DEF Ativos
<1>4. ASSUME NEW d \in Ativos', d # c PROVE Andamento(d)'
  <2>1. d \in Ativos /\ d \in Controles /\ exec'[d] = exec[d] /\ feitos'[d] = feitos[d]
    BY <1>2, <1>3, <1>4 DEF Ativos
  <2>2. Item(d).chave # Item(c).chave /\ Andamento(d)
    BY <1>4, <2>1 DEF IInv
  <2> QED BY <1>1, <2>1, <2>2, AndamentoAlheio
<1>5. ASSUME c \in Ativos' PROVE Andamento(c)' /\ Item(c)' = Item(c)
  <2>1. e.pc # "ocioso"
    BY <1>2, <1>5 DEF Ativos
  <2> QED BY <2>1, <1>2 DEF Item
<1>6. ASSUME NEW d \in Ativos' PROVE Item(d)' = Item(d)
  BY <1>2, <1>3, <1>5 DEF Item, Ativos
<1>7. \A d, f \in Ativos' : d # f => Item(d)'.chave # Item(f)'.chave
  BY <1>3, <1>6 DEF IInv
<1>8. ASSUME NEW d \in Controles, NEW n \in 1..MaxNsu,
             Inicio[d] < n, n <= feitos'[d], Sequencia[d][n] # Nenhum
      PROVE  Guardado(d, Sequencia[d][n])'
  <2>1. CASE Sequencia[d][n].chave = Item(c).chave
    BY <1>8, <2>1
  <2>2. CASE Sequencia[d][n].chave # Item(c).chave
    <3>1. n <= feitos[d]
      BY <1>8, <2>2
    <3>2. Guardado(d, Sequencia[d][n])
      BY <1>8, <3>1 DEF IInv
    <3>3. Sequencia[d][n] \in Itens
      BY <1>8, DadosAssumption
    <3> QED BY <2>2, <3>2, <3>3, GuardadoAlheio
  <2> QED BY <2>1, <2>2
<1>9. \A d \in Ativos' : Andamento(d)'
  BY <1>4, <1>5
<1> QED BY <1>7, <1>8, <1>9 DEF IInv

LEMMA SemTabelas ==
  ASSUME UNCHANGED tabelas, NEW k
  PROVE  SoDaChave(k) /\ (Linhas => Linhas') /\ (\A c \in Controles, item \in Itens : Guardado(c, item) => Guardado(c, item)')
<1>1. UNCHANGED <<documentos, vinculos, eventos>>
  BY DEF tabelas
<1>2. SoDaChave(k)
  BY <1>1 DEF SoDaChave, Vivos
<1>3. Linhas => Linhas'
  BY <1>1 DEF Linhas, LinhaOK, Ligada, Vivos
<1>4. \A c \in Controles, item \in Itens : Guardado(c, item) => Guardado(c, item)'
  BY <1>1 DEF Guardado, Cancelada, DaChave, Vivos
<1> QED BY <1>2, <1>3, <1>4

\* A step that writes to no table.
LEMMA SoLe ==
  ASSUME IInv, TInv', NEW c \in Ativos, UNCHANGED <<tabelas, feitos>>, NEW e, Passa(c, e),
         e.pc = "ocioso" \/ (e.nsu = exec[c].nsu /\ AndamentoDe(c, e))
  PROVE  IInv'
<1>1. SoDaChave(Item(c).chave) /\ Linhas'
  BY SemTabelas DEF IInv
<1>2. ASSUME NEW d \in Controles, NEW n \in 1..MaxNsu,
             Inicio[d] < n, n <= feitos'[d], Sequencia[d][n] # Nenhum
      PROVE  IF Sequencia[d][n].chave = Item(c).chave THEN Guardado(d, Sequencia[d][n])' ELSE n <= feitos[d]
  <2>1. n <= feitos[d] /\ Sequencia[d][n] \in Itens
    BY <1>2, DadosAssumption
  <2>2. Guardado(d, Sequencia[d][n])
    BY <1>2, <2>1 DEF IInv
  <2> QED BY <2>1, <2>2, SemTabelas
<1>3. e.pc # "ocioso" => Andamento(c)'
  <2>1. exec'[c] = e
    BY ItemTipo DEF Passa, IInv, TInv, ExecucoesOK
  <2> QED BY <2>1 DEF Andamento, AndamentoDe, DaChave, Vivos, Eu, Ligada, Cancelada, tabelas
<1> QED BY <1>1, <1>2, <1>3, PassoCalmo

LEMMA LancaCalma ==
  ASSUME IInv, TInv', NEW c \in Ativos, Lanca(c)
  PROVE  IInv'
<1>1. UNCHANGED <<tabelas, feitos>> /\ Passa(c, Ocioso) /\ Ocioso.pc = "ocioso"
  BY DEF Lanca, Ocioso
<1> QED BY <1>1, SoLe

\* The document is stored, in a row i of its note.
LEMMA GuardaCalma ==
  ASSUME IInv, TInv', Linhas', NEW c \in Ativos, NEW k, k = Item(c).chave, SoDaChave(k),
         NEW i, Guarda(c, i), i \in DaChave(k)',
         Item(c).tipo = "nota" =>
           \/ documentos'[i].cliente = ClienteDe[c]
           \/ \E p \in Papeis : vinculos'[i][p] # Nenhum /\ vinculos'[i][p].cliente = ClienteDe[c],
         Item(c).tipo = "cancelamento" => documentos'[i].cliente # ClienteDe[c] \/ Cancelada(i)',
         \A d \in Controles, item \in Itens :
           item.chave = k /\ Guardado(d, item) => Guardado(d, item)'
  PROVE  IInv'
<1>1. /\ c \in Controles /\ TInv /\ exec[c] \in Execucao /\ exec[c].pc # "ocioso" /\ Item(c) \in Itens
      /\ Item(c).tipo \in {"nota", "cancelamento"} /\ exec[c].nsu \in 1..MaxNsu
      /\ feitos[c] \in 0..MaxNsu /\ MaxNsu \in Nat /\ Inicio[c] \in 0..MaxNsu
  BY ItemTipo, DadosAssumption DEF IInv, TInv, ExecucoesOK
<1>2. Andamento(c)
  BY DEF IInv
<1>3. ASSUME NEW d \in Controles, NEW n \in 1..MaxNsu,
             Inicio[d] < n, n <= feitos[d], Sequencia[d][n] # Nenhum, Sequencia[d][n].chave = k
      PROVE  Guardado(d, Sequencia[d][n])'
  <2>1. Guardado(d, Sequencia[d][n]) /\ Sequencia[d][n] \in Itens
    BY <1>3, DadosAssumption DEF IInv
  <2> QED BY <2>1, <1>3
<1>4. CASE Item(c).tipo = "nota"
  <2>1. Passa(c, Ocioso) /\ feitos' = [feitos EXCEPT ![c] = Maior(@, exec[c].nsu)] /\ Ocioso.pc = "ocioso"
    BY <1>4 DEF Guarda, Ocioso
  <2>2. feitos'[c] = Maior(feitos[c], exec[c].nsu) /\ \A d \in Controles : d # c => feitos'[d] = feitos[d]
    BY <1>1, <2>1 DEF TInv, ExecucoesOK
  <2>3. ASSUME NEW n \in 1..MaxNsu, n = exec[c].nsu PROVE Guardado(c, Sequencia[c][n])'
    <3>1. Sequencia[c][n] = Item(c)
      BY <2>3 DEF Item
    <3>2. i \in DaChave(Sequencia[c][n].chave)'
      BY <3>1
    <3> QED BY <3>1, <3>2, <1>4 DEF Guardado
  <2>4. ASSUME NEW d \in Controles, NEW n \in 1..MaxNsu,
               Inicio[d] < n, n <= feitos'[d], Sequencia[d][n] # Nenhum
        PROVE  IF Sequencia[d][n].chave = k THEN Guardado(d, Sequencia[d][n])' ELSE n <= feitos[d]
    <3>1. CASE n <= feitos[d]
      BY <1>3, <2>4, <3>1
    <3>2. CASE ~(n <= feitos[d])
      <4>1. d = c
        BY <2>2, <2>4, <3>2
      <4>2. n <= exec[c].nsu
        BY <1>1, <2>2, <2>4, <3>2, <4>1 DEF Maior
      <4>3. n = exec[c].nsu
        <5>1. \A m \in feitos[c] + 1..exec[c].nsu - 1 : Sequencia[c][m] = Nenhum
          BY <1>2 DEF Andamento, AndamentoDe, Item
        <5> QED BY <1>1, <2>4, <3>2, <4>1, <4>2, <5>1
      <4>4. Sequencia[d][n] = Item(c)
        BY <4>1, <4>3 DEF Item
      <4> QED BY <2>3, <4>1, <4>3, <4>4
    <3> QED BY <3>1, <3>2
  <2> QED BY <2>1, <2>2, <2>4, PassoCalmo
<1>5. CASE Item(c).tipo = "cancelamento"
  <2> DEFINE e == [exec[c] EXCEPT !.pc = "evento", !.id = i]
  <2>1. Passa(c, e) /\ UNCHANGED feitos
    BY <1>5 DEF Guarda
  <2>2. /\ e.pc = "evento" /\ e.id = i /\ e.nsu = exec[c].nsu /\ e.novaChave = exec[c].novaChave
        /\ exec'[c] = e
    BY <1>1, <2>1 DEF Execucao, Passa, TInv, ExecucoesOK
  <2> HIDE DEF e
  <2>3. Item(c)' = Item(c) /\ Eu(c)' = Eu(c)
    BY <2>2 DEF Item, Eu
  <2>4. Andamento(c)'
    <3>1. Inicio[c] < e.nsu /\ (\A m \in feitos[c] + 1..e.nsu - 1 : Sequencia[c][m] = Nenhum) /\ ~e.novaChave
      BY <1>2, <2>2 DEF Andamento, AndamentoDe, Item
    <3>2. DaChave(k)' # {} /\ k = Item(c)'.chave
      BY <2>3
    <3>3. documentos'[i].cliente = Eu(c) => Cancelada(i)'
      BY <1>5 DEF Eu
    <3> QED BY <1>5, <2>1, <2>2, <2>3, <3>1, <3>2, <3>3 DEF Andamento, AndamentoDe, Item
  <2>5. ASSUME NEW d \in Controles, NEW n \in 1..MaxNsu,
               Inicio[d] < n, n <= feitos'[d], Sequencia[d][n] # Nenhum
        PROVE  IF Sequencia[d][n].chave = k THEN Guardado(d, Sequencia[d][n])' ELSE n <= feitos[d]
    BY <1>3, <2>1, <2>5
  <2>6. \A d \in Controles : d # c => feitos'[d] = feitos[d]
    BY <2>1
  <2> QED BY <2>1, <2>2, <2>4, <2>5, <2>6, PassoCalmo
<1> QED BY <1>1, <1>4, <1>5
-----------------------------------------------------------------------------
(* The actions                                                             *)

\* An event finds the row of its note, which came before.
LEMMA EventoAchaLinha ==
  ASSUME IInv, NotaAntes, NEW c \in Controles, NEW n \in 1..MaxNsu, Inicio[c] < n, Sequencia[c][n] # Nenhum,
         Sequencia[c][n].tipo = "cancelamento",
         \A m \in feitos[c] + 1..n - 1 : Sequencia[c][m] = Nenhum
  PROVE  DaChave(Sequencia[c][n].chave) # {}
<1>1. PICK m \in 1..MaxNsu : /\ Inicio[c] < m /\ m < n /\ Sequencia[c][m] # Nenhum
                             /\ Sequencia[c][m].tipo = "nota"
                             /\ Sequencia[c][m].chave = Sequencia[c][n].chave
  BY DEF NotaAntes
<1>2. m <= feitos[c]
  BY <1>1 DEF IInv, TInv, ExecucoesOK
<1>3. Guardado(c, Sequencia[c][m])
  BY <1>1, <1>2 DEF IInv
<1> QED BY <1>1, <1>3 DEF Guardado

LEMMA AbrirCalmo ==
  ASSUME IInv, TInv', NotaAntes, disputadas' = {}, NEW c \in Controles, NEW n \in 1..MaxNsu, Abrir(c, n),
         Inicio[c] < n, \A m \in feitos[c] + 1..n - 1 : Sequencia[c][m] = Nenhum
  PROVE  IInv'
<1> DEFINE e == [Ocioso EXCEPT !.pc = IF Sequencia[c][n].tipo = "nota" THEN "referencia" ELSE "chave",
                               !.nsu = n]
<1>1. Passa(c, e) /\ UNCHANGED <<tabelas, feitos>> /\ exec[c].pc = "ocioso" /\ Sequencia[c][n] # Nenhum
  BY DEF Abrir
<1>2. Sequencia[c][n] \in Itens /\ TInv
  BY <1>1, DadosAssumption DEF IInv
<1>3. exec'[c] = e /\ \A d \in Controles : d # c => exec'[d] = exec[d]
  BY <1>1, <1>2 DEF Passa, TInv, ExecucoesOK
<1>4. /\ e.nsu = n /\ ~e.novaChave /\ e.pc \in {"referencia", "chave"}
      /\ Sequencia[c][n].tipo = "nota" <=> e.pc = "referencia"
  BY DEF Ocioso
<1> HIDE DEF e
<1>5. Item(c)' = Sequencia[c][n] /\ c \in Ativos' /\ Ativos' = Ativos \union {c}
  BY <1>3, <1>4 DEF Item, Ativos
<1>6. ASSUME NEW d \in Ativos', d # c PROVE Andamento(d)' /\ Item(d)' = Item(d) /\ d \in Ativos
  <2>1. d \in Ativos /\ d \in Controles /\ exec'[d] = exec[d]
    BY <1>3, <1>6 DEF Ativos
  <2>2. Item(d).chave # Nenhum
    BY <2>1, <1>2, ItemTipo, DadosAssumption
  <2>3. SoDaChave(Nenhum)
    BY <1>1, SemTabelas
  <2>4. Andamento(d) /\ feitos'[d] = feitos[d]
    BY <2>1, <1>1 DEF IInv
  <2>5. Andamento(d)'
    BY <2>1, <2>2, <2>3, <2>4, <1>2, AndamentoAlheio
  <2> QED BY <2>1, <2>5 DEF Item
<1>7. Andamento(c)'
  <2>1. DaChave(Item(c).chave)' = DaChave(Sequencia[c][n].chave)
    BY <1>1, <1>5 DEF DaChave, Vivos, tabelas
  <2>2. Item(c)'.tipo = "cancelamento" => DaChave(Item(c).chave)' # {} /\ exec'[c].pc # "referencia"
    BY <1>1, <1>3, <1>4, <1>5, <2>1, EventoAchaLinha
  <2>3. Inicio[c] < exec'[c].nsu /\ \A m \in feitos'[c] + 1..exec'[c].nsu - 1 : Sequencia[c][m] = Nenhum
    BY <1>1, <1>3, <1>4
  <2>4. ~(Item(c)'.tipo = "nota" /\ exec'[c].pc \in {"chave", "nsu", "custodia", "atualizar"})
    BY <1>3, <1>4, <1>5
  <2> QED BY <1>3, <1>4, <2>2, <2>3, <2>4 DEF Andamento, AndamentoDe, Item
<1>8. \A d \in Controles : d # c /\ exec[d] # Ocioso => Item(d).chave # Sequencia[c][n].chave
  BY DEF Abrir
<1>9. \A d \in Ativos : exec[d] # Ocioso /\ d \in Controles
  BY DEF Ativos, Ocioso
<1>10. \A d \in Ativos' : d # c => Item(d)'.chave # Item(c)'.chave
  BY <1>5, <1>6, <1>8, <1>9
<1>11. \A d, f \in Ativos' : d # f => Item(d)'.chave # Item(f)'.chave
  <2> SUFFICES ASSUME NEW d \in Ativos', NEW f \in Ativos', d # f PROVE Item(d)'.chave # Item(f)'.chave
    OBVIOUS
  <2>1. CASE d = c \/ f = c
    BY <2>1, <1>10
  <2>2. CASE d # c /\ f # c
    BY <2>2, <1>6 DEF IInv
  <2> QED BY <2>1, <2>2
<1>12. ASSUME NEW d \in Controles, NEW m \in 1..MaxNsu,
              Inicio[d] < m, m <= feitos'[d], Sequencia[d][m] # Nenhum
       PROVE  Guardado(d, Sequencia[d][m])'
  <2>1. Guardado(d, Sequencia[d][m]) /\ Sequencia[d][m] \in Itens
    BY <1>1, <1>12, DadosAssumption DEF IInv
  <2> QED BY <2>1, <1>1, SemTabelas
<1>13. Linhas'
  BY <1>1, SemTabelas DEF IInv
<1>14. \A d \in Ativos' : Andamento(d)'
  BY <1>6, <1>7
<1> QED BY <1>11, <1>12, <1>13, <1>14 DEF IInv

LEMMA ReceberCalmo ==
  ASSUME IInv, TInv', NotaAntes, disputadas' = {}, NEW c \in Controles, NEW n \in 1..MaxNsu,
         Receber(c, n) \/ Repetir(c, n)
  PROVE  IInv'
<1>1. feitos[c] \in 0..MaxNsu /\ Inicio[c] \in 0..MaxNsu /\ Inicio[c] <= feitos[c]
  BY DadosAssumption DEF IInv, TInv, ExecucoesOK
<1>2. Inicio[c] < n /\ Abrir(c, n) /\ \A m \in feitos[c] + 1..n - 1 : Sequencia[c][m] = Nenhum
  <2>1. CASE Receber(c, n)
    BY <1>1, <2>1, DadosAssumption DEF Receber
  <2>2. CASE Repetir(c, n)
    BY <1>1, <2>2, DadosAssumption DEF Repetir
  <2> QED BY <2>1, <2>2
<1> QED BY <1>2, AbrirCalmo

\* A key leads to the row of the note.
LEMMA LinhaDaChave ==
  ASSUME Linhas, NEW k
  PROVE  /\ PorChave(k) # 0 => DaChave(k) = {PorChave(k)}
         /\ PorChave(k) = 0 => DaChave(k) = {}
<1>1. PorChave(k) # 0 => PorChave(k) \in DaChave(k)
  BY PorChaveAcha
<1>2. \A j \in DaChave(k) : PorChave(k) \in DaChave(k) => j = PorChave(k)
  BY LinhaUnica
<1> QED BY <1>1, <1>2, PorChaveAcha

LEMMA LerReferenciaCalma ==
  ASSUME IInv, TInv', NEW c \in Ativos, LerReferencia(c)
  PROVE  IInv'
<1> DEFINE k == Item(c).chave
           i == PorChave(k)
<1>1. exec[c].pc = "referencia" /\ UNCHANGED tabelas
  BY DEF LerReferencia
<1>2. Andamento(c) /\ Linhas /\ TInv
  BY DEF IInv
<1>3. Item(c).tipo = "nota" /\ exec[c] \in Execucao
  BY <1>1, <1>2, ItemTipo DEF Andamento, AndamentoDe, Item
<1>4. /\ i # 0 => DaChave(k) = {i}
      /\ i = 0 => DaChave(k) = {}
  BY <1>2, LinhaDaChave
<1>5. CASE NsusDe(Eu(c), i) = {}
  <2> DEFINE e == [exec[c] EXCEPT !.pc = "chave"]
  <2>1. Passa(c, e) /\ UNCHANGED feitos
    BY <1>5 DEF LerReferencia
  <2>2. e.pc = "chave" /\ e.nsu = exec[c].nsu /\ e.novaChave = exec[c].novaChave
    BY <1>3 DEF Execucao
  <2>3. \A j \in DaChave(k) : documentos[j].cliente # Eu(c)
    BY <1>4, <1>5 DEF NsusDe
  <2> HIDE DEF e
  <2>4. AndamentoDe(c, e)
    BY <1>2, <1>3, <2>2, <2>3 DEF Andamento, AndamentoDe, Item
  <2> QED BY <1>1, <2>1, <2>2, <2>4, SoLe
<1>6. ASSUME NEW n \in NsusDe(Eu(c), i), Guarda(c, i) PROVE IInv'
  <2>1. i # 0
    BY <1>6 DEF NsusDe
  <2>2. \/ documentos[i].cliente = ClienteDe[c]
        \/ \E p \in Papeis : vinculos[i][p] # Nenhum /\ vinculos[i][p].cliente = ClienteDe[c]
    BY <1>6, <2>1 DEF NsusDe, Ligados, Eu
  <2>3. SoDaChave(k) /\ Linhas' /\ \A d \in Controles, item \in Itens : Guardado(d, item) => Guardado(d, item)'
    BY <1>1, <1>2, SemTabelas
  <2>4. PICK h, j : h = k /\ j = i
    OBVIOUS
  <2>5. j \in DaChave(h)'
    BY <1>1, <1>4, <2>1, <2>4 DEF DaChave, Vivos, tabelas
  <2>6. \/ documentos'[j].cliente = ClienteDe[c]
        \/ \E p \in Papeis : vinculos'[j][p] # Nenhum /\ vinculos'[j][p].cliente = ClienteDe[c]
    BY <1>1, <2>2, <2>4 DEF tabelas
  <2>7. Guarda(c, j) /\ SoDaChave(h)
    BY <1>6, <2>3, <2>4
  <2> QED BY <1>3, <2>3, <2>4, <2>5, <2>6, <2>7, GuardaCalma
<1>7. ASSUME NEW n \in NsusDe(Eu(c), i), UNCHANGED feitos,
             Passa(c, [exec[c] EXCEPT !.pc = "chave",
                                 !.ref = [cancelada |-> documentos[i].cancelada,
                                          dataCancelamento |-> documentos[i].dataCancelamento]])
      PROVE  IInv'
  <2> DEFINE r == [cancelada |-> documentos[i].cancelada, dataCancelamento |-> documentos[i].dataCancelamento]
             e == [exec[c] EXCEPT !.pc = "chave", !.ref = r]
  <2>1. e.pc = "chave" /\ e.nsu = exec[c].nsu /\ e.novaChave = exec[c].novaChave /\ e.ref = r
    BY <1>3 DEF Execucao
  <2>2. \A j \in DaChave(k) :
          r = [cancelada |-> documentos[j].cancelada, dataCancelamento |-> documentos[j].dataCancelamento]
    BY <1>4
  <2> HIDE DEF r, e
  <2>3. AndamentoDe(c, e)
    BY <1>2, <1>3, <2>1, <2>2 DEF Andamento, AndamentoDe, Item
  <2>4. Passa(c, e)
    BY <1>7 DEF e, r
  <2> QED BY <1>1, <1>7, <2>1, <2>3, <2>4, SoLe
<1>8. CASE NsusDe(Eu(c), i) # {}
  <2>1. \E n \in NsusDe(Eu(c), i) :
            IF documentos[i].fiscal = Item(c).chave /\ n = exec[c].nsu
            THEN Guarda(c, i)
            ELSE /\ Passa(c, [exec[c] EXCEPT !.pc = "chave",
                                 !.ref = [cancelada |-> documentos[i].cancelada,
                                          dataCancelamento |-> documentos[i].dataCancelamento]])
                 /\ UNCHANGED feitos
    BY <1>8 DEF LerReferencia
  <2> QED BY <2>1, <1>6, <1>7
<1> QED BY <1>5, <1>8

LEMMA LerPorChaveCalma ==
  ASSUME IInv, TInv', DeUmaParte, NEW c \in Ativos, LerPorChave(c)
  PROVE  IInv'
<1> DEFINE k == Item(c).chave
           i == PorChave(k)
           partes == IF Item(c).tipo = "nota" THEN Item(c).chave ELSE documentos[i].fiscal
           papeis == IF partes = Nenhum THEN {} ELSE {p \in Papeis : Parte[partes][p] # Nenhum}
<1>1. exec[c].pc = "chave" /\ UNCHANGED tabelas
  BY DEF LerPorChave
<1>2. Andamento(c) /\ Linhas /\ TInv
  BY DEF IInv
<1>3. /\ c \in Controles /\ exec[c] \in Execucao /\ Item(c) \in Itens /\ k \in Chaves
      /\ exec[c].nsu \in 1..MaxNsu /\ Item(c).tipo \in {"nota", "cancelamento"}
  BY <1>2, ItemTipo
<1>4. /\ i # 0 => DaChave(k) = {i}
      /\ i = 0 => DaChave(k) = {}
  BY <1>2, LinhaDaChave
<1>5. CASE i # 0 /\ documentos[i].cliente # Eu(c)
  <2>1. partes = k
    BY <1>2, <1>4, <1>5 DEF Linhas, LinhaOK, DaChave
  <2>2. k # Nenhum /\ papeis = {p \in Papeis : Parte[k][p] # Nenhum}
    BY <1>3, <2>1, DadosAssumption
  <2>3. papeis # {}
    <3>1. Sequencia[c][exec[c].nsu] # Nenhum
      BY <1>3, DadosAssumption DEF Item
    <3>2. PICK p \in Papeis : Parte[Sequencia[c][exec[c].nsu].chave][p] = c
      BY <1>3, <3>1 DEF DeUmaParte
    <3> QED BY <1>3, <2>2, <3>2, DadosAssumption DEF Item
  <2> DEFINE e == [exec[c] EXCEPT !.pc = "vincular", !.id = i, !.partes = partes, !.papeis = papeis]
  <2>4. Passa(c, e) /\ UNCHANGED feitos
    BY <1>5, <2>3 DEF LerPorChave
  <2> HIDE DEF papeis, partes
  <2>5. /\ e.pc = "vincular" /\ e.nsu = exec[c].nsu /\ e.novaChave = exec[c].novaChave /\ e.id = i
        /\ e.partes = partes /\ e.papeis = papeis
    BY <1>3 DEF Execucao
  <2> HIDE DEF e
  <2>6. AndamentoDe(c, e)
    BY <1>2, <1>4, <1>5, <2>1, <2>2, <2>5 DEF Andamento, AndamentoDe, Item
  <2> QED BY <1>1, <2>4, <2>5, <2>6, SoLe
<1>6. CASE ~(i # 0 /\ documentos[i].cliente # Eu(c))
  <2> DEFINE e == [exec[c] EXCEPT !.pc = "nsu", !.id = i]
  <2>1. Passa(c, e) /\ UNCHANGED feitos
    BY <1>6 DEF LerPorChave
  <2>2. /\ e.pc = "nsu" /\ e.nsu = exec[c].nsu /\ e.novaChave = exec[c].novaChave /\ e.id = i
        /\ e.ref = exec[c].ref
    BY <1>3 DEF Execucao
  <2> HIDE DEF e
  <2>3. AndamentoDe(c, e)
    BY <1>1, <1>2, <1>4, <1>6, <2>2 DEF Andamento, AndamentoDe, Item
  <2> QED BY <1>1, <2>1, <2>2, <2>3, SoLe
<1> QED BY <1>5, <1>6

LEMMA LerPorNsuCalma ==
  ASSUME IInv, TInv', UmControlePorCliente, NEW c \in Ativos, LerPorNsu(c)
  PROVE  IInv'
<1> DEFINE k == Item(c).chave
           j == PorNsu(Eu(c), exec[c].nsu)
           e == exec[c]
<1>1. e.pc = "nsu" /\ UNCHANGED <<tabelas, feitos>> /\ Andamento(c) /\ Linhas /\ TInv
  BY DEF LerPorNsu, IInv
<1>2. c \in Controles /\ e \in Execucao
  BY <1>1, ItemTipo
<1>3. j # 0 => j \in DaChave(k)
  <2> SUFFICES ASSUME j # 0 PROVE j \in DaChave(k)
    OBVIOUS
  <2>1. j \in Vivos /\ documentos[j].cliente = Eu(c) /\ documentos[j].nsu = e.nsu
    BY PorNsuAcha
  <2>2. documentos[j].chave = k
    BY <1>1, <1>2, <2>1, ChaveDoNsu DEF Item
  <2> QED BY <2>1, <2>2 DEF DaChave
<1>4. IF e.id = 0 THEN DaChave(k) = {} ELSE e.id \in DaChave(k) /\ documentos[e.id].cliente = Eu(c)
  BY <1>1 DEF Andamento, AndamentoDe, Item
<1>5. CASE e.id = 0
  <2>1. j = 0
    BY <1>3, <1>4, <1>5
  <2> DEFINE f == [e EXCEPT !.pc = "upsert"]
  <2>2. Passa(c, f)
    BY <1>5, <2>1 DEF LerPorNsu
  <2>3. f.pc = "upsert" /\ f.nsu = e.nsu /\ f.novaChave = e.novaChave
    BY <1>2 DEF Execucao
  <2> HIDE DEF f
  <2>4. AndamentoDe(c, f)
    BY <1>1, <1>4, <1>5, <2>3 DEF Andamento, AndamentoDe, Item
  <2> QED BY <1>1, <2>2, <2>3, <2>4, SoLe
<1>6. CASE e.id # 0
  <2>1. j # 0 => j = e.id
    BY <1>1, <1>3, <1>4, <1>6, LinhaUnica
  <2>2. documentos[e.id].chave = k
    BY <1>4, <1>6 DEF DaChave
  <2> DEFINE f == [e EXCEPT !.pc = "custodia", !.id = e.id]
  <2>3. Passa(c, f)
    <3>1. /\ ~(e.id = 0 /\ j = 0) /\ ~(e.id # 0 /\ j # 0 /\ e.id # j)
          /\ ~(j # 0 /\ e.id \in {0, j} /\ documentos[j].chave # Item(c).chave)
      BY <1>6, <2>1, <2>2
    <3> HIDE DEF j
    <3> QED BY <1>6, <3>1 DEF LerPorNsu, j
  <2>4. f.pc = "custodia" /\ f.nsu = e.nsu /\ f.novaChave = e.novaChave /\ f.id = e.id /\ f.ref = e.ref
    BY <1>2 DEF Execucao
  <2> HIDE DEF f
  <2>5. AndamentoDe(c, f)
    BY <1>1, <1>4, <1>6, <2>4 DEF Andamento, AndamentoDe, Item
  <2> QED BY <1>1, <2>3, <2>4, <2>5, SoLe
<1> QED BY <1>5, <1>6

LEMMA LerCustodiaCalma ==
  ASSUME IInv, TInv', NEW c \in Ativos, LerCustodia(c)
  PROVE  IInv'
<1>1. exec[c].pc = "custodia" /\ Andamento(c) /\ TInv
  BY DEF LerCustodia, IInv
<1>2. CASE Lanca(c)
  BY <1>2, LancaCalma
<1>3. CASE ~Lanca(c)
  <2> DEFINE e == [exec[c] EXCEPT !.pc = "atualizar"]
  <2>1. Passa(c, e) /\ UNCHANGED <<tabelas, feitos>>
    BY <1>3 DEF LerCustodia
  <2>2. /\ e.pc = "atualizar" /\ e.nsu = exec[c].nsu /\ e.novaChave = exec[c].novaChave /\ e.id = exec[c].id
        /\ e.ref = exec[c].ref
    BY <1>1, ItemTipo DEF Execucao
  <2> HIDE DEF e
  <2>3. AndamentoDe(c, e)
    BY <1>1, <2>2 DEF Andamento, AndamentoDe
  <2> QED BY <2>1, <2>2, <2>3, SoLe
<1> QED BY <1>2, <1>3

LEMMA VincularCalma ==
  ASSUME IInv, TInv', DeUmaParte, NEW c \in Ativos, Vincular(c)
  PROVE  IInv'
<1>1. exec[c].pc = "vincular" /\ Andamento(c) /\ TInv /\ Linhas
  BY DEF Vincular, IInv
<1>2. CASE Lanca(c)
  BY <1>2, LancaCalma
<1>3. CASE ~Lanca(c)
  <2>1. /\ c \in Controles /\ exec[c] \in Execucao /\ Item(c) \in Itens /\ Item(c).chave \in Chaves
        /\ exec[c].nsu \in 1..MaxNsu /\ Item(c).tipo \in {"nota", "cancelamento"} /\ PassoOK(c, exec[c])
    BY <1>1, ItemTipo
  <2>2. PICK k : k = Item(c).chave
    OBVIOUS
  <2>3. PICK i : i = exec[c].id
    OBVIOUS
  <2>4. PICK p : p = IF "emissao" \in exec[c].papeis THEN "emissao" ELSE "tomada"
    OBVIOUS
  <2>5. PICK v : v = [cliente |-> ClienteDe[Parte[exec[c].partes][p]],
                      nsu |-> IF ClienteDe[Parte[exec[c].partes][p]] = Eu(c) THEN exec[c].nsu
                              ELSE IF vinculos[exec[c].id][p] # Nenhum THEN vinculos[exec[c].id][p].nsu ELSE 0]
    OBVIOUS
  <2>6. /\ i \in Vivos
        /\ vinculos' = [vinculos EXCEPT ![i][p] = v]
        /\ IF exec[c].papeis = {p} THEN Guarda(c, i)
           ELSE Passa(c, [exec[c] EXCEPT !.papeis = @ \ {p}]) /\ UNCHANGED feitos
        /\ UNCHANGED <<documentos, eventos>>
    BY <1>3, <2>3, <2>4, <2>5 DEF Vincular
  <2>7. /\ i \in DaChave(k) /\ documentos[i].cliente # Eu(c) /\ exec[c].partes = k
        /\ \A q \in Papeis : Parte[k][q] # Nenhum => q \in exec[c].papeis \/ Ligada(i, q, k)
    BY <1>1, <2>2, <2>3 DEF Andamento, AndamentoDe, Item
  <2>8. p \in exec[c].papeis /\ p \in Papeis /\ exec[c].papeis \subseteq Papeis
    <3>1. exec[c].papeis # {} /\ exec[c].papeis \subseteq Papeis
      BY <1>1, <2>1 DEF PassoOK, Execucao
    <3> QED BY <2>4, <3>1 DEF Papeis
  <2>9. v.cliente = ClienteDe[Parte[k][p]] /\ v \in Vinculo
    <3>1. v.cliente = ClienteDe[Parte[k][p]]
      BY <2>5, <2>7
    <3>2. vinculos[i][p] \in Vinculo \union {Nenhum}
      BY <1>1, <2>6, <2>8 DEF TInv, TabelasOK, Vivos
    <3>3. Parte[k][p] \in Controles
      BY <1>1, <2>1, <2>7, <2>8 DEF PassoOK
    <3>4. ClienteDe[Parte[k][p]] \in Clientes /\ exec[c].nsu \in 0..MaxNsu /\ 0 \in 0..MaxNsu
      BY <2>1, <3>3, DadosAssumption DEF Execucao
    <3> QED BY <2>3, <2>5, <2>7, <3>1, <3>2, <3>4 DEF Vinculo
  <2>10. v # Nenhum
    BY <2>9, NenhumAssumption
  <2>11. /\ vinculos'[i][p] = v
         /\ \A q \in Papeis : q # p => vinculos'[i][q] = vinculos[i][q]
         /\ \A j \in Ids : j # i => vinculos'[j] = vinculos[j]
    BY <1>1, <2>6, <2>8 DEF TInv, TabelasOK, Vivos
  <2>12. Ligada(i, p, k)' /\ \A q \in Papeis : Ligada(i, q, k) => Ligada(i, q, k)'
    BY <2>9, <2>10, <2>11 DEF Ligada
  <2>13. SoDaChave(k)
    BY <2>6, <2>7, <2>11 DEF SoDaChave, DaChave, Vivos
  <2>14. Linhas'
    <3>1. Vivos' = Vivos /\ documentos' = documentos
      BY <2>6 DEF Vivos
    <3>2. \A j \in Vivos' : LinhaOK(documentos'[j])
      BY <1>1, <3>1 DEF Linhas
    <3>3. ASSUME NEW j \in Vivos', NEW q \in Papeis, vinculos'[j][q] # Nenhum
          PROVE  Ligada(j, q, documentos[j].chave)'
      <4>1. CASE j = i
        <5>1. documentos'[j].chave = k
          BY <2>7, <3>1, <4>1 DEF DaChave
        <5>2. Ligada(i, q, k)'
          <6>1. CASE q = p
            BY <2>12, <6>1
          <6>2. CASE q # p
            BY <1>1, <2>6, <2>7, <2>11, <2>12, <3>3, <4>1, <6>2 DEF Linhas, DaChave
          <6> QED BY <6>1, <6>2
        <5> QED BY <4>1, <5>1, <5>2 DEF Ligada
      <4>2. CASE j # i
        <5>1. vinculos'[j] = vinculos[j] /\ documentos'[j] = documentos[j] /\ j \in Vivos
          BY <2>11, <3>1, <4>2 DEF Vivos
        <5>2. Ligada(j, q, documentos[j].chave)
          BY <1>1, <3>3, <5>1 DEF Linhas
        <5> QED BY <5>1, <5>2 DEF Ligada
      <4> QED BY <4>1, <4>2
    <3> QED BY <1>1, <3>1, <3>2, <3>3 DEF Linhas
  <2>15. ASSUME NEW d \in Controles, NEW item \in Itens, item.chave = k, Guardado(d, item)
         PROVE  Guardado(d, item)'
    <3>1. PICK j \in DaChave(k) :
           /\ item.tipo = "nota" =>
                \/ documentos[j].cliente = ClienteDe[d]
                \/ \E q \in Papeis : vinculos[j][q] # Nenhum /\ vinculos[j][q].cliente = ClienteDe[d]
           /\ item.tipo = "cancelamento" =>
                /\ eventos[item.chave] = j
                /\ documentos[j].cliente # ClienteDe[d] \/ Cancelada(j)
      BY <2>15 DEF Guardado
    <3>2. j = i
      BY <1>1, <2>7, LinhaUnica
    <3>3. ASSUME NEW q \in Papeis, vinculos[j][q] # Nenhum
          PROVE  vinculos'[j][q] # Nenhum /\ vinculos'[j][q].cliente = vinculos[j][q].cliente
      <4>1. CASE q = p
        <5>1. Ligada(i, p, k)
          BY <1>1, <2>6, <2>7, <3>2, <3>3, <4>1 DEF Linhas, DaChave
        <5> QED BY <2>12, <3>2, <4>1, <5>1 DEF Ligada
      <4>2. CASE q # p
        BY <2>11, <3>2, <3>3, <4>2
      <4> QED BY <4>1, <4>2
    <3>4. DaChave(k)' = DaChave(k)
      BY <2>6 DEF DaChave, Vivos
    <3> QED BY <2>6, <2>15, <3>1, <3>3, <3>4 DEF Guardado, Cancelada
  <2>16. CASE exec[c].papeis = {p}
    <3>1. Guarda(c, i)
      BY <2>6, <2>16
    <3>2. i \in DaChave(k)'
      BY <2>6, <2>7 DEF DaChave, Vivos
    <3>3. PICK q \in Papeis : Parte[k][q] = c
      <4>1. Sequencia[c][exec[c].nsu] # Nenhum
        BY <2>1, DadosAssumption DEF Item
      <4> QED BY <2>1, <2>2, <4>1 DEF DeUmaParte, Item
    <3>4. Ligada(i, q, k)'
      <4>1. q = p \/ Ligada(i, q, k)
        BY <2>1, <2>7, <2>16, <3>3, DadosAssumption
      <4> QED BY <2>12, <4>1
    <3>5. \E r \in Papeis : vinculos'[i][r] # Nenhum /\ vinculos'[i][r].cliente = ClienteDe[c]
      BY <3>3, <3>4 DEF Ligada
    <3>6. documentos'[i].cliente # ClienteDe[c]
      BY <2>6, <2>7 DEF Eu
    <3> QED BY <2>2, <2>13, <2>14, <2>15, <3>1, <3>2, <3>5, <3>6, GuardaCalma
  <2>17. CASE exec[c].papeis # {p}
    <3> DEFINE e == [exec[c] EXCEPT !.papeis = @ \ {p}]
    <3>1. Passa(c, e) /\ UNCHANGED feitos
      BY <2>6, <2>17
    <3>2. /\ e.pc = "vincular" /\ e.nsu = exec[c].nsu /\ e.novaChave = exec[c].novaChave /\ e.id = i
          /\ e.partes = k /\ e.papeis = exec[c].papeis \ {p} /\ exec'[c] = e
      BY <1>1, <2>1, <2>3, <2>7, <3>1 DEF Execucao, Passa, TInv, ExecucoesOK
    <3> HIDE DEF e
    <3>3. Andamento(c)'
      <4>1. i \in DaChave(k)' /\ documentos'[i].cliente # Eu(c)
        BY <2>6, <2>7 DEF DaChave, Vivos
      <4>2. \A q \in Papeis : Parte[k][q] # Nenhum => q \in e.papeis \/ Ligada(i, q, k)'
        BY <2>7, <2>12, <3>2
      <4>3. Sequencia[c][exec'[c].nsu].chave = k
        BY <2>2, <3>2 DEF Item
      <4>4. /\ ~e.novaChave /\ Inicio[c] < e.nsu
            /\ \A m \in feitos[c] + 1..e.nsu - 1 : Sequencia[c][m] = Nenhum
        BY <1>1, <3>2 DEF Andamento, AndamentoDe
      <4> QED BY <3>1, <3>2, <4>1, <4>2, <4>3, <4>4 DEF Andamento, AndamentoDe, Eu
    <3>4. ASSUME NEW d \in Controles, NEW n \in 1..MaxNsu,
                 Inicio[d] < n, n <= feitos'[d], Sequencia[d][n] # Nenhum
          PROVE  IF Sequencia[d][n].chave = Item(c).chave THEN Guardado(d, Sequencia[d][n])' ELSE n <= feitos[d]
      <4>1. Guardado(d, Sequencia[d][n]) /\ Sequencia[d][n] \in Itens
        BY <3>1, <3>4, DadosAssumption DEF IInv
      <4> QED BY <2>2, <2>15, <3>1, <3>4, <4>1
    <3>5. \A d \in Controles : d # c => feitos'[d] = feitos[d]
      BY <3>1
    <3>6. SoDaChave(Item(c).chave)
      BY <2>2, <2>13
    <3> QED BY <2>14, <3>1, <3>2, <3>3, <3>4, <3>5, <3>6, PassoCalmo
  <2> QED BY <2>16, <2>17
<1> QED BY <1>2, <1>3

\* What a row becomes when its own note or cancellation is written over it.
LEMMA ReescritoDaNota ==
  ASSUME TInv, NEW c \in Ativos, NEW f \in Documento, f.chave = Item(c).chave, f.cliente = Eu(c),
         f.fiscal = f.chave, ~exec[c].novaChave,
         Item(c).tipo = "nota" =>
           exec[c].ref = [cancelada |-> f.cancelada, dataCancelamento |-> f.dataCancelamento]
  PROVE  LET d == Reescrito(c, f) IN
         /\ d.cliente = Eu(c) /\ d.chave = f.chave /\ d.fiscal = f.chave /\ d.nsu = exec[c].nsu
         /\ f.cancelada /\ f.dataCancelamento => d.cancelada /\ d.dataCancelamento
         /\ Item(c).tipo = "cancelamento" => d.cancelada /\ d.dataCancelamento
<1> DEFINE g == [f EXCEPT !.cliente = Eu(c), !.chave = Item(c).chave, !.nsu = exec[c].nsu,
                          !.dataCancelamento = IF exec[c].novaChave THEN FALSE ELSE @]
<1>1. /\ g.cliente = Eu(c) /\ g.chave = f.chave /\ g.fiscal = f.chave /\ g.nsu = exec[c].nsu
      /\ g.cancelada = f.cancelada /\ g.dataCancelamento = f.dataCancelamento /\ g \in Documento
  BY ItemTipo, DadosAssumption DEF Documento, Execucao, Eu
<1>2. Reescrito(c, f) = ComDados(c, g)
  BY DEF Reescrito
<1> HIDE DEF g
<1>3. CASE Item(c).tipo = "cancelamento"
  BY <1>1, <1>2, <1>3 DEF ComDados, Documento
<1>4. CASE Item(c).tipo # "cancelamento"
  <2>1. Item(c).tipo = "nota" /\ exec[c].ref \in Referencia
    BY <1>4, ItemTipo DEF Documento, Referencia
  <2>2. exec[c].ref # Nenhum /\ exec[c].ref.cancelada = f.cancelada
        /\ exec[c].ref.dataCancelamento = f.dataCancelamento
    BY <2>1, NenhumAssumption
  <2>3. ComDados(c, g) = [g EXCEPT !.cancelada = f.cancelada \/ f.dataCancelamento,
                                   !.dataCancelamento = f.dataCancelamento, !.fiscal = Item(c).chave]
    BY <1>4, <2>2 DEF ComDados
  <2> QED BY <1>1, <1>2, <1>4, <2>3 DEF Documento
<1> QED BY <1>3, <1>4

\* A row of the note is written over by the client that has the custody.
LEMMA EscreveCalmo ==
  ASSUME IInv, TInv', NEW c \in Ativos, NEW k, k = Item(c).chave, NEW i \in DaChave(k), NEW d \in Documento,
         documentos[i].cliente = Eu(c), d.cliente = Eu(c), d.chave = k, d.fiscal = k, d.nsu = exec[c].nsu,
         Cancelada(i) => d.cancelada /\ d.dataCancelamento,
         Item(c).tipo = "cancelamento" => d.cancelada /\ d.dataCancelamento,
         Escreve(c, i, d)
  PROVE  IInv'
<1>1. /\ c \in Controles /\ TInv /\ Linhas /\ exec[c].nsu \in 1..MaxNsu /\ Item(c) \in Itens /\ i \in Ids
      /\ d # Nenhum /\ i \in Vivos
  BY ItemTipo, NenhumAssumption DEF IInv, DaChave, Vivos
<1>2. /\ documentos' = [documentos EXCEPT ![i] = d] /\ Guarda(c, i) /\ UNCHANGED <<vinculos, eventos>>
  BY DEF Escreve
<1>3. documentos'[i] = d /\ \A j \in Ids : j # i => documentos'[j] = documentos[j]
  BY <1>1, <1>2 DEF TInv, TabelasOK
<1>4. Vivos' = Vivos /\ \A j \in Vivos : documentos'[j].chave = documentos[j].chave
  BY <1>1, <1>3 DEF Vivos, DaChave
<1>5. DaChave(k)' = DaChave(k)
  BY <1>4 DEF DaChave
<1>6. SoDaChave(k)
  BY <1>1, <1>2, <1>3 DEF SoDaChave, DaChave, Vivos
<1>7. Linhas'
  <2>1. ASSUME NEW j \in Vivos' PROVE LinhaOK(documentos'[j])
    <3>1. CASE j = i
      <4>1. Sequencia[c][exec[c].nsu] # Nenhum /\ Sequencia[c][exec[c].nsu].chave = k
        BY <1>1, DadosAssumption DEF Item
      <4>2. LinhaOK(d)
        BY <1>1, <4>1 DEF LinhaOK, Eu
      <4> QED BY <1>3, <3>1, <4>2
    <3>2. CASE j # i
      BY <1>1, <1>3, <1>4, <3>2 DEF Linhas, Vivos
    <3> QED BY <3>1, <3>2
  <2>2. ASSUME NEW j \in Vivos', NEW p \in Papeis, vinculos'[j][p] # Nenhum
        PROVE  Ligada(j, p, documentos[j].chave)'
    BY <1>1, <1>2, <1>4, <2>2 DEF Linhas, Ligada
  <2> QED BY <1>1, <1>4, <2>1, <2>2 DEF Linhas
<1>8. ASSUME NEW u \in Controles, NEW item \in Itens, item.chave = k, Guardado(u, item)
      PROVE  Guardado(u, item)'
  <2>1. PICK j \in DaChave(k) :
           /\ item.tipo = "nota" =>
                \/ documentos[j].cliente = ClienteDe[u]
                \/ \E q \in Papeis : vinculos[j][q] # Nenhum /\ vinculos[j][q].cliente = ClienteDe[u]
           /\ item.tipo = "cancelamento" =>
                /\ eventos[item.chave] = j
                /\ documentos[j].cliente # ClienteDe[u] \/ Cancelada(j)
    BY <1>8 DEF Guardado
  <2>2. j = i
    BY <1>1, <2>1, LinhaUnica
  <2>3. documentos'[j].cliente = documentos[j].cliente /\ (Cancelada(j) => Cancelada(j)')
    BY <1>3, <2>2 DEF Cancelada
  <2> QED BY <1>2, <1>5, <1>8, <2>1, <2>3 DEF Guardado
<1>9. Item(c).tipo = "cancelamento" => Cancelada(i)'
  BY <1>3 DEF Cancelada
<1>10. documentos'[i].cliente = ClienteDe[c]
  BY <1>3 DEF Eu
<1> QED BY <1>2, <1>5, <1>6, <1>7, <1>8, <1>9, <1>10, GuardaCalma

LEMMA AtualizarCalmo ==
  ASSUME IInv, TInv', NEW c \in Ativos, Atualizar(c)
  PROVE  IInv'
<1>1. CASE Lanca(c)
  BY <1>1, LancaCalma
<1>2. CASE ~Lanca(c)
  <2>1. PICK i, k : i = exec[c].id /\ k = Item(c).chave
    OBVIOUS
  <2>2. exec[c].pc = "atualizar" /\ Andamento(c) /\ TInv /\ Linhas
    BY DEF Atualizar, IInv
  <2>3. PICK f : f = documentos[i]
    OBVIOUS
  <2>4. PICK d : d = Reescrito(c, f)
    OBVIOUS
  <2>5. Escreve(c, i, d)
    BY <1>2, <2>1, <2>3, <2>4 DEF Atualizar
  <2>6. /\ i \in DaChave(k) /\ f.cliente = Eu(c) /\ ~exec[c].novaChave
        /\ Item(c).tipo = "nota" =>
             exec[c].ref = [cancelada |-> f.cancelada, dataCancelamento |-> f.dataCancelamento]
    BY <2>1, <2>2, <2>3 DEF Andamento, AndamentoDe, Item, DaChave, Vivos
  <2>7. i \in Vivos /\ f.chave = k /\ f.fiscal = k /\ f \in Documento
    BY <2>2, <2>3, <2>6 DEF Linhas, LinhaOK, DaChave, Vivos, TInv, TabelasOK
  <2>8. d \in Documento
    BY <2>2, <2>4, <2>7, DadosTipo, ItemTipo
  <2>9. /\ d.cliente = Eu(c) /\ d.chave = k /\ d.fiscal = k /\ d.nsu = exec[c].nsu
        /\ f.cancelada /\ f.dataCancelamento => d.cancelada /\ d.dataCancelamento
        /\ Item(c).tipo = "cancelamento" => d.cancelada /\ d.dataCancelamento
    BY <2>1, <2>2, <2>4, <2>6, <2>7, ReescritoDaNota
  <2>10. Cancelada(i) => d.cancelada /\ d.dataCancelamento
    BY <2>3, <2>9 DEF Cancelada
  <2> QED BY <2>1, <2>3, <2>5, <2>6, <2>8, <2>9, <2>10, EscreveCalmo
<1> QED BY <1>1, <1>2

\* The row of a note that has none.
LEMMA UpsertCalmo ==
  ASSUME IInv, TInv', UmControlePorCliente, NEW c \in Ativos, Upsert(c)
  PROVE  IInv'
<1>1. PICK k : k = Item(c).chave
  OBVIOUS
<1>2. exec[c].pc = "upsert" /\ Andamento(c) /\ TInv /\ Linhas
  BY DEF Upsert, IInv
<1>3. /\ c \in Controles /\ exec[c] \in Execucao /\ Item(c) \in Itens /\ exec[c].nsu \in 1..MaxNsu
      /\ Item(c).tipo \in {"nota", "cancelamento"} /\ k \in Chaves
  BY <1>1, <1>2, ItemTipo
<1>4. DaChave(k) = {} /\ Item(c).tipo = "nota"
  BY <1>1, <1>2, <1>3 DEF Andamento, AndamentoDe, Item
<1>5. PorChave(k) = 0
  BY <1>4, PorChaveAcha
<1>6. PICK d : d = Novo(c)
  OBVIOUS
<1>7. d.cliente = Eu(c) /\ d.chave = k /\ d.fiscal = k /\ d.nsu = exec[c].nsu /\ d \in Documento
  <2> DEFINE g == [cliente |-> Eu(c), chave |-> Item(c).chave, nsu |-> exec[c].nsu, cancelada |-> FALSE,
                   dataCancelamento |-> FALSE, fiscal |-> Nenhum]
  <2>1. g \in Documento
    BY <1>1, <1>3, DadosAssumption DEF Documento, Execucao, Eu
  <2>2. d \in Documento
    BY <1>2, <1>3, <1>6, <2>1, DadosTipo
  <2>3. d = ComDados(c, g)
    BY <1>6 DEF Novo
  <2>4. g.cliente = Eu(c) /\ g.chave = k /\ g.nsu = exec[c].nsu
    BY <1>1
  <2> HIDE DEF g
  <2>5. d.cliente = g.cliente /\ d.chave = g.chave /\ d.nsu = g.nsu /\ d.fiscal = k
    BY <1>1, <1>4, <2>1, <2>3 DEF ComDados, Documento
  <2> QED BY <2>2, <2>4, <2>5
<1>8. ~Conflita(0, d)
  <2> SUFFICES ASSUME NEW j \in Vivos,
                      \/ documentos[j].chave = d.chave
                      \/ d.nsu # 0 /\ <<documentos[j].cliente, documentos[j].nsu>> = <<d.cliente, d.nsu>>
               PROVE  FALSE
    BY DEF Conflita
  <2>1. CASE documentos[j].chave = d.chave
    BY <1>4, <1>7, <2>1 DEF DaChave
  <2>2. CASE documentos[j].cliente = d.cliente /\ documentos[j].nsu = d.nsu
    <3>1. documentos[j].chave = k
      BY <1>1, <1>2, <1>3, <1>7, <2>2, ChaveDoNsu DEF Item
    <3> QED BY <1>4, <3>1 DEF DaChave
  <2> QED BY <2>1, <2>2
<1>9. Livres # {} /\ Escreve(c, CHOOSE j \in Livres : TRUE, d)
  BY <1>1, <1>5, <1>6, <1>8 DEF Upsert
<1>10. PICK i : i = (CHOOSE j \in Livres : TRUE)
  OBVIOUS
<1>11. /\ i \in Ids /\ i \notin Vivos /\ \A p \in Papeis : vinculos[i][p] = Nenhum
       /\ Escreve(c, i, d) /\ d # Nenhum
  <2>1. i \in Livres
    BY <1>9, <1>10
  <2>2. Escreve(c, i, d)
    BY <1>9, <1>10
  <2>3. i \in Ids /\ i \notin Vivos /\ \A p \in Papeis : vinculos[i][p] = Nenhum
    BY <2>1 DEF Livres
  <2> QED BY <1>7, <2>2, <2>3, NenhumAssumption
<1>12. /\ documentos' = [documentos EXCEPT ![i] = d] /\ Guarda(c, i) /\ UNCHANGED <<vinculos, eventos>>
  BY <1>11 DEF Escreve
<1>13. documentos'[i] = d /\ \A j \in Ids : j # i => documentos'[j] = documentos[j]
  BY <1>2, <1>11, <1>12 DEF TInv, TabelasOK
<1>14. Vivos' = Vivos \union {i} /\ \A j \in Vivos : documentos'[j] = documentos[j] /\ j # i
  BY <1>11, <1>13 DEF Vivos
<1>15. SoDaChave(k)
  BY <1>7, <1>11, <1>12, <1>13 DEF SoDaChave, Vivos
<1>16. Linhas'
  <2>1. ASSUME NEW j \in Vivos' PROVE LinhaOK(documentos'[j])
    <3>1. CASE j = i
      <4>1. Sequencia[c][exec[c].nsu] # Nenhum /\ Sequencia[c][exec[c].nsu].chave = k
        BY <1>1, <1>3, DadosAssumption DEF Item
      <4>2. LinhaOK(d)
        BY <1>3, <1>7, <4>1 DEF LinhaOK, Eu
      <4> QED BY <1>13, <3>1, <4>2
    <3>2. CASE j # i
      BY <1>2, <1>14, <3>2 DEF Linhas
    <3> QED BY <3>1, <3>2
  <2>2. ASSUME NEW j \in Vivos', NEW p \in Papeis, vinculos'[j][p] # Nenhum
        PROVE  Ligada(j, p, documentos[j].chave)'
    <3>1. j # i /\ j \in Vivos
      BY <1>11, <1>12, <1>14, <2>2
    <3> QED BY <1>2, <1>12, <1>14, <2>2, <3>1 DEF Linhas, Ligada
  <2>3. ASSUME NEW j \in Vivos', NEW h \in Vivos', documentos'[j].chave = documentos'[h].chave PROVE j = h
    <3>1. \A g \in Vivos : documentos'[g].chave # k
      BY <1>4, <1>14 DEF DaChave
    <3> QED BY <1>2, <1>7, <1>13, <1>14, <2>3, <3>1 DEF Linhas
  <2> QED BY <2>1, <2>2, <2>3 DEF Linhas
<1>17. i \in DaChave(k)'
  BY <1>7, <1>13, <1>14 DEF DaChave
<1>18. documentos'[i].cliente = ClienteDe[c]
  BY <1>7, <1>13 DEF Eu
<1>19. \A u \in Controles, item \in Itens : item.chave = k => ~Guardado(u, item)
  BY <1>4 DEF Guardado
<1> QED BY <1>1, <1>4, <1>12, <1>15, <1>16, <1>17, <1>18, <1>19, GuardaCalma

LEMMA GravarEventoCalmo ==
  ASSUME IInv, TInv', NEW c \in Ativos, GravarEvento(c)
  PROVE  IInv'
<1>1. CASE Lanca(c)
  BY <1>1, LancaCalma
<1>2. CASE ~Lanca(c)
  <2>1. PICK i, k : i = exec[c].id /\ k = Item(c).chave
    OBVIOUS
  <2>2. exec[c].pc = "evento" /\ Andamento(c) /\ TInv /\ Linhas
    BY DEF GravarEvento, IInv
  <2>3. /\ c \in Controles /\ Item(c) \in Itens /\ exec[c].nsu \in 1..MaxNsu /\ k \in Chaves
        /\ feitos[c] \in 0..MaxNsu /\ MaxNsu \in Nat /\ Inicio[c] \in 0..MaxNsu
    BY <2>1, <2>2, ItemTipo, DadosAssumption DEF TInv, ExecucoesOK
  <2>4. /\ Item(c).tipo = "cancelamento" /\ i \in DaChave(k)
        /\ documentos[i].cliente = Eu(c) => Cancelada(i)
    BY <2>1, <2>2 DEF Andamento, AndamentoDe, Item
  <2>5. /\ eventos' = [eventos EXCEPT ![k] = i]
        /\ feitos' = [feitos EXCEPT ![c] = Maior(@, exec[c].nsu)]
        /\ Passa(c, Ocioso) /\ Ocioso.pc = "ocioso"
        /\ UNCHANGED <<documentos, vinculos>>
    BY <1>2, <2>1 DEF GravarEvento, Ocioso
  <2>6. eventos'[k] = i /\ \A h \in Chaves : h # k => eventos'[h] = eventos[h]
    BY <2>2, <2>3, <2>5 DEF TInv, TabelasOK
  <2>7. SoDaChave(k) /\ DaChave(k)' = DaChave(k)
    BY <2>5, <2>6 DEF SoDaChave, DaChave, Vivos
  <2>8. Linhas'
    BY <2>2, <2>5 DEF Linhas, LinhaOK, Ligada, Vivos
  <2>9. ASSUME NEW u \in Controles, NEW item \in Itens, item.chave = k, Guardado(u, item)
        PROVE  Guardado(u, item)'
    <3>1. PICK j \in DaChave(k) :
             /\ item.tipo = "nota" =>
                  \/ documentos[j].cliente = ClienteDe[u]
                  \/ \E q \in Papeis : vinculos[j][q] # Nenhum /\ vinculos[j][q].cliente = ClienteDe[u]
             /\ item.tipo = "cancelamento" =>
                  /\ eventos[item.chave] = j
                  /\ documentos[j].cliente # ClienteDe[u] \/ Cancelada(j)
      BY <2>9 DEF Guardado
    <3>2. j = i
      BY <2>2, <2>4, <3>1, LinhaUnica
    <3> QED BY <2>5, <2>6, <2>7, <2>9, <3>1, <3>2 DEF Guardado, Cancelada
  <2>10. ASSUME NEW n \in 1..MaxNsu, n = exec[c].nsu PROVE Guardado(c, Sequencia[c][n])'
    <3>1. Sequencia[c][n] = Item(c)
      BY <2>10 DEF Item
    <3>2. i \in DaChave(Sequencia[c][n].chave)' /\ eventos'[Sequencia[c][n].chave] = i
      BY <2>1, <2>4, <2>6, <2>7, <3>1
    <3>3. documentos'[i].cliente # ClienteDe[c] \/ Cancelada(i)'
      BY <2>4, <2>5 DEF Cancelada, Eu
    <3> QED BY <2>4, <3>1, <3>2, <3>3 DEF Guardado
  <2>11. feitos'[c] = Maior(feitos[c], exec[c].nsu) /\ \A u \in Controles : u # c => feitos'[u] = feitos[u]
    BY <2>2, <2>3, <2>5 DEF TInv, ExecucoesOK
  <2>12. ASSUME NEW u \in Controles, NEW n \in 1..MaxNsu,
                Inicio[u] < n, n <= feitos'[u], Sequencia[u][n] # Nenhum
         PROVE  IF Sequencia[u][n].chave = k THEN Guardado(u, Sequencia[u][n])' ELSE n <= feitos[u]
    <3>1. CASE n <= feitos[u]
      <4>1. Guardado(u, Sequencia[u][n]) /\ Sequencia[u][n] \in Itens
        BY <2>12, <3>1, DadosAssumption DEF IInv
      <4> QED BY <2>9, <3>1, <4>1
    <3>2. CASE ~(n <= feitos[u])
      <4>1. u = c
        BY <2>11, <2>12, <3>2
      <4>2. n <= exec[c].nsu
        BY <2>3, <2>11, <2>12, <3>2, <4>1 DEF Maior
      <4>3. n = exec[c].nsu
        <5>1. \A m \in feitos[c] + 1..exec[c].nsu - 1 : Sequencia[c][m] = Nenhum
          BY <2>2 DEF Andamento, AndamentoDe
        <5> QED BY <2>3, <2>12, <3>2, <4>1, <4>2, <5>1
      <4>4. Sequencia[u][n] = Item(c)
        BY <4>1, <4>3 DEF Item
      <4> QED BY <2>1, <2>10, <4>1, <4>3, <4>4
    <3> QED BY <3>1, <3>2
  <2> QED BY <2>1, <2>5, <2>7, <2>8, <2>11, <2>12, PassoCalmo
<1> QED BY <1>1, <1>2

-----------------------------------------------------------------------------
(* The invariant                                                           *)

LEMMA PersistirCalmo ==
  ASSUME IInv, TInv', Calma, NEW c \in Controles, Persistir(c)
  PROVE  IInv'
<1>1. c \in Ativos
  BY DEF Persistir, Ativos, LerReferencia, LerPorChave, Vincular, LerPorNsu, RealocarEventos, RemoverEventos,
         RemoverDuplicado, DesligarEventos, LerCustodia, Atualizar, Upsert, LerConflito, AtualizarConflito,
         GravarEvento
<1>2. exec[c].pc \in {"referencia", "chave", "nsu", "vincular", "custodia", "atualizar", "upsert", "evento"}
  BY <1>1 DEF IInv, Andamento, AndamentoDe
<1>3. \/ LerReferencia(c) \/ LerPorChave(c) \/ Vincular(c) \/ LerPorNsu(c)
      \/ LerCustodia(c) \/ Atualizar(c) \/ Upsert(c) \/ GravarEvento(c)
  BY <1>2 DEF Persistir, RealocarEventos, RemoverEventos, RemoverDuplicado, DesligarEventos, LerConflito,
              AtualizarConflito
<1> QED BY <1>1, <1>3, LerReferenciaCalma, LerPorChaveCalma, VincularCalma, LerPorNsuCalma, LerCustodiaCalma,
           AtualizarCalmo, UpsertCalmo, GravarEventoCalmo DEF Calma

\* Nothing moves for the executions that work at an item.
LEMMA Parado ==
  ASSUME IInv, TInv', UNCHANGED <<tabelas, feitos>>, Ativos' = Ativos,
         \A d \in Ativos : exec'[d] = exec[d]
  PROVE  IInv'
<1>1. \A d \in Ativos : Item(d)' = Item(d)
  BY DEF Item
<1>2. ASSUME NEW d \in Ativos PROVE Andamento(d)'
  <2>1. Item(d).chave # Nenhum
    BY ItemTipo, DadosAssumption DEF IInv
  <2>2. SoDaChave(Nenhum)
    BY SemTabelas
  <2> QED BY <2>1, <2>2, AndamentoAlheio DEF IInv
<1>3. Linhas'
  BY SemTabelas DEF IInv
<1>4. ASSUME NEW d \in Controles, NEW n \in 1..MaxNsu,
             Inicio[d] < n, n <= feitos'[d], Sequencia[d][n] # Nenhum
      PROVE  Guardado(d, Sequencia[d][n])'
  <2>1. Guardado(d, Sequencia[d][n]) /\ Sequencia[d][n] \in Itens
    BY <1>4, DadosAssumption DEF IInv
  <2> QED BY <2>1, SemTabelas
<1>5. \A d, f \in Ativos' : d # f => Item(d)'.chave # Item(f)'.chave
  BY <1>1 DEF IInv
<1> QED BY <1>2, <1>3, <1>4, <1>5 DEF IInv

LEMMA FalharCalmo ==
  ASSUME IInv, TInv', NEW c \in Controles, Falhar(c)
  PROVE  IInv'
<1>1. CASE c \in Ativos
  BY <1>1, LancaCalma DEF Falhar
<1>2. CASE c \notin Ativos
  <2>1. UNCHANGED <<tabelas, feitos>> /\ Passa(c, Ocioso)
    BY DEF Falhar, Lanca
  <2>2. exec'[c].pc = "ocioso" /\ \A d \in Controles : d # c => exec'[d] = exec[d]
    BY <2>1 DEF Passa, Ocioso, IInv, TInv, ExecucoesOK
  <2>3. Ativos' = Ativos /\ \A d \in Ativos : exec'[d] = exec[d]
    BY <1>2, <2>2 DEF Ativos
  <2> QED BY <2>1, <2>3, Parado
<1> QED BY <1>1, <1>2

LEMMA Inducao == IInv /\ Calma /\ Calma' /\ [Next]_vars => IInv'
<1> SUFFICES ASSUME IInv, Calma, Calma', [Next]_vars PROVE IInv'
  OBVIOUS
<1>1. TInv'
  BY Tipos DEF IInv
<1>2. CASE UNCHANGED vars
  BY <1>1, <1>2, Parado DEF vars, Ativos
<1>3. ASSUME NEW c \in Controles, NEW n \in 1..MaxNsu, Receber(c, n) \/ Repetir(c, n) PROVE IInv'
  BY <1>1, <1>3, ReceberCalmo DEF Calma
<1>4. ASSUME NEW c \in Controles, Persistir(c) PROVE IInv'
  BY <1>1, <1>4, PersistirCalmo
<1>5. ASSUME NEW c \in Controles, Falhar(c) PROVE IInv'
  BY <1>1, <1>5, FalharCalmo
<1> QED BY <1>2, <1>3, <1>4, <1>5 DEF Next

LEMMA Comeco == Init => IInv
<1> SUFFICES ASSUME Init PROVE IInv
  OBVIOUS
<1>1. TInv
  BY TiposNoInicio
<1>2. Vivos = {} /\ Ativos = {}
  BY DEF Init, Vivos, Ativos, Ocioso
<1>3. \A c \in Controles, n \in 1..MaxNsu : ~(Inicio[c] < n /\ n <= feitos[c])
  BY DadosAssumption DEF Init
<1> QED BY <1>1, <1>2, <1>3 DEF IInv, Linhas

\* The row of a note whose item was answered, found by its key.
LEMMA LinhaDoFeito ==
  ASSUME IInv, NEW c \in Controles, NEW n \in 1..MaxNsu, NEW tipo, Feito(c, n, tipo)
  PROVE  LET k == Sequencia[c][n].chave
             i == PorChave(k) IN
         /\ i # 0 /\ i \in Vivos /\ documentos[i].fiscal = k
         /\ tipo = "nota" =>
              \/ documentos[i].cliente = ClienteDe[c]
              \/ \E p \in Papeis : vinculos[i][p] # Nenhum /\ vinculos[i][p].cliente = ClienteDe[c]
         /\ tipo = "cancelamento" =>
              eventos[k] = i /\ (documentos[i].cliente # ClienteDe[c] \/ Cancelada(i))
<1> DEFINE item == Sequencia[c][n]
           k == item.chave
           i == PorChave(k)
<1>1. Guardado(c, item) /\ item.tipo = tipo /\ Linhas
  BY DEF Feito, IInv
<1>2. DaChave(k) # {}
  BY <1>1 DEF Guardado
<1>3. i # 0 /\ DaChave(k) = {i}
  BY <1>1, <1>2, LinhaDaChave
<1>4. i \in Vivos /\ documentos[i].fiscal = k
  BY <1>1, <1>3 DEF DaChave, Linhas, LinhaOK
<1> HIDE DEF i
<1>5. /\ tipo = "nota" =>
           \/ documentos[i].cliente = ClienteDe[c]
           \/ \E p \in Papeis : vinculos[i][p] # Nenhum /\ vinculos[i][p].cliente = ClienteDe[c]
      /\ tipo = "cancelamento" =>
           eventos[k] = i /\ (documentos[i].cliente # ClienteDe[c] \/ Cancelada(i))
  BY <1>1, <1>3 DEF Guardado
<1> QED BY <1>3, <1>4, <1>5 DEF i

LEMMA NotaSegue == IInv => NotaGuardada
  BY LinhaDoFeito DEF NotaGuardada

LEMMA VeemSegue == IInv => AmbosVeem
<1> SUFFICES ASSUME IInv, NEW c \in Controles, NEW n \in 1..MaxNsu, Feito(c, n, "nota")
             PROVE  LET i == PorChave(Sequencia[c][n].chave) IN
                    i # 0 /\ (documentos[i].cliente = ClienteDe[c] \/ \E v \in Ligados(i) : v.cliente = ClienteDe[c])
  BY DEF AmbosVeem
<1> DEFINE i == PorChave(Sequencia[c][n].chave)
<1>1. i # 0 /\ (\/ documentos[i].cliente = ClienteDe[c]
                \/ \E p \in Papeis : vinculos[i][p] # Nenhum /\ vinculos[i][p].cliente = ClienteDe[c])
  BY LinhaDoFeito
<1> HIDE DEF i
<1>2. documentos[i].cliente = ClienteDe[c] \/ \E v \in Ligados(i) : v.cliente = ClienteDe[c]
  BY <1>1 DEF Ligados
<1> QED BY <1>1, <1>2 DEF i

LEMMA CancelamentoSegue == IInv => CancelamentoVale
<1> SUFFICES ASSUME IInv, NEW c \in Controles, NEW n \in 1..MaxNsu, Feito(c, n, "cancelamento")
             PROVE  LET i == PorChave(Sequencia[c][n].chave) IN
                    /\ i # 0
                    /\ \/ documentos[i].cliente # ClienteDe[c]
                       \/ documentos[i].cancelada /\ documentos[i].dataCancelamento
  BY DEF CancelamentoVale
<1> QED BY LinhaDoFeito DEF Cancelada

LEMMA EventoSegue == IInv => EventoGuardado
<1> SUFFICES ASSUME IInv, NEW c \in Controles, NEW n \in 1..MaxNsu, Feito(c, n, "cancelamento")
             PROVE  /\ eventos[Sequencia[c][n].chave] # 0
                    /\ eventos[Sequencia[c][n].chave] = PorChave(Sequencia[c][n].chave)
  BY DEF EventoGuardado
<1> QED BY LinhaDoFeito

\* No step changes the client of a row.
LEMMA CustodiaPasso ==
  ASSUME IInv, Calma, NEW c \in Controles, Persistir(c)
  PROVE  \A i \in Vivos : documentos'[i].cliente = documentos[i].cliente
<1>1. c \in Ativos
  BY DEF Persistir, Ativos, LerReferencia, LerPorChave, Vincular, LerPorNsu, RealocarEventos, RemoverEventos,
         RemoverDuplicado, DesligarEventos, LerCustodia, Atualizar, Upsert, LerConflito, AtualizarConflito,
         GravarEvento
<1>2. Andamento(c) /\ TInv /\ Linhas
  BY <1>1 DEF IInv
<1>3. exec[c].pc \in {"referencia", "chave", "nsu", "vincular", "custodia", "atualizar", "upsert", "evento"}
  BY <1>2 DEF Andamento, AndamentoDe
<1>4. CASE Atualizar(c)
  <2>1. PICK i, d : i = exec[c].id /\ d = Reescrito(c, documentos[i])
    OBVIOUS
  <2>2. CASE Lanca(c)
    BY <2>2 DEF Lanca, tabelas
  <2>3. CASE ~Lanca(c)
    <3>1. exec[c].pc = "atualizar" /\ Escreve(c, i, d) /\ i \in Vivos
      BY <1>4, <2>1, <2>3 DEF Atualizar
    <3>2. /\ documentos[i].cliente = Eu(c) /\ i \in DaChave(Item(c).chave) /\ ~exec[c].novaChave
          /\ Item(c).tipo = "nota" => exec[c].ref = [cancelada |-> documentos[i].cancelada,
                                                     dataCancelamento |-> documentos[i].dataCancelamento]
      BY <1>2, <2>1, <3>1 DEF Andamento, AndamentoDe, Item, Vivos
    <3>3. /\ documentos[i].chave = Item(c).chave /\ documentos[i].fiscal = documentos[i].chave
          /\ documentos[i] \in Documento /\ i \in Ids
      BY <1>2, <3>1, <3>2 DEF DaChave, Linhas, LinhaOK, TInv, TabelasOK, Vivos
    <3>4. d.cliente = documentos[i].cliente
      BY <1>1, <1>2, <2>1, <3>2, <3>3, ReescritoDaNota
    <3>5. documentos'[i] = d /\ \A j \in Ids : j # i => documentos'[j] = documentos[j]
      BY <1>2, <3>1, <3>3 DEF Escreve, TInv, TabelasOK
    <3> QED BY <3>4, <3>5 DEF Vivos
  <2> QED BY <2>2, <2>3
<1>5. CASE Upsert(c)
  <2>1. exec[c].pc = "upsert"
    BY <1>5 DEF Upsert
  <2>2. DaChave(Item(c).chave) = {}
    BY <1>2, <2>1 DEF Andamento, AndamentoDe, Item
  <2>3. PorChave(Item(c).chave) = 0
    BY <2>2, PorChaveAcha
  <2>4. CASE UNCHANGED documentos
    BY <2>4
  <2>5. CASE ~UNCHANGED documentos
    <3>1. PICK i : i = CHOOSE j \in Livres : TRUE
      OBVIOUS
    <3>2. Livres # {} /\ Escreve(c, i, Novo(c))
      BY <1>5, <2>3, <2>5, <3>1 DEF Upsert, tabelas
    <3>3. i \in Livres
      BY <3>1, <3>2
    <3>4. i \notin Vivos /\ documentos' = [documentos EXCEPT ![i] = Novo(c)]
      BY <3>2, <3>3 DEF Livres, Escreve
    <3> QED BY <1>2, <3>4 DEF TInv, TabelasOK, Vivos
  <2> QED BY <2>4, <2>5
<1>6. CASE \/ LerReferencia(c) \/ LerPorChave(c) \/ Vincular(c) \/ LerPorNsu(c)
           \/ LerCustodia(c) \/ GravarEvento(c)
  <2>1. UNCHANGED documentos
    BY <1>6 DEF LerReferencia, LerPorChave, Vincular, LerPorNsu, LerCustodia, GravarEvento, Lanca, tabelas
  <2> QED BY <2>1
<1> QED BY <1>3, <1>4, <1>5, <1>6 DEF Persistir, RealocarEventos, RemoverEventos, RemoverDuplicado, DesligarEventos,
                                      LerConflito, AtualizarConflito

LEMMA CustodiaSegue ==
  IInv /\ Calma /\ [Next]_vars =>
    [\A i \in Vivos :
       /\ documentos'[i] # Nenhum /\ documentos'[i].chave = documentos[i].chave
       /\ documentos[i].chave \notin disputadas
       => documentos'[i].cliente = documentos[i].cliente]_vars
<1> SUFFICES ASSUME IInv, Calma, Next
             PROVE  \A i \in Vivos : documentos'[i].cliente = documentos[i].cliente
  OBVIOUS
<1>1. ASSUME NEW c \in Controles, Persistir(c)
      PROVE  \A i \in Vivos : documentos'[i].cliente = documentos[i].cliente
  BY <1>1, CustodiaPasso
<1>2. ASSUME NEW c \in Controles, NEW n \in 1..MaxNsu, Receber(c, n) \/ Repetir(c, n)
      PROVE  \A i \in Vivos : documentos'[i].cliente = documentos[i].cliente
  BY <1>2 DEF Receber, Repetir, Abrir, tabelas
<1>3. ASSUME NEW c \in Controles, Falhar(c)
      PROVE  \A i \in Vivos : documentos'[i].cliente = documentos[i].cliente
  BY <1>3 DEF Falhar, Lanca, tabelas
<1> QED BY <1>1, <1>2, <1>3 DEF Next

\* A note that was disputed once stays so.
LEMMA DisputadasFicam == [Next]_vars => disputadas \subseteq disputadas'
<1>1. ASSUME NEW c \in Controles, NEW n \in 1..MaxNsu, Receber(c, n) \/ Repetir(c, n)
      PROVE  disputadas \subseteq disputadas'
  BY <1>1 DEF Receber, Repetir, Abrir
<1>2. ASSUME NEW c \in Controles, Persistir(c) \/ Falhar(c) PROVE disputadas \subseteq disputadas'
  BY <1>2 DEF Persistir, Falhar
<1> QED BY <1>1, <1>2 DEF Next, vars

\* The invariant holds up to the first race.
LEMMA InvarianteCalmo == Spec => [](Calma => IInv)
<1>1. (Calma => IInv) /\ [Next]_vars => (Calma => IInv)'
  <2> SUFFICES ASSUME Calma => IInv, [Next]_vars, Calma' PROVE IInv'
    OBVIOUS
  <2>1. Calma
    BY DisputadasFicam DEF Calma
  <2> QED BY <2>1, Inducao
<1> QED BY <1>1, Comeco, PTL DEF Spec

\* sync.service.ts:3357: as long as every client has one control, events come after their notes and
\* no two executions have stored items of one note at the same time, a note that was answered is there with its
\* own data, whatever other items are stored, retried or broken off in between.
THEOREM NotaSempreGuardada == Spec => [](Calma => NotaGuardada)
  BY InvarianteCalmo, NotaSegue, PTL

\* docs/database.md:36: under the same conditions a cancellation that came to the client with the
\* custody has not been undone.
THEOREM CancelamentoSempreVale == Spec => [](Calma => CancelamentoVale)
  BY InvarianteCalmo, CancelamentoSegue, PTL

\* sync.service.ts:3639: under the same conditions a cancellation that was stored hangs on the row of
\* its note.
THEOREM EventoSempreGuardado == Spec => [](Calma => EventoGuardado)
  BY InvarianteCalmo, EventoSegue, PTL

\* sync.service.ts:3832: under the same conditions every client whose control has stored a note sees it,
\* by custody or by a link.
THEOREM AmbosSempreVeem == Spec => [](Calma => AmbosVeem)
  BY InvarianteCalmo, VeemSegue, PTL

\* sync.service.ts:3832: under the same conditions, kept throughout, no step takes the custody of a note from
\* the client that has it.
THEOREM CustodiaSempre == Spec /\ []Calma => CustodiaPreservada
<1>1. Spec /\ []Calma => [](IInv /\ Calma)
  BY InvarianteCalmo, PTL
<1> QED BY <1>1, CustodiaSegue, PTL DEF Spec, CustodiaPreservada
=============================================================================
