------------------------ MODULE NfeManifestacaoProofs ------------------------
(***************************************************************************)
(* What NfeManifestacao guarantees for any number of operators and         *)
(* workers, any requests, any kinds of conclusive event and any number of  *)
(* attempts.                                                               *)
(***************************************************************************)
EXTENDS NfeManifestacao, FiniteSetTheorems, WellFoundedInduction, TLAPS

\* What an active Ciencia may be said to be, and an attempt somebody is sending.
EmDia    == Aceitos \union {"enviando"}
Enviando == {"enviar", "resposta"}

SoDeTrabalhador == {"posse", "preparar", "ciencia", "anteriores", "autorizacao", "gravar", "liberar",
                    "consultar", "persistido", "registrar"}
DaDistribuicao  == {"observar", "observarNovo", "observarXml"}

TipoDe(p, x) == IF p \in Trabalhadores THEN "ciencia" ELSE x.pedido.tipo

-----------------------------------------------------------------------------
(* The inductive invariant: the tables                                     *)

Tipada ==
  /\ config \in Configuracao
  /\ tarefa \in Tarefa \union {Nenhum}
  /\ tentativas \in [Indices -> Tentativa \union {Nenhum}]
  /\ xml \in BOOLEAN
  /\ importado \in [Eventos -> Importado \union {Nenhum}]
  /\ sefaz \in [Eventos -> Aceitos \union {Nenhum}]

\* Rows are never deleted.
EmOrdem == \E k \in 0..MaxTentativas : Linhas = 1..k

\* What the second partial index keeps.
CienciaUnica ==
  \A i, j \in Linhas :
    i # j /\ tentativas[i].tipo = "ciencia" /\ tentativas[j].tipo = "ciencia"
      => tentativas[i].status \notin EmDia \/ tentativas[j].status \notin EmDia

\* What a row says happened; there is one Ciencia only, without a second sequence.
Verdadeira(i) ==
  /\ tentativas[i].status \in Aceitos => sefaz[<<tentativas[i].tipo, tentativas[i].seq>>] # Nenhum
  /\ tentativas[i].status = "falha_local" => i \notin transmitidas
  /\ tentativas[i].tipo = "ciencia" => tentativas[i].seq = 1

\* Only what the SEFAZ has registered is distributed.
Distribuido(e) ==
  importado[e] # Nenhum =>
    importado[e].tipo = e[1] /\ importado[e].seq \in {0, e[2]} /\ sefaz[e] # Nenhum

Tabelas ==
  /\ Tipada
  /\ EmOrdem
  /\ CienciaUnica
  /\ \A i \in Linhas : Verdadeira(i)
  /\ \A e \in Eventos : Distribuido(e)
  /\ sefaz[<<"ciencia", 2>>] = Nenhum
  /\ transmitidas \subseteq Linhas

-----------------------------------------------------------------------------
(* ... and a process p whose local state is x                              *)

\* Who sends has a row of its own, and it is of the event being sent.
Remete(p, x) ==
  /\ x.tent # 0 => x.tent \in Linhas
  /\ p \in Trabalhadores => x.seq = 1
  /\ x.pc \in {"historico", "criar"} \union Enviando => p \in Trabalhadores \/ x.pedido # Nenhum
  /\ x.pc \in {"criar"} \union Enviando => (TipoDe(p, x) = "ciencia" => x.seq = 1)
  /\ x.pc \in Enviando =>
       /\ x.tent # 0
       /\ tentativas[x.tent].tipo = TipoDe(p, x) /\ tentativas[x.tent].seq = x.seq
       /\ tentativas[x.tent].status \in EmDia
  /\ x.pc = "enviar" => x.tent \notin transmitidas
  /\ x.pc = "resposta" =>
       /\ x.resp # Nenhum
       /\ x.resp = "falha_local" => x.tent \notin transmitidas
       /\ x.resp \in Aceitos => sefaz[<<TipoDe(p, x), x.seq>>] # Nenhum
  /\ p \in Trabalhadores /\ x.pc \in {"agendarLer", "agendarGravar"} => x.tent # 0

\* Who writes the task has one, and something to write; who reconciles has rows to go through.
Escreve(p, x) ==
  /\ (p \in Trabalhadores /\ x.pc # "ocioso") \/ x.pc = "agendarGravar" => tarefa # Nenhum
  /\ x.pc \in {"gravar", "registrar"} => x.status \in StatusTarefa
  /\ x.alvos \subseteq Linhas
  /\ x.pc \in {"reconciliar", "liberarTarefa"} => x.alvos # {}

\* The authorisation that is read last was already there when the events were read, or was given since.
Autorizado(p, x) ==
  p \in Trabalhadores =>
    /\ x.pc \in {"criar", "enviar"} => x.autorizada
    /\ x.pc = "autorizacao" /\ config.ciencia => x.autorizada

Lugar(p, x) ==
  \/ p \in Trabalhadores
  \/ p \in Operadores /\ x.pc \notin SoDeTrabalhador \union DaDistribuicao
  \/ p = Distribuicao /\ x.pc \in {"ocioso"} \union DaDistribuicao

Correto(p, x) == Remete(p, x) /\ Escreve(p, x) /\ Autorizado(p, x) /\ Lugar(p, x)

IInv ==
  /\ Tabelas
  /\ exec \in [Processos -> Execucao]
  /\ \A p \in Processos : Correto(p, exec[p])
  /\ \A p, q \in Processos : p # q /\ exec[p].tent = exec[q].tent => exec[p].tent = 0

-----------------------------------------------------------------------------
(* Numbers and sets of numbers                                             *)

LEMMA MenorElemento ==
  ASSUME NEW S, S \subseteq Nat, S # {}
  PROVE  \E x \in S : \A y \in S : x <= y
<1>1. PICK R : R = OpToRel(<, Nat)
  OBVIOUS
<1>2. IsWellFoundedOn(R, Nat)
  BY <1>1, NatLessThanWellFounded
<1>3. PICK x \in S : \A y \in S : ~(<<y, x>> \in R)
  BY <1>2, WFMin
<1>4. \A a, b \in Nat : a < b => <<a, b>> \in R
  BY <1>1 DEF OpToRel
<1>5. \A y \in S : ~(y < x)
  BY <1>3, <1>4
<1>6. \A y \in S : x \in Nat /\ y \in Nat
  OBVIOUS
<1>7. QED
  BY <1>5, <1>6

LEMMA MinLema ==
  ASSUME NEW S, S \subseteq Nat, S # {}
  PROVE  Min(S) \in S
<1>1. \E x \in S : \A y \in S : x <= y
  BY MenorElemento
<1>2. QED
  BY <1>1 DEF Min

LEMMA MaxLema ==
  ASSUME NEW n \in Nat, NEW S, S \subseteq 0..n, S # {}
  PROVE  Max(S) \in S /\ \A y \in S : y <= Max(S)
<1>1. PICK T : T = {n - y : y \in S}
  OBVIOUS
<1>2. T \subseteq Nat /\ T # {}
  <2>1. \A y \in 0..n : n - y \in Nat
    OBVIOUS
  <2>2. \A t \in T : \E y \in 0..n : t = n - y
    BY <1>1
  <2>3. PICK y \in S : TRUE
    OBVIOUS
  <2>4. n - y \in T
    BY <1>1, <2>3
  <2>5. QED
    BY <2>1, <2>2, <2>4
<1>3. PICK t \in T : \A y \in T : t <= y
  BY <1>2, MenorElemento
<1>4. PICK m \in S : t = n - m
  BY <1>1
<1>5. \A y \in S : y <= m
  <2>1. SUFFICES ASSUME NEW y \in S PROVE y <= m
    OBVIOUS
  <2>2. n - m <= n - y
    BY <1>1, <1>3, <1>4
  <2>3. m \in Nat /\ y \in Nat
    OBVIOUS
  <2>4. QED
    BY <2>2, <2>3
<1>6. \E x \in S : \A y \in S : x >= y
  BY <1>5
<1>7. Max(S) \in S /\ \A y \in S : Max(S) >= y
  BY <1>6 DEF Max
<1>8. QED
  BY <1>7

-----------------------------------------------------------------------------
(* What a step leaves true                                                 *)

LEMMA LinhaTipo ==
  ASSUME Tipada
  PROVE  \A i \in Linhas : /\ i \in Indices /\ i \in Nat /\ i # 0 /\ tentativas[i] \in Tentativa
                           /\ tentativas[i].tipo \in Tipos /\ tentativas[i].seq \in 1..2
                           /\ <<tentativas[i].tipo, tentativas[i].seq>> \in Eventos
<1>1. \A i \in Linhas : i \in Indices /\ tentativas[i] \in Tentativa
  BY DEF Tipada, Linhas
<1>2. \A t \in Tentativa : t.tipo \in Tipos /\ t.seq \in 1..2 /\ <<t.tipo, t.seq>> \in Eventos
  BY DEF Tentativa, Eventos
<1>3. \A i \in Indices : i \in Nat /\ i # 0
  BY ManifestacaoAssumption DEF Indices
<1>4. QED
  BY <1>1, <1>2, <1>3

LEMMA EventoDe ==
  ASSUME NEW p \in Processos, NEW x \in Execucao, p \in Trabalhadores \/ x.pedido # Nenhum
  PROVE  TipoDe(p, x) \in Tipos /\ <<TipoDe(p, x), x.seq>> \in Eventos
         /\ (p \notin Trabalhadores => x.pedido \in Pedidos)
<1>1. x.pedido \in Pedidos \union {Nenhum} /\ x.seq \in 1..2
  BY DEF Execucao
<1>2. p \notin Trabalhadores => x.pedido \in Pedidos /\ x.pedido.tipo \in Tipos
  BY <1>1, ManifestacaoAssumption DEF Pedido
<1>3. TipoDe(p, x) \in Tipos
  BY <1>2 DEF TipoDe, Tipos
<1>4. QED
  BY <1>1, <1>2, <1>3 DEF Eventos

\* A row is never deleted nor becomes that of another event, the SEFAZ unregisters nothing, and
\* this step authorises nobody.
Cresce ==
  /\ tarefa # Nenhum => tarefa' # Nenhum
  /\ config'.ciencia => config.ciencia
  /\ Linhas \subseteq Linhas'
  /\ \A i \in Linhas : tentativas'[i].tipo = tentativas[i].tipo /\ tentativas'[i].seq = tentativas[i].seq
  /\ \A e \in Eventos : sefaz[e] # Nenhum => sefaz'[e] # Nenhum

\* What a step must not do to the row that another process is sending.
Poupa(i) ==
  /\ tentativas[i].status \in EmDia => tentativas'[i].status \in EmDia
  /\ i \notin transmitidas => i \notin transmitidas'

LEMMA CorretoFica ==
  ASSUME Tabelas, NEW p \in Processos, NEW x \in Execucao, Correto(p, x), Cresce,
         x.tent # 0 => Poupa(x.tent)
  PROVE  Correto(p, x)'
<1>1. Remete(p, x) /\ Escreve(p, x) /\ Autorizado(p, x) /\ Lugar(p, x)
  BY DEF Correto
<1>2. Remete(p, x)'
  <2>1. x.tent # 0 => x.tent \in Linhas'
    BY <1>1 DEF Remete, Cresce
  <2>2. x.pc \in {"historico", "criar"} \union Enviando => p \in Trabalhadores \/ x.pedido # Nenhum
    BY <1>1 DEF Remete
  <2>3. x.pc \in Enviando =>
          /\ x.tent # 0
          /\ tentativas'[x.tent].tipo = TipoDe(p, x) /\ tentativas'[x.tent].seq = x.seq
          /\ tentativas'[x.tent].status \in EmDia
    BY <1>1 DEF Remete, Cresce, Poupa
  <2>4. x.pc \in Enviando => (x.tent \notin transmitidas => x.tent \notin transmitidas')
    BY <2>3 DEF Poupa
  <2>5. x.pc = "resposta" /\ x.resp \in Aceitos => sefaz'[<<TipoDe(p, x), x.seq>>] # Nenhum
    <3>1. x.pc = "resposta" => <<TipoDe(p, x), x.seq>> \in Eventos
      BY <2>2, EventoDe DEF Enviando
    <3>2. QED
      BY <1>1, <3>1 DEF Remete, Cresce
  <2>6. QED
    BY <1>1, <2>1, <2>2, <2>3, <2>4, <2>5 DEF Remete, Enviando, TipoDe
<1>3. Escreve(p, x)'
  BY <1>1 DEF Escreve, Cresce
<1>4. Autorizado(p, x)'
  BY <1>1 DEF Autorizado, Cresce
<1>5. QED
  BY <1>1, <1>2, <1>3, <1>4 DEF Correto, Lugar

\* A step of one process.
LEMMA PassoDe ==
  ASSUME IInv, NEW p \in Processos, NEW x \in Execucao, exec' = [exec EXCEPT ![p] = x],
         Tabelas', Cresce, Correto(p, x)',
         \A q \in Processos \ {p} : exec[q].tent # 0 => Poupa(exec[q].tent) /\ exec[q].tent # x.tent
  PROVE  IInv'
<1>1. exec' \in [Processos -> Execucao] /\ exec'[p] = x /\ \A q \in Processos \ {p} : exec'[q] = exec[q]
  BY DEF IInv
<1>2. \A q \in Processos : Correto(q, exec[q])'
  <2>1. SUFFICES ASSUME NEW q \in Processos PROVE Correto(q, exec[q])'
    OBVIOUS
  <2>2. CASE q = p
    BY <1>1, <2>2 DEF Correto, Remete, Escreve, Autorizado, Lugar, TipoDe
  <2>3. CASE q # p
    <3>1. PICK y \in Execucao : y = exec[q]
      BY DEF IInv
    <3>2. Correto(q, y)'
      <4>1. Correto(q, y) /\ Tabelas
        BY <3>1 DEF IInv
      <4>2. y.tent # 0 => Poupa(y.tent)
        BY <2>3, <3>1
      <4>3. QED
        BY <4>1, <4>2, CorretoFica
    <3>3. exec'[q] = y
      BY <1>1, <2>3, <3>1
    <3>4. QED
      BY <3>2, <3>3 DEF Correto, Remete, Escreve, Autorizado, Lugar, TipoDe
  <2>4. QED
    BY <2>2, <2>3
<1>3. \A q, r \in Processos : q # r /\ exec'[q].tent = exec'[r].tent => exec'[q].tent = 0
  BY <1>1 DEF IInv
<1>4. QED
  BY <1>1, <1>2, <1>3 DEF IInv

LEMMA TabelasFica ==
  ASSUME Tabelas, UNCHANGED <<tentativas, importado, sefaz, transmitidas>>,
         config' \in Configuracao, tarefa' \in Tarefa \union {Nenhum}, xml' \in BOOLEAN
  PROVE  Tabelas'
<1>1. Linhas' = Linhas
  BY DEF Linhas
<1>2. Tipada' /\ CienciaUnica' /\ EmOrdem'
  BY <1>1 DEF Tabelas, Tipada, CienciaUnica, EmOrdem
<1>3. \A i \in Linhas : Verdadeira(i)'
  BY DEF Tabelas, Verdadeira
<1>4. \A e \in Eventos : Distribuido(e)'
  BY DEF Tabelas, Distribuido
<1>5. QED
  BY <1>1, <1>2, <1>3, <1>4 DEF Tabelas

\* One that writes neither the attempts nor what the SEFAZ has.
LEMMA PassoSimples ==
  ASSUME IInv, NEW p \in Processos, NEW x \in Execucao, exec' = [exec EXCEPT ![p] = x],
         UNCHANGED <<tentativas, importado, sefaz, transmitidas>>,
         config' \in Configuracao, tarefa' \in Tarefa \union {Nenhum}, xml' \in BOOLEAN,
         tarefa # Nenhum => tarefa' # Nenhum, config'.ciencia => config.ciencia,
         x.tent \in {0, exec[p].tent}, Correto(p, x)
  PROVE  IInv'
<1>1. Linhas' = Linhas
  BY DEF Linhas
<1>2. Cresce
  BY <1>1 DEF Cresce
<1>3. \A i : Poupa(i)
  BY DEF Poupa
<1>4. Tabelas'
  BY TabelasFica DEF IInv
<1>5. Correto(p, x)'
  BY <1>2, <1>3, CorretoFica DEF IInv
<1>6. \A q \in Processos \ {p} : exec[q].tent # 0 => exec[q].tent # x.tent
  BY DEF IInv
<1>7. QED
  BY <1>2, <1>3, <1>4, <1>5, <1>6, PassoDe

LEMMA Parado ==
  ASSUME IInv
  PROVE  config \in Configuracao /\ tarefa \in Tarefa \union {Nenhum} /\ xml \in BOOLEAN
BY DEF IInv, Tabelas, Tipada

LEMMA DeUm ==
  ASSUME IInv, NEW p \in Processos
  PROVE  exec[p] \in Execucao /\ Correto(p, exec[p])
         /\ Remete(p, exec[p]) /\ Escreve(p, exec[p]) /\ Autorizado(p, exec[p]) /\ Lugar(p, exec[p])
BY DEF IInv, Correto

\* A local state without an attempt or rows to reconcile.
LEMMA SoltaOK ==
  ASSUME NEW p \in Processos, NEW x, x.tent = 0, x.alvos = {}, x.seq = 1,
         \/ x.pc = "ocioso"
         \/ /\ p \in Trabalhadores /\ tarefa # Nenhum
            /\ x.pc \in {"posse", "preparar", "gravar", "liberar", "consultar"}
            /\ x.pc = "gravar" => x.status \in StatusTarefa
         \/ p \in Operadores /\ x.pc \in {"agendarConfig", "agendarLer"}
  PROVE  Correto(p, x)
<1>1. p \in Operadores => p \notin Trabalhadores
  BY ManifestacaoAssumption
<1>2. Remete(p, x)
  BY <1>1 DEF Remete, Enviando
<1>3. Escreve(p, x)
  BY <1>1 DEF Escreve
<1>4. Autorizado(p, x)
  BY <1>1 DEF Autorizado
<1>5. Lugar(p, x)
  BY DEF Lugar, SoDeTrabalhador, DaDistribuicao, Processos
<1>6. QED
  BY <1>2, <1>3, <1>4, <1>5 DEF Correto

LEMMA OciosoTipo ==
  Ocioso \in Execucao /\ Ocioso.pc = "ocioso" /\ Ocioso.tent = 0 /\ Ocioso.alvos = {} /\ Ocioso.seq = 1
  /\ Ocioso.pedido = Nenhum
BY DEF Ocioso, Execucao, Configuracao

\* A step that changes no table.
LEMMA SoLocal ==
  ASSUME IInv, NEW p \in Processos, NEW x \in Execucao, exec' = [exec EXCEPT ![p] = x],
         UNCHANGED <<banco, sefaz, transmitidas>>, x.tent \in {0, exec[p].tent}, Correto(p, x)
  PROVE  IInv'
<1>1. UNCHANGED <<config, tarefa, tentativas, xml, importado, sefaz, transmitidas>>
  BY DEF banco
<1>2. QED
  BY <1>1, Parado, PassoSimples

\* One that writes the task.
LEMMA SoTarefa ==
  ASSUME IInv, NEW p \in Processos, NEW x \in Execucao, exec' = [exec EXCEPT ![p] = x],
         UNCHANGED <<config, tentativas, xml, importado, sefaz, transmitidas>>,
         tarefa' \in Tarefa \union {Nenhum}, tarefa # Nenhum => tarefa' # Nenhum,
         x.tent \in {0, exec[p].tent}, Correto(p, x)
  PROVE  IInv'
BY Parado, PassoSimples

LEMMA TerminaOK == ASSUME NEW p \in Processos PROVE Correto(p, Ocioso)
BY OciosoTipo, SoltaOK

-----------------------------------------------------------------------------
(* How a process goes on                                                   *)

\* The process goes on, with the attempt it has or with none.
Segue(p) ==
  \E x \in Execucao : exec' = [exec EXCEPT ![p] = x] /\ x.tent \in {0, exec[p].tent} /\ Correto(p, x)

LEMMA TerminaSegue == ASSUME NEW p \in Processos, Termina(p) PROVE Segue(p)
BY OciosoTipo, TerminaOK DEF Segue, Termina, Passa

LEMMA GravarSegue ==
  ASSUME IInv, NEW w \in Trabalhadores, exec[w].pc # "ocioso", NEW s \in StatusTarefa, Gravar(w, s)
  PROVE  Segue(w)
<1>1. w \in Processos
  BY DEF Processos
<1>0. PICK o \in Execucao : o = Ocioso
  BY OciosoTipo
<1>2. PICK x : x = [o EXCEPT !.pc = "gravar", !.status = s]
  OBVIOUS
<1>3. x \in Execucao
  BY <1>2 DEF Execucao
<1>4. x.pc = "gravar" /\ x.status = s /\ x.tent = 0 /\ x.alvos = {} /\ x.seq = 1
  BY <1>0, <1>2, OciosoTipo DEF Execucao
<1>5. tarefa # Nenhum
  BY <1>1, DeUm DEF Escreve
<1>6. Correto(w, x)
  BY <1>1, <1>4, <1>5, SoltaOK
<1>7. exec' = [exec EXCEPT ![w] = x]
  BY <1>0, <1>2 DEF Gravar, Passa
<1>8. QED
  BY <1>3, <1>4, <1>6, <1>7 DEF Segue

LEMMA IniciaSegue ==
  ASSUME IInv, NEW p \in Processos, NEW c, Inicia(p, c),
         \/ p \in Trabalhadores /\ exec[p].pc # "ocioso" /\ c \in {"preparar", "liberar", "consultar"}
         \/ p \in Operadores /\ c = "agendarLer"
  PROVE  Segue(p)
<1>2. PICK x : x = [Ocioso EXCEPT !.pc = c]
  OBVIOUS
<1>3. x \in Execucao
  BY <1>2, OciosoTipo DEF Execucao
<1>4. x.pc = c /\ x.tent = 0 /\ x.alvos = {} /\ x.seq = 1
  BY <1>2 DEF Ocioso
<1>5. p \in Trabalhadores => tarefa # Nenhum
  BY DeUm, ManifestacaoAssumption DEF Escreve
<1>6. Correto(p, x)
  BY <1>4, <1>5, SoltaOK
<1>7. exec' = [exec EXCEPT ![p] = x]
  BY <1>2 DEF Inicia, Passa
<1>8. QED
  BY <1>3, <1>4, <1>6, <1>7 DEF Segue

LEMMA ResultadoSegue ==
  ASSUME IInv, NEW w \in Trabalhadores, exec[w].pc # "ocioso", NEW r, Resultado(w, r)
  PROVE  Segue(w)
<1>1. w \in Processos
  BY DEF Processos
<1>2. \/ Inicia(w, "consultar")
      \/ \E s \in StatusTarefa : Gravar(w, s)
  BY DEF Resultado, StatusTarefa
<1>3. QED
  BY <1>1, <1>2, IniciaSegue, GravarSegue

\* A step that writes nothing but the local state, or the task with it.
LEMMA SegueOK ==
  ASSUME IInv, NEW p \in Processos, Segue(p), UNCHANGED <<banco, sefaz, transmitidas>>
  PROVE  IInv'
BY SoLocal DEF Segue

LEMMA SegueComTarefa ==
  ASSUME IInv, NEW p \in Processos, Segue(p), UNCHANGED <<config, tentativas, xml, importado, sefaz, transmitidas>>,
         tarefa' \in Tarefa \union {Nenhum}, tarefa # Nenhum => tarefa' # Nenhum
  PROVE  IInv'
BY SoTarefa DEF Segue

\* Ir keeps all but the place.
LEMMA IrDa ==
  ASSUME IInv, NEW p \in Processos, NEW c, Ir(p, c),
         c \in DaDistribuicao \union SoDeTrabalhador \union {"agendarTarefa", "agendarLer", "agendarGravar", "criar", "liberarTarefa"}
  PROVE  \E x \in Execucao :
           /\ exec' = [exec EXCEPT ![p] = x]
           /\ x.pc = c /\ x.pedido = exec[p].pedido /\ x.seq = exec[p].seq /\ x.tent = exec[p].tent
           /\ x.resp = exec[p].resp /\ x.status = exec[p].status /\ x.alvos = exec[p].alvos
           /\ x.autorizada = exec[p].autorizada
<1>1. PICK e \in Execucao : e = exec[p]
  BY DeUm
<1>2. PICK x : x = [e EXCEPT !.pc = c]
  OBVIOUS
<1>3. x \in Execucao
  BY <1>2 DEF Execucao, DaDistribuicao, SoDeTrabalhador
<1>4. /\ x.pc = c /\ x.pedido = e.pedido /\ x.seq = e.seq /\ x.tent = e.tent
      /\ x.resp = e.resp /\ x.status = e.status /\ x.alvos = e.alvos /\ x.autorizada = e.autorizada
  BY <1>2 DEF Execucao
<1>5. exec' = [exec EXCEPT ![p] = x]
  BY <1>1, <1>2 DEF Ir, Passa
<1>6. QED
  BY <1>1, <1>3, <1>4, <1>5

-----------------------------------------------------------------------------
(* The steps that write the local state only                               *)

LEMMA SubmeterOK == ASSUME IInv, NEW p \in Operadores, NEW q \in Pedidos, Submeter(p, q) PROVE IInv'
<1>1. p \in Processos /\ p \notin Trabalhadores /\ p # Distribuicao
  BY ManifestacaoAssumption DEF Processos
<1>0. PICK o \in Execucao : o = Ocioso
  BY OciosoTipo
<1>2. PICK x : x = [o EXCEPT !.pc = "historico", !.pedido = q]
  OBVIOUS
<1>3. x \in Execucao
  BY <1>2 DEF Execucao
<1>4. x.pc = "historico" /\ x.pedido = q /\ x.tent = 0 /\ x.alvos = {}
  BY <1>0, <1>2, OciosoTipo DEF Execucao
<1>5. Correto(p, x)
  <2>1. q # Nenhum
    BY ManifestacaoAssumption
  <2>2. Remete(p, x)
    BY <1>1, <1>4, <2>1 DEF Remete, Enviando
  <2>3. Escreve(p, x) /\ Autorizado(p, x)
    BY <1>1, <1>4 DEF Escreve, Autorizado
  <2>4. Lugar(p, x)
    BY <1>4 DEF Lugar, SoDeTrabalhador, DaDistribuicao
  <2>5. QED
    BY <2>2, <2>3, <2>4 DEF Correto
<1>6. exec' = [exec EXCEPT ![p] = x] /\ UNCHANGED <<banco, sefaz, transmitidas>>
  BY <1>0, <1>2 DEF Submeter, Passa
<1>7. QED
  BY <1>1, <1>3, <1>4, <1>5, <1>6, SoLocal

LEMMA ImportadoTipo ==
  ASSUME Tabelas, NEW e \in Eventos, importado[e] # Nenhum
  PROVE  importado[e] \in Importado /\ importado[e].tipo = e[1] /\ importado[e].seq \in {0, e[2]}
         /\ importado[e].seq \in 0..2 /\ sefaz[e] # Nenhum
<1>1. importado[e] \in Importado
  BY DEF Tabelas, Tipada
<1>2. importado[e].seq \in 0..2
  BY <1>1 DEF Importado
<1>3. QED
  BY <1>1, <1>2 DEF Tabelas, Distribuido

LEMMA HistoricoTipo ==
  ASSUME Tabelas, NEW h \in Historico
  PROVE  h.seq \in 0..2
<1>1. CASE h \in Tentadas
  <2>1. PICK i \in Linhas : h = [tipo |-> tentativas[i].tipo, seq |-> tentativas[i].seq, status |-> tentativas[i].status]
    BY <1>1 DEF Tentadas
  <2>2. tentativas[i].seq \in 1..2
    BY LinhaTipo DEF Tabelas
  <2>3. QED
    BY <2>1, <2>2
<1>2. CASE h \in Importados
  BY <1>2, ImportadoTipo DEF Importados
<1>3. QED
  BY <1>1, <1>2 DEF Historico

\* The last sequence of a kind that was registered.
LEMMA UltimaSeqLema ==
  ASSUME Tabelas, NEW t
  PROVE  /\ UltimaSeq(t) \in 0..2
         /\ ~Ha(Historico, {t}, Aceitos) => UltimaSeq(t) = 0
<1>1. PICK S : S = {h \in Historico : h.tipo = t /\ h.status \in Aceitos}
  OBVIOUS
<1>2. PICK N : N = {0} \union {IF r.seq = 0 THEN 1 ELSE r.seq : r \in S}
  OBVIOUS
<1>3. N \subseteq 0..2 /\ N # {}
  <2>1. \A r \in S : r.seq \in 0..2
    BY <1>1, HistoricoTipo
  <2>2. \A r \in S : (IF r.seq = 0 THEN 1 ELSE r.seq) \in 0..2
    BY <2>1
  <2>3. 0 \in 0..2
    OBVIOUS
  <2>4. QED
    BY <1>2, <2>2, <2>3
<1>4. Max(N) \in N
  BY <1>3, MaxLema
<1>5. UltimaSeq(t) = Max(N)
  BY <1>1, <1>2 DEF UltimaSeq
<1>6. ~Ha(Historico, {t}, Aceitos) => N = {0}
  <2>1. ~Ha(Historico, {t}, Aceitos) => S = {}
    BY <1>1 DEF Ha
  <2>2. QED
    BY <1>2, <2>1
<1>7. QED
  BY <1>3, <1>4, <1>5, <1>6

LEMMA LerHistoricoOK == ASSUME IInv, NEW p \in Operadores, LerHistorico(p) PROVE IInv'
<1>1. p \in Processos /\ p \notin Trabalhadores /\ p # Distribuicao
  BY ManifestacaoAssumption DEF Processos
<1>2. PICK e \in Execucao : e = exec[p] /\ Remete(p, e) /\ Escreve(p, e)
  BY <1>1, DeUm
<1>3. UNCHANGED <<banco, sefaz, transmitidas>> /\ e.pc = "historico"
  BY <1>2 DEF LerHistorico
<1>4. CASE Termina(p)
  BY <1>1, <1>3, <1>4, TerminaSegue, SegueOK
<1>5. CASE ~Termina(p)
  <2>1. PICK q : q = e.pedido
    OBVIOUS
  <2>2. ~Recusado(q)
    BY <1>2, <1>5, <2>1 DEF LerHistorico
  <2>3. PICK n \in 0..2 : n = UltimaSeq(q.tipo)
    BY UltimaSeqLema DEF IInv
  <2>4. n < 2 /\ (q.tipo = "ciencia" => n = 0)
    <3>1. ~(UltimaSeq(q.tipo) >= 2)
      BY <2>2 DEF Recusado
    <3>2. q.tipo = "ciencia" => ~Ha(Historico, {"ciencia"}, Aceitos)
      BY <2>2 DEF Recusado
    <3>3. q.tipo = "ciencia" => n = 0
      BY <2>3, <3>2, UltimaSeqLema DEF IInv
    <3>4. QED
      BY <2>3, <3>1, <3>3
  <2>5. PICK m \in 1..2 : m = n + 1
    BY <2>4
  <2>6. q.tipo = "ciencia" => m = 1
    BY <2>4, <2>5
  <2>7. PICK x : x = [e EXCEPT !.pc = "criar", !.seq = m]
    OBVIOUS
  <2>8. x \in Execucao
    BY <2>7 DEF Execucao
  <2>9. x.pc = "criar" /\ x.seq = m /\ x.pedido = e.pedido /\ x.tent = e.tent /\ x.alvos = e.alvos
    BY <2>7 DEF Execucao
  <2>10. exec' = [exec EXCEPT ![p] = x]
    BY <1>2, <1>5, <2>1, <2>3, <2>5, <2>7 DEF LerHistorico, Passa
  <2>11. Remete(p, x)
    BY <1>1, <1>2, <1>3, <2>1, <2>6, <2>9 DEF Remete, TipoDe, Enviando
  <2>12. Escreve(p, x) /\ Autorizado(p, x) /\ Lugar(p, x)
    <3>1. Escreve(p, x)
      BY <1>1, <1>2, <2>9 DEF Escreve
    <3>2. Autorizado(p, x)
      BY <1>1 DEF Autorizado
    <3>3. Lugar(p, x)
      BY <2>9 DEF Lugar, SoDeTrabalhador, DaDistribuicao
    <3>4. QED
      BY <3>1, <3>2, <3>3
  <2>13. QED
    BY <1>1, <1>2, <1>3, <2>8, <2>9, <2>10, <2>11, <2>12, SoLocal DEF Correto
<1>6. QED
  BY <1>4, <1>5

\* Where Ir leads, the rest of the local state is as that place requires.
LEMMA IrSegue ==
  ASSUME IInv, NEW p \in Processos, NEW c, Ir(p, c),
         \/ p \in Trabalhadores /\ exec[p].pc # "ocioso" /\ c \in {"ciencia", "anteriores", "persistido", "observarXml"}
         \/ p \in Trabalhadores /\ exec[p].pc = "autorizacao" /\ config.ciencia /\ c = "criar"
         \/ p \in Trabalhadores /\ exec[p].pc = "resposta" /\ c = "agendarLer"
         \/ p \in Operadores \union Trabalhadores /\ exec[p].pc = "agendarLer" /\ tarefa # Nenhum /\ c = "agendarGravar"
         \/ p \in Operadores /\ exec[p].pc = "agendarConfig" /\ c = "agendarTarefa"
         \/ p \in Operadores /\ exec[p].pc = "reconciliar" /\ c = "liberarTarefa"
         \/ p = Distribuicao /\ c \in DaDistribuicao
  PROVE  Segue(p)
<1>1. PICK e \in Execucao : e = exec[p] /\ Remete(p, e) /\ Escreve(p, e) /\ Autorizado(p, e)
  BY DeUm
<1>2. c \in DaDistribuicao \union SoDeTrabalhador \union {"agendarTarefa", "agendarLer", "agendarGravar", "criar", "liberarTarefa"}
  BY DEF DaDistribuicao, SoDeTrabalhador
<1>3. PICK x \in Execucao :
           /\ exec' = [exec EXCEPT ![p] = x]
           /\ x.pc = c /\ x.pedido = e.pedido /\ x.seq = e.seq /\ x.tent = e.tent
           /\ x.resp = e.resp /\ x.status = e.status /\ x.alvos = e.alvos
           /\ x.autorizada = e.autorizada
  BY <1>1, <1>2, IrDa
<1>4. /\ p \in Operadores => p \notin Trabalhadores
      /\ p = Distribuicao => p \notin Trabalhadores /\ p \notin Operadores
  BY ManifestacaoAssumption
<1>5. Remete(p, x)
  BY <1>1, <1>3, <1>4 DEF Remete, Enviando, DaDistribuicao
<1>6. Escreve(p, x)
  BY <1>1, <1>3, <1>4 DEF Escreve, DaDistribuicao
<1>7. Autorizado(p, x)
  BY <1>1, <1>3, <1>4 DEF Autorizado
<1>8. Lugar(p, x)
  BY <1>3, <1>4 DEF Lugar, SoDeTrabalhador, DaDistribuicao
<1>9. QED
  BY <1>1, <1>3, <1>5, <1>6, <1>7, <1>8 DEF Segue, Correto

LEMMA FalharAntesOK ==
  ASSUME IInv, NEW p \in Operadores \union Trabalhadores, FalharAntes(p)
  PROVE  IInv'
<1>1. p \in Processos
  BY DEF Processos
<1>2. PICK e \in Execucao : e = exec[p] /\ Remete(p, e) /\ Escreve(p, e) /\ e.pc = "enviar"
  BY <1>1, DeUm DEF FalharAntes
<1>3. PICK x : x = [e EXCEPT !.pc = "resposta", !.resp = "falha_local"]
  OBVIOUS
<1>4. x \in Execucao
  BY <1>3 DEF Execucao, Respostas
<1>5. x.pc = "resposta" /\ x.resp = "falha_local" /\ x.seq = e.seq /\ x.pedido = e.pedido
      /\ x.tent = e.tent /\ x.alvos = e.alvos
  BY <1>3 DEF Execucao
<1>6. "falha_local" # Nenhum /\ "falha_local" \notin Aceitos
  BY NenhumAssumption DEF Respostas, Aceitos
<1>7. Remete(p, x)
  BY <1>2, <1>5, <1>6 DEF Remete, Enviando, TipoDe
<1>8. Escreve(p, x)
  BY <1>2, <1>5, ManifestacaoAssumption DEF Escreve
<1>9. Autorizado(p, x) /\ Lugar(p, x)
  BY <1>5 DEF Autorizado, Lugar, SoDeTrabalhador, DaDistribuicao
<1>10. exec' = [exec EXCEPT ![p] = x] /\ UNCHANGED <<banco, sefaz, transmitidas>>
  BY <1>2, <1>3 DEF FalharAntes, Passa
<1>11. QED
  BY <1>1, <1>2, <1>4, <1>5, <1>7, <1>8, <1>9, <1>10, SoLocal DEF Correto

LEMMA DepoisSegue ==
  ASSUME IInv, NEW p \in Operadores \union Trabalhadores, exec[p].pc # "ocioso", DepoisDeAgendar(p)
  PROVE  Segue(p)
<1>1. p \in Processos
  BY DEF Processos
<1>2. QED
  BY <1>1, ResultadoSegue, TerminaSegue DEF DepoisDeAgendar

LEMMA AgendarLerOK ==
  ASSUME IInv, NEW p \in Operadores \union Trabalhadores, AgendarLer(p)
  PROVE  IInv'
<1>1. p \in Processos
  BY DEF Processos
<1>2. exec[p].pc = "agendarLer" /\ UNCHANGED <<banco, sefaz, transmitidas>>
  BY DEF AgendarLer
<1>3. DepoisDeAgendar(p) \/ (tarefa # Nenhum /\ Ir(p, "agendarGravar"))
  BY DEF AgendarLer
<1>4. Segue(p)
  BY <1>1, <1>2, <1>3, DepoisSegue, IrSegue
<1>5. QED
  BY <1>1, <1>2, <1>4, SegueOK

\* A process with rows to reconcile.
LEMMA AlvosSegue ==
  ASSUME IInv, NEW p \in Operadores, exec[p].pc # "ocioso", NEW A, A \subseteq exec[p].alvos, A # {},
         Passa(p, [exec[p] EXCEPT !.pc = "reconciliar", !.alvos = A])
  PROVE  Segue(p)
<1>1. p \in Processos /\ p \notin Trabalhadores
  BY ManifestacaoAssumption DEF Processos
<1>2. PICK e \in Execucao : e = exec[p] /\ Remete(p, e) /\ Escreve(p, e)
  BY <1>1, DeUm
<1>3. PICK x : x = [e EXCEPT !.pc = "reconciliar", !.alvos = A]
  OBVIOUS
<1>4. x \in Execucao
  BY <1>2, <1>3 DEF Execucao
<1>5. x.pc = "reconciliar" /\ x.tent = e.tent /\ x.alvos = A
  BY <1>3 DEF Execucao
<1>6. Remete(p, x)
  BY <1>1, <1>2, <1>5 DEF Remete, Enviando
<1>7. Escreve(p, x)
  BY <1>1, <1>2, <1>5 DEF Escreve
<1>8. Autorizado(p, x) /\ Lugar(p, x)
  BY <1>1, <1>5 DEF Autorizado, Lugar, SoDeTrabalhador, DaDistribuicao
<1>9. exec' = [exec EXCEPT ![p] = x]
  BY <1>2, <1>3 DEF Passa
<1>10. QED
  BY <1>2, <1>4, <1>5, <1>6, <1>7, <1>8, <1>9 DEF Segue, Correto

LEMMA LerEventosOK == ASSUME IInv, NEW p \in Operadores, LerEventos(p) PROVE IInv'
<1>1. p \in Processos
  BY DEF Processos
<1>2. PICK A : A = {i \in exec[p].alvos : Oficiais(i) # {}}
  OBVIOUS
<1>3. exec[p].pc = "eventos" /\ UNCHANGED <<banco, sefaz, transmitidas>>
  BY DEF LerEventos
<1>4. Termina(p) \/ (A # {} /\ Passa(p, [exec[p] EXCEPT !.pc = "reconciliar", !.alvos = A]))
  BY <1>2 DEF LerEventos
<1>5. A \subseteq exec[p].alvos
  BY <1>2
<1>6. Segue(p)
  BY <1>1, <1>3, <1>4, <1>5, AlvosSegue, TerminaSegue
<1>7. QED
  BY <1>1, <1>3, <1>6, SegueOK

LEMMA LerFilaOK == ASSUME IInv, NEW w \in Trabalhadores, LerFila(w) PROVE IInv'
<1>1. w \in Processos
  BY DEF Processos
<1>2. tarefa # Nenhum /\ UNCHANGED <<banco, sefaz, transmitidas>>
  BY DEF LerFila, Devida
<1>3. tarefa.lease \in Trabalhadores \union {Nenhum}
  BY <1>2, Parado DEF Tarefa
<1>4. PICK o \in Execucao : o = Ocioso
  BY OciosoTipo
<1>5. PICK x : x = [o EXCEPT !.pc = "posse", !.lease = tarefa.lease]
  OBVIOUS
<1>6. x \in Execucao
  BY <1>3, <1>5 DEF Execucao
<1>7. x.pc = "posse" /\ x.tent = 0 /\ x.alvos = {} /\ x.seq = 1
  BY <1>4, <1>5, OciosoTipo DEF Execucao
<1>8. Correto(w, x)
  BY <1>1, <1>2, <1>7, SoltaOK
<1>9. exec' = [exec EXCEPT ![w] = x]
  BY <1>4, <1>5 DEF LerFila, Passa
<1>10. QED
  BY <1>1, <1>2, <1>6, <1>7, <1>8, <1>9, SoLocal

\* A worker's step to a place where nothing has been sent.
LEMMA PassaSegue ==
  ASSUME IInv, NEW w \in Trabalhadores, exec[w].pc # "ocioso", NEW x \in Execucao, Passa(w, x),
         x.tent = exec[w].tent, x.alvos = exec[w].alvos, x.seq = exec[w].seq,
         \/ x.pc = "historico"
         \/ x.pc = "autorizacao" /\ x.autorizada = config.ciencia
         \/ x.pc = "registrar" /\ x.status \in StatusTarefa
  PROVE  Segue(w)
<1>1. w \in Processos
  BY DEF Processos
<1>2. Remete(w, exec[w]) /\ Escreve(w, exec[w])
  BY <1>1, DeUm
<1>3. Remete(w, x)
  BY <1>2 DEF Remete, Enviando
<1>4. Escreve(w, x)
  BY <1>2 DEF Escreve
<1>5. Autorizado(w, x) /\ Lugar(w, x)
  BY DEF Autorizado, Lugar
<1>6. QED
  BY <1>3, <1>4, <1>5 DEF Segue, Correto, Passa

LEMMA PrepararOK == ASSUME IInv, NEW w \in Trabalhadores, Preparar(w) PROVE IInv'
<1>1. w \in Processos
  BY DEF Processos
<1>2. exec[w].pc = "preparar" /\ UNCHANGED <<banco, sefaz, transmitidas>>
  BY DEF Preparar
<1>3. PICK e \in Execucao : e = exec[w]
  BY <1>1, DeUm
<1>4. PICK x : x = [e EXCEPT !.pc = "historico", !.cfg = config]
  OBVIOUS
<1>5. x \in Execucao
  BY <1>4, Parado DEF Execucao
<1>6. x.pc = "historico" /\ x.tent = e.tent /\ x.alvos = e.alvos /\ x.seq = e.seq
  BY <1>4 DEF Execucao
<1>7. Inicia(w, "liberar") \/ Gravar(w, "xml_disponivel") \/ Passa(w, x)
  BY <1>3, <1>4 DEF Preparar
<1>8. Segue(w)
  <2>1. CASE Inicia(w, "liberar")
    BY <1>1, <1>2, <2>1, IniciaSegue
  <2>2. CASE Gravar(w, "xml_disponivel")
    BY <1>2, <2>2, GravarSegue DEF StatusTarefa
  <2>3. CASE Passa(w, x)
    BY <1>2, <1>3, <1>5, <1>6, <2>3, PassaSegue
  <2>4. QED
    BY <1>7, <2>1, <2>2, <2>3
<1>9. QED
  BY <1>1, <1>2, <1>8, SegueOK

LEMMA LerHistoricoDaTarefaOK == ASSUME IInv, NEW w \in Trabalhadores, LerHistoricoDaTarefa(w) PROVE IInv'
<1>1. w \in Processos
  BY DEF Processos
<1>2. exec[w].pc = "historico" /\ UNCHANGED <<banco, sefaz, transmitidas>>
  BY DEF LerHistoricoDaTarefa
<1>3. \/ \E s \in StatusTarefa : Gravar(w, s)
      \/ Resultado(w, "registrada")
      \/ Ir(w, "ciencia")
  BY DEF LerHistoricoDaTarefa, StatusTarefa
<1>4. Segue(w)
  <2>1. CASE \E s \in StatusTarefa : Gravar(w, s)
    BY <1>2, <2>1, GravarSegue
  <2>2. CASE Resultado(w, "registrada")
    BY <1>2, <2>2, ResultadoSegue
  <2>3. CASE Ir(w, "ciencia")
    BY <1>1, <1>2, <2>3, IrSegue
  <2>4. QED
    BY <1>3, <2>1, <2>2, <2>3
<1>5. QED
  BY <1>1, <1>2, <1>4, SegueOK

LEMMA AbrirCienciaOK == ASSUME IInv, NEW w \in Trabalhadores, AbrirCiencia(w) PROVE IInv'
<1>1. w \in Processos
  BY DEF Processos
<1>2. exec[w].pc = "ciencia" /\ UNCHANGED <<banco, sefaz, transmitidas>>
  BY DEF AbrirCiencia
<1>3. (\E s \in StatusTarefa : Gravar(w, s)) \/ Ir(w, "anteriores")
  BY DEF AbrirCiencia, StatusTarefa
<1>4. Segue(w)
  <2>1. CASE \E s \in StatusTarefa : Gravar(w, s)
    BY <1>2, <2>1, GravarSegue
  <2>2. CASE Ir(w, "anteriores")
    BY <1>1, <1>2, <2>2, IrSegue
  <2>3. QED
    BY <1>3, <2>1, <2>2
<1>5. QED
  BY <1>1, <1>2, <1>4, SegueOK

LEMMA LerAnterioresOK == ASSUME IInv, NEW w \in Trabalhadores, LerAnteriores(w) PROVE IInv'
<1>1. w \in Processos
  BY DEF Processos
<1>2. exec[w].pc = "anteriores" /\ UNCHANGED <<banco, sefaz, transmitidas>>
  BY DEF LerAnteriores
<1>3. PICK e \in Execucao : e = exec[w]
  BY <1>1, DeUm
<1>4. PICK x : x = [e EXCEPT !.pc = "autorizacao", !.autorizada = config.ciencia]
  OBVIOUS
<1>5. x \in Execucao
  <2>1. config.ciencia \in BOOLEAN
    BY Parado DEF Configuracao
  <2>2. QED
    BY <1>4, <2>1 DEF Execucao
<1>6. x.pc = "autorizacao" /\ x.tent = e.tent /\ x.alvos = e.alvos /\ x.seq = e.seq /\ x.autorizada = config.ciencia
  BY <1>4 DEF Execucao
<1>7. (\E s \in StatusTarefa : Gravar(w, s)) \/ Passa(w, x) \/ \E r : Resultado(w, r)
  BY <1>3, <1>4 DEF LerAnteriores, StatusTarefa
<1>8. Segue(w)
  <2>1. CASE \E s \in StatusTarefa : Gravar(w, s)
    BY <1>2, <2>1, GravarSegue
  <2>2. CASE Passa(w, x)
    BY <1>2, <1>3, <1>5, <1>6, <2>2, PassaSegue
  <2>3. CASE \E r : Resultado(w, r)
    BY <1>2, <2>3, ResultadoSegue
  <2>4. QED
    BY <1>7, <2>1, <2>2, <2>3
<1>9. QED
  BY <1>1, <1>2, <1>8, SegueOK

LEMMA LerAutorizacaoOK == ASSUME IInv, NEW w \in Trabalhadores, LerAutorizacao(w) PROVE IInv'
<1>1. w \in Processos
  BY DEF Processos
<1>2. exec[w].pc = "autorizacao" /\ UNCHANGED <<banco, sefaz, transmitidas>>
  BY DEF LerAutorizacao
<1>3. Gravar(w, "autorizacao_revogada") \/ (config.ciencia /\ Ir(w, "criar"))
  BY DEF LerAutorizacao
<1>4. Segue(w)
  <2>1. CASE Gravar(w, "autorizacao_revogada")
    BY <1>2, <2>1, GravarSegue DEF StatusTarefa
  <2>2. CASE config.ciencia /\ Ir(w, "criar")
    BY <1>1, <1>2, <2>2, IrSegue
  <2>3. QED
    BY <1>3, <2>1, <2>2
<1>5. QED
  BY <1>1, <1>2, <1>4, SegueOK

LEMMA ConsultarSemXmlOK == ASSUME IInv, NEW w \in Trabalhadores, ConsultarSemXml(w) PROVE IInv'
<1>1. w \in Processos
  BY DEF Processos
<1>2. Segue(w)
  BY <1>1, IrSegue DEF ConsultarSemXml
<1>3. QED
  BY <1>1, <1>2, SegueOK DEF ConsultarSemXml

LEMMA LerPersistidoOK == ASSUME IInv, NEW w \in Trabalhadores, LerPersistido(w) PROVE IInv'
<1>1. w \in Processos
  BY DEF Processos
<1>2. exec[w].pc = "persistido" /\ UNCHANGED <<banco, sefaz, transmitidas>>
  BY DEF LerPersistido
<1>3. PICK e \in Execucao : e = exec[w]
  BY <1>1, DeUm
<1>4. PICK s \in StatusTarefa : s = IF xml THEN "xml_disponivel" ELSE "aguardando_xml"
  BY DEF StatusTarefa
<1>5. PICK x : x = [e EXCEPT !.pc = "registrar", !.status = s]
  OBVIOUS
<1>6. x \in Execucao
  BY <1>5 DEF Execucao
<1>7. x.pc = "registrar" /\ x.tent = e.tent /\ x.alvos = e.alvos /\ x.seq = e.seq /\ x.status = s
  BY <1>5 DEF Execucao
<1>8. Passa(w, x)
  BY <1>3, <1>4, <1>5 DEF LerPersistido
<1>9. Segue(w)
  BY <1>2, <1>3, <1>6, <1>7, <1>8, PassaSegue
<1>10. QED
  BY <1>1, <1>2, <1>9, SegueOK

LEMMA ObservarOK == ASSUME IInv, NEW d, d = Distribuicao, Observar(d) PROVE IInv'
<1>1. d \in Processos
  BY DEF Processos
<1>2. Termina(d) \/ Ir(d, "observarXml") \/ Ir(d, "observarNovo")
  BY DEF Observar
<1>3. Segue(d)
  BY <1>1, <1>2, TerminaSegue, IrSegue DEF DaDistribuicao
<1>4. QED
  BY <1>1, <1>3, SegueOK DEF Observar

LEMMA DistribuirResumoOK == ASSUME IInv, NEW d, d = Distribuicao, DistribuirResumo(d) PROVE IInv'
<1>1. d \in Processos
  BY DEF Processos
<1>2. Segue(d)
  BY <1>1, IrSegue DEF DistribuirResumo, DaDistribuicao
<1>3. QED
  BY <1>1, <1>2, SegueOK DEF DistribuirResumo

LEMMA FalharOK == ASSUME IInv, NEW p \in Processos, Falhar(p) PROVE IInv'
BY TerminaSegue, SegueOK DEF Falhar

-----------------------------------------------------------------------------
(* The steps that write the task, the panel or the XML                     *)

LEMMA TarefaTipo ==
  /\ \A s \in StatusTarefa : NovaTarefa(s) \in Tarefa
  /\ \A t \in Tarefa, s \in StatusTarefa : [t EXCEPT !.status = s] \in Tarefa
  /\ \A t \in Tarefa, l \in Trabalhadores \union {Nenhum} : [t EXCEPT !.lease = l] \in Tarefa
  /\ \A t \in Tarefa : t # Nenhum
BY NenhumAssumption DEF NovaTarefa, Tarefa

LEMMA AgendarConfigOK == ASSUME IInv, NEW p \in Operadores, AgendarConfig(p) PROVE IInv'
<1>1. p \in Processos
  BY DEF Processos
<1>2. Segue(p)
  BY <1>1, IrSegue DEF AgendarConfig
<1>3. config' \in Configuracao /\ config'.ciencia = config.ciencia
  BY Parado DEF AgendarConfig, Configuracao
<1>4. UNCHANGED <<tarefa, tentativas, xml, importado, sefaz, transmitidas>>
  BY DEF AgendarConfig
<1>5. QED
  BY <1>1, <1>2, <1>3, <1>4, Parado, PassoSimples DEF Segue

LEMMA AgendarTarefaOK == ASSUME IInv, NEW p \in Operadores, AgendarTarefa(p) PROVE IInv'
<1>1. p \in Processos
  BY DEF Processos
<1>2. Segue(p) /\ UNCHANGED <<config, tentativas, xml, importado, sefaz, transmitidas>>
  BY <1>1, TerminaSegue DEF AgendarTarefa
<1>3. tarefa' \in Tarefa
  BY TarefaTipo DEF AgendarTarefa, StatusTarefa
<1>4. QED
  BY <1>1, <1>2, <1>3, TarefaTipo, SegueComTarefa

LEMMA AgendarGravarOK ==
  ASSUME IInv, NEW p \in Operadores \union Trabalhadores, AgendarGravar(p)
  PROVE  IInv'
<1>1. p \in Processos
  BY DEF Processos
<1>2. exec[p].pc = "agendarGravar" /\ UNCHANGED <<config, tentativas, xml, importado, sefaz, transmitidas>>
  BY DEF AgendarGravar
<1>3. Segue(p)
  BY <1>2, DepoisSegue DEF AgendarGravar
<1>4. tarefa \in Tarefa
  BY <1>1, <1>2, DeUm, Parado DEF Escreve
<1>5. tarefa' \in Tarefa
  BY <1>4, TarefaTipo DEF AgendarGravar, StatusTarefa
<1>6. QED
  BY <1>1, <1>2, <1>3, <1>5, TarefaTipo, SegueComTarefa

LEMMA LiberarTarefaOK == ASSUME IInv, NEW p \in Operadores, LiberarTarefa(p) PROVE IInv'
<1>1. p \in Processos
  BY DEF Processos
<1>2. PICK R : R = exec[p].alvos \ {Min(exec[p].alvos)}
  OBVIOUS
<1>3. exec[p].pc = "liberarTarefa" /\ UNCHANGED <<config, tentativas, xml, importado, sefaz, transmitidas>>
  BY DEF LiberarTarefa
<1>4. Termina(p) \/ (R # {} /\ Passa(p, [exec[p] EXCEPT !.pc = "reconciliar", !.alvos = R]))
  BY <1>2 DEF LiberarTarefa
<1>5. R \subseteq exec[p].alvos
  BY <1>2
<1>6. Segue(p)
  BY <1>1, <1>3, <1>4, <1>5, AlvosSegue, TerminaSegue
<1>7. tarefa' \in Tarefa \union {Nenhum} /\ (tarefa # Nenhum => tarefa' # Nenhum)
  BY Parado, TarefaTipo DEF LiberarTarefa, StatusTarefa
<1>8. QED
  BY <1>1, <1>3, <1>6, <1>7, SegueComTarefa

\* A worker at work has the task's row.
LEMMA DoTrabalhador ==
  ASSUME IInv, NEW w \in Trabalhadores, exec[w].pc # "ocioso"
  PROVE  w \in Processos /\ tarefa \in Tarefa /\ w \in Trabalhadores \union {Nenhum}
<1>1. w \in Processos
  BY DEF Processos
<1>2. QED
  BY <1>1, DeUm, Parado DEF Escreve

LEMMA TomarPosseOK == ASSUME IInv, NEW w \in Trabalhadores, TomarPosse(w) PROVE IInv'
<1>1. exec[w].pc = "posse" /\ UNCHANGED <<config, tentativas, xml, importado, sefaz, transmitidas>>
  BY DEF TomarPosse
<1>2. w \in Processos /\ tarefa \in Tarefa /\ w \in Trabalhadores \union {Nenhum}
  BY <1>1, DoTrabalhador
<1>3. Inicia(w, "preparar") \/ Termina(w)
  BY DEF TomarPosse
<1>4. Segue(w)
  BY <1>1, <1>2, <1>3, IniciaSegue, TerminaSegue
<1>5. tarefa' \in Tarefa
  BY <1>2, TarefaTipo DEF TomarPosse
<1>6. QED
  BY <1>1, <1>2, <1>4, <1>5, TarefaTipo, SegueComTarefa

LEMMA GravarTarefaOK == ASSUME IInv, NEW w \in Trabalhadores, GravarTarefa(w) PROVE IInv'
<1>1. exec[w].pc = "gravar" /\ UNCHANGED <<config, tentativas, xml, importado, sefaz, transmitidas>>
  BY DEF GravarTarefa
<1>2. w \in Processos /\ tarefa \in Tarefa
  BY <1>1, DoTrabalhador
<1>3. exec[w].status \in StatusTarefa
  BY <1>1, <1>2, DeUm DEF Escreve
<1>4. Segue(w)
  BY <1>1, <1>2, IniciaSegue DEF GravarTarefa
<1>5. tarefa' \in Tarefa
  BY <1>2, <1>3, TarefaTipo DEF GravarTarefa
<1>6. QED
  BY <1>1, <1>2, <1>4, <1>5, TarefaTipo, SegueComTarefa

LEMMA LiberarOK == ASSUME IInv, NEW w \in Trabalhadores, Liberar(w) PROVE IInv'
<1>1. exec[w].pc = "liberar" /\ UNCHANGED <<config, tentativas, xml, importado, sefaz, transmitidas>>
  BY DEF Liberar
<1>2. w \in Processos /\ tarefa \in Tarefa
  BY <1>1, DoTrabalhador
<1>3. Segue(w)
  BY <1>2, TerminaSegue DEF Liberar
<1>4. tarefa' \in Tarefa
  BY <1>2, TarefaTipo DEF Liberar
<1>5. QED
  BY <1>1, <1>2, <1>3, <1>4, TarefaTipo, SegueComTarefa

LEMMA RegistrarOK == ASSUME IInv, NEW w \in Trabalhadores, Registrar(w) PROVE IInv'
<1>1. exec[w].pc = "registrar" /\ UNCHANGED <<config, tentativas, xml, importado, sefaz, transmitidas>>
  BY DEF Registrar
<1>2. w \in Processos /\ tarefa \in Tarefa
  BY <1>1, DoTrabalhador
<1>3. exec[w].status \in StatusTarefa
  BY <1>1, <1>2, DeUm DEF Escreve
<1>4. Segue(w)
  BY <1>2, TerminaSegue DEF Registrar
<1>5. tarefa' \in Tarefa
  BY <1>2, <1>3, TarefaTipo DEF Registrar
<1>6. QED
  BY <1>1, <1>2, <1>4, <1>5, TarefaTipo, SegueComTarefa

LEMMA ConsultarComXmlOK == ASSUME IInv, NEW w \in Trabalhadores, ConsultarComXml(w) PROVE IInv'
<1>1. w \in Processos
  BY DEF Processos
<1>2. Segue(w)
  BY <1>1, IrSegue DEF ConsultarComXml
<1>3. xml' \in BOOLEAN /\ UNCHANGED <<config, tarefa, tentativas, importado, sefaz, transmitidas>>
  BY DEF ConsultarComXml
<1>4. QED
  BY <1>1, <1>2, <1>3, Parado, PassoSimples DEF Segue

LEMMA DistribuirXmlOK == ASSUME IInv, NEW d, d = Distribuicao, DistribuirXml(d) PROVE IInv'
<1>1. d \in Processos
  BY DEF Processos
<1>2. Segue(d)
  BY <1>1, IrSegue DEF DistribuirXml, DaDistribuicao
<1>3. xml' \in BOOLEAN /\ UNCHANGED <<config, tarefa, tentativas, importado, sefaz, transmitidas>>
  BY DEF DistribuirXml
<1>4. QED
  BY <1>1, <1>2, <1>3, Parado, PassoSimples DEF Segue

LEMMA ObservarXmlOK ==
  ASSUME IInv, NEW p \in Trabalhadores \union {Distribuicao}, ObservarXml(p)
  PROVE  IInv'
<1>1. p \in Processos
  BY DEF Processos
<1>2. exec[p].pc = "observarXml" /\ UNCHANGED <<config, tentativas, xml, importado, sefaz, transmitidas>>
  BY DEF ObservarXml
<1>3. (p \in Trabalhadores /\ Ir(p, "persistido")) \/ Termina(p)
  BY DEF ObservarXml
<1>4. Segue(p)
  BY <1>1, <1>2, <1>3, IrSegue, TerminaSegue
<1>5. tarefa' \in Tarefa \union {Nenhum} /\ (tarefa # Nenhum => tarefa' # Nenhum)
  BY TarefaTipo DEF ObservarXml, StatusTarefa
<1>6. QED
  BY <1>1, <1>2, <1>4, <1>5, SegueComTarefa

LEMMA ObservarNovoOK == ASSUME IInv, NEW d, d = Distribuicao, ObservarNovo(d) PROVE IInv'
<1>1. d \in Processos
  BY DEF Processos
<1>2. Segue(d) /\ UNCHANGED <<config, tentativas, xml, importado, sefaz, transmitidas>>
  BY <1>1, TerminaSegue DEF ObservarNovo
<1>3. tarefa' \in Tarefa \union {Nenhum} /\ (tarefa # Nenhum => tarefa' # Nenhum)
  BY Parado, TarefaTipo DEF ObservarNovo, StatusInicial, StatusTarefa
<1>4. QED
  BY <1>1, <1>2, <1>3, SegueComTarefa

LEMMA RevogarOK == ASSUME IInv, Revogar PROVE IInv'
<1>1. PICK d \in Processos : d = Distribuicao
  BY DEF Processos
<1>2. PICK x \in Execucao : x = exec[d] /\ Correto(d, x)
  BY DeUm
<1>3. exec' = [exec EXCEPT ![d] = x]
  BY <1>2 DEF Revogar, IInv
<1>4. config' \in Configuracao /\ ~config'.ciencia
  BY Parado DEF Revogar, Configuracao
<1>5. UNCHANGED <<tarefa, tentativas, xml, importado, sefaz, transmitidas>>
  BY DEF Revogar
<1>6. QED
  BY <1>2, <1>3, <1>4, <1>5, Parado, PassoSimples

LEMMA SalvarOK == ASSUME IInv, NEW c \in Configuracoes, Salvar(c) PROVE IInv'
<1>1. config' \in Configuracao /\ UNCHANGED <<tentativas, xml, importado, sefaz, transmitidas>>
  BY ManifestacaoAssumption DEF Salvar
<1>2. tarefa' \in Tarefa \union {Nenhum} /\ (tarefa # Nenhum => tarefa' # Nenhum)
  <2>1. CASE tarefa = Nenhum
    BY <2>1, TarefaTipo DEF Salvar, StatusInicial, StatusTarefa
  <2>2. CASE tarefa # Nenhum
    <3>1. tarefa \in Tarefa
      BY <2>2, Parado
    <3>2. tarefa' \in Tarefa
      BY <2>2, <3>1, TarefaTipo DEF Salvar, StatusTarefa
    <3>3. QED
      BY <3>2, TarefaTipo
  <2>3. QED
    BY <2>1, <2>2
<1>3. Tabelas'
  BY <1>1, <1>2, Parado, TabelasFica DEF IInv
<1>4. \A p \in Processos :
        /\ exec'[p] \in Execucao
        /\ exec'[p].pc = exec[p].pc /\ exec'[p].pedido = exec[p].pedido /\ exec'[p].seq = exec[p].seq
        /\ exec'[p].tent = exec[p].tent /\ exec'[p].resp = exec[p].resp /\ exec'[p].status = exec[p].status
        /\ exec'[p].alvos = exec[p].alvos
        /\ exec[p].autorizada => exec'[p].autorizada
        /\ c.ciencia /\ exec[p].pc = "autorizacao" => exec'[p].autorizada
  <2>1. SUFFICES ASSUME NEW p \in Processos
                 PROVE  /\ exec'[p] \in Execucao
                        /\ exec'[p].pc = exec[p].pc /\ exec'[p].pedido = exec[p].pedido /\ exec'[p].seq = exec[p].seq
                        /\ exec'[p].tent = exec[p].tent /\ exec'[p].resp = exec[p].resp
                        /\ exec'[p].status = exec[p].status /\ exec'[p].alvos = exec[p].alvos
                        /\ exec[p].autorizada => exec'[p].autorizada
                        /\ c.ciencia /\ exec[p].pc = "autorizacao" => exec'[p].autorizada
    OBVIOUS
  <2>2. PICK e \in Execucao : e = exec[p]
    BY DeUm
  <2>3. PICK x : x = [e EXCEPT !.autorizada = TRUE]
    OBVIOUS
  <2>4. x \in Execucao
    BY <2>3 DEF Execucao
  <2>5. x.pc = e.pc /\ x.pedido = e.pedido /\ x.seq = e.seq /\ x.tent = e.tent /\ x.resp = e.resp
        /\ x.status = e.status /\ x.alvos = e.alvos /\ x.autorizada
    BY <2>3 DEF Execucao
  <2>6. exec'[p] = IF c.ciencia /\ e.pc = "autorizacao" THEN x ELSE e
    BY <2>2, <2>3 DEF Salvar
  <2>7. QED
    BY <2>2, <2>4, <2>5, <2>6
<1>5. exec' \in [Processos -> Execucao]
  BY <1>4 DEF Salvar
<1>6. \A p \in Processos : Correto(p, exec[p])'
  <2>1. SUFFICES ASSUME NEW p \in Processos PROVE Correto(p, exec[p])'
    OBVIOUS
  <2>2. Remete(p, exec[p]) /\ Escreve(p, exec[p]) /\ Autorizado(p, exec[p]) /\ Lugar(p, exec[p])
    BY DeUm
  <2>3. Linhas' = Linhas
    BY <1>1 DEF Linhas
  <2>4. Remete(p, exec[p])'
    BY <1>1, <1>4, <2>2, <2>3 DEF Remete, TipoDe
  <2>5. Escreve(p, exec[p])'
    BY <1>2, <1>4, <2>2, <2>3 DEF Escreve
  <2>6. Autorizado(p, exec[p])'
    <3>1. config' = c
      BY DEF Salvar
    <3>2. QED
      BY <1>4, <2>2, <3>1 DEF Autorizado
  <2>7. Lugar(p, exec[p])'
    BY <1>4, <2>2 DEF Lugar
  <2>8. QED
    BY <2>4, <2>5, <2>6, <2>7 DEF Correto
<1>7. \A p, q \in Processos : p # q /\ exec'[p].tent = exec'[q].tent => exec'[p].tent = 0
  BY <1>4 DEF IInv
<1>8. QED
  BY <1>3, <1>5, <1>6, <1>7 DEF IInv

-----------------------------------------------------------------------------
(* The steps that write an attempt                                         *)

\* A step that writes the attempts may disturb none that is being sent.
LEMMA PassoComTentativas ==
  ASSUME IInv, NEW p \in Processos, Segue(p), Tabelas', Cresce,
         \A q \in Processos \ {p} : exec[q].tent # 0 => Poupa(exec[q].tent),
         exec'[p].tent # 0 => Poupa(exec'[p].tent)
  PROVE  IInv'
<1>1. PICK x \in Execucao : exec' = [exec EXCEPT ![p] = x] /\ x.tent \in {0, exec[p].tent} /\ Correto(p, x)
  BY DEF Segue
<1>2. exec'[p] = x
  BY <1>1 DEF IInv
<1>3. Correto(p, x)'
  BY <1>1, <1>2, CorretoFica DEF IInv
<1>4. \A q \in Processos \ {p} : exec[q].tent # 0 => exec[q].tent # x.tent
  BY <1>1 DEF IInv
<1>5. QED
  BY <1>1, <1>3, <1>4, PassoDe

\* A row gets another status.
LEMMA TrocaStatus ==
  ASSUME IInv, NEW i \in Linhas, NEW t \in Tentativa,
         t.tipo = tentativas[i].tipo, t.seq = tentativas[i].seq,
         t.status \in EmDia => Unica(i, t),
         t.status \in Aceitos => sefaz[<<t.tipo, t.seq>>] # Nenhum,
         t.status = "falha_local" => i \notin transmitidas,
         tentativas' = [tentativas EXCEPT ![i] = t],
         UNCHANGED <<config, tarefa, xml, importado, sefaz, transmitidas>>
  PROVE  /\ Tabelas' /\ Cresce
         /\ \A j \in Linhas \ {i} : Poupa(j)
         /\ (tentativas[i].status \in EmDia => t.status \in EmDia) => Poupa(i)
<1>1. Tabelas /\ Tipada
  BY DEF IInv, Tabelas
<1>2. i \in Indices /\ t # Nenhum
  BY NenhumAssumption DEF Linhas
<1>3. tentativas'[i] = t /\ \A j \in Indices \ {i} : tentativas'[j] = tentativas[j]
  BY <1>1, <1>2 DEF Tipada
<1>4. Linhas' = Linhas
  BY <1>2, <1>3 DEF Linhas
<1>5. Tipada'
  <2>1. tentativas' \in [Indices -> Tentativa \union {Nenhum}]
    BY <1>1, <1>2 DEF Tipada
  <2>2. QED
    BY <1>1, <2>1 DEF Tipada
<1>6. EmOrdem'
  BY <1>1, <1>4 DEF Tabelas, EmOrdem
<1>7. CienciaUnica'
  <2>1. SUFFICES ASSUME NEW a \in Linhas, NEW b \in Linhas, a # b,
                        tentativas'[a].tipo = "ciencia", tentativas'[b].tipo = "ciencia",
                        tentativas'[a].status \in EmDia, tentativas'[b].status \in EmDia
                 PROVE  FALSE
    BY <1>4 DEF CienciaUnica
  <2>2. a \in Indices /\ b \in Indices
    BY DEF Linhas
  <2>3. CASE a # i /\ b # i
    BY <1>1, <1>3, <2>1, <2>2, <2>3 DEF Tabelas, CienciaUnica
  <2>4. CASE a = i
    BY <1>3, <2>1, <2>2, <2>4 DEF Unica, EmDia
  <2>5. CASE b = i
    BY <1>3, <2>1, <2>2, <2>5 DEF Unica, EmDia
  <2>6. QED
    BY <2>3, <2>4, <2>5
<1>8. \A j \in Linhas : Verdadeira(j)'
  <2>1. SUFFICES ASSUME NEW j \in Linhas PROVE Verdadeira(j)'
    OBVIOUS
  <2>2. j \in Indices /\ Verdadeira(j)
    BY <1>1 DEF Tabelas, Linhas
  <2>3. QED
    BY <1>2, <1>3, <2>2 DEF Verdadeira, Tabelas
<1>9. \A e \in Eventos : Distribuido(e)'
  BY <1>1 DEF Tabelas, Distribuido
<1>10. Tabelas'
  BY <1>1, <1>4, <1>5, <1>6, <1>7, <1>8, <1>9 DEF Tabelas
<1>11. Cresce
  <2>1. \A j \in Linhas : tentativas'[j].tipo = tentativas[j].tipo /\ tentativas'[j].seq = tentativas[j].seq
    BY <1>2, <1>3 DEF Linhas
  <2>2. QED
    BY <1>4, <2>1 DEF Cresce
<1>12. \A j \in Linhas \ {i} : Poupa(j)
  BY <1>2, <1>3 DEF Linhas, Poupa
<1>13. (tentativas[i].status \in EmDia => t.status \in EmDia) => Poupa(i)
  BY <1>3 DEF Poupa
<1>14. QED
  BY <1>10, <1>11, <1>12, <1>13

\* What becomes of the status of the attempt that is answered.
LEMMA StatusDeLema ==
  ASSUME IInv, NEW p \in Operadores \union Trabalhadores, exec[p].pc = "resposta"
  PROVE  /\ exec[p].tent \in Linhas /\ exec[p].tent # 0
         /\ StatusDe(p) \in Aceitos \union {"rejeitada", "falha_local", "resultado_indeterminado"}
         /\ StatusDe(p) \in Aceitos =>
              sefaz[<<tentativas[exec[p].tent].tipo, tentativas[exec[p].tent].seq>>] # Nenhum
         /\ StatusDe(p) = "falha_local" => exec[p].tent \notin transmitidas
         /\ StatusDe(p) \in Aceitos => exec[p].resp = StatusDe(p)
         /\ exec[p].resp \in Respostas
<1>1. p \in Processos
  BY DEF Processos
<1>2. PICK e \in Execucao : e = exec[p] /\ Remete(p, e)
  BY <1>1, DeUm
<1>3. e.resp \in Respostas
  BY <1>2 DEF Remete, Execucao
<1>4. e.tent \in Linhas /\ e.tent # 0 /\ tentativas[e.tent].tipo = TipoDe(p, e) /\ tentativas[e.tent].seq = e.seq
  BY <1>2 DEF Remete, Enviando
<1>5. StatusDe(p) = e.resp \/ StatusDe(p) \in {"rejeitada", "resultado_indeterminado"}
  BY <1>2 DEF StatusDe
<1>6. StatusDe(p) \in Aceitos \union {"rejeitada", "falha_local", "resultado_indeterminado"}
  BY <1>2, <1>3 DEF StatusDe, Respostas
<1>7. StatusDe(p) \in Aceitos \union {"falha_local"} => StatusDe(p) = e.resp
  BY <1>5 DEF Aceitos
<1>8. QED
  BY <1>2, <1>3, <1>4, <1>6, <1>7 DEF Remete

LEMMA ResponderOK ==
  ASSUME IInv, NEW p \in Operadores \union Trabalhadores, Responder(p)
  PROVE  IInv'
<1>1. p \in Processos /\ exec[p].pc = "resposta"
      /\ UNCHANGED <<config, tarefa, xml, importado, sefaz, transmitidas>>
  BY DEF Processos, Responder
<1>2. PICK i \in Linhas : i = exec[p].tent /\ i # 0
  BY <1>1, StatusDeLema
<1>3. PICK s \in Aceitos \union {"rejeitada", "falha_local", "resultado_indeterminado"} : s = StatusDe(p)
  BY <1>1, StatusDeLema
<1>4. /\ s \in Aceitos => sefaz[<<tentativas[i].tipo, tentativas[i].seq>>] # Nenhum
      /\ s = "falha_local" => i \notin transmitidas
      /\ s \in Aceitos => exec[p].resp = s
      /\ exec[p].resp \in Respostas
  BY <1>1, <1>2, <1>3, StatusDeLema
<1>5. PICK v \in Tentativa : v = tentativas[i]
  BY LinhaTipo DEF IInv, Tabelas
<1>6. PICK d : d = [v EXCEPT !.status = s]
  OBVIOUS
<1>7. d \in Tentativa /\ d.status = s /\ d.tipo = v.tipo /\ d.seq = v.seq
  BY <1>6 DEF Tentativa, Incertos
<1>8. PICK n : n = [d EXCEPT !.status = "resultado_indeterminado"]
  OBVIOUS
<1>9. n \in Tentativa /\ n.status = "resultado_indeterminado" /\ n.tipo = v.tipo /\ n.seq = v.seq
  BY <1>7, <1>8 DEF Tentativa, Incertos
<1>10. PICK t \in Tentativa : t = IF Unica(i, d) THEN d ELSE n
  BY <1>7, <1>9
<1>11. CASE p \notin Trabalhadores /\ t # d
  <2>1. Termina(p) /\ UNCHANGED tentativas
    BY <1>2, <1>3, <1>5, <1>6, <1>8, <1>10, <1>11 DEF Responder
  <2>2. UNCHANGED <<banco, sefaz, transmitidas>>
    BY <1>1, <2>1 DEF banco
  <2>3. QED
    BY <1>1, <2>1, <2>2, TerminaSegue, SegueOK
<1>12. CASE ~(p \notin Trabalhadores /\ t # d)
  <2>1. tentativas' = [tentativas EXCEPT ![i] = t]
    BY <1>2, <1>3, <1>5, <1>6, <1>8, <1>10, <1>12 DEF Responder
  <2>2. /\ t.tipo = tentativas[i].tipo /\ t.seq = tentativas[i].seq
        /\ t.status \in Aceitos => sefaz[<<t.tipo, t.seq>>] # Nenhum
        /\ t.status = "falha_local" => i \notin transmitidas
    BY <1>4, <1>5, <1>7, <1>9, <1>10 DEF Aceitos
  <2>3. t.status \in EmDia => Unica(i, t)
    BY <1>9, <1>10 DEF EmDia, Aceitos
  <2>4. /\ Tabelas' /\ Cresce
        /\ \A j \in Linhas \ {i} : Poupa(j)
        /\ (tentativas[i].status \in EmDia => t.status \in EmDia) => Poupa(i)
    BY <1>1, <2>1, <2>2, <2>3, TrocaStatus
  <2>5. Segue(p) /\ (t.status # "registrada" \/ p \notin Trabalhadores => exec'[p].tent = 0)
        /\ exec'[p].tent \in {0, i}
    <3>1. CASE p \in Trabalhadores /\ t.status = "registrada"
      <4>0. exec[p].resp # "falha_local"
        BY <1>4, <1>7, <1>9, <1>10, <3>1 DEF Aceitos
      <4>1. Ir(p, "agendarLer")
        BY <1>2, <1>3, <1>5, <1>6, <1>8, <1>10, <3>1, <4>0 DEF Responder, Ir
      <4>2. Segue(p)
        BY <1>1, <3>1, <4>1, IrSegue
      <4>3. exec'[p].tent \in {0, i}
        BY <1>1, <1>2, <4>2 DEF Segue, IInv
      <4>4. QED
        BY <3>1, <4>2, <4>3
    <3>2. CASE p \in Trabalhadores /\ t.status # "registrada"
      <4>1. (\E u \in StatusTarefa : Gravar(p, u)) \/ Resultado(p, t.status)
        BY <1>2, <1>3, <1>5, <1>6, <1>8, <1>10, <1>12, <3>2 DEF Responder, StatusTarefa
      <4>2. Segue(p)
        BY <1>1, <3>2, <4>1, GravarSegue, ResultadoSegue
      <4>3. exec'[p].tent = 0
        <5>1. (\E u : Gravar(p, u)) \/ Inicia(p, "consultar")
          BY <4>1 DEF Resultado
        <5>2. QED
          BY <1>1, <5>1 DEF Gravar, Inicia, Passa, Ocioso, IInv
      <4>4. QED
        BY <4>2, <4>3
    <3>3. CASE p \notin Trabalhadores
      <4>1. PICK o \in Execucao : o = Ocioso
        BY OciosoTipo
      <4>2. PICK r \in Respostas : r = exec[p].resp
        BY <1>4
      <4>3. PICK x : x = [o EXCEPT !.pc = "agendarConfig", !.resp = r]
        OBVIOUS
      <4>4. x \in Execucao
        BY <4>3 DEF Execucao
      <4>5. x.pc = "agendarConfig" /\ x.tent = 0 /\ x.alvos = {} /\ x.seq = 1
        BY <4>1, <4>3, OciosoTipo DEF Execucao
      <4>6. Correto(p, x)
        BY <1>1, <3>3, <4>5, SoltaOK
      <4>7. Passa(p, x) \/ Inicia(p, "agendarLer") \/ Termina(p)
        BY <1>2, <1>3, <1>5, <1>6, <1>8, <1>10, <1>12, <3>3, <4>1, <4>2, <4>3 DEF Responder
      <4>8. Segue(p)
        <5>1. CASE Passa(p, x)
          BY <4>4, <4>5, <4>6, <5>1 DEF Segue, Passa
        <5>2. CASE Inicia(p, "agendarLer") \/ Termina(p)
          BY <1>1, <3>3, <5>2, IniciaSegue, TerminaSegue
        <5>3. QED
          BY <4>7, <5>1, <5>2
      <4>9. exec'[p].tent = 0
        <5>1. \A y : Passa(p, y) => exec'[p] = y
          BY <1>1 DEF Passa, IInv
        <5>2. [Ocioso EXCEPT !.pc = "agendarLer"].tent = 0
          BY DEF Ocioso
        <5>3. QED
          BY <4>5, <4>7, <5>1, <5>2, OciosoTipo DEF Inicia, Termina
      <4>10. QED
        BY <4>8, <4>9
    <3>4. QED
      BY <3>1, <3>2, <3>3
  <2>6. \A q \in Processos \ {p} : exec[q].tent # 0 => Poupa(exec[q].tent)
    <3>1. \A q \in Processos \ {p} : exec[q].tent # 0 => exec[q].tent \in Linhas \ {i}
      BY <1>1, <1>2, DeUm DEF IInv, Remete
    <3>2. QED
      BY <2>4, <3>1
  <2>7. exec'[p].tent # 0 => Poupa(exec'[p].tent)
    <3>1. "registrada" \in EmDia
      BY DEF EmDia, Aceitos
    <3>2. QED
      BY <2>4, <2>5, <3>1
  <2>8. QED
    BY <1>1, <2>4, <2>5, <2>6, <2>7, PassoComTentativas
<1>13. QED
  BY <1>11, <1>12

LEMMA ExcecaoOK == ASSUME IInv, NEW w \in Trabalhadores, Excecao(w) PROVE IInv'
<1>1. w \in Processos /\ exec[w].pc \notin {"ocioso", "liberar", "registrar", "enviar"}
      /\ UNCHANGED <<config, tarefa, xml, importado, sefaz, transmitidas>>
  BY DEF Processos, Excecao
<1>2. CASE /\ exec[w].pc \in {"resposta", "agendarLer", "agendarGravar"}
           /\ tentativas' = [tentativas EXCEPT ![exec[w].tent].status = "resultado_indeterminado"]
           /\ Gravar(w, "resultado_indeterminado")
  <2>1. PICK e \in Execucao : e = exec[w] /\ Remete(w, e)
    BY <1>1, DeUm
  <2>2. PICK i \in Linhas : i = exec[w].tent /\ i # 0
    BY <1>2, <2>1 DEF Remete, Enviando
  <2>3. PICK v \in Tentativa : v = tentativas[i]
    BY LinhaTipo DEF IInv, Tabelas
  <2>4. PICK t : t = [v EXCEPT !.status = "resultado_indeterminado"]
    OBVIOUS
  <2>5. t \in Tentativa /\ t.status = "resultado_indeterminado" /\ t.tipo = v.tipo /\ t.seq = v.seq
    BY <2>4 DEF Tentativa, Incertos
  <2>6. tentativas' = [tentativas EXCEPT ![i] = t]
    BY <1>2, <2>2, <2>3, <2>4
  <2>7. /\ Tabelas' /\ Cresce
        /\ \A j \in Linhas \ {i} : Poupa(j)
    <3>1. t.status \notin EmDia /\ t.status \notin Aceitos /\ t.status # "falha_local"
      BY <2>5 DEF EmDia, Aceitos
    <3>2. QED
      BY <1>1, <2>3, <2>5, <2>6, <3>1, TrocaStatus
  <2>8. Gravar(w, "resultado_indeterminado")
    BY <1>2
  <2>9. Segue(w)
    BY <1>1, <2>8, GravarSegue DEF StatusTarefa
  <2>10. exec'[w].tent = 0
    <3>1. [Ocioso EXCEPT !.pc = "gravar", !.status = "resultado_indeterminado"].tent = 0
      BY DEF Ocioso
    <3>2. QED
      BY <1>1, <2>8, <3>1 DEF Gravar, Passa, IInv
  <2>11. \A q \in Processos \ {w} : exec[q].tent # 0 => Poupa(exec[q].tent)
    <3>1. \A q \in Processos \ {w} : exec[q].tent # 0 => exec[q].tent \in Linhas \ {i}
      BY <1>1, <2>2, DeUm DEF IInv, Remete
    <3>2. QED
      BY <2>7, <3>1
  <2>12. QED
    BY <1>1, <2>7, <2>9, <2>10, <2>11, PassoComTentativas
<1>3. CASE /\ CASE exec[w].pc \in {"consultar", "observarXml", "persistido"} ->
                    Passa(w, [exec[w] EXCEPT !.pc = "registrar", !.status = "aguardando_xml"])
               [] exec[w].pc = "posse" -> Termina(w)
               [] OTHER -> Inicia(w, "liberar")
           /\ UNCHANGED tentativas
  <2>1. PICK e \in Execucao : e = exec[w]
    BY <1>1, DeUm
  <2>2. PICK x : x = [e EXCEPT !.pc = "registrar", !.status = "aguardando_xml"]
    OBVIOUS
  <2>3. x \in Execucao
    BY <2>2 DEF Execucao, StatusTarefa
  <2>4. x.pc = "registrar" /\ x.status \in StatusTarefa /\ x.tent = e.tent /\ x.alvos = e.alvos /\ x.seq = e.seq
    BY <2>2 DEF Execucao, StatusTarefa
  <2>5. Passa(w, x) \/ Termina(w) \/ Inicia(w, "liberar")
    BY <1>3, <2>1, <2>2
  <2>6. Segue(w)
    <3>1. CASE Passa(w, x)
      BY <1>1, <2>1, <2>3, <2>4, <3>1, PassaSegue
    <3>2. CASE Termina(w) \/ Inicia(w, "liberar")
      BY <1>1, <3>2, TerminaSegue, IniciaSegue
    <3>3. QED
      BY <2>5, <3>1, <3>2
  <2>7. UNCHANGED <<banco, sefaz, transmitidas>>
    BY <1>1, <1>3 DEF banco
  <2>8. QED
    BY <1>1, <2>6, <2>7, SegueOK
<1>4. QED
  BY <1>2, <1>3 DEF Excecao

\* What the SEFAZ distributed of an attempt's event is what it has registered.
LEMMA OficialVerdadeiro ==
  ASSUME Tabelas, NEW i \in Linhas, NEW r \in Oficiais(i)
  PROVE  r.status \in Aceitos /\ sefaz[<<tentativas[i].tipo, tentativas[i].seq>>] # Nenhum
<1>1. PICK e \in Eventos : r = importado[e] /\ importado[e] # Nenhum
  BY DEF Oficiais, Importados
<1>2. r.tipo = e[1] /\ r.seq \in {0, e[2]} /\ sefaz[e] # Nenhum
  BY <1>1, ImportadoTipo
<1>3. /\ r.tipo = tentativas[i].tipo /\ r.status \in Aceitos
      /\ r.seq = tentativas[i].seq \/ (r.seq = 0 /\ r.tipo = "ciencia")
  BY DEF Oficiais
<1>4. e = <<e[1], e[2]>> /\ e[2] \in 1..2
  BY DEF Eventos
<1>5. tentativas[i].seq \in 1..2 /\ (tentativas[i].tipo = "ciencia" => tentativas[i].seq = 1)
  BY LinhaTipo DEF Tabelas, Verdadeira
<1>6. CASE r.seq = tentativas[i].seq
  <2>1. e[2] = tentativas[i].seq
    BY <1>2, <1>5, <1>6
  <2>2. QED
    BY <1>2, <1>3, <1>4, <2>1
<1>7. CASE r.seq = 0 /\ r.tipo = "ciencia"
  <2>1. e[1] = "ciencia"
    BY <1>2, <1>7
  <2>2. e[2] # 2
    BY <1>2, <1>4, <2>1 DEF Tabelas
  <2>3. e[2] = 1
    BY <1>4, <2>2
  <2>4. QED
    BY <1>2, <1>3, <1>4, <1>5, <1>7, <2>3
<1>8. QED
  BY <1>3, <1>6, <1>7

LEMMA ReconciliarTentativaOK == ASSUME IInv, NEW p \in Operadores, ReconciliarTentativa(p) PROVE IInv'
<1>1. p \in Processos /\ exec[p].pc = "reconciliar"
      /\ UNCHANGED <<config, tarefa, xml, importado, sefaz, transmitidas>>
  BY DEF Processos, ReconciliarTentativa
<1>2. PICK i \in Linhas : i = Min(exec[p].alvos)
  <2>1. exec[p].alvos \subseteq Linhas /\ exec[p].alvos # {}
    BY <1>1, DeUm DEF Escreve
  <2>2. Linhas \subseteq Nat
    BY LinhaTipo DEF IInv, Tabelas
  <2>3. QED
    BY <2>1, <2>2, MinLema
<1>3. PICK r \in Oficiais(i) :
        LET t == [tentativas[i] EXCEPT !.status = r.status] IN
        IF Unica(i, t)
        THEN tentativas' = [tentativas EXCEPT ![i] = t] /\ Ir(p, "liberarTarefa")
        ELSE Termina(p) /\ UNCHANGED tentativas
  BY <1>2 DEF ReconciliarTentativa
<1>4. r.status \in Aceitos /\ sefaz[<<tentativas[i].tipo, tentativas[i].seq>>] # Nenhum
  BY OficialVerdadeiro DEF IInv
<1>5. PICK v \in Tentativa : v = tentativas[i]
  BY LinhaTipo DEF IInv, Tabelas
<1>6. PICK s \in Aceitos : s = r.status
  BY <1>4
<1>7. PICK t : t = [v EXCEPT !.status = s]
  OBVIOUS
<1>8. t \in Tentativa /\ t.status = s /\ t.tipo = v.tipo /\ t.seq = v.seq
  BY <1>7 DEF Tentativa
<1>9. CASE Unica(i, t)
  <2>1. tentativas' = [tentativas EXCEPT ![i] = t] /\ Ir(p, "liberarTarefa")
    BY <1>3, <1>5, <1>6, <1>7, <1>9
  <2>2. s \in EmDia /\ s # "falha_local"
    BY DEF EmDia, Aceitos
  <2>3. Tabelas' /\ Cresce /\ \A j \in Linhas : Poupa(j)
    BY <1>1, <1>4, <1>5, <1>8, <1>9, <2>1, <2>2, TrocaStatus
  <2>4. Segue(p)
    BY <1>1, <2>1, IrSegue
  <2>5. \A q \in Processos : exec[q].tent # 0 => Poupa(exec[q].tent)
    BY <2>3, DeUm DEF Remete
  <2>6. exec'[p].tent \in {0, exec[p].tent}
    BY <1>1, <2>4 DEF Segue, IInv
  <2>7. QED
    BY <1>1, <2>3, <2>4, <2>5, <2>6, PassoComTentativas
<1>10. CASE ~Unica(i, t)
  <2>1. Termina(p) /\ UNCHANGED tentativas
    BY <1>3, <1>5, <1>6, <1>7, <1>10
  <2>2. UNCHANGED <<banco, sefaz, transmitidas>>
    BY <1>1, <2>1 DEF banco
  <2>3. QED
    BY <1>1, <2>1, <2>2, TerminaSegue, SegueOK
<1>11. QED
  BY <1>9, <1>10

LEMMA ReconciliarOK == ASSUME IInv, NEW p \in Operadores, Reconciliar(p) PROVE IInv'
<1>1. p \in Processos /\ p \notin Trabalhadores /\ Tabelas /\ Tipada
      /\ UNCHANGED <<config, tarefa, xml, importado, sefaz, transmitidas>>
  BY ManifestacaoAssumption DEF Processos, Reconciliar, IInv, Tabelas
<1>2. PICK A : A = {i \in Linhas : tentativas[i].status \in Incertos}
  OBVIOUS
<1>3. PICK V \in SUBSET {i \in A : \A q \in Processos : exec[q].tent # i} :
        tentativas' = [i \in Indices |-> IF i \in V
                                        THEN [tentativas[i] EXCEPT !.status = "resultado_indeterminado"]
                                        ELSE tentativas[i]]
  BY <1>2 DEF Reconciliar
<1>4. V \subseteq Linhas /\ A \subseteq Linhas /\ (\A q \in Processos : exec[q].tent \notin V)
  BY <1>2
<1>5. \A i \in Indices :
        /\ i \in V => /\ tentativas'[i] \in Tentativa /\ tentativas'[i].tipo = tentativas[i].tipo
                      /\ tentativas'[i].seq = tentativas[i].seq
                      /\ tentativas'[i].status = "resultado_indeterminado"
        /\ i \notin V => tentativas'[i] = tentativas[i]
  <2>1. SUFFICES ASSUME NEW i \in V
                 PROVE  /\ tentativas'[i] \in Tentativa /\ tentativas'[i].tipo = tentativas[i].tipo
                        /\ tentativas'[i].seq = tentativas[i].seq
                        /\ tentativas'[i].status = "resultado_indeterminado"
    BY <1>3
  <2>2. PICK v \in Tentativa : v = tentativas[i]
    BY <1>1, <1>4, LinhaTipo
  <2>3. PICK t : t = [v EXCEPT !.status = "resultado_indeterminado"]
    OBVIOUS
  <2>4. t \in Tentativa /\ t.tipo = v.tipo /\ t.seq = v.seq /\ t.status = "resultado_indeterminado"
    BY <2>3 DEF Tentativa, Incertos
  <2>5. i \in Indices
    BY <1>4 DEF Linhas
  <2>6. QED
    BY <1>3, <2>2, <2>3, <2>4, <2>5
<1>6. Linhas' = Linhas
  <2>1. \A i \in Indices : tentativas'[i] # Nenhum <=> tentativas[i] # Nenhum
    BY <1>4, <1>5, NenhumAssumption DEF Linhas
  <2>2. QED
    BY <2>1 DEF Linhas
<1>7. \A i \in Linhas :
        /\ tentativas'[i].tipo = tentativas[i].tipo /\ tentativas'[i].seq = tentativas[i].seq
        /\ tentativas'[i].status \in {"resultado_indeterminado", tentativas[i].status}
  BY <1>5 DEF Linhas
<1>8. "resultado_indeterminado" \notin EmDia /\ "resultado_indeterminado" \notin Aceitos
  BY DEF EmDia, Aceitos
<1>9. Tabelas'
  <2>1. tentativas' \in [Indices -> Tentativa \union {Nenhum}]
    <3>1. \A i \in Indices : tentativas'[i] \in Tentativa \union {Nenhum}
      BY <1>1, <1>5 DEF Tipada
    <3>2. QED
      BY <1>3, <3>1
  <2>2. Tipada'
    BY <1>1, <2>1 DEF Tipada
  <2>3. EmOrdem'
    BY <1>1, <1>6 DEF Tabelas, EmOrdem
  <2>4. CienciaUnica'
    <3>1. SUFFICES ASSUME NEW a \in Linhas, NEW b \in Linhas, a # b,
                          tentativas'[a].tipo = "ciencia", tentativas'[b].tipo = "ciencia",
                          tentativas'[a].status \in EmDia, tentativas'[b].status \in EmDia
                   PROVE  FALSE
      BY <1>6 DEF CienciaUnica
    <3>2. QED
      BY <1>1, <1>7, <1>8, <3>1 DEF Tabelas, CienciaUnica
  <2>5. \A i \in Linhas : Verdadeira(i)'
    BY <1>1, <1>7, <1>8 DEF Tabelas, Verdadeira
  <2>6. \A e \in Eventos : Distribuido(e)'
    BY <1>1 DEF Tabelas, Distribuido
  <2>7. QED
    BY <1>1, <1>6, <2>2, <2>3, <2>4, <2>5, <2>6 DEF Tabelas
<1>10. Cresce
  BY <1>1, <1>6, <1>7 DEF Cresce
<1>11. \A q \in Processos : exec[q].tent # 0 => Poupa(exec[q].tent)
  <2>1. SUFFICES ASSUME NEW q \in Processos, exec[q].tent # 0 PROVE Poupa(exec[q].tent)
    OBVIOUS
  <2>2. exec[q].tent \in Linhas
    BY <2>1, DeUm DEF Remete
  <2>3. exec[q].tent \in Indices \ V
    BY <1>4, <2>2 DEF Linhas
  <2>4. QED
    BY <1>1, <1>5, <2>3 DEF Poupa
<1>12. PICK o \in Execucao : o = Ocioso
  BY OciosoTipo
<1>13. PICK x : x = [o EXCEPT !.pc = "eventos", !.alvos = A]
  OBVIOUS
<1>14. x \in Execucao
  BY <1>4, <1>13 DEF Execucao, Linhas
<1>15. x.pc = "eventos" /\ x.tent = 0 /\ x.alvos = A
  BY <1>12, <1>13, OciosoTipo DEF Execucao
<1>16. Correto(p, x)
  <2>1. Remete(p, x)
    BY <1>1, <1>15 DEF Remete, Enviando
  <2>2. Escreve(p, x)
    BY <1>1, <1>4, <1>15 DEF Escreve
  <2>3. Autorizado(p, x) /\ Lugar(p, x)
    BY <1>1, <1>15 DEF Autorizado, Lugar, SoDeTrabalhador, DaDistribuicao
  <2>4. QED
    BY <2>1, <2>2, <2>3 DEF Correto
<1>17. exec' = [exec EXCEPT ![p] = x]
  BY <1>2, <1>12, <1>13 DEF Reconciliar, Passa
<1>18. Segue(p) /\ exec'[p].tent = 0
  BY <1>1, <1>14, <1>15, <1>16, <1>17 DEF Segue, IInv
<1>19. QED
  BY <1>1, <1>9, <1>10, <1>11, <1>18, PassoComTentativas

LEMMA CriarOK ==
  ASSUME IInv, NEW p \in Operadores \union Trabalhadores, Criar(p)
  PROVE  IInv'
<1>1. p \in Processos /\ exec[p].pc = "criar" /\ Tabelas /\ Tipada
      /\ UNCHANGED <<config, tarefa, xml, importado, sefaz, transmitidas>>
  BY DEF Processos, Criar, IInv, Tabelas
<1>2. PICK e \in Execucao : e = exec[p] /\ Remete(p, e) /\ Escreve(p, e) /\ Autorizado(p, e)
  BY <1>1, DeUm
<1>3. PICK pedido : pedido = IF p \in Trabalhadores THEN Nenhum ELSE e.pedido.id
  OBVIOUS
<1>4. PICK nova : nova = [tipo |-> TipoDe(p, e), seq |-> e.seq, pedido |-> pedido, status |-> "enviando"]
  OBVIOUS
<1>5. PICK i : i = Cardinality(Linhas) + 1
  OBVIOUS
<1>6. Tipo(p) = TipoDe(p, e)
  BY <1>2 DEF Tipo, TipoDe
<1>7. \/ /\ Unica(i, nova) /\ i \in Indices
         /\ tentativas' = [tentativas EXCEPT ![i] = nova]
         /\ Passa(p, [e EXCEPT !.pc = "enviar", !.tent = i])
      \/ UNCHANGED tentativas /\ (Termina(p) \/ (p \in Trabalhadores /\ \E r : Resultado(p, r)))
  <2>1. exec[p] = e /\ pedido = IF p \in Trabalhadores THEN Nenhum ELSE exec[p].pedido.id
    BY <1>2, <1>3
  <2>2. nova = [tipo |-> Tipo(p), seq |-> exec[p].seq, pedido |-> pedido, status |-> "enviando"]
    BY <1>2, <1>4, <1>6
  <2>3. CASE \/ p \notin Trabalhadores /\ \E j \in Linhas : tentativas[j].pedido = pedido
             \/ ~Unica(i, nova)
    <3>1. /\ UNCHANGED tentativas
          /\ IF p \in Trabalhadores
             THEN Resultado(p, tentativas[Max({j \in Linhas : tentativas[j].tipo = "ciencia"})].status)
             ELSE Termina(p)
      BY <1>5, <2>1, <2>2, <2>3 DEF Criar
    <3>2. QED
      BY <3>1
  <2>4. CASE Unica(i, nova) /\ ~(p \notin Trabalhadores /\ \E j \in Linhas : tentativas[j].pedido = pedido)
    BY <1>5, <2>1, <2>2, <2>4 DEF Criar
  <2>5. QED
    BY <2>3, <2>4
<1>8. CASE UNCHANGED tentativas /\ (Termina(p) \/ (p \in Trabalhadores /\ \E r : Resultado(p, r)))
  <2>1. Segue(p)
    BY <1>1, <1>8, TerminaSegue, ResultadoSegue
  <2>2. UNCHANGED <<banco, sefaz, transmitidas>>
    BY <1>1, <1>8 DEF banco
  <2>3. QED
    BY <1>1, <2>1, <2>2, SegueOK
<1>9. CASE /\ Unica(i, nova) /\ i \in Indices
           /\ tentativas' = [tentativas EXCEPT ![i] = nova]
           /\ Passa(p, [e EXCEPT !.pc = "enviar", !.tent = i])
  <2>1. PICK k \in 0..MaxTentativas : Linhas = 1..k
    BY <1>1 DEF Tabelas, EmOrdem
  <2>2. k \in Nat /\ MaxTentativas \in Nat
    BY ManifestacaoAssumption
  <2>3. i = k + 1 /\ i # 0
    <3>1. Cardinality(1..k) = k
      BY <2>2, FS_Interval
    <3>2. QED
      BY <1>5, <2>1, <2>2, <3>1
  <2>4. i \notin Linhas /\ i \notin transmitidas
    BY <1>1, <2>1, <2>2, <2>3 DEF Tabelas
  <2>5. p \in Trabalhadores \/ e.pedido # Nenhum
    BY <1>1, <1>2 DEF Remete
  <2>6. nova \in Tentativa /\ nova # Nenhum /\ nova.status = "enviando"
        /\ nova.tipo = TipoDe(p, e) /\ nova.seq = e.seq
    <3>1. TipoDe(p, e) \in Tipos /\ (p \notin Trabalhadores => e.pedido \in Pedidos)
      BY <1>1, <2>5, EventoDe
    <3>2. pedido \in {q.id : q \in Pedidos} \union {Nenhum}
      BY <1>3, <3>1
    <3>3. e.seq \in 1..2
      BY DEF Execucao
    <3>4. nova \in Tentativa
      BY <1>4, <3>1, <3>2, <3>3 DEF Tentativa, Incertos
    <3>5. QED
      BY <1>4, <3>4, NenhumAssumption
  <2>7. tentativas'[i] = nova /\ \A j \in Indices \ {i} : tentativas'[j] = tentativas[j]
    BY <1>1, <1>9 DEF Tipada
  <2>8. Linhas' = Linhas \union {i}
    BY <1>9, <2>6, <2>7 DEF Linhas
  <2>9. \A j \in Linhas : tentativas'[j] = tentativas[j]
    BY <2>4, <2>7 DEF Linhas
  <2>10. nova.tipo = "ciencia" => nova.seq = 1
    BY <1>1, <1>2, <2>6 DEF Remete
  <2>11. Tabelas'
    <3>1. Tipada'
      <4>1. tentativas' \in [Indices -> Tentativa \union {Nenhum}]
        BY <1>1, <1>9, <2>6 DEF Tipada
      <4>2. QED
        BY <1>1, <4>1 DEF Tipada
    <3>2. EmOrdem'
      <4>1. i \in 0..MaxTentativas
        BY <1>9, <2>2 DEF Indices
      <4>2. Linhas' = 1..i
        BY <2>1, <2>2, <2>3, <2>8
      <4>3. QED
        BY <4>1, <4>2 DEF EmOrdem
    <3>3. CienciaUnica'
      <4>1. SUFFICES ASSUME NEW a \in Linhas', NEW b \in Linhas', a # b,
                            tentativas'[a].tipo = "ciencia", tentativas'[b].tipo = "ciencia",
                            tentativas'[a].status \in EmDia, tentativas'[b].status \in EmDia
                     PROVE  FALSE
        BY DEF CienciaUnica
      <4>2. CASE a # i /\ b # i
        BY <1>1, <2>8, <2>9, <4>1, <4>2 DEF Tabelas, CienciaUnica
      <4>3. CASE a = i
        <5>1. b \in Linhas \ {i} /\ tentativas[b].tipo = "ciencia" /\ tentativas[b].status \in EmDia
          BY <2>8, <2>9, <4>1, <4>3
        <5>2. QED
          BY <1>9, <2>6, <2>7, <4>1, <4>3, <5>1 DEF Unica, EmDia
      <4>4. CASE b = i
        <5>1. a \in Linhas \ {i} /\ tentativas[a].tipo = "ciencia" /\ tentativas[a].status \in EmDia
          BY <2>8, <2>9, <4>1, <4>4
        <5>2. QED
          BY <1>9, <2>6, <2>7, <4>1, <4>4, <5>1 DEF Unica, EmDia
      <4>5. QED
        BY <4>2, <4>3, <4>4
    <3>4. \A j \in Linhas' : Verdadeira(j)'
      <4>1. SUFFICES ASSUME NEW j \in Linhas' PROVE Verdadeira(j)'
        OBVIOUS
      <4>2. CASE j \in Linhas
        BY <1>1, <2>9, <4>2 DEF Tabelas, Verdadeira
      <4>3. CASE j = i
        BY <2>6, <2>7, <2>10, <4>3 DEF Verdadeira, Aceitos
      <4>4. QED
        BY <2>8, <4>2, <4>3
    <3>5. \A f \in Eventos : Distribuido(f)'
      BY <1>1 DEF Tabelas, Distribuido
    <3>6. QED
      BY <1>1, <2>8, <3>1, <3>2, <3>3, <3>4, <3>5 DEF Tabelas
  <2>12. Cresce
    BY <1>1, <2>8, <2>9 DEF Cresce
  <2>13. \A j \in Linhas : Poupa(j)
    BY <1>1, <2>9 DEF Poupa
  <2>14. PICK x : x = [e EXCEPT !.pc = "enviar", !.tent = i]
    OBVIOUS
  <2>15. x \in Execucao
    BY <1>9, <2>14 DEF Execucao
  <2>16. x.pc = "enviar" /\ x.tent = i /\ x.seq = e.seq /\ x.pedido = e.pedido /\ x.alvos = e.alvos
         /\ x.autorizada = e.autorizada
    BY <2>14 DEF Execucao
  <2>17. Remete(p, x)'
    <3>1. TipoDe(p, x) = TipoDe(p, e)
      BY <2>16 DEF TipoDe
    <3>2. i \in Linhas' /\ i \notin transmitidas'
      BY <1>1, <2>4, <2>8
    <3>3. TipoDe(p, e) = "ciencia" => e.seq = 1
      BY <2>6, <2>10
    <3>4. p \in Trabalhadores => x.seq = 1
      BY <1>2, <2>16 DEF Remete
    <3>5. tentativas'[x.tent].tipo = TipoDe(p, x) /\ tentativas'[x.tent].seq = x.seq
          /\ tentativas'[x.tent].status \in EmDia
      BY <2>6, <2>7, <2>16, <3>1 DEF EmDia
    <3>6. QED
      BY <2>3, <2>5, <2>16, <3>1, <3>2, <3>3, <3>4, <3>5 DEF Remete, Enviando, TipoDe
  <2>18. Escreve(p, x)'
    BY <1>1, <1>2, <2>8, <2>16 DEF Escreve
  <2>19. Autorizado(p, x)'
    BY <1>1, <1>2, <2>16 DEF Autorizado
  <2>20. Lugar(p, x)'
    BY <2>16 DEF Lugar, SoDeTrabalhador, DaDistribuicao
  <2>21. \A q \in Processos \ {p} : exec[q].tent # 0 => Poupa(exec[q].tent) /\ exec[q].tent # x.tent
    <3>1. \A q \in Processos : exec[q].tent # 0 => exec[q].tent \in Linhas
      BY DeUm DEF Remete
    <3>2. QED
      BY <2>4, <2>13, <2>16, <3>1
  <2>22. exec' = [exec EXCEPT ![p] = x]
    BY <1>9, <2>14 DEF Passa
  <2>23. Correto(p, x)'
    BY <2>17, <2>18, <2>19, <2>20 DEF Correto
  <2>24. QED
    BY <1>1, <2>11, <2>12, <2>15, <2>21, <2>22, <2>23, PassoDe
<1>10. QED
  BY <1>7, <1>8, <1>9

LEMMA EnviarOK ==
  ASSUME IInv, NEW p \in Operadores \union Trabalhadores, Enviar(p)
  PROVE  IInv'
<1>1. p \in Processos /\ exec[p].pc = "enviar" /\ Tabelas /\ Tipada
      /\ UNCHANGED <<config, tarefa, tentativas, xml, importado>>
  BY DEF Processos, Enviar, IInv, Tabelas, banco
<1>2. PICK e \in Execucao : e = exec[p] /\ Remete(p, e) /\ Escreve(p, e) /\ Autorizado(p, e)
  BY <1>1, DeUm
<1>3. PICK f \in Eventos : f = <<TipoDe(p, e), e.seq>>
  BY <1>1, <1>2, EventoDe DEF Remete, Enviando
<1>4. PICK i \in Linhas : i = e.tent /\ i # 0 /\ tentativas[i].status \in EmDia
  BY <1>1, <1>2 DEF Remete, Enviando
<1>5. f = <<Tipo(p), exec[p].seq>>
  BY <1>2, <1>3 DEF Tipo, TipoDe
<1>6. PICK r \in Aceitos \union {"rejeitada", "573"}, chega \in BOOLEAN :
        /\ sefaz' = [sefaz EXCEPT ![f] = IF r \in Aceitos THEN r ELSE @]
        /\ Passa(p, [e EXCEPT !.pc = "resposta", !.resp = IF chega THEN r ELSE "perdida"])
  BY <1>2, <1>5 DEF Enviar
<1>7. transmitidas' = transmitidas \union {i}
  BY <1>2, <1>4 DEF Enviar
<1>8. Nenhum \notin Aceitos
  BY NenhumAssumption DEF Respostas
<1>9. sefaz'[f] = (IF r \in Aceitos THEN r ELSE sefaz[f]) /\ \A g \in Eventos \ {f} : sefaz'[g] = sefaz[g]
  BY <1>1, <1>6 DEF Tipada
<1>10. sefaz' \in [Eventos -> Aceitos \union {Nenhum}]
  BY <1>1, <1>6 DEF Tipada
<1>11. \A g \in Eventos : sefaz[g] # Nenhum => sefaz'[g] # Nenhum
  BY <1>8, <1>9
<1>12. Linhas' = Linhas
  BY <1>1 DEF Linhas
<1>13. Tabelas'
  <2>1. Tipada' /\ EmOrdem' /\ CienciaUnica'
    BY <1>1, <1>10, <1>12 DEF Tabelas, Tipada, EmOrdem, CienciaUnica
  <2>2. \A j \in Linhas : Verdadeira(j)'
    <3>1. SUFFICES ASSUME NEW j \in Linhas PROVE Verdadeira(j)'
      OBVIOUS
    <3>2. Verdadeira(j) /\ <<tentativas[j].tipo, tentativas[j].seq>> \in Eventos
      BY <1>1, LinhaTipo DEF Tabelas
    <3>3. tentativas[i].status # "falha_local"
      BY <1>4 DEF EmDia, Aceitos
    <3>4. QED
      BY <1>1, <1>7, <1>11, <3>2, <3>3 DEF Verdadeira
  <2>3. \A g \in Eventos : Distribuido(g)'
    BY <1>1, <1>11 DEF Tabelas, Distribuido
  <2>4. sefaz'[<<"ciencia", 2>>] = Nenhum
    <3>1. f # <<"ciencia", 2>>
      BY <1>1, <1>2, <1>3 DEF Remete, Enviando
    <3>2. <<"ciencia", 2>> \in Eventos
      BY DEF Eventos, Tipos
    <3>3. QED
      BY <1>1, <1>9, <3>1, <3>2 DEF Tabelas
  <2>5. QED
    BY <1>1, <1>7, <1>12, <2>1, <2>2, <2>3, <2>4 DEF Tabelas
<1>14. Cresce
  BY <1>1, <1>11, <1>12 DEF Cresce
<1>15. \A j : j # i => Poupa(j)
  BY <1>1, <1>7 DEF Poupa
<1>16. PICK s \in Respostas : s = IF chega THEN r ELSE "perdida"
  BY <1>6 DEF Respostas
<1>17. s # Nenhum /\ s # "falha_local" /\ (s \in Aceitos => r \in Aceitos)
  BY <1>16, NenhumAssumption DEF Aceitos
<1>18. PICK x : x = [e EXCEPT !.pc = "resposta", !.resp = s]
  OBVIOUS
<1>19. x \in Execucao
  BY <1>18 DEF Execucao
<1>20. x.pc = "resposta" /\ x.resp = s /\ x.tent = i /\ x.seq = e.seq /\ x.pedido = e.pedido /\ x.alvos = e.alvos
  BY <1>4, <1>18 DEF Execucao
<1>21. Remete(p, x)'
  <2>1. TipoDe(p, x) = TipoDe(p, e)
    BY <1>20 DEF TipoDe
  <2>2. s \in Aceitos => sefaz'[<<TipoDe(p, x), x.seq>>] # Nenhum
    BY <1>3, <1>8, <1>9, <1>17, <1>20, <2>1
  <2>3. QED
    BY <1>1, <1>2, <1>4, <1>12, <1>17, <1>20, <2>1, <2>2 DEF Remete, Enviando, TipoDe
<1>22. Escreve(p, x)'
  BY <1>1, <1>2, <1>12, <1>20 DEF Escreve
<1>23. Autorizado(p, x)' /\ Lugar(p, x)'
  BY <1>20 DEF Autorizado, Lugar, SoDeTrabalhador, DaDistribuicao
<1>24. exec' = [exec EXCEPT ![p] = x]
  BY <1>6, <1>16, <1>18 DEF Passa
<1>25. \A q \in Processos \ {p} : exec[q].tent # 0 => Poupa(exec[q].tent) /\ exec[q].tent # x.tent
  <2>1. \A q \in Processos \ {p} : exec[q].tent # i
    BY <1>1, <1>2, <1>4 DEF IInv
  <2>2. QED
    BY <1>15, <1>20, <2>1
<1>26. Correto(p, x)'
  BY <1>21, <1>22, <1>23 DEF Correto
<1>27. QED
  BY <1>1, <1>13, <1>14, <1>19, <1>24, <1>25, <1>26, PassoDe

LEMMA DistribuirEventoOK ==
  ASSUME IInv, NEW d, d = Distribuicao, NEW e \in Eventos, DistribuirEvento(d, e)
  PROVE  IInv'
<1>1. d \in Processos /\ Tabelas /\ Tipada
      /\ UNCHANGED <<config, tarefa, tentativas, xml, sefaz, transmitidas>>
  BY DEF Processos, DistribuirEvento, IInv, Tabelas
<1>2. sefaz[e] # Nenhum /\ Ir(d, "observar")
  BY DEF DistribuirEvento
<1>3. Segue(d)
  BY <1>1, <1>2, IrSegue DEF DaDistribuicao
<1>4. PICK forma \in Formas : importado' = [importado EXCEPT ![e] = Lido(e, forma)]
  BY DEF DistribuirEvento
<1>5. Lido(e, forma) \in Importado /\ Lido(e, forma).tipo = e[1] /\ Lido(e, forma).seq \in {0, e[2]}
  <2>1. e[1] \in Tipos /\ e[2] \in 1..2 /\ sefaz[e] \in Aceitos
    BY <1>1, <1>2 DEF Eventos, Tipada
  <2>2. QED
    BY <2>1 DEF Lido, Importado
<1>6. importado'[e] = Lido(e, forma) /\ \A g \in Eventos \ {e} : importado'[g] = importado[g]
  BY <1>1, <1>4 DEF Tipada
<1>7. Linhas' = Linhas
  BY <1>1 DEF Linhas
<1>8. Tabelas'
  <2>1. importado' \in [Eventos -> Importado \union {Nenhum}]
    BY <1>1, <1>4, <1>5 DEF Tipada
  <2>2. Tipada' /\ EmOrdem' /\ CienciaUnica'
    BY <1>1, <1>7, <2>1 DEF Tabelas, Tipada, EmOrdem, CienciaUnica
  <2>3. \A j \in Linhas : Verdadeira(j)'
    BY <1>1 DEF Tabelas, Verdadeira
  <2>4. \A g \in Eventos : Distribuido(g)'
    BY <1>1, <1>2, <1>5, <1>6 DEF Tabelas, Distribuido
  <2>5. QED
    BY <1>1, <1>7, <2>2, <2>3, <2>4 DEF Tabelas
<1>9. Cresce
  BY <1>1, <1>7 DEF Cresce
<1>10. \A j : Poupa(j)
  BY <1>1 DEF Poupa
<1>11. QED
  BY <1>1, <1>3, <1>8, <1>9, <1>10, PassoComTentativas

-----------------------------------------------------------------------------
(* The invariant                                                           *)

LEMMA InitIInv == Init => IInv
<1> SUFFICES ASSUME Init PROVE IInv
  OBVIOUS
<1>2. Linhas = {} /\ MaxTentativas \in Nat
  BY ManifestacaoAssumption DEF Init, Linhas
<1>3. Tabelas
  <2>1. Tipada
    BY DEF Init, Tipada, Configuracao
  <2>2. EmOrdem
    <3>1. 0 \in 0..MaxTentativas /\ 1..0 = {}
      BY <1>2
    <3>2. QED
      BY <1>2, <3>1 DEF EmOrdem
  <2>3. \A e \in Eventos : Distribuido(e)
    BY DEF Init, Distribuido
  <2>4. sefaz[<<"ciencia", 2>>] = Nenhum
    <3>1. <<"ciencia", 2>> \in Eventos
      BY DEF Eventos, Tipos
    <3>2. QED
      BY <3>1 DEF Init
  <2>5. CienciaUnica /\ transmitidas \subseteq Linhas
    BY <1>2 DEF Init, CienciaUnica
  <2>6. QED
    BY <1>2, <2>1, <2>2, <2>3, <2>4, <2>5 DEF Tabelas
<1>4. \A p \in Processos : exec[p] = Ocioso
  BY DEF Init
<1>5. exec \in [Processos -> Execucao]
  BY OciosoTipo DEF Init
<1>6. \A p \in Processos : Correto(p, exec[p]) /\ exec[p].tent = 0
  BY <1>4, TerminaOK, OciosoTipo
<1>7. QED
  BY <1>3, <1>5, <1>6 DEF IInv

LEMMA NextIInv == IInv /\ [Next]_vars => IInv'
<1> SUFFICES ASSUME IInv, [Next]_vars PROVE IInv'
  OBVIOUS
<1>2. CASE \E p \in Operadores \union Trabalhadores : Transmissao(p)
  BY <1>2, CriarOK, FalharAntesOK, EnviarOK, ResponderOK, AgendarLerOK, AgendarGravarOK DEF Transmissao
<1>3. CASE \E p \in Operadores : Atender(p) /\ ~Transmissao(p)
  BY <1>3, LerHistoricoOK, AgendarConfigOK, AgendarTarefaOK, LerEventosOK, ReconciliarTentativaOK, LiberarTarefaOK
     DEF Atender
<1>4. CASE \E p \in Operadores : Reconciliar(p) \/ \E q \in Pedidos : Submeter(p, q)
  BY <1>4, ReconciliarOK, SubmeterOK
<1>5. CASE \E w \in Trabalhadores : Trabalhar(w) /\ ~Transmissao(w)
  BY <1>5, LerFilaOK, TomarPosseOK, PrepararOK, LerHistoricoDaTarefaOK, AbrirCienciaOK, LerAnterioresOK,
     LerAutorizacaoOK, GravarTarefaOK, LiberarOK, ConsultarComXmlOK, ConsultarSemXmlOK, ObservarXmlOK,
     LerPersistidoOK, RegistrarOK
     DEF Trabalhar
<1>6. CASE \E w \in Trabalhadores : Excecao(w)
  BY <1>6, ExcecaoOK
<1>7. CASE \/ Distribuir(Distribuicao) \/ DistribuirXml(Distribuicao) \/ DistribuirResumo(Distribuicao)
           \/ \E e \in Eventos : DistribuirEvento(Distribuicao, e)
  BY <1>7, ObservarOK, ObservarXmlOK, ObservarNovoOK, DistribuirXmlOK, DistribuirResumoOK, DistribuirEventoOK
     DEF Distribuir
<1>8. CASE (\E c \in Configuracoes : Salvar(c)) \/ Revogar
  BY <1>8, SalvarOK, RevogarOK
<1>9. CASE \E p \in Processos : Falhar(p)
  BY <1>9, FalharOK
<1>10. CASE UNCHANGED vars
  <2>1. PICK d \in Processos : d = Distribuicao
    BY DEF Processos
  <2>2. UNCHANGED <<banco, sefaz, transmitidas>> /\ exec' = exec
    BY <1>10 DEF vars
  <2>3. PICK x \in Execucao : x = exec[d] /\ Correto(d, x)
    BY <2>1, DeUm
  <2>4. exec' = [exec EXCEPT ![d] = x]
    BY <2>2, <2>3 DEF IInv
  <2>5. QED
    BY <2>1, <2>2, <2>3, <2>4, SoLocal
<1>11. QED
  BY <1>2, <1>3, <1>4, <1>5, <1>6, <1>7, <1>8, <1>9, <1>10 DEF Next, Atender, Trabalhar

LEMMA SpecIInv == Spec => []IInv
BY InitIInv, NextIInv, PTL DEF Spec

-----------------------------------------------------------------------------
(* The theorems                                                            *)

\* The tables and the processes' local states have their types.
THEOREM TipoCorreto == Spec => []TypeOK
<1>1. IInv => TypeOK
  <2> SUFFICES ASSUME IInv PROVE TypeOK
    OBVIOUS
  <2>2. transmitidas \subseteq Indices
    BY DEF IInv, Tabelas, Linhas
  <2>3. QED
    BY <2>2 DEF IInv, Tabelas, Tipada, TypeOK
<1>2. QED
  BY <1>1, SpecIInv, PTL

\* An attempt is registered only if the SEFAZ has registered its event, whether the answer, the
\* worker or a reconciliation wrote it; falha_local is said of none that reached the SEFAZ.
THEOREM ResultadoSempreVerdadeiro == Spec => []ResultadoVerdadeiro
<1>1. IInv => ResultadoVerdadeiro
  BY DEF IInv, Tabelas, Verdadeira, ResultadoVerdadeiro
<1>2. QED
  BY <1>1, SpecIInv, PTL

\* Two Ciencias are never on their way at once, whatever was read before either row was there.
THEOREM EmVooSempreUnica == Spec => []EmVooUnica
<1>1. IInv => EmVooUnica
  <2> SUFFICES ASSUME IInv, NEW p \in Operadores \union Trabalhadores, NEW q \in Operadores \union Trabalhadores,
                        exec[p].pc = "enviar", exec[q].pc = "enviar",
                        Tipo(p) = "ciencia", Tipo(q) = "ciencia", p # q
                 PROVE  FALSE
    BY DEF EmVooUnica
  <2>2. p \in Processos /\ q \in Processos
    BY DEF Processos
  <2>3. \A x \in {p, q} :
          /\ exec[x].tent \in Linhas /\ exec[x].tent # 0
          /\ tentativas[exec[x].tent].tipo = "ciencia" /\ tentativas[exec[x].tent].status \in EmDia
    BY <2>2, DeUm DEF Remete, Enviando, Tipo, TipoDe
  <2>4. exec[p].tent # exec[q].tent
    BY <2>2, <2>3 DEF IInv
  <2>5. QED
    BY <2>3, <2>4 DEF IInv, Tabelas, CienciaUnica
<1>2. QED
  BY <1>1, SpecIInv, PTL

\* A worker that is about to create or send a Ciencia was authorised to at some time after it had
\* read the earlier events.
THEOREM EnvioSempreAutorizado == Spec => []EnvioAutorizado
<1>1. IInv => EnvioAutorizado
  <2> SUFFICES ASSUME IInv, NEW w \in Trabalhadores, exec[w].pc \in {"criar", "enviar"} PROVE exec[w].autorizada
    BY DEF EnvioAutorizado
  <2>2. w \in Processos
    BY DEF Processos
  <2>3. QED
    BY <2>2, DeUm DEF Autorizado
<1>2. QED
  BY <1>1, SpecIInv, PTL

=============================================================================
