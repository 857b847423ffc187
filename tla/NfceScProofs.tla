---------------------------- MODULE NfceScProofs ----------------------------
(***************************************************************************)
(* What NfceSc guarantees for any number of processes, requests, filters,  *)
(* intervals and NSUs.                                                     *)
(***************************************************************************)
EXTENDS NfceSc, FiniteSetTheorems, TLAPS

\* Every NSU up to k is stored or was passed over.
Coberto(k) == \A n \in 1..k : n \in persistidos \union vazios

\* Every NSU of the interval up to k was stored again or passed over.
Revisto(inicial, k) == \A n \in 1..k : n >= inicial => n \in revistos \union vazios

LinhaOK ==
  /\ ~Existe => linha.repStatus = "nenhum" /\ linha.ultimoNsuConsultado = 0
  /\ Existe => linha.indAtor \in Filtros
  /\ ~(linha.status = "processando" /\ linha.repStatus = "processando")
  /\ Coberto(linha.ultimoNsuConsultado)
  /\ Revisto(linha.repIntervalo.inicial, linha.repNsuAtual)

\* What a request decided on an old row relies on: the cursor it will write was reviewed.
PedidoOK(r) ==
  /\ requisicao[r].tipo \in {"consultar", "reprocessar"} => Existe
  /\ requisicao[r].tipo = "reprocessar" =>
       Revisto(requisicao[r].intervalo.inicial, requisicao[r].atual)

ComNsu == {"renovar", "pedir", "persistir", "fechar"}

\* What an execution relies on: the batch it holds has no gap SEF/SC did not declare and what
\* it went past is stored; and, while the row carries its date, the row still says what it
\* read there: the cursor (normal sequence), the interval and what was reviewed of it (review).
ExecucaoOK(p) ==
  LET e == execucao[p] IN
  /\ e.pc # "parada" => Existe
  /\ e.pc \in {"renovar", "pedir"} => e.ator \in Filtros
  /\ e.pc \in {"inicio", "renovar", "pedir"} => e.lote = {} /\ e.resta = {}
  /\ e.pc = "fechar" => e.resta = {}
  /\ e.pc \in {"persistir", "fechar"} =>
       /\ \A m \in e.lote, n \in 1..MaxNsu : e.nsu < n /\ n <= m => n \in e.lote \union vazios
       /\ AGravar(e, e.lote) \ e.resta \subseteq persistidos
       /\ e.tipo = "reprocessamento" => AGravar(e, e.lote) \ e.resta \subseteq revistos
  /\ e.pc \in ComNsu /\ e.lease =>
       IF e.tipo = "normal" THEN e.nsu = linha.ultimoNsuConsultado
       ELSE Revisto(linha.repIntervalo.inicial, e.nsu)

\* The catch of a review takes a lease it was not given, and writes only when nobody's is worth
\* more than its own: it is left out.
Detem(p) == execucao[p].lease /\ execucao[p].pc # "erroFinal"

UmLease ==
  \A p, q \in Processos :
    Detem(p) /\ Detem(q) /\ execucao[p].tipo = execucao[q].tipo => p = q

IInv ==
  /\ TypeOK
  /\ LinhaOK
  /\ \A r \in Requisicoes : PedidoOK(r)
  /\ \A p \in Processos : ExecucaoOK(p)
  /\ UmLease

-----------------------------------------------------------------------------
(* The helpers of the model                                                *)

\* A set of NSUs has a largest one: the intervals from its elements to MaxNsu, ordered by
\* strict inclusion, have a smallest one.
LEMMA MaximoExiste ==
  ASSUME NEW S \in SUBSET (0..MaxNsu), S # {}
  PROVE  \E m \in S : \A k \in S : k <= m
<1> DEFINE B == 0..MaxNsu
           I(m) == m..MaxNsu
           T == {I(m) : m \in S}
<1>1. MaxNsu \in Nat /\ IsFiniteSet(B)
  BY DadosAssumption, FS_Interval
<1>2. FiniteSubsetsOf(B) = SUBSET B
  BY <1>1, FS_FiniteSubsetsOfFinite
<1>3. T \subseteq SUBSET B /\ T # {}
  BY <1>1
<1>4. IsWellFoundedOn(StrictSubsetOrdering(B), SUBSET B)
  BY <1>2, FS_StrictSubsetOrderingWellFounded
<1>5. PICK x \in T : \A y \in T : ~(<<y, x>> \in StrictSubsetOrdering(B))
  <2> HIDE DEF T, B
  <2>1. QED
    BY <1>3, <1>4, WFMin, Zenon
<1>6. PICK m \in S : x = I(m)
  BY <1>5
<1>7. ASSUME NEW k \in S PROVE k <= m
  <2>1. SUFFICES ASSUME ~(k <= m) PROVE FALSE
    OBVIOUS
  <2>2. m < k /\ m \in Nat /\ k \in Nat /\ k <= MaxNsu
    BY <1>1, <2>1
  <2>3. I(k) \subseteq I(m) /\ m \in I(m) /\ m \notin I(k)
    BY <1>1, <2>2
  <2>4. I(k) \in SUBSET B /\ I(m) \in SUBSET B
    BY <1>1, <2>2
  <2>5. <<I(k), I(m)>> \in StrictSubsetOrdering(B)
    <3> HIDE DEF I, B
    <3>1. QED
      BY <2>3, <2>4 DEF StrictSubsetOrdering
  <2>6. I(k) \in T
    OBVIOUS
  <2>7. QED
    BY <1>5, <1>6, <2>5, <2>6
<1>8. QED
  BY <1>7

LEMMA MaximoLema ==
  ASSUME NEW S \in SUBSET (1..MaxNsu), NEW n \in 0..MaxNsu
  PROVE  /\ Maximo(S, n) \in 0..MaxNsu
         /\ Maximo(S, n) \in S \union {n}
         /\ \A k \in S \union {n} : k <= Maximo(S, n)
<1>1. S \union {n} \in SUBSET (0..MaxNsu) /\ S \union {n} # {}
  BY DadosAssumption
<1>2. \E m \in S \union {n} : \A k \in S \union {n} : k <= m
  BY <1>1, MaximoExiste
<1>3. Maximo(S, n) \in S \union {n} /\ \A k \in S \union {n} : k <= Maximo(S, n)
  BY <1>2 DEF Maximo
<1>4. QED
  BY <1>1, <1>3

LEMMA NsusFinitos ==
  ASSUME NEW S \in SUBSET (1..MaxNsu)
  PROVE  IsFiniteSet(S) /\ Cardinality(S) \in Nat
<1>1. IsFiniteSet(1..MaxNsu)
  BY DadosAssumption, FS_Interval
<1>2. QED
  BY <1>1, FS_Subset, FS_CardinalityType

LEMMA ParadaType ==
  /\ Parada \in Execucao /\ Parada.pc = "parada" /\ Parada.lease = FALSE
  /\ \A t \in {"normal", "reprocessamento"}, l \in BOOLEAN, c \in {"inicio", "erro", "excecao"} :
       LET f == [Parada EXCEPT !.pc = c, !.tipo = t, !.lease = l] IN
       /\ f \in Execucao /\ f.pc = c /\ f.tipo = t /\ f.lease = l
       /\ f.lote = {} /\ f.resta = {}
<1>1. 0 \in 0..MaxNsu /\ {} \in SUBSET (1..MaxNsu)
  BY DadosAssumption
<1>2. Parada \in Execucao /\ Parada.pc = "parada" /\ Parada.lease = FALSE
      /\ Parada.lote = {} /\ Parada.resta = {}
  BY <1>1 DEF Parada, Execucao
<1>3. ASSUME NEW t \in {"normal", "reprocessamento"}, NEW l \in BOOLEAN,
             NEW c \in {"inicio", "erro", "excecao"}
      PROVE  LET f == [Parada EXCEPT !.pc = c, !.tipo = t, !.lease = l] IN
             /\ f \in Execucao /\ f.pc = c /\ f.tipo = t /\ f.lease = l
             /\ f.lote = {} /\ f.resta = {}
  BY <1>2 DEF Execucao
<1>4. QED
  BY <1>2, <1>3

LEMMA ComErroType ==
  ASSUME NEW e \in Execucao
  PROVE  /\ ComErro(e) \in Execucao /\ ComErro(e).pc = "erro" /\ ComErro(e).tipo = e.tipo
         /\ ComErro(e).lease = e.lease
<1>1. e.tipo \in {"normal", "reprocessamento"} /\ e.lease \in BOOLEAN
  BY DEF Execucao
<1>2. Parada \in Execucao
  BY ParadaType
<1>3. QED
  BY <1>1, <1>2 DEF ComErro, Execucao

\* What a new date in the row does to the executions.
LEMMA NovoLema ==
  ASSUME NEW E \in [Processos -> Execucao], NEW tipos, NEW p, NEW N, N = Novo(E, tipos, p)
  PROVE  /\ N \in [Processos -> Execucao]
         /\ \A q \in Processos :
              /\ q = p \/ E[q].tipo \notin tipos => N[q] = E[q]
              /\ q # p /\ E[q].tipo \in tipos => N[q] = [E[q] EXCEPT !.lease = FALSE] /\ ~N[q].lease
<1>1. ASSUME NEW e \in Execucao
      PROVE [e EXCEPT !.lease = FALSE] \in Execucao /\ ~[e EXCEPT !.lease = FALSE].lease
  BY DEF Execucao
<1>2. QED
  BY <1>1 DEF Novo

-----------------------------------------------------------------------------
(* How a step changes the executions and the row                           *)

\* The tracked data only grows, and the row does not disappear.
Cresce ==
  /\ persistidos \subseteq persistidos' /\ revistos \subseteq revistos' /\ vazios \subseteq vazios'
  /\ Existe => Existe'

LEMMA CoberturaFica ==
  ASSUME Cresce, NEW k, NEW i
  PROVE  /\ Coberto(k) => \A n \in 1..k : n \in persistidos' \union vazios'
         /\ Revisto(i, k) => \A n \in 1..k : n >= i => n \in revistos' \union vazios'
BY DEF Cresce, Coberto, Revisto

\* The step leaves the execution as it is, or takes its lease away.
FicaOuSolta(p) ==
  execucao'[p] = execucao[p] \/ execucao'[p] = [execucao[p] EXCEPT !.lease = FALSE]

LEMMA ExecucaoFica ==
  ASSUME Cresce, NEW p \in Processos, execucao[p] \in Execucao, ExecucaoOK(p), FicaOuSolta(p),
         execucao'[p].lease /\ execucao[p].tipo = "normal" =>
           linha'.ultimoNsuConsultado = linha.ultimoNsuConsultado,
         execucao'[p].lease /\ execucao[p].tipo # "normal" =>
           linha'.repIntervalo = linha.repIntervalo
  PROVE  ExecucaoOK(p)'
<1> DEFINE e == execucao[p]
           f == execucao'[p]
<1>1. /\ f.pc = e.pc /\ f.tipo = e.tipo /\ f.nsu = e.nsu /\ f.ator = e.ator /\ f.lote = e.lote
      /\ f.resta = e.resta /\ f.final = e.final /\ (f.lease => e.lease)
  BY DEF FicaOuSolta, Execucao
<1>2. AGravar(f, f.lote) = AGravar(e, e.lote)
  BY <1>1 DEF AGravar
<1>3. f.pc # "parada" => Existe'
  BY <1>1 DEF Cresce, ExecucaoOK
<1>4. f.pc \in ComNsu /\ f.lease =>
        IF f.tipo = "normal" THEN f.nsu = linha'.ultimoNsuConsultado
        ELSE \A n \in 1..f.nsu : n >= linha'.repIntervalo.inicial => n \in revistos' \union vazios'
  BY <1>1, CoberturaFica DEF ExecucaoOK
<1>5. f.pc \in {"persistir", "fechar"} =>
       /\ \A m \in f.lote, n \in 1..MaxNsu : f.nsu < n /\ n <= m => n \in f.lote \union vazios'
       /\ AGravar(f, f.lote) \ f.resta \subseteq persistidos'
       /\ f.tipo = "reprocessamento" => AGravar(f, f.lote) \ f.resta \subseteq revistos'
  BY <1>1, <1>2 DEF ExecucaoOK, Cresce
<1>6. /\ f.pc \in {"renovar", "pedir"} => f.ator \in Filtros
      /\ f.pc \in {"inicio", "renovar", "pedir"} => f.lote = {} /\ f.resta = {}
      /\ f.pc = "fechar" => f.resta = {}
  BY <1>1 DEF ExecucaoOK
<1> HIDE DEF e, f
<1>7. QED
  BY <1>3, <1>4, <1>5, <1>6 DEF ExecucaoOK, Revisto, f

\* An execution that stopped, failed or has not read the row yet relies on little.
LEMMA ExecucaoVazia ==
  ASSUME NEW p \in Processos,
         execucao'[p].pc \in {"parada", "inicio", "erro", "excecao", "erroFinal"},
         execucao'[p].pc # "parada" => Existe',
         execucao'[p].pc = "inicio" => execucao'[p].lote = {} /\ execucao'[p].resta = {}
  PROVE  ExecucaoOK(p)'
BY DEF ExecucaoOK, ComNsu

\* A step that writes neither cursor nor interval.
LEMMA LinhaFica ==
  ASSUME TypeOK, LinhaOK, TypeOK', Cresce,
         linha'.ultimoNsuConsultado = linha.ultimoNsuConsultado,
         linha'.repIntervalo = linha.repIntervalo, linha'.repNsuAtual = linha.repNsuAtual,
         ~Existe' => linha'.repStatus = linha.repStatus,
         Existe' => linha'.indAtor \in Filtros,
         ~(linha'.status = "processando" /\ linha'.repStatus = "processando")
  PROVE  LinhaOK'
<1>1. ~Existe' => linha'.repStatus = "nenhum" /\ linha'.ultimoNsuConsultado = 0
  BY DEF LinhaOK, Cresce
<1>2. Coberto(linha.ultimoNsuConsultado)'
  BY CoberturaFica DEF LinhaOK, Coberto
<1>3. Revisto(linha.repIntervalo.inicial, linha.repNsuAtual)'
  BY CoberturaFica DEF LinhaOK, Revisto
<1>4. QED
  BY <1>1, <1>2, <1>3 DEF LinhaOK

LEMMA PedidosFicam ==
  ASSUME Cresce, NEW r \in Requisicoes, PedidoOK(r), requisicao'[r] = requisicao[r]
  PROVE  PedidoOK(r)'
BY CoberturaFica DEF Cresce, PedidoOK, Revisto

\* Nobody takes a lease: at most one still has it.
LEMMA LeaseFica ==
  ASSUME UmLease,
         \A q \in Processos : Detem(q)' => Detem(q) /\ execucao'[q].tipo = execucao[q].tipo
  PROVE  UmLease'
BY DEF UmLease

\* p takes one, and the others of its kind have lost theirs.
LEMMA LeaseDeUm ==
  ASSUME UmLease, NEW p \in Processos,
         \A q \in Processos \ {p} : Detem(q)' => Detem(q) /\ execucao'[q].tipo = execucao[q].tipo,
         \A q \in Processos \ {p} : Detem(q)' => execucao'[q].tipo # execucao'[p].tipo
  PROVE  UmLease'
BY DEF UmLease

-----------------------------------------------------------------------------
(* Steps of one execution that leave the row alone                         *)

LEMMA PassaUma ==
  ASSUME TypeOK, NEW p \in Processos, NEW e \in Execucao, Passa(p, e)
  PROVE  /\ execucao' \in [Processos -> Execucao] /\ execucao'[p] = e
         /\ \A q \in Processos \ {p} : execucao'[q] = execucao[q]
BY DEF TypeOK, Passa

LEMMA PassoSemLinha ==
  ASSUME IInv, NEW p \in Processos, NEW e \in Execucao, Passa(p, e),
         UNCHANGED <<linha, requisicao, publicados>>,
         persistidos' \subseteq 1..MaxNsu, revistos' \subseteq 1..MaxNsu, vazios' \subseteq 1..MaxNsu,
         Cresce, ExecucaoOK(p)',
         e.lease /\ e.pc # "erroFinal" => Detem(p) /\ e.tipo = execucao[p].tipo
  PROVE  IInv'
<1>1. /\ execucao' \in [Processos -> Execucao] /\ execucao'[p] = e
      /\ \A q \in Processos \ {p} : execucao'[q] = execucao[q]
  BY PassaUma DEF IInv
<1>2. TypeOK'
  BY <1>1 DEF IInv, TypeOK
<1>3. LinhaOK'
  BY <1>2, LinhaFica DEF IInv, LinhaOK, Existe
<1>4. \A r \in Requisicoes : PedidoOK(r)'
  BY PedidosFicam DEF IInv
<1>5. \A q \in Processos \ {p} : ExecucaoOK(q)'
  BY <1>1, ExecucaoFica DEF IInv, TypeOK, FicaOuSolta
<1>6. UmLease'
  BY <1>1, LeaseFica DEF IInv, Detem
<1>7. QED
  BY <1>2, <1>3, <1>4, <1>5, <1>6 DEF IInv

LEMMA DadosFicam ==
  ASSUME TypeOK, UNCHANGED <<persistidos, revistos, sef>>, Existe => Existe'
  PROVE  /\ persistidos' \subseteq 1..MaxNsu /\ revistos' \subseteq 1..MaxNsu /\ vazios' \subseteq 1..MaxNsu
         /\ Cresce /\ UNCHANGED publicados
BY DEF TypeOK, sef, Cresce

\* The execution stops, fails or goes to its catch.
LEMMA PassoVazio ==
  ASSUME IInv, NEW p \in Processos, NEW e \in Execucao, Passa(p, e),
         UNCHANGED <<linha, persistidos, revistos, requisicao, sef>>,
         e.pc \in {"parada", "erro", "excecao", "erroFinal"},
         e.pc # "parada" => execucao[p].pc # "parada",
         e.lease /\ e.pc # "erroFinal" => Detem(p) /\ e.tipo = execucao[p].tipo
  PROVE  IInv'
<1>1. execucao'[p] = e
  BY PassaUma DEF IInv
<1>2. e.pc # "parada" => Existe'
  BY DEF IInv, ExecucaoOK, Existe
<1>3. ExecucaoOK(p)'
  BY <1>1, <1>2, ExecucaoVazia
<1>4. QED
  BY <1>3, DadosFicam, PassoSemLinha DEF IInv, Existe

\* It finds its lease gone, or its process restarts.
LEMMA AbandonoIInv ==
  ASSUME IInv, NEW p \in Processos, Passa(p, Parada),
         UNCHANGED <<linha, persistidos, revistos, requisicao, sef>>
  PROVE  IInv'
BY ParadaType, PassoVazio

LEMMA FalharIInv ==
  ASSUME IInv, NEW p \in Processos,
         Falhar(p) \/ FalhaInterna(p) \/ LerAposExcecao(p) \/ Reiniciar(p)
  PROVE  IInv'
<1> DEFINE e == execucao[p]
<1>1. e \in Execucao
  BY DEF IInv, TypeOK
<1>2. e.tipo \in {"normal", "reprocessamento"} /\ e.lease \in BOOLEAN
  BY <1>1 DEF Execucao
<1>3. CASE Falhar(p)
  <2>1. /\ ComErro(e) \in Execucao /\ ComErro(e).pc = "erro" /\ ComErro(e).tipo = e.tipo
        /\ ComErro(e).lease = e.lease
    BY <1>1, ComErroType
  <2>2. /\ Passa(p, ComErro(e)) /\ e.pc \in {"pedir", "persistir"}
        /\ UNCHANGED <<linha, persistidos, revistos, requisicao, sef>>
    BY <1>3 DEF Falhar
  <2>3. QED
    BY <2>1, <2>2, PassoVazio DEF Detem
<1>4. CASE FalhaInterna(p)
  <2> DEFINE f == [Parada EXCEPT !.pc = "excecao", !.tipo = e.tipo]
  <2>1. f \in Execucao /\ f.pc = "excecao" /\ f.lease = FALSE
    <3>1. Parada \in Execucao /\ Parada.lease = FALSE
      BY ParadaType
    <3>2. QED
      BY <1>2, <3>1 DEF Execucao
  <2>2. /\ Passa(p, Parada) \/ Passa(p, f)
        /\ e.pc # "parada" /\ UNCHANGED <<linha, persistidos, revistos, requisicao, sef>>
    BY <1>4 DEF FalhaInterna
  <2> HIDE DEF f
  <2>3. QED
    BY <2>1, <2>2, PassoVazio, AbandonoIInv
<1>5. CASE LerAposExcecao(p)
  <2> DEFINE f == [e EXCEPT !.pc = "erroFinal", !.lease = TRUE]
  <2>1. f \in Execucao /\ f.pc = "erroFinal"
    BY <1>1 DEF Execucao
  <2>2. /\ Passa(p, Parada) \/ Passa(p, f)
        /\ e.pc # "parada" /\ UNCHANGED <<linha, persistidos, revistos, requisicao, sef>>
    BY <1>5 DEF LerAposExcecao
  <2> HIDE DEF f
  <2>3. QED
    BY <2>1, <2>2, PassoVazio, AbandonoIInv
<1>6. CASE Reiniciar(p)
  BY <1>6, AbandonoIInv DEF Reiniciar
<1>7. QED
  BY <1>3, <1>4, <1>5, <1>6

LEMMA LerControleIInv ==
  ASSUME IInv, NEW p \in Processos, LerControle(p)
  PROVE  IInv'
<1> DEFINE e == execucao[p]
           lido == [e EXCEPT !.ator = linha.indAtor]
           f1 == [lido EXCEPT !.pc = "renovar", !.nsu = linha.ultimoNsuConsultado]
           f2 == [lido EXCEPT !.pc = "fechar", !.nsu = linha.repIntervalo.final,
                              !.final = linha.repIntervalo.final, !.cStat = "117"]
           f3 == [lido EXCEPT !.pc = "renovar", !.nsu = linha.repNsuAtual,
                              !.final = linha.repIntervalo.final]
<1>0. TypeOK /\ LinhaOK /\ ExecucaoOK(p) /\ e \in Execucao
  BY DEF IInv, TypeOK
<1>1. /\ e.pc = "inicio" /\ e.lote = {} /\ e.resta = {} /\ Existe /\ linha.indAtor \in Filtros
      /\ UNCHANGED <<linha, persistidos, revistos, requisicao, sef>>
  BY <1>0 DEF LerControle, ExecucaoOK, LinhaOK
<1>2. /\ linha.ultimoNsuConsultado \in 0..MaxNsu /\ linha.repNsuAtual \in 0..MaxNsu
      /\ linha.repIntervalo.final \in 0..MaxNsu
  BY <1>0, DadosAssumption DEF TypeOK, Linha, SemIntervalo
<1>3. /\ linha.indAtor \in Filtros \union {Nula} /\ lido \in Execucao /\ lido.pc = "inicio" /\ lido.lote = {}
      /\ lido.resta = {} /\ lido.ator \in Filtros /\ lido.tipo = e.tipo /\ lido.lease = e.lease
  BY <1>0, <1>1 DEF Execucao
<1>4. /\ f1 \in Execucao /\ f1.pc = "renovar" /\ f1.ator \in Filtros /\ f1.lote = {} /\ f1.resta = {}
      /\ f1.tipo = e.tipo /\ f1.lease = e.lease /\ f1.nsu = linha.ultimoNsuConsultado
  BY <1>2, <1>3 DEF Execucao
<1>5. /\ f2 \in Execucao /\ f2.pc = "fechar" /\ f2.lote = {} /\ f2.resta = {}
      /\ f2.tipo = e.tipo /\ f2.lease = e.lease /\ f2.nsu = linha.repIntervalo.final
  BY <1>2, <1>3 DEF Execucao
<1>6. /\ f3 \in Execucao /\ f3.pc = "renovar" /\ f3.ator \in Filtros /\ f3.lote = {} /\ f3.resta = {}
      /\ f3.tipo = e.tipo /\ f3.lease = e.lease /\ f3.nsu = linha.repNsuAtual
  BY <1>2, <1>3 DEF Execucao
<1>7. \/ Passa(p, Parada)
      \/ Passa(p, f1) /\ e.tipo = "normal"
      \/ Passa(p, f2) /\ e.tipo # "normal" /\ linha.repNsuAtual >= linha.repIntervalo.final
      \/ Passa(p, f3) /\ e.tipo # "normal"
  <2>1. e.tipo \in {"normal", "reprocessamento"}
    BY <1>0 DEF Execucao
  <2>2. CASE ~Reconhece(e)
    BY <2>2 DEF LerControle
  <2>3. CASE Reconhece(e) /\ e.tipo = "normal"
    BY <2>3 DEF LerControle
  <2>4. CASE Reconhece(e) /\ e.tipo = "reprocessamento"
    BY <2>4 DEF LerControle
  <2>5. QED
    BY <2>1, <2>2, <2>3, <2>4
<1>8. /\ Cresce /\ UNCHANGED publicados /\ persistidos' \subseteq 1..MaxNsu
      /\ revistos' \subseteq 1..MaxNsu /\ vazios' \subseteq 1..MaxNsu
  BY <1>0, <1>1, DadosFicam DEF Existe
<1>9. Revisto(linha.repIntervalo.inicial, linha.repNsuAtual)
  BY <1>0 DEF LinhaOK
<1> HIDE DEF lido, f1, f2, f3
<1>10. e.lease => Detem(p)
  BY <1>1 DEF Detem
<1>11. CASE Passa(p, f1) /\ e.tipo = "normal"
  <2>1. execucao'[p] = f1
    BY <1>0, <1>4, <1>11, PassaUma
  <2>2. ExecucaoOK(p)'
    BY <1>1, <1>4, <1>11, <2>1 DEF ExecucaoOK, Existe
  <2>3. QED
    BY <1>1, <1>4, <1>8, <1>10, <1>11, <2>2, PassoSemLinha
<1>12. CASE Passa(p, f2) /\ e.tipo # "normal" /\ linha.repNsuAtual >= linha.repIntervalo.final
  <2>1. execucao'[p] = f2
    BY <1>0, <1>5, <1>12, PassaUma
  <2>2. AGravar(f2, f2.lote) = {}
    BY <1>5 DEF AGravar
  <2>3. \A n \in 1..f2.nsu : n >= linha.repIntervalo.inicial => n \in revistos \union vazios
    BY <1>2, <1>5, <1>9, <1>12 DEF Revisto
  <2>4. ExecucaoOK(p)'
    BY <1>1, <1>5, <1>12, <2>1, <2>2, <2>3 DEF ExecucaoOK, Existe, Revisto, sef
  <2>5. QED
    BY <1>1, <1>5, <1>8, <1>10, <1>12, <2>4, PassoSemLinha
<1>13. CASE Passa(p, f3) /\ e.tipo # "normal"
  <2>1. execucao'[p] = f3
    BY <1>0, <1>6, <1>13, PassaUma
  <2>2. ExecucaoOK(p)'
    BY <1>1, <1>6, <1>9, <1>13, <2>1 DEF ExecucaoOK, Existe, Revisto, sef
  <2>3. QED
    BY <1>1, <1>6, <1>8, <1>10, <1>13, <2>2, PassoSemLinha
<1>14. QED
  BY <1>1, <1>7, <1>11, <1>12, <1>13, AbandonoIInv

LEMMA BaixarLoteIInv ==
  ASSUME IInv, NEW p \in Processos, BaixarLote(p)
  PROVE  IInv'
<1> DEFINE e == execucao[p]
<1>0. TypeOK /\ ExecucaoOK(p) /\ e \in Execucao
  BY DEF IInv, TypeOK
<1>1. /\ e.pc = "pedir" /\ e.ator \in Filtros /\ Existe /\ e.nsu \in 0..MaxNsu /\ e.lease \in BOOLEAN
      /\ UNCHANGED <<linha, persistidos, revistos, requisicao, publicados>>
  BY <1>0 DEF BaixarLote, ExecucaoOK, Execucao
<1>d. PICK D \in Respostas(e) : \E L \in SUBSET D :
       LET lote == Considerados(e, L) IN
       /\ Passa(p, [e EXCEPT !.pc = IF AGravar(e, lote) = {} THEN "fechar" ELSE "persistir",
                             !.lote = lote, !.resta = AGravar(e, lote), !.cStat = "118"])
       /\ vazios' = vazios \union (((e.nsu + 1)..Maximo(D, e.nsu)) \ L)
  BY DEF BaixarLote
<1>l. PICK L \in SUBSET D :
       LET lote == Considerados(e, L) IN
       /\ Passa(p, [e EXCEPT !.pc = IF AGravar(e, lote) = {} THEN "fechar" ELSE "persistir",
                             !.lote = lote, !.resta = AGravar(e, lote), !.cStat = "118"])
       /\ vazios' = vazios \union (((e.nsu + 1)..Maximo(D, e.nsu)) \ L)
  BY <1>d
<1> DEFINE C == Considerados(e, L)
           f == [e EXCEPT !.pc = IF AGravar(e, C) = {} THEN "fechar" ELSE "persistir",
                          !.lote = C, !.resta = AGravar(e, C), !.cStat = "118"]
           V == ((e.nsu + 1)..Maximo(D, e.nsu)) \ L
<1>2. Passa(p, f) /\ vazios' = vazios \union V
  BY <1>l
<1>3. D \subseteq 1..MaxNsu
  BY <1>0, <1>1, <1>d DEF TypeOK, Respostas
<1>4. C \subseteq L /\ \A n \in L : n > e.nsu => n \in C
  BY DEF Considerados
<1> HIDE DEF C
<1>5. AGravar(e, C) \subseteq C
  BY DEF AGravar
<1>6. /\ f \in Execucao /\ f.pc \in {"persistir", "fechar"} /\ f.lote = C /\ f.resta = AGravar(e, C)
      /\ f.nsu = e.nsu /\ f.tipo = e.tipo /\ f.final = e.final /\ f.lease = e.lease
      /\ (f.pc = "fechar" => f.resta = {})
  <2>1. C \in SUBSET (1..MaxNsu) /\ AGravar(e, C) \in SUBSET (1..MaxNsu)
    BY <1>3, <1>4, <1>5
  <2>2. QED
    BY <1>0, <2>1 DEF Execucao
<1>7. AGravar(f, f.lote) = AGravar(e, C)
  BY <1>6 DEF AGravar
<1>8. /\ Maximo(D, e.nsu) \in 0..MaxNsu /\ \A m \in D : m <= Maximo(D, e.nsu)
  BY <1>1, <1>3, MaximoLema
<1>9. V \subseteq 1..MaxNsu
  BY <1>1, <1>8, DadosAssumption
<1>10. \A m \in C, n \in 1..MaxNsu : e.nsu < n /\ n <= m => n \in C \union V
  <2> TAKE m \in C, n \in 1..MaxNsu
  <2> HAVE e.nsu < n /\ n <= m
  <2>1. m <= Maximo(D, e.nsu) /\ m \in Nat
    BY <1>3, <1>4, <1>8
  <2>2. n \in (e.nsu + 1)..Maximo(D, e.nsu)
    BY <1>1, <1>8, <2>1, DadosAssumption
  <2>3. QED
    BY <1>1, <1>4, <2>2
<1> HIDE DEF f, V
<1>11. Cresce /\ vazios' \subseteq 1..MaxNsu /\ persistidos' \subseteq 1..MaxNsu /\ revistos' \subseteq 1..MaxNsu
  BY <1>0, <1>1, <1>2, <1>9 DEF Cresce, TypeOK, Existe
<1>12. execucao'[p] = f
  BY <1>0, <1>2, <1>6, PassaUma
<1>13. \A m \in f.lote, n \in 1..MaxNsu : f.nsu < n /\ n <= m => n \in f.lote \union vazios'
  BY <1>2, <1>6, <1>10
<1>14. f.lease => IF f.tipo = "normal" THEN f.nsu = linha'.ultimoNsuConsultado
                  ELSE \A n \in 1..f.nsu : n >= linha'.repIntervalo.inicial => n \in revistos' \union vazios'
  BY <1>0, <1>1, <1>6, <1>11, CoberturaFica DEF ExecucaoOK, ComNsu
<1>15. ExecucaoOK(p)'
  BY <1>1, <1>6, <1>7, <1>12, <1>13, <1>14 DEF ExecucaoOK, Existe, Revisto
<1>16. QED
  BY <1>1, <1>2, <1>6, <1>11, <1>15, PassoSemLinha DEF Detem

LEMMA BaixarSemLoteIInv ==
  ASSUME IInv, NEW p \in Processos, NEW cStat \in {"117"} \union Erros, BaixarSemLote(p, cStat)
  PROVE  IInv'
<1> DEFINE e == execucao[p]
           f == [e EXCEPT !.pc = "fechar", !.cStat = cStat]
<1>0. TypeOK /\ ExecucaoOK(p) /\ e \in Execucao
  BY DEF IInv, TypeOK
<1>1. /\ e.pc = "pedir" /\ Existe /\ e.lote = {} /\ e.resta = {}
      /\ e.tipo \in {"normal", "reprocessamento"} /\ e.lease \in BOOLEAN
      /\ UNCHANGED <<linha, persistidos, revistos, requisicao, sef>>
  BY <1>0 DEF BaixarSemLote, ExecucaoOK, Execucao
<1>2. Passa(p, f) \/ Passa(p, ComErro(e))
  BY DEF BaixarSemLote
<1>3. CASE Passa(p, ComErro(e))
  <2>1. /\ ComErro(e) \in Execucao /\ ComErro(e).pc = "erro" /\ ComErro(e).tipo = e.tipo
        /\ ComErro(e).lease = e.lease
    BY <1>0, ComErroType
  <2>2. QED
    BY <1>1, <1>3, <2>1, PassoVazio DEF Detem
<1>4. CASE Passa(p, f)
  <2>1. /\ f \in Execucao /\ f.pc = "fechar" /\ f.lote = {} /\ f.resta = {} /\ f.nsu = e.nsu
        /\ f.tipo = e.tipo /\ f.lease = e.lease
    BY <1>0, <1>1 DEF Execucao
  <2> HIDE DEF f
  <2>2. execucao'[p] = f
    BY <1>0, <1>4, <2>1, PassaUma
  <2>3. AGravar(f, f.lote) = {}
    BY <2>1 DEF AGravar
  <2>4. f.lease => IF f.tipo = "normal" THEN f.nsu = linha'.ultimoNsuConsultado
                   ELSE Revisto(linha.repIntervalo.inicial, f.nsu)
    BY <1>0, <1>1, <2>1 DEF ExecucaoOK, ComNsu
  <2>5. ExecucaoOK(p)'
    BY <1>1, <2>1, <2>2, <2>3, <2>4 DEF ExecucaoOK, Existe, Revisto, sef
  <2>6. QED
    BY <1>0, <1>1, <1>4, <2>1, <2>5, DadosFicam, PassoSemLinha DEF Detem, Existe
<1>5. QED
  BY <1>2, <1>3, <1>4

LEMMA PersistirIInv ==
  ASSUME IInv, NEW p \in Processos, Persistir(p)
  PROVE  IInv'
<1> DEFINE e == execucao[p]
<1>0. TypeOK /\ ExecucaoOK(p) /\ e \in Execucao
  BY DEF IInv, TypeOK
<1>1. e.pc = "persistir" /\ Existe /\ UNCHANGED <<linha, requisicao, sef>>
  BY <1>0 DEF Persistir, ExecucaoOK
<1>2. PICK n \in e.resta :
       /\ persistidos' = persistidos \union {n}
       /\ revistos' = IF e.tipo = "reprocessamento" THEN revistos \union {n} ELSE revistos
       /\ Passa(p, IF e.resta # {n} THEN [e EXCEPT !.resta = @ \ {n}]
                   ELSE IF SemAvanco(e) THEN ComErro(e)
                   ELSE [e EXCEPT !.resta = {}, !.pc = "fechar"])
  BY DEF Persistir
<1> DEFINE f == IF e.resta # {n} THEN [e EXCEPT !.resta = @ \ {n}]
                ELSE [e EXCEPT !.resta = {}, !.pc = "fechar"]
<1>3. /\ f \in Execucao /\ f.pc \in {"persistir", "fechar"} /\ f.lote = e.lote /\ f.resta = e.resta \ {n}
      /\ f.nsu = e.nsu /\ f.tipo = e.tipo /\ f.final = e.final /\ f.lease = e.lease
      /\ (f.pc = "fechar" => f.resta = {}) /\ n \in 1..MaxNsu /\ e.lease \in BOOLEAN
  BY <1>0, <1>1 DEF Execucao
<1>4. Passa(p, f) \/ Passa(p, ComErro(e))
  BY <1>2
<1> HIDE DEF f
<1>5. /\ Cresce /\ n \in persistidos' /\ (e.tipo = "reprocessamento" => n \in revistos')
      /\ persistidos' \subseteq 1..MaxNsu /\ revistos' \subseteq 1..MaxNsu /\ vazios' \subseteq 1..MaxNsu
  BY <1>0, <1>1, <1>2, <1>3 DEF Cresce, TypeOK, sef, Existe
<1>6. UNCHANGED <<linha, requisicao, publicados>>
  BY <1>1 DEF sef
<1>7. CASE Passa(p, ComErro(e))
  <2>1. /\ ComErro(e) \in Execucao /\ ComErro(e).pc = "erro" /\ ComErro(e).tipo = e.tipo
        /\ ComErro(e).lease = e.lease
    BY <1>0, ComErroType
  <2>2. execucao'[p] = ComErro(e)
    BY <1>0, <1>7, <2>1, PassaUma
  <2>3. ExecucaoOK(p)'
    BY <1>1, <2>1, <2>2, ExecucaoVazia DEF Existe
  <2>4. QED
    BY <1>1, <1>5, <1>6, <1>7, <2>1, <2>3, PassoSemLinha DEF Detem
<1>8. CASE Passa(p, f)
  <2>1. execucao'[p] = f
    BY <1>0, <1>3, <1>8, PassaUma
  <2>2. AGravar(f, f.lote) = AGravar(e, e.lote)
    BY <1>3 DEF AGravar
  <2>3. /\ \A m \in f.lote, k \in 1..MaxNsu : f.nsu < k /\ k <= m => k \in f.lote \union vazios'
        /\ AGravar(f, f.lote) \ f.resta \subseteq persistidos'
        /\ f.tipo = "reprocessamento" => AGravar(f, f.lote) \ f.resta \subseteq revistos'
    BY <1>0, <1>1, <1>3, <1>5, <2>2 DEF ExecucaoOK, Cresce
  <2>4. f.lease => IF f.tipo = "normal" THEN f.nsu = linha'.ultimoNsuConsultado
                   ELSE \A k \in 1..f.nsu : k >= linha'.repIntervalo.inicial => k \in revistos' \union vazios'
    BY <1>0, <1>1, <1>3, <1>5, CoberturaFica DEF ExecucaoOK, ComNsu
  <2>5. ExecucaoOK(p)'
    BY <1>1, <1>3, <2>1, <2>3, <2>4 DEF ExecucaoOK, Existe, Revisto
  <2>6. QED
    BY <1>1, <1>3, <1>5, <1>6, <1>8, <2>5, PassoSemLinha DEF Detem
<1>9. QED
  BY <1>4, <1>7, <1>8

-----------------------------------------------------------------------------
(* Steps that write a date in the row                                      *)

\* The step leaves the execution as it is, but for a lease of one of these kinds.
Deixa(q, tipos) == FicaOuSolta(q) /\ (execucao'[q].lease => execucao[q].tipo \notin tipos)

LEMMA DeixaLema ==
  ASSUME NEW q \in Processos, execucao[q] \in Execucao, FicaOuSolta(q)
  PROVE  /\ execucao'[q].pc = execucao[q].pc /\ execucao'[q].tipo = execucao[q].tipo
         /\ execucao'[q].lease => execucao[q].lease
         /\ execucao[q].tipo \in {"normal", "reprocessamento"} /\ (Detem(q)' => Detem(q))
BY DEF FicaOuSolta, Execucao, Detem

LEMMA ComDataLema ==
  ASSUME TypeOK, NEW p \in Processos, NEW f \in Execucao, NEW tipos, PassaComData(p, f, tipos)
  PROVE  /\ execucao' \in [Processos -> Execucao] /\ execucao'[p] = f
         /\ \A q \in Processos \ {p} : Deixa(q, tipos)
<1> DEFINE E == [execucao EXCEPT ![p] = f]
<1>1. E \in [Processos -> Execucao] /\ E[p] = f /\ \A q \in Processos \ {p} : E[q] = execucao[q]
  BY DEF TypeOK
<1>2. execucao' = Novo(E, tipos, p)
  BY DEF PassaComData
<1> HIDE DEF E
<1>3. /\ execucao' \in [Processos -> Execucao]
      /\ \A q \in Processos :
           /\ q = p \/ E[q].tipo \notin tipos => execucao'[q] = E[q]
           /\ q # p /\ E[q].tipo \in tipos =>
                execucao'[q] = [E[q] EXCEPT !.lease = FALSE] /\ ~execucao'[q].lease
  BY <1>1, <1>2, NovoLema
<1>4. QED
  BY <1>1, <1>3 DEF Deixa, FicaOuSolta

LEMMA IniciaLema ==
  ASSUME TypeOK, NEW p \in Processos, NEW tipo \in {"normal", "reprocessamento"}, Inicia(p, tipo)
  PROVE  /\ execucao' \in [Processos -> Execucao]
         /\ \A q \in Processos \ {p} : Deixa(q, Datas(tipo))
         /\ \/ Deixa(p, Datas(tipo))
            \/ /\ execucao'[p].pc = "inicio" /\ execucao'[p].tipo = tipo
               /\ execucao'[p].lote = {} /\ execucao'[p].resta = {}
<1> DEFINE E == Novo(execucao, Datas(tipo), Nula)
           f == [Parada EXCEPT !.pc = "inicio", !.tipo = tipo, !.lease = TRUE]
<1>1. execucao \in [Processos -> Execucao]
  BY DEF TypeOK
<1>2. \A q \in Processos : q # Nula
  BY DadosAssumption
<1>3. /\ E \in [Processos -> Execucao]
      /\ \A q \in Processos :
           /\ execucao[q].tipo \notin Datas(tipo) => E[q] = execucao[q]
           /\ execucao[q].tipo \in Datas(tipo) =>
                E[q] = [execucao[q] EXCEPT !.lease = FALSE] /\ ~E[q].lease
  BY <1>1, <1>2, NovoLema
<1>4. f \in Execucao /\ f.pc = "inicio" /\ f.tipo = tipo /\ f.lote = {} /\ f.resta = {}
  <2>1. Parada \in Execucao /\ Parada.lote = {} /\ Parada.resta = {}
    BY ParadaType DEF Parada
  <2>2. QED
    BY <2>1 DEF Execucao
<1>5. execucao' = IF execucao[p].pc = "parada" THEN [E EXCEPT ![p] = f] ELSE E
  BY DEF Inicia
<1> HIDE DEF E, f
<1>6. QED
  BY <1>3, <1>4, <1>5 DEF Deixa, FicaOuSolta

\* p, or the request that starts p, writes a new date of this kind.
LEMMA PassoNaLinha ==
  ASSUME IInv, NEW p \in Processos, NEW tipo \in {"normal", "reprocessamento"},
         TypeOK', LinhaOK', Cresce, \A r \in Requisicoes : PedidoOK(r)',
         tipo = "normal" => linha'.repIntervalo = linha.repIntervalo,
         \A q \in Processos \ {p} : Deixa(q, Datas(tipo)),
         Deixa(p, Datas(tipo)) \/ (ExecucaoOK(p)' /\ (execucao'[p].lease => execucao'[p].tipo = tipo))
  PROVE  IInv'
<1>1. \A q \in Processos : execucao[q] \in Execucao
  BY DEF IInv, TypeOK
<1>2. \A q \in Processos : Deixa(q, Datas(tipo)) =>
        /\ (execucao'[q].lease => execucao[q].tipo # tipo /\ execucao[q].tipo # "normal" /\ tipo = "normal")
        /\ execucao'[q].tipo = execucao[q].tipo /\ (Detem(q)' => Detem(q))
  BY <1>1, DeixaLema DEF Deixa, Datas
<1>3. \A q \in Processos : Deixa(q, Datas(tipo)) => ExecucaoOK(q)'
  BY <1>1, <1>2, ExecucaoFica DEF IInv, Deixa
<1>4. UmLease'
  <2>1. CASE Deixa(p, Datas(tipo))
    BY <1>2, <2>1, LeaseFica DEF IInv
  <2>2. CASE execucao'[p].lease => execucao'[p].tipo = tipo
    <3>1. CASE ~Detem(p)'
      BY <1>2, <3>1 DEF IInv, UmLease
    <3>2. CASE Detem(p)'
      BY <1>2, <2>2, <3>2, LeaseDeUm DEF IInv, Detem
    <3>3. QED
      BY <3>1, <3>2
  <2>3. QED
    BY <2>1, <2>2
<1>5. QED
  BY <1>3, <1>4 DEF IInv

LEMMA PedidosIguais ==
  ASSUME IInv, Cresce, UNCHANGED requisicao
  PROVE  \A r \in Requisicoes : PedidoOK(r)'
BY PedidosFicam DEF IInv

\* Its owner writes the row, and stops or starts on the date just written.
LEMMA EscritaDoTitular ==
  ASSUME IInv, NEW p \in Processos, NEW f \in Execucao, NEW tipo \in {"normal", "reprocessamento"},
         PassaComData(p, f, Datas(tipo)), UNCHANGED <<persistidos, revistos, requisicao, sef>>,
         linha' \in Linha, LinhaOK', Existe => Existe', ExecucaoOK(p)', f.lease => f.tipo = tipo,
         tipo = "normal" => linha'.repIntervalo = linha.repIntervalo
  PROVE  IInv'
<1>1. /\ execucao' \in [Processos -> Execucao] /\ execucao'[p] = f
      /\ \A q \in Processos \ {p} : Deixa(q, Datas(tipo))
  BY ComDataLema DEF IInv
<1>2. TypeOK' /\ Cresce
  BY <1>1 DEF IInv, TypeOK, Cresce, sef
<1>3. QED
  BY <1>1, <1>2, PedidosIguais, PassoNaLinha

\* The same when neither cursor nor interval is written.
LEMMA EscritaSimples ==
  ASSUME IInv, NEW p \in Processos, NEW f \in Execucao, NEW tipo \in {"normal", "reprocessamento"},
         PassaComData(p, f, Datas(tipo)), UNCHANGED <<persistidos, revistos, requisicao, sef>>,
         linha' \in Linha, ExecucaoOK(p)', f.lease => f.tipo = tipo,
         linha'.ultimoNsuConsultado = linha.ultimoNsuConsultado, linha'.indAtor = linha.indAtor,
         linha'.repIntervalo = linha.repIntervalo, linha'.repNsuAtual = linha.repNsuAtual,
         Existe, Existe', ~(linha'.status = "processando" /\ linha'.repStatus = "processando")
  PROVE  IInv'
<1>1. execucao' \in [Processos -> Execucao]
  BY ComDataLema DEF IInv
<1>2. TypeOK' /\ Cresce
  BY <1>1 DEF IInv, TypeOK, Cresce, sef
<1>3. TypeOK /\ LinhaOK /\ linha'.indAtor \in Filtros
  BY DEF IInv, LinhaOK
<1>4. LinhaOK'
  BY <1>2, <1>3, LinhaFica
<1>5. QED
  BY <1>4, EscritaDoTitular

\* An execution that ends, or starts again.
Recomecada(f, tipo) ==
  /\ f \in Execucao /\ f.pc \in {"parada", "inicio"} /\ f.lote = {} /\ f.resta = {}
  /\ f.lease => f.tipo = tipo

LEMMA RecomecadaLema ==
  ASSUME NEW tipo \in {"normal", "reprocessamento"}
  PROVE  /\ Recomecada(Parada, tipo)
         /\ Recomecada([Parada EXCEPT !.pc = "inicio", !.tipo = tipo, !.lease = TRUE], tipo)
<1> DEFINE f == [Parada EXCEPT !.pc = "inicio", !.tipo = tipo, !.lease = TRUE]
<1>1. Parada \in Execucao /\ Parada.lote = {} /\ Parada.resta = {} /\ Parada.pc = "parada" /\ ~Parada.lease
  BY ParadaType DEF Parada
<1>2. f \in Execucao /\ f.pc = "inicio" /\ f.lote = {} /\ f.resta = {} /\ f.tipo = tipo
  BY <1>1 DEF Execucao
<1>3. QED
  BY <1>1, <1>2 DEF Recomecada

\* A titular's row exists, and no other kind is processing on it.
LEMMA TitularLema ==
  ASSUME IInv, NEW p \in Processos, Titular(execucao[p])
  PROVE  /\ Existe /\ execucao[p].lease
         /\ execucao[p].tipo = "normal" => linha.status = "processando" /\ linha.repStatus # "processando"
         /\ execucao[p].tipo # "normal" => linha.status # "processando" /\ linha.repStatus = "processando"
BY DEF IInv, LinhaOK, Titular, Reconhece, Existe, TypeOK, Execucao

LEMMA RenovarLeaseIInv ==
  ASSUME IInv, NEW p \in Processos, RenovarLease(p)
  PROVE  IInv'
<1> DEFINE e == execucao[p]
           f == [e EXCEPT !.pc = "pedir"]
<1>0. TypeOK /\ ExecucaoOK(p) /\ e \in Execucao /\ e.tipo \in {"normal", "reprocessamento"}
  BY DEF IInv, TypeOK, Execucao
<1>1. e.pc = "renovar" /\ UNCHANGED <<persistidos, revistos, requisicao, sef>>
  BY DEF RenovarLease
<1>2. CASE ~Titular(e)
  BY <1>1, <1>2, AbandonoIInv DEF RenovarLease
<1>3. CASE Titular(e)
  <2>1. /\ linha' = [linha EXCEPT !.proximaExecucao = "futura",
                                  !.repLease = IF e.tipo = "normal" THEN @ ELSE "futura"]
        /\ PassaComData(p, f, Datas(e.tipo))
    BY <1>3 DEF RenovarLease
  <2>2. /\ f \in Execucao /\ f.pc = "pedir" /\ f.tipo = e.tipo /\ f.lease = e.lease /\ f.nsu = e.nsu
        /\ f.ator = e.ator /\ f.lote = e.lote /\ f.resta = e.resta
    BY <1>0 DEF Execucao
  <2>3. /\ linha' \in Linha /\ linha'.status = linha.status /\ linha'.repStatus = linha.repStatus
        /\ linha'.ultimoNsuConsultado = linha.ultimoNsuConsultado /\ linha'.indAtor = linha.indAtor
        /\ linha'.repIntervalo = linha.repIntervalo /\ linha'.repNsuAtual = linha.repNsuAtual
    BY <1>0, <2>1 DEF TypeOK, Linha, Prazos
  <2> HIDE DEF f
  <2>4. execucao'[p] = f
    BY <1>0, <2>1, <2>2, ComDataLema
  <2>5. Existe /\ Existe'
    BY <1>0, <1>1, <2>3 DEF ExecucaoOK, Existe
  <2>6. ExecucaoOK(p)'
    BY <1>0, <1>1, <2>2, <2>3, <2>4, <2>5 DEF ExecucaoOK, Revisto, sef, ComNsu
  <2>7. ~(linha'.status = "processando" /\ linha'.repStatus = "processando")
    BY <2>3 DEF IInv, LinhaOK
  <2>8. QED
    BY <1>0, <1>1, <2>1, <2>2, <2>3, <2>5, <2>6, <2>7, EscritaSimples
<1>4. QED
  BY <1>2, <1>3

LEMMA ExecucaoIniciada ==
  ASSUME NEW p \in Processos, Existe', execucao'[p].pc \in {"parada", "inicio"},
         execucao'[p].lote = {} /\ execucao'[p].resta = {}
  PROVE  ExecucaoOK(p)'
BY ExecucaoVazia

\* The batch of the normal sequence that is about to be closed: the cursor it leads to covers
\* as much.
LEMMA LoteFecha ==
  ASSUME TypeOK, LinhaOK, NEW L \in SUBSET (1..MaxNsu), L \subseteq persistidos, NEW M,
         \A m \in L, n \in 1..MaxNsu :
           linha.ultimoNsuConsultado < n /\ n <= m => n \in L \union vazios,
         M = Maximo(L, linha.ultimoNsuConsultado)
  PROVE  M \in 0..MaxNsu /\ M >= linha.ultimoNsuConsultado /\ Coberto(M)
<1> DEFINE k == linha.ultimoNsuConsultado
<1>1. k \in 0..MaxNsu
  BY DEF TypeOK, Linha
<1>2. M \in 0..MaxNsu /\ M \in L \union {k} /\ \A n \in L \union {k} : n <= M
  BY <1>1, MaximoLema
<1>3. M >= k
  BY <1>2
<1>4. Coberto(M)
  <2> SUFFICES ASSUME NEW n \in 1..M PROVE n \in persistidos \union vazios
    BY DEF Coberto
  <2>1. CASE n <= k
    BY <1>1, <2>1 DEF LinhaOK, Coberto
  <2>2. CASE n > k
    <3>1. M \in L /\ n \in 1..MaxNsu /\ n <= M
      BY <1>1, <1>2, <2>2, DadosAssumption
    <3>2. n \in L \union vazios
      BY <2>2, <3>1
    <3>3. QED
      BY <3>2
  <2>3. QED
    BY <1>1, <1>2, <2>1, <2>2
<1>5. QED
  BY <1>2, <1>3, <1>4

\* Of the batch, what the cursor was not past is stored and lies up to the new cursor.
LEMMA LoteConta ==
  ASSUME NEW S \in SUBSET (1..MaxNsu), NEW L \in SUBSET S, NEW k \in 0..MaxNsu, NEW M,
         M = Maximo(L, k)
  PROVE  /\ Cardinality(L) \in Nat
         /\ Cardinality({n \in S : k < n /\ n <= M}) \in Nat
         /\ Cardinality({n \in L : n <= k}) \in Nat
         /\ Cardinality(L) <= Cardinality({n \in S : k < n /\ n <= M}) + Cardinality({n \in L : n <= k})
<1> DEFINE A == {n \in S : k < n /\ n <= M}
           B == {n \in L : n <= k}
<1>1. A \in SUBSET (1..MaxNsu) /\ B \in SUBSET (1..MaxNsu) /\ L \in SUBSET (1..MaxNsu)
  OBVIOUS
<1>2. M \in 0..MaxNsu /\ \A n \in L : n <= M
  BY <1>1, MaximoLema
<1>3. L \subseteq A \union B
  <2> SUFFICES ASSUME NEW n \in L, ~(n <= k) PROVE n \in A
    OBVIOUS
  <2>1. n \in Nat /\ k \in Nat /\ n <= M
    BY <1>1, <1>2
  <2>2. QED
    BY <2>1
<1> HIDE DEF A, B
<1>4. /\ IsFiniteSet(A) /\ Cardinality(A) \in Nat /\ IsFiniteSet(B) /\ Cardinality(B) \in Nat
      /\ IsFiniteSet(L) /\ Cardinality(L) \in Nat
      /\ IsFiniteSet(A \intersect B) /\ Cardinality(A \intersect B) \in Nat
  <2>1. A \intersect B \in SUBSET (1..MaxNsu)
    BY <1>1
  <2>2. QED
    BY <1>1, <2>1, NsusFinitos
<1>5. /\ IsFiniteSet(A \union B)
      /\ Cardinality(A \union B) = Cardinality(A) + Cardinality(B) - Cardinality(A \intersect B)
  BY <1>4, FS_Union
<1>6. Cardinality(L) <= Cardinality(A \union B)
  BY <1>3, <1>5, FS_Subset
<1>7. Cardinality(L) <= Cardinality(A) + Cardinality(B)
  BY <1>4, <1>5, <1>6
<1>8. QED
  BY <1>4, <1>7 DEF A, B

LEMMA FecharLoteIInv ==
  ASSUME IInv, NEW p \in Processos, FecharLote(p)
  PROVE  /\ IInv'
         /\ linha'.ultimoNsuConsultado >= linha.ultimoNsuConsultado
<1> DEFINE e == execucao[p]
           total == linha.totalDocumentosBaixados + Cardinality(e.lote)
           M == Maximo(e.lote, e.nsu)
           t == IF total > MaxNsu THEN MaxNsu + 1 ELSE total
<1>0. TypeOK /\ LinhaOK /\ ExecucaoOK(p) /\ e \in Execucao
  BY DEF IInv, TypeOK
<1>1. e.pc = "fechar" /\ e.tipo = "normal" /\ UNCHANGED <<persistidos, revistos, requisicao, sef>>
  BY DEF FecharLote
<1>2. linha.ultimoNsuConsultado \in 0..MaxNsu
  BY <1>0 DEF TypeOK, Linha
<1>3. CASE ~Titular(e)
  BY <1>1, <1>2, <1>3, AbandonoIInv, DadosAssumption DEF FecharLote
<1>4. CASE Titular(e)
  <2>1. /\ linha' = [linha EXCEPT !.status = Estado(e), !.ultimoNsuConsultado = M,
                                  !.totalDocumentosBaixados = t, !.proximaExecucao = "futura"]
        /\ Segue(p, e, Cheio(e))
    BY <1>4 DEF FecharLote
  <2>2. Existe /\ e.lease /\ linha.repStatus # "processando"
    BY <1>1, <1>4, TitularLema
  <2>3. /\ e.nsu = linha.ultimoNsuConsultado /\ e.lote \subseteq persistidos
        /\ e.lote \in SUBSET (1..MaxNsu) /\ Cardinality(e.lote) \in Nat
        /\ \A m \in e.lote, n \in 1..MaxNsu : e.nsu < n /\ n <= m => n \in e.lote \union vazios
    BY <1>0, <1>1, <2>2, NsusFinitos DEF ExecucaoOK, ComNsu, AGravar, Execucao
  <2>4. M \in 0..MaxNsu /\ M >= linha.ultimoNsuConsultado /\ Coberto(M)
    <3> HIDE DEF e
    <3>1. QED
      BY <1>0, <2>3, LoteFecha
  <2>5. Estado(e) \in Estados \ {"inexistente"}
    BY <1>0 DEF Estado, Estados, Execucao, Erros
  <2>6. t \in 0..MaxNsu + 1
    <3>1. linha.totalDocumentosBaixados \in Nat
      BY <1>0, DadosAssumption DEF TypeOK, Linha
    <3>2. total \in Nat
      BY <2>3, <3>1
    <3> HIDE DEF total
    <3>3. QED
      BY <3>2, DadosAssumption
  <2> HIDE DEF t, M, total
  <2>7. /\ linha' \in Linha /\ linha'.status = Estado(e) /\ linha'.repStatus = linha.repStatus
        /\ linha'.ultimoNsuConsultado = M /\ linha'.indAtor = linha.indAtor
        /\ linha'.totalDocumentosBaixados = t
        /\ linha'.repIntervalo = linha.repIntervalo /\ linha'.repNsuAtual = linha.repNsuAtual
    BY <1>0, <2>1, <2>4, <2>5, <2>6 DEF TypeOK, Linha, Prazos
  <2>8. Existe'
    BY <2>5, <2>7 DEF Existe
  <2>9. LinhaOK'
    <3>1. /\ Coberto(linha.ultimoNsuConsultado)'
          /\ Revisto(linha.repIntervalo.inicial, linha.repNsuAtual)'
      BY <1>0, <1>1, <2>4, <2>7 DEF LinhaOK, Coberto, Revisto, sef
    <3>2. QED
      BY <1>0, <2>2, <2>7, <2>8, <3>1 DEF LinhaOK
  <2> DEFINE f == IF Cheio(e) THEN [Parada EXCEPT !.pc = "inicio", !.tipo = e.tipo, !.lease = TRUE]
                  ELSE Parada
  <2>10. /\ PassaComData(p, f, Datas("normal")) /\ f \in Execucao /\ f.pc \in {"parada", "inicio"}
         /\ f.lote = {} /\ f.resta = {} /\ (f.lease => f.tipo = "normal")
    <3>1. Recomecada(f, e.tipo) /\ PassaComData(p, f, Datas(e.tipo))
      BY <1>0, <1>1, <2>1, RecomecadaLema DEF Segue
    <3> HIDE DEF f
    <3>2. QED
      BY <1>1, <3>1 DEF Recomecada
  <2> HIDE DEF f
  <2>11. execucao'[p] = f
    BY <1>0, <2>10, ComDataLema
  <2>12. ExecucaoOK(p)'
    BY <2>8, <2>10, <2>11, ExecucaoIniciada
  <2>13. IInv'
    BY <1>1, <2>7, <2>8, <2>9, <2>10, <2>12, EscritaDoTitular
  <2>14. QED
    BY <2>4, <2>7, <2>13
<1>5. QED
  BY <1>3, <1>4

\* Whatever a review found, up to the NSU it saves everything was stored again or passed over.
LEMMA AtualRevisto ==
  ASSUME NEW p \in Processos, TypeOK, ExecucaoOK(p), execucao[p].pc = "fechar",
         execucao[p].tipo = "reprocessamento", execucao[p].lease
  PROVE  /\ AtualAposLote(execucao[p]) \in 0..MaxNsu
         /\ Revisto(linha.repIntervalo.inicial, AtualAposLote(execucao[p]))
<1> DEFINE e == execucao[p]
           G == AGravar(e, e.lote)
           A == AtualAposLote(e)
<1>0. e \in Execucao
  BY DEF TypeOK
<1>1. e.nsu \in 0..MaxNsu /\ e.final \in 0..MaxNsu /\ e.lote \subseteq 1..MaxNsu
  BY <1>0 DEF Execucao
<1>2. /\ \A m \in e.lote, n \in 1..MaxNsu : e.nsu < n /\ n <= m => n \in e.lote \union vazios
      /\ G \subseteq revistos /\ Revisto(linha.repIntervalo.inicial, e.nsu)
  BY DEF ExecucaoOK, ComNsu
<1>3. G = {n \in e.lote : n <= e.final}
  BY DEF AGravar
<1>4. G \in SUBSET (1..MaxNsu)
  BY <1>1, <1>3
<1>5. /\ Maximo(G, e.nsu) \in 0..MaxNsu /\ Maximo(G, e.nsu) \in G \union {e.nsu}
  BY <1>1, <1>4, MaximoLema
<1>6. A = IF G # {} /\ G # e.lote THEN e.final ELSE Maximo(G, e.nsu)
  BY DEF AtualAposLote
<1>7. A \in 0..MaxNsu
  BY <1>1, <1>5, <1>6
<1> HIDE DEF A, G, e
<1>8. ASSUME NEW n \in 1..A, n >= linha.repIntervalo.inicial PROVE n \in revistos \union vazios
  <2>1. CASE n <= e.nsu
    <3>1. n \in 1..e.nsu
      BY <1>1, <1>7, <2>1
    <3>2. QED
      BY <1>2, <1>8, <3>1 DEF Revisto
  <2>2. CASE n > e.nsu
    <3>1. n \in 1..MaxNsu /\ n <= A
      BY <1>7, DadosAssumption
    <3>2. PICK m \in e.lote : n <= m /\ n <= e.final
      <4>1. CASE G # {} /\ G # e.lote
        <5>1. PICK m \in e.lote : ~(m <= e.final)
          BY <1>3, <4>1
        <5>2. m \in Int /\ e.final \in Int /\ n \in Int /\ n <= e.final
          BY <1>1, <1>6, <3>1, <4>1
        <5>3. QED
          BY <5>1, <5>2
      <4>2. CASE ~(G # {} /\ G # e.lote)
        <5>1. A \in G \union {e.nsu}
          BY <1>5, <1>6, <4>2
        <5>2. A # e.nsu
          BY <1>1, <2>2, <3>1
        <5>3. A \in e.lote /\ A <= e.final
          BY <1>3, <5>1, <5>2
        <5>4. n <= e.final
          BY <1>1, <1>7, <3>1, <5>3
        <5>5. QED
          BY <3>1, <5>3, <5>4
      <4>3. QED
        BY <4>1, <4>2
    <3>3. n \in e.lote \union vazios
      BY <1>2, <2>2, <3>1, <3>2
    <3>4. QED
      BY <1>2, <1>3, <3>2, <3>3
  <2>3. QED
    BY <1>1, <1>7, <2>1, <2>2
<1>9. Revisto(linha.repIntervalo.inicial, A)
  BY <1>8 DEF Revisto
<1>10. QED
  BY <1>7, <1>9 DEF A, e

LEMMA FecharReprocessamentoIInv ==
  ASSUME IInv, NEW p \in Processos, FecharReprocessamento(p)
  PROVE  IInv'
<1> DEFINE e == execucao[p]
           A == AtualAposLote(e)
<1>0. TypeOK /\ LinhaOK /\ ExecucaoOK(p) /\ e \in Execucao
  BY DEF IInv, TypeOK
<1>1. /\ e.pc = "fechar" /\ e.tipo = "reprocessamento"
      /\ UNCHANGED <<persistidos, revistos, requisicao, sef>>
  BY DEF FecharReprocessamento
<1>2. CASE ~Titular(e)
  BY <1>1, <1>2, AbandonoIInv DEF FecharReprocessamento
<1>3. CASE Titular(e)
  <2>1. /\ linha' = [linha EXCEPT !.repNsuAtual = A, !.proximaExecucao = "futura",
                                  !.repLease = IF Completo(e) THEN "nula" ELSE "futura",
                                  !.repStatus = IF Completo(e) THEN "concluido" ELSE @]
        /\ Segue(p, e, ~Completo(e))
    BY <1>3 DEF FecharReprocessamento
  <2>2. Existe /\ e.lease /\ linha.status # "processando" /\ linha.repStatus = "processando"
    BY <1>1, <1>3, TitularLema
  <2>3. A \in 0..MaxNsu /\ Revisto(linha.repIntervalo.inicial, A)
    BY <1>0, <1>1, <2>2, AtualRevisto
  <2> HIDE DEF A
  <2>4. /\ linha' \in Linha /\ linha'.status = linha.status
        /\ linha'.repStatus \in {"concluido", "processando"}
        /\ linha'.ultimoNsuConsultado = linha.ultimoNsuConsultado /\ linha'.indAtor = linha.indAtor
        /\ linha'.repIntervalo = linha.repIntervalo /\ linha'.repNsuAtual = A
    BY <1>0, <2>1, <2>2, <2>3 DEF TypeOK, Linha, Prazos, EstadosRep
  <2>5. Existe'
    BY <2>2, <2>4 DEF Existe
  <2>6. LinhaOK'
    <3>1. Coberto(linha.ultimoNsuConsultado)' /\ Revisto(linha.repIntervalo.inicial, linha.repNsuAtual)'
      BY <1>0, <1>1, <2>3, <2>4 DEF LinhaOK, Coberto, Revisto, sef
    <3>2. QED
      BY <1>0, <2>2, <2>4, <2>5, <3>1 DEF LinhaOK
  <2> DEFINE f == IF ~Completo(e) THEN [Parada EXCEPT !.pc = "inicio", !.tipo = e.tipo, !.lease = TRUE]
                  ELSE Parada
  <2>7. /\ PassaComData(p, f, Datas(e.tipo)) /\ f \in Execucao /\ f.pc \in {"parada", "inicio"}
        /\ f.lote = {} /\ f.resta = {} /\ (f.lease => f.tipo = e.tipo)
    <3>1. Recomecada(f, e.tipo) /\ PassaComData(p, f, Datas(e.tipo))
      BY <1>1, <2>1, RecomecadaLema DEF Segue
    <3> HIDE DEF f
    <3>2. QED
      BY <3>1 DEF Recomecada
  <2> HIDE DEF f
  <2>8. execucao'[p] = f
    BY <1>0, <2>7, ComDataLema
  <2>9. ExecucaoOK(p)'
    BY <2>5, <2>7, <2>8, ExecucaoIniciada
  <2>10. QED
    BY <1>1, <2>4, <2>5, <2>6, <2>7, <2>9, EscritaDoTitular
<1>4. QED
  BY <1>2, <1>3

LEMMA StopAfterErrorIInv ==
  ASSUME IInv, NEW p \in Processos, StopAfterError(p) \/ StopNsuRecoveryAfterError(p)
  PROVE  IInv'
<1> DEFINE e == execucao[p]
<1>0. TypeOK /\ LinhaOK /\ e \in Execucao /\ e.tipo \in {"normal", "reprocessamento"}
  BY DEF IInv, TypeOK, Execucao
<1>1. UNCHANGED <<persistidos, revistos, requisicao, sef>>
  BY DEF StopAfterError, StopNsuRecoveryAfterError
<1>2. CASE ~Titular(e)
  BY <1>1, <1>2, AbandonoIInv DEF StopAfterError, StopNsuRecoveryAfterError
<1>3. CASE Titular(e)
  <2>1. /\ Segue(p, e, FALSE)
        /\ \/ linha' = [linha EXCEPT !.status = "erro", !.proximaExecucao = "futura"] /\ e.tipo = "normal"
           \/ /\ linha' = [linha EXCEPT !.repStatus = "erro", !.repLease = "nula", !.proximaExecucao = "futura"]
              /\ e.tipo # "normal"
    BY <1>3 DEF StopAfterError, StopNsuRecoveryAfterError
  <2>2. Existe /\ ~(linha.status = "processando" /\ linha.repStatus = "processando")
    BY <1>0, <1>3, TitularLema DEF LinhaOK
  <2>3. /\ linha' \in Linha /\ ~(linha'.status = "processando" /\ linha'.repStatus = "processando")
        /\ linha'.status \in {linha.status, "erro"}
        /\ linha'.ultimoNsuConsultado = linha.ultimoNsuConsultado /\ linha'.indAtor = linha.indAtor
        /\ linha'.repIntervalo = linha.repIntervalo /\ linha'.repNsuAtual = linha.repNsuAtual
    <3>1. /\ linha \in Linha /\ "erro" \in Estados /\ "futura" \in Prazos /\ "nula" \in Prazos
          /\ "erro" \in EstadosRep
      BY <1>0 DEF TypeOK, Prazos, EstadosRep, Estados, Erros
    <3>2. QED
      BY <2>1, <2>2, <3>1 DEF Linha
  <2>4. Existe'
    BY <2>2, <2>3 DEF Existe
  <2>5. /\ PassaComData(p, Parada, Datas(e.tipo)) /\ Parada \in Execucao /\ Parada.pc = "parada"
        /\ Parada.lote = {} /\ Parada.resta = {} /\ ~Parada.lease
    BY <2>1, ParadaType DEF Segue, Parada
  <2>6. execucao'[p] = Parada
    BY <1>0, <2>5, ComDataLema
  <2>7. ExecucaoOK(p)'
    BY <2>4, <2>5, <2>6, ExecucaoIniciada
  <2>8. QED
    BY <1>0, <1>1, <2>2, <2>3, <2>4, <2>5, <2>7, EscritaSimples
<1>4. QED
  BY <1>2, <1>3

LEMMA RetomarIInv ==
  ASSUME IInv, NEW p \in Processos, ResumeExpired(p) \/ ResumeExpiredRecovery(p)
  PROVE  IInv'
<1>0. TypeOK /\ LinhaOK /\ UNCHANGED <<persistidos, revistos, requisicao, sef>>
  BY DEF IInv, ResumeExpired, ResumeExpiredRecovery
<1>1. PICK tipo \in {"normal", "reprocessamento"} :
        /\ Inicia(p, tipo)
        /\ \/ linha' = [linha EXCEPT !.proximaExecucao = "futura"]
           \/ linha' = [linha EXCEPT !.proximaExecucao = "futura", !.repLease = "futura"]
  BY DEF ResumeExpired, ResumeExpiredRecovery
<1>2. /\ linha' \in Linha /\ linha'.status = linha.status /\ linha'.repStatus = linha.repStatus
      /\ linha'.ultimoNsuConsultado = linha.ultimoNsuConsultado /\ linha'.indAtor = linha.indAtor
      /\ linha'.repIntervalo = linha.repIntervalo /\ linha'.repNsuAtual = linha.repNsuAtual
  <2>1. linha \in Linha /\ "futura" \in Prazos
    BY <1>0 DEF TypeOK, Prazos
  <2>2. QED
    BY <1>1, <2>1 DEF Linha
<1>3. Existe /\ Existe'
  BY <1>0, <1>2 DEF ResumeExpired, ResumeExpiredRecovery, Existe, LinhaOK
<1>4. /\ execucao' \in [Processos -> Execucao]
      /\ \A q \in Processos \ {p} : Deixa(q, Datas(tipo))
      /\ \/ Deixa(p, Datas(tipo))
         \/ /\ execucao'[p].pc = "inicio" /\ execucao'[p].tipo = tipo
            /\ execucao'[p].lote = {} /\ execucao'[p].resta = {}
  BY <1>0, <1>1, IniciaLema
<1>5. TypeOK' /\ Cresce
  BY <1>0, <1>2, <1>3, <1>4 DEF TypeOK, Cresce, sef
<1>6. LinhaOK'
  <2>1. linha'.indAtor \in Filtros /\ ~(linha'.status = "processando" /\ linha'.repStatus = "processando")
    BY <1>0, <1>2, <1>3 DEF LinhaOK
  <2>2. QED
    BY <1>0, <1>2, <1>3, <1>5, <2>1, LinhaFica
<1>7. \A r \in Requisicoes : PedidoOK(r)'
  BY <1>0, <1>5, PedidosIguais
<1>8. Deixa(p, Datas(tipo)) \/ (ExecucaoOK(p)' /\ (execucao'[p].lease => execucao'[p].tipo = tipo))
  BY <1>3, <1>4, ExecucaoIniciada
<1>9. QED
  BY <1>2, <1>4, <1>5, <1>6, <1>7, <1>8, PassoNaLinha

-----------------------------------------------------------------------------
(* The requests                                                            *)

LEMMA PedidoMuda ==
  ASSUME TypeOK, NEW r \in Requisicoes, NEW x \in Requisicao, requisicao' = [requisicao EXCEPT ![r] = x]
  PROVE  /\ requisicao' \in [Requisicoes -> Requisicao] /\ requisicao'[r] = x
         /\ \A s \in Requisicoes \ {r} : requisicao'[s] = requisicao[s]
BY DEF TypeOK

\* A request only reads the row, and remembers what it read; or it is given up.
LEMMA LeituraIInv ==
  ASSUME IInv, NEW r \in Requisicoes, NEW x \in Requisicao, requisicao' = [requisicao EXCEPT ![r] = x],
         UNCHANGED <<linha, persistidos, revistos, execucao, sef>>, PedidoOK(r)'
  PROVE  IInv'
<1>1. TypeOK' /\ Cresce
  BY PedidoMuda DEF IInv, TypeOK, Cresce, sef, Existe
<1>2. \A s \in Requisicoes : PedidoOK(s)'
  BY <1>1, PedidoMuda, PedidosFicam DEF IInv
<1>3. LinhaOK'
  BY <1>1, LinhaFica DEF IInv, LinhaOK, Existe
<1>4. \A p \in Processos : ExecucaoOK(p)'
  BY <1>1, ExecucaoFica DEF IInv, TypeOK, FicaOuSolta
<1>5. UmLease'
  BY LeaseFica DEF IInv, Detem
<1>6. QED
  BY <1>1, <1>2, <1>3, <1>4, <1>5 DEF IInv

LEMMA LivreType == Livre \in Requisicao /\ Livre.tipo = "livre"
BY DEF Livre, Requisicao

LEMMA LerIInv ==
  ASSUME IInv, NEW r \in Requisicoes,
         \/ \E ator \in Filtros : LerConfiguracao(r, ator)
         \/ LerRun(r) \/ Desistir(r) \/ \E i \in Intervalos : LerReprocessNsus(r, i)
  PROVE  IInv'
<1>0. TypeOK /\ LinhaOK
  BY DEF IInv
<1>1. ASSUME NEW ator \in Filtros, LerConfiguracao(r, ator) PROVE IInv'
  <2> DEFINE x == [tipo |-> "configurar", ator |-> ator]
  <2>1. x \in Requisicao /\ x.tipo = "configurar"
    BY DEF Requisicao
  <2>2. /\ requisicao' = [requisicao EXCEPT ![r] = x]
        /\ UNCHANGED <<linha, persistidos, revistos, execucao, sef>>
    BY <1>1 DEF LerConfiguracao, Recebe
  <2> HIDE DEF x
  <2>3. requisicao'[r] = x
    BY <1>0, <2>1, <2>2, PedidoMuda
  <2>4. PedidoOK(r)'
    BY <2>1, <2>3 DEF PedidoOK
  <2>5. QED
    BY <2>1, <2>2, <2>4, LeituraIInv
<1>2. CASE LerRun(r)
  <2> DEFINE b == linha.status = "erro_9999"
             x == [tipo |-> "consultar", ignoraData |-> b]
  <2>1. x \in Requisicao /\ x.tipo = "consultar"
    BY DEF Requisicao
  <2>2. /\ requisicao' = [requisicao EXCEPT ![r] = x] /\ Existe
        /\ UNCHANGED <<linha, persistidos, revistos, execucao, sef>>
    BY <1>2 DEF LerRun, Recebe
  <2> HIDE DEF x
  <2>3. requisicao'[r] = x
    BY <1>0, <2>1, <2>2, PedidoMuda
  <2>4. PedidoOK(r)'
    BY <2>1, <2>2, <2>3 DEF PedidoOK, Existe
  <2>5. QED
    BY <2>1, <2>2, <2>4, LeituraIInv
<1>3. ASSUME NEW i \in Intervalos, LerReprocessNsus(r, i) PROVE IInv'
  <2> DEFINE a == IF Retoma(i) THEN linha.repNsuAtual ELSE Anterior(i.inicial)
             x == [tipo |-> "reprocessar", intervalo |-> i, atual |-> a]
  <2>1. i.inicial \in 0..MaxNsu /\ linha.repNsuAtual \in 0..MaxNsu
    BY <1>0, DadosAssumption DEF TypeOK, Linha
  <2>2. a \in 0..MaxNsu /\ Revisto(i.inicial, a)
    <3>1. CASE Retoma(i)
      BY <1>0, <2>1, <3>1 DEF Retoma, LinhaOK
    <3>2. CASE ~Retoma(i)
      <4>1. a = IF i.inicial > 0 THEN i.inicial - 1 ELSE 0
        BY <3>2 DEF Anterior
      <4>2. a \in 0..MaxNsu /\ \A n \in 1..a : ~(n >= i.inicial)
        BY <2>1, <4>1, DadosAssumption
      <4>3. QED
        BY <4>2 DEF Revisto
    <3>3. QED
      BY <3>1, <3>2
  <2>3. /\ requisicao' = [requisicao EXCEPT ![r] = x] /\ Existe
        /\ UNCHANGED <<linha, persistidos, revistos, execucao, sef>>
    BY <1>3 DEF LerReprocessNsus, Recebe
  <2> HIDE DEF a
  <2>4. x \in Requisicao /\ x.tipo = "reprocessar" /\ x.intervalo = i /\ x.atual = a
    BY <2>2 DEF Requisicao
  <2> HIDE DEF x
  <2>5. requisicao'[r] = x
    BY <1>0, <2>3, <2>4, PedidoMuda
  <2>6. PedidoOK(r)'
    BY <2>2, <2>3, <2>4, <2>5 DEF PedidoOK, Existe, Revisto, sef
  <2>7. QED
    BY <2>3, <2>4, <2>6, LeituraIInv
<1>4. CASE Desistir(r)
  <2>1. /\ requisicao' = [requisicao EXCEPT ![r] = Livre]
        /\ UNCHANGED <<linha, persistidos, revistos, execucao, sef>>
    BY <1>4 DEF Desistir, Responde
  <2>2. requisicao'[r] = Livre
    BY <1>0, <2>1, LivreType, PedidoMuda
  <2>3. PedidoOK(r)'
    BY <2>2, LivreType DEF PedidoOK
  <2>4. QED
    BY <2>1, <2>3, LivreType, LeituraIInv
<1>5. QED
  BY <1>1, <1>2, <1>3, <1>4

\* A request writes the row and takes the leases of these kinds away; no execution starts.
LEMMA EscritaSemInicio ==
  ASSUME IInv, NEW r \in Requisicoes, NEW x \in Requisicao, requisicao' = [requisicao EXCEPT ![r] = x],
         UNCHANGED <<persistidos, revistos, sef>>, NEW tipos, execucao' = Novo(execucao, tipos, Nula),
         linha' \in Linha, PedidoOK(r)', Existe', linha'.indAtor \in Filtros,
         linha'.ultimoNsuConsultado = linha.ultimoNsuConsultado,
         linha'.repIntervalo = linha.repIntervalo, linha'.repNsuAtual = linha.repNsuAtual,
         ~(linha'.status = "processando" /\ linha'.repStatus = "processando")
  PROVE  IInv'
<1>0. TypeOK /\ LinhaOK /\ execucao \in [Processos -> Execucao]
  BY DEF IInv, TypeOK
<1>1. execucao' \in [Processos -> Execucao] /\ \A q \in Processos : FicaOuSolta(q)
  BY <1>0, NovoLema DEF FicaOuSolta
<1>2. TypeOK' /\ Cresce
  BY <1>0, <1>1, PedidoMuda DEF TypeOK, Cresce, sef
<1>3. LinhaOK'
  BY <1>0, <1>2, LinhaFica
<1>4. \A s \in Requisicoes : PedidoOK(s)'
  BY <1>0, <1>2, PedidoMuda, PedidosFicam DEF IInv
<1>5. \A p \in Processos : ExecucaoOK(p)'
  BY <1>0, <1>1, <1>2, ExecucaoFica DEF IInv
<1>6. UmLease'
  BY <1>0, <1>1, DeixaLema, LeaseFica DEF IInv
<1>7. QED
  BY <1>2, <1>3, <1>4, <1>5, <1>6 DEF IInv

LEMMA ConfigurarIInv ==
  ASSUME IInv, NEW r \in Requisicoes,
         GravarConfiguracao(r) \/ Pause(r) \/ PausarReprocessamento(r)
  PROVE  IInv'
<1>0. TypeOK /\ LinhaOK /\ requisicao[r] \in Requisicao /\ linha \in Linha
  BY DEF IInv, TypeOK
<1>p. "nula" \in Prazos /\ "ativo" \in Estados /\ "pausado" \in Estados /\ "pausado" \in EstadosRep
  BY DEF Prazos, Estados, EstadosRep
<1>1. CASE GravarConfiguracao(r)
  <2>1. requisicao[r].tipo = "configurar" /\ requisicao[r].ator \in Filtros
    BY <1>0, <1>1 DEF GravarConfiguracao, Requisicao
  <2>2. /\ linha' = [linha EXCEPT !.status = "ativo", !.indAtor = requisicao[r].ator,
                                  !.proximaExecucao = "nula"]
        /\ execucao' = Novo(execucao, {"normal"}, Nula) /\ requisicao' = [requisicao EXCEPT ![r] = Livre]
        /\ UNCHANGED <<persistidos, revistos, sef>>
    BY <1>1 DEF GravarConfiguracao, Responde
  <2>3. /\ linha' \in Linha /\ linha'.status = "ativo" /\ linha'.indAtor \in Filtros
        /\ linha'.ultimoNsuConsultado = linha.ultimoNsuConsultado
        /\ linha'.repIntervalo = linha.repIntervalo /\ linha'.repNsuAtual = linha.repNsuAtual
    BY <1>0, <1>p, <2>1, <2>2 DEF Linha
  <2>4. PedidoOK(r)'
    BY <1>0, <2>2, LivreType, PedidoMuda DEF PedidoOK
  <2>5. QED
    BY <2>2, <2>3, <2>4, LivreType, EscritaSemInicio DEF Existe
<1>2. CASE Pause(r)
  <2> DEFINE x == [tipo |-> "pausar"]
  <2>1. x \in Requisicao /\ x.tipo = "pausar"
    BY DEF Requisicao
  <2>2. /\ linha' = [linha EXCEPT !.status = "pausado", !.proximaExecucao = "nula"]
        /\ execucao' = Novo(execucao, {"normal"}, Nula) /\ requisicao' = [requisicao EXCEPT ![r] = x]
        /\ UNCHANGED <<persistidos, revistos, sef>> /\ linha.indAtor \in Filtros
    BY <1>0, <1>2 DEF Pause, Recebe, LinhaOK
  <2>3. /\ linha' \in Linha /\ linha'.status = "pausado" /\ linha'.indAtor \in Filtros
        /\ linha'.ultimoNsuConsultado = linha.ultimoNsuConsultado
        /\ linha'.repIntervalo = linha.repIntervalo /\ linha'.repNsuAtual = linha.repNsuAtual
    BY <1>0, <1>p, <2>2 DEF Linha
  <2> HIDE DEF x
  <2>4. PedidoOK(r)'
    BY <1>0, <2>1, <2>2, PedidoMuda DEF PedidoOK
  <2>5. QED
    BY <2>1, <2>2, <2>3, <2>4, EscritaSemInicio DEF Existe
<1>3. CASE PausarReprocessamento(r)
  <2>1. requisicao' = [requisicao EXCEPT ![r] = Livre] /\ UNCHANGED <<persistidos, revistos, sef>>
    BY <1>3 DEF PausarReprocessamento, Responde
  <2>2. PedidoOK(r)'
    BY <1>0, <2>1, LivreType, PedidoMuda DEF PedidoOK
  <2>3. CASE linha.repStatus = "processando"
    <3>1. /\ linha' = [linha EXCEPT !.repStatus = "pausado", !.repLease = "nula"]
          /\ execucao' = Novo(execucao, {"reprocessamento"}, Nula)
      BY <1>3, <2>3 DEF PausarReprocessamento
    <3>2. Existe /\ linha.indAtor \in Filtros
      BY <1>0, <2>3 DEF LinhaOK
    <3>3. /\ linha' \in Linha /\ linha'.status = linha.status /\ linha'.repStatus = "pausado"
          /\ linha'.indAtor = linha.indAtor
          /\ linha'.ultimoNsuConsultado = linha.ultimoNsuConsultado
            /\ linha'.repIntervalo = linha.repIntervalo /\ linha'.repNsuAtual = linha.repNsuAtual
      BY <1>0, <1>p, <3>1 DEF Linha
    <3>4. QED
      BY <2>1, <2>2, <3>1, <3>2, <3>3, LivreType, EscritaSemInicio DEF Existe
  <2>4. CASE linha.repStatus # "processando"
    BY <1>3, <2>1, <2>2, <2>4, LivreType, LeituraIInv DEF PausarReprocessamento
  <2>5. QED
    BY <2>3, <2>4
<1>4. QED
  BY <1>1, <1>2, <1>3

\* A request writes a new date and starts an execution of this kind.
LEMMA EscritaComInicio ==
  ASSUME IInv, NEW r \in Requisicoes, NEW p \in Processos, NEW tipo \in {"normal", "reprocessamento"},
         requisicao' = [requisicao EXCEPT ![r] = Livre], Inicia(p, tipo),
         UNCHANGED <<persistidos, revistos, sef>>, linha' \in Linha, LinhaOK', Existe',
         tipo = "normal" => linha'.repIntervalo = linha.repIntervalo
  PROVE  IInv'
<1>0. TypeOK
  BY DEF IInv
<1>1. /\ execucao' \in [Processos -> Execucao]
      /\ \A q \in Processos \ {p} : Deixa(q, Datas(tipo))
      /\ \/ Deixa(p, Datas(tipo))
         \/ /\ execucao'[p].pc = "inicio" /\ execucao'[p].tipo = tipo
            /\ execucao'[p].lote = {} /\ execucao'[p].resta = {}
  BY <1>0, IniciaLema
<1>2. TypeOK' /\ Cresce
  BY <1>0, <1>1, LivreType, PedidoMuda DEF TypeOK, Cresce, sef
<1>3. \A s \in Requisicoes : PedidoOK(s)'
  <2>1. PedidoOK(r)'
    BY <1>0, LivreType, PedidoMuda DEF PedidoOK
  <2>2. \A s \in Requisicoes \ {r} : PedidoOK(s)'
    BY <1>0, <1>2, LivreType, PedidoMuda, PedidosFicam DEF IInv
  <2>3. QED
    BY <2>1, <2>2
<1>4. Deixa(p, Datas(tipo)) \/ (ExecucaoOK(p)' /\ (execucao'[p].lease => execucao'[p].tipo = tipo))
  BY <1>1, ExecucaoIniciada
<1>5. QED
  BY <1>1, <1>2, <1>3, <1>4, PassoNaLinha

LEMMA RunIInv ==
  ASSUME IInv, NEW r \in Requisicoes, NEW p \in Processos, Run(r, p) \/ ReprocessNsus(r, p)
  PROVE  IInv'
<1>0. TypeOK /\ LinhaOK /\ requisicao[r] \in Requisicao /\ linha \in Linha /\ PedidoOK(r)
  BY DEF IInv, TypeOK
<1>1. /\ requisicao' = [requisicao EXCEPT ![r] = Livre] /\ UNCHANGED <<persistidos, revistos, sef>>
      /\ Existe /\ linha.indAtor \in Filtros
  BY <1>0 DEF Run, ReprocessNsus, Responde, PedidoOK, LinhaOK
<1>2. PedidoOK(r)'
  BY <1>0, <1>1, LivreType, PedidoMuda DEF PedidoOK
<1>3. CASE UNCHANGED <<linha, execucao>>
  BY <1>1, <1>2, <1>3, LivreType, LeituraIInv
<1>4. ASSUME Run(r, p), ~UNCHANGED <<linha, execucao>> PROVE IInv'
  <2>1. /\ linha' = [linha EXCEPT !.status = "processando", !.proximaExecucao = "futura"]
        /\ Inicia(p, "normal") /\ ~Ocupada
    BY <1>4 DEF Run
  <2>2. /\ linha' \in Linha /\ linha'.status = "processando" /\ linha'.indAtor = linha.indAtor
        /\ linha'.repStatus = linha.repStatus /\ linha.repStatus # "processando"
        /\ linha'.ultimoNsuConsultado = linha.ultimoNsuConsultado
        /\ linha'.repIntervalo = linha.repIntervalo /\ linha'.repNsuAtual = linha.repNsuAtual
    <3>1. "processando" \in Estados /\ "futura" \in Prazos
      BY DEF Estados, Prazos
    <3>2. QED
      BY <1>0, <2>1, <3>1 DEF Linha, Ocupada
  <2>3. LinhaOK'
    <3>1. Coberto(linha.ultimoNsuConsultado)' /\ Revisto(linha.repIntervalo.inicial, linha.repNsuAtual)'
      BY <1>0, <1>1, <2>2 DEF LinhaOK, Coberto, Revisto, sef
    <3>2. QED
      BY <1>1, <2>2, <3>1 DEF LinhaOK, Existe
  <2>4. QED
    BY <1>1, <2>1, <2>2, <2>3, EscritaComInicio DEF Existe
<1>5. ASSUME ReprocessNsus(r, p), ~UNCHANGED <<linha, execucao>> PROVE IInv'
  <2> DEFINE i == requisicao[r].intervalo
             a == requisicao[r].atual
  <2>1. /\ linha' = [linha EXCEPT !.repStatus = "processando", !.repIntervalo = i,
                                  !.repNsuAtual = a, !.repLease = "futura", !.proximaExecucao = "futura"]
        /\ Inicia(p, "reprocessamento") /\ ~Ocupada /\ requisicao[r].tipo = "reprocessar"
    BY <1>5 DEF ReprocessNsus
  <2>2. i \in Intervalos /\ a \in 0..MaxNsu /\ Revisto(i.inicial, a)
    BY <1>0, <2>1 DEF Requisicao, PedidoOK
  <2> HIDE DEF i, a
  <2>3. /\ linha' \in Linha /\ linha'.status = linha.status /\ linha'.indAtor = linha.indAtor
        /\ linha'.repStatus = "processando" /\ linha.status # "processando"
        /\ linha'.ultimoNsuConsultado = linha.ultimoNsuConsultado
        /\ linha'.repIntervalo = i /\ linha'.repNsuAtual = a
    <3>1. "processando" \in EstadosRep /\ "futura" \in Prazos
      BY DEF EstadosRep, Prazos
    <3>2. QED
      BY <1>0, <2>1, <2>2, <3>1 DEF Linha, Ocupada
  <2>4. LinhaOK'
    <3>1. Coberto(linha.ultimoNsuConsultado)' /\ Revisto(linha.repIntervalo.inicial, linha.repNsuAtual)'
      BY <1>0, <1>1, <2>2, <2>3 DEF LinhaOK, Coberto, Revisto, sef
    <3>2. QED
      BY <1>1, <2>3, <3>1 DEF LinhaOK, Existe
  <2>5. QED
    BY <1>1, <2>1, <2>3, <2>4, EscritaComInicio DEF Existe
<1>6. QED
  BY <1>3, <1>4, <1>5

-----------------------------------------------------------------------------
(* The environment, and every step                                         *)

LEMMA AmbienteIInv ==
  ASSUME IInv, Ambiente
  PROVE  IInv'
<1>0. TypeOK /\ LinhaOK
  BY DEF IInv
<1>1. CASE Vencer
  <2>1. /\ linha' = [linha EXCEPT !.proximaExecucao = IF @ = "futura" THEN "passada" ELSE @,
                                  !.repLease = IF @ = "futura" THEN "passada" ELSE @]
        /\ UNCHANGED <<persistidos, revistos, execucao, requisicao, sef>>
    BY <1>1 DEF Vencer
  <2>2. /\ linha' \in Linha /\ linha'.status = linha.status /\ linha'.repStatus = linha.repStatus
        /\ linha'.ultimoNsuConsultado = linha.ultimoNsuConsultado /\ linha'.indAtor = linha.indAtor
        /\ linha'.repIntervalo = linha.repIntervalo /\ linha'.repNsuAtual = linha.repNsuAtual
    BY <1>0, <2>1 DEF TypeOK, Linha, Prazos
  <2>3. TypeOK' /\ Cresce
    BY <1>0, <2>1, <2>2 DEF TypeOK, Cresce, Existe, sef
  <2>4. LinhaOK'
    BY <1>0, <2>2, <2>3, LinhaFica DEF LinhaOK, Existe
  <2>5. \A r \in Requisicoes : PedidoOK(r)'
    BY <2>1, <2>3, PedidosFicam DEF IInv
  <2>6. \A p \in Processos : ExecucaoOK(p)'
    BY <2>1, <2>2, <2>3, ExecucaoFica DEF IInv, TypeOK, FicaOuSolta
  <2>7. UmLease'
    BY <2>1, LeaseFica DEF IInv, Detem
  <2>8. QED
    BY <2>3, <2>4, <2>5, <2>6, <2>7 DEF IInv
<1>2. ASSUME NEW p \in Processos, Reiniciar(p) PROVE IInv'
  BY <1>2, FalharIInv
<1>3. ASSUME NEW F \in (SUBSET Filtros) \ {{}}, NEW n \in 1..MaxNsu, Publicar(F, n) PROVE IInv'
  <2>1. UNCHANGED <<linha, persistidos, revistos, execucao, requisicao, vazios>>
    BY <1>3 DEF Publicar
  <2>2. publicados' \in [Filtros -> SUBSET (1..MaxNsu)]
    BY <1>0, <1>3 DEF Publicar, TypeOK
  <2>3. TypeOK' /\ Cresce
    BY <1>0, <2>1, <2>2 DEF TypeOK, Cresce, Existe
  <2>4. LinhaOK'
    BY <1>0, <2>1, <2>3, LinhaFica DEF LinhaOK, Existe
  <2>5. \A r \in Requisicoes : PedidoOK(r)'
    BY <2>1, <2>3, PedidosFicam DEF IInv
  <2>6. \A p \in Processos : ExecucaoOK(p)'
    BY <2>1, <2>3, ExecucaoFica DEF IInv, TypeOK, FicaOuSolta
  <2>7. UmLease'
    BY <2>1, LeaseFica DEF IInv, Detem
  <2>8. QED
    BY <2>3, <2>4, <2>5, <2>6, <2>7 DEF IInv
<1>4. QED
  BY <1>1, <1>2, <1>3 DEF Ambiente

LEMMA TrabalharIInv ==
  ASSUME IInv, NEW p \in Processos, Trabalhar(p)
  PROVE  IInv'
<1>1. CASE LerControle(p)
  BY <1>1, LerControleIInv
<1>2. CASE RenovarLease(p)
  BY <1>2, RenovarLeaseIInv
<1>3. CASE BaixarLote(p)
  BY <1>3, BaixarLoteIInv
<1>4. ASSUME NEW cStat \in {"117"} \union Erros, BaixarSemLote(p, cStat) PROVE IInv'
  BY <1>4, BaixarSemLoteIInv
<1>5. CASE Falhar(p) \/ FalhaInterna(p) \/ LerAposExcecao(p)
  BY <1>5, FalharIInv
<1>6. CASE Persistir(p)
  BY <1>6, PersistirIInv
<1>7. CASE FecharLote(p)
  BY <1>7, FecharLoteIInv
<1>8. CASE FecharReprocessamento(p)
  BY <1>8, FecharReprocessamentoIInv
<1>9. CASE StopAfterError(p) \/ StopNsuRecoveryAfterError(p)
  BY <1>9, StopAfterErrorIInv
<1>10. QED
  BY <1>1, <1>2, <1>3, <1>4, <1>5, <1>6, <1>7, <1>8, <1>9 DEF Trabalhar

LEMMA OperarIInv ==
  ASSUME IInv, NEW r \in Requisicoes, Operar(r)
  PROVE  IInv'
BY LerIInv, ConfigurarIInv, RunIInv DEF Operar

LEMMA InitIInv == Init => IInv
<1> SUFFICES ASSUME Init PROVE IInv
  OBVIOUS
<1>1. MaxNsu \in Nat /\ 0 \in 0..MaxNsu /\ 0 \in 0..MaxNsu + 1
  BY DadosAssumption
<1>2. linha \in Linha
  BY <1>1 DEF Init, Linha, Estados, Prazos, EstadosRep, SemIntervalo
<1>3. execucao \in [Processos -> Execucao] /\ \A p \in Processos : execucao[p] = Parada
  BY ParadaType DEF Init
<1>4. requisicao \in [Requisicoes -> Requisicao] /\ \A r \in Requisicoes : requisicao[r] = Livre
  BY LivreType DEF Init
<1>5. TypeOK
  BY <1>2, <1>3, <1>4 DEF Init, TypeOK
<1>6. LinhaOK
  BY DEF Init, LinhaOK, Existe, Coberto, Revisto
<1>7. \A r \in Requisicoes : PedidoOK(r)
  BY <1>4, LivreType DEF PedidoOK
<1>8. \A p \in Processos : ExecucaoOK(p)
  BY <1>3, ParadaType DEF ExecucaoOK, ComNsu
<1>9. UmLease
  BY <1>3, ParadaType DEF UmLease, Detem
<1>10. QED
  BY <1>5, <1>6, <1>7, <1>8, <1>9 DEF IInv

LEMMA NextIInv == IInv /\ [Next]_vars => IInv'
<1> SUFFICES ASSUME IInv, [Next]_vars PROVE IInv'
  OBVIOUS
<1>1. ASSUME NEW p \in Processos, Trabalhar(p) \/ ResumeExpired(p) \/ ResumeExpiredRecovery(p)
      PROVE  IInv'
  BY <1>1, TrabalharIInv, RetomarIInv
<1>2. ASSUME NEW r \in Requisicoes, Operar(r) PROVE IInv'
  BY <1>2, OperarIInv
<1>3. CASE Ambiente
  BY <1>3, AmbienteIInv
<1>4. CASE UNCHANGED vars
  <2>1. UNCHANGED <<linha, persistidos, revistos, execucao, requisicao, publicados, vazios>>
    BY <1>4 DEF vars, sef
  <2>2. TypeOK'
    BY <2>1 DEF IInv, TypeOK
  <2>3. LinhaOK'
    BY <2>1 DEF IInv, LinhaOK, Existe, Coberto, Revisto
  <2>4. \A r \in Requisicoes : PedidoOK(r)'
    BY <2>1 DEF IInv, PedidoOK, Existe, Revisto
  <2>5. \A p \in Processos : ExecucaoOK(p)'
    BY <2>1 DEF IInv, ExecucaoOK, Existe, Revisto
  <2>6. UmLease'
    BY <2>1 DEF IInv, UmLease, Detem
  <2>7. QED
    BY <2>2, <2>3, <2>4, <2>5, <2>6 DEF IInv
<1>5. QED
  BY <1>1, <1>2, <1>3, <1>4 DEF Next

LEMMA SpecIInv == Spec => []IInv
BY InitIInv, NextIInv, PTL DEF Spec

-----------------------------------------------------------------------------
(* What every behaviour has                                                *)

\* Every value is of the type the schema and the code give it.
THEOREM TipoCorreto == Spec => []TypeOK
<1>1. IInv => TypeOK
  BY DEF IInv
<1>2. QED
  BY <1>1, SpecIInv, PTL

\* The two kinds of execution exclude each other, and one execution at most owns the row,
\* whatever the processes, the requests, the pauses and the leases that ran out.
THEOREM TitularUnicoSempre == Spec => []TitularUnico
<1>1. IInv => TitularUnico
  <2> SUFFICES ASSUME IInv, NEW p \in Processos, NEW q \in Processos, Dono(p), Dono(q) PROVE p = q
    BY DEF IInv, LinhaOK, TitularUnico
  <2>1. execucao[p].tipo = execucao[q].tipo
    BY TitularLema DEF Dono, IInv, TypeOK, Execucao
  <2>2. Detem(p) /\ Detem(q)
    BY TitularLema DEF Dono, Detem
  <2>3. QED
    BY <2>1, <2>2 DEF IInv, UmLease
<1>2. QED
  BY <1>1, SpecIInv, PTL

\* What lies between the start of the interval under review and the review's cursor was stored
\* again or passed over, also when the review was resumed from a cursor read before.
THEOREM IntervaloRevistoSempre == Spec => []IntervaloRevisto
<1>1. IInv => IntervaloRevisto
  BY DEF IInv, LinhaOK, IntervaloRevisto, Revisto
<1>2. QED
  BY <1>1, SpecIInv, PTL

-----------------------------------------------------------------------------
(* The count                                                               *)

LEMMA SoOLoteConta ==
  ASSUME IInv, Next, linha'.totalDocumentosBaixados # linha.totalDocumentosBaixados
  PROVE  \E p \in Processos : FecharLote(p)
<1>0. linha \in Linha
  BY DEF IInv, TypeOK
<1>1. ASSUME NEW p \in Processos, Trabalhar(p) PROVE FecharLote(p)
  <2>1. CASE \/ LerControle(p) \/ BaixarLote(p) \/ Falhar(p) \/ Persistir(p) \/ FalhaInterna(p)
             \/ LerAposExcecao(p) \/ \E cStat \in {"117"} \union Erros : BaixarSemLote(p, cStat)
    BY <2>1 DEF LerControle, BaixarLote, Falhar, Persistir, FalhaInterna, LerAposExcecao, BaixarSemLote
  <2>2. CASE \/ RenovarLease(p) \/ FecharReprocessamento(p) \/ StopAfterError(p)
             \/ StopNsuRecoveryAfterError(p)
    BY <1>0, <2>2 DEF RenovarLease, FecharReprocessamento, StopAfterError, StopNsuRecoveryAfterError, Linha
  <2>3. QED
    BY <1>1, <2>1, <2>2 DEF Trabalhar
<1>2. ASSUME NEW p \in Processos, ResumeExpired(p) \/ ResumeExpiredRecovery(p) PROVE FALSE
  BY <1>0, <1>2 DEF ResumeExpired, ResumeExpiredRecovery, Linha
<1>3. ASSUME NEW r \in Requisicoes, Operar(r) PROVE FALSE
  BY <1>0, <1>3 DEF Operar, LerConfiguracao, GravarConfiguracao, Pause, PausarReprocessamento, LerRun,
                    LerReprocessNsus, Run, ReprocessNsus, Desistir, Linha
<1>4. CASE Ambiente
  BY <1>0, <1>4 DEF Ambiente, Vencer, Reiniciar, Publicar, Linha
<1>5. QED
  BY <1>1, <1>2, <1>3, <1>4 DEF Next

\* Only the owner's write counts, and of its batch it counts the stored documents it moves the
\* cursor past and those SEF/SC sent again: what a failure, a takeover or a review makes the
\* service ask for a second time adds nothing.
THEOREM ContagemUnicaSempre == Spec => ContagemUnica
<1> DEFINE Conta ==
      \E p \in Processos :
        /\ Dono(p) /\ execucao[p].tipo = "normal"
        /\ linha'.totalDocumentosBaixados - linha.totalDocumentosBaixados
             <= Cardinality({n \in persistidos : /\ linha.ultimoNsuConsultado < n
                                                 /\ n <= linha'.ultimoNsuConsultado})
                + Cardinality(Repetidos(execucao[p]))
<1>1. IInv /\ [Next]_vars =>
        [linha'.totalDocumentosBaixados # linha.totalDocumentosBaixados => Conta]_vars
  <2> SUFFICES ASSUME IInv, Next, linha'.totalDocumentosBaixados # linha.totalDocumentosBaixados
               PROVE  Conta
    OBVIOUS
  <2>1. PICK p \in Processos : FecharLote(p)
    BY SoOLoteConta
  <2> DEFINE e == execucao[p]
             k == linha.ultimoNsuConsultado
             total == linha.totalDocumentosBaixados
             M == Maximo(e.lote, e.nsu)
             c == Cardinality(e.lote)
  <2>2. TypeOK /\ ExecucaoOK(p) /\ e \in Execucao /\ linha \in Linha
    BY DEF IInv, TypeOK
  <2>3. e.pc = "fechar" /\ e.tipo = "normal" /\ Titular(e)
    BY <2>1 DEF FecharLote
  <2>4. /\ linha'.ultimoNsuConsultado = M
        /\ linha'.totalDocumentosBaixados = IF total + c > MaxNsu THEN MaxNsu + 1 ELSE total + c
    BY <2>1, <2>2, <2>3 DEF FecharLote, Linha
  <2>5. /\ e.lease /\ e.nsu = k /\ e.lote \subseteq persistidos /\ e.resta = {}
    BY <2>2, <2>3, TitularLema DEF ExecucaoOK, ComNsu, AGravar
  <2>6. persistidos \in SUBSET (1..MaxNsu) /\ k \in 0..MaxNsu /\ total \in 0..MaxNsu + 1
    BY <2>2 DEF TypeOK, Linha
  <2> DEFINE a == Cardinality({n \in persistidos : k < n /\ n <= M})
             b == Cardinality({n \in e.lote : n <= k})
  <2>7. c \in Nat /\ a \in Nat /\ b \in Nat /\ c <= a + b
    BY <2>5, <2>6, LoteConta
  <2>8. b = Cardinality(Repetidos(e))
    BY <2>5 DEF Repetidos
  <2>9. {n \in persistidos : k < n /\ n <= linha'.ultimoNsuConsultado}
          = {n \in persistidos : k < n /\ n <= M}
    BY <2>4
  <2> DEFINE t == linha'.totalDocumentosBaixados
  <2>10. t - total <= a + b
    <3> HIDE DEF a, b, c
    <3>1. PICK u : u = t
      OBVIOUS
    <3>2. u = IF total + c > MaxNsu THEN MaxNsu + 1 ELSE total + c
      BY <2>4, <3>1
    <3> HIDE DEF t, total
    <3>3. u - total <= a + b
      BY <2>6, <2>7, <3>2, DadosAssumption
    <3>4. QED
      BY <3>1, <3>3
  <2>11. Dono(p)
    BY <2>3 DEF Dono
  <2>12. t - total <= Cardinality({n \in persistidos : k < n /\ n <= linha'.ultimoNsuConsultado})
                       + Cardinality(Repetidos(e))
    BY <2>8, <2>9, <2>10
  <2>13. QED
    BY <2>3, <2>11, <2>12
<1>2. QED
  BY <1>1, SpecIInv, PTL DEF Spec, ContagemUnica

-----------------------------------------------------------------------------
(* The abstract consumer                                                   *)

\* A step either leaves the row alone and stores or passes over NSUs, or leaves those alone; and
\* it is a row that exists whose cursor moves, forward.
PassoLinha ==
  \/ UNCHANGED linha /\ persistidos \subseteq persistidos' /\ vazios \subseteq vazios' /\ Existe
  \/ UNCHANGED <<persistidos, vazios>> /\ (Existe => Existe')
     /\ \/ linha'.ultimoNsuConsultado = linha.ultimoNsuConsultado
        \/ Existe /\ linha'.ultimoNsuConsultado >= linha.ultimoNsuConsultado

LEMMA TrabalharLinha ==
  ASSUME IInv, NEW p \in Processos, Trabalhar(p)
  PROVE  PassoLinha
<1>0. TypeOK /\ ExecucaoOK(p) /\ linha \in Linha
  BY DEF IInv, TypeOK
<1>1. CASE BaixarLote(p) \/ Persistir(p)
  BY <1>0, <1>1 DEF BaixarLote, Persistir, PassoLinha, ExecucaoOK, sef
<1>2. CASE \/ LerControle(p) \/ Falhar(p) \/ FalhaInterna(p) \/ LerAposExcecao(p)
           \/ \E cStat \in {"117"} \union Erros : BaixarSemLote(p, cStat)
  <2>1. UNCHANGED <<linha, persistidos, sef>>
    BY <1>2 DEF LerControle, Falhar, FalhaInterna, LerAposExcecao, BaixarSemLote
  <2>2. QED
    BY <2>1 DEF PassoLinha, sef, Existe
<1>3. CASE RenovarLease(p) \/ FecharReprocessamento(p)
  <2>1. UNCHANGED <<persistidos, sef>>
    BY <1>3 DEF RenovarLease, FecharReprocessamento
  <2>2. linha'.ultimoNsuConsultado = linha.ultimoNsuConsultado /\ linha'.status = linha.status
    BY <1>0, <1>3 DEF RenovarLease, FecharReprocessamento, Linha
  <2>3. QED
    BY <2>1, <2>2 DEF PassoLinha, sef, Existe
<1>4. CASE StopAfterError(p) \/ StopNsuRecoveryAfterError(p)
  <2>1. UNCHANGED <<persistidos, sef>>
    BY <1>4 DEF StopAfterError, StopNsuRecoveryAfterError
  <2>2. linha'.ultimoNsuConsultado = linha.ultimoNsuConsultado /\ linha'.status \in {linha.status, "erro"}
    BY <1>0, <1>4 DEF StopAfterError, StopNsuRecoveryAfterError, Linha
  <2>3. QED
    BY <2>1, <2>2 DEF PassoLinha, sef, Existe
<1>5. CASE FecharLote(p)
  <2>1. UNCHANGED <<persistidos, sef>> /\ linha'.ultimoNsuConsultado >= linha.ultimoNsuConsultado
    BY <1>5, FecharLoteIInv DEF FecharLote
  <2>2. Existe
    BY <1>0, <1>5 DEF ExecucaoOK, FecharLote
  <2>3. Existe'
    <3>1. execucao[p] \in Execucao
      BY <1>0 DEF TypeOK
    <3>2. Estado(execucao[p]) # "inexistente"
      BY <3>1 DEF Estado, Execucao, Erros
    <3>3. linha'.status \in {linha.status, Estado(execucao[p])}
      BY <1>0, <1>5 DEF FecharLote, Linha
    <3>4. QED
      BY <2>2, <3>2, <3>3 DEF Existe
  <2>4. QED
    BY <2>1, <2>2, <2>3 DEF PassoLinha, sef
<1>6. QED
  BY <1>1, <1>2, <1>3, <1>4, <1>5 DEF Trabalhar

LEMMA OutrosLinha ==
  ASSUME IInv,
         \/ \E p \in Processos : ResumeExpired(p) \/ ResumeExpiredRecovery(p)
         \/ \E r \in Requisicoes : Operar(r)
         \/ Ambiente
  PROVE  PassoLinha
<1>0. linha \in Linha
  BY DEF IInv, TypeOK
<1>1. ASSUME NEW p \in Processos, ResumeExpired(p) \/ ResumeExpiredRecovery(p) PROVE PassoLinha
  BY <1>0, <1>1 DEF ResumeExpired, ResumeExpiredRecovery, PassoLinha, Linha, Existe, sef
<1>2. ASSUME NEW r \in Requisicoes, Operar(r) PROVE PassoLinha
  <2>1. UNCHANGED <<persistidos, vazios>>
    BY <1>2 DEF Operar, LerConfiguracao, GravarConfiguracao, Pause, PausarReprocessamento, LerRun,
                LerReprocessNsus, Run, ReprocessNsus, Desistir, sef
  <2>2. linha'.ultimoNsuConsultado = linha.ultimoNsuConsultado
        /\ linha'.status \in {linha.status, "ativo", "pausado", "processando"}
    BY <1>0, <1>2 DEF Operar, LerConfiguracao, GravarConfiguracao, Pause, PausarReprocessamento, LerRun,
                LerReprocessNsus, Run, ReprocessNsus, Desistir, Linha
  <2>3. QED
    BY <2>1, <2>2 DEF PassoLinha, Existe
<1>3. CASE Ambiente
  <2>1. UNCHANGED <<persistidos, vazios>>
    BY <1>3 DEF Ambiente, Vencer, Reiniciar, Publicar, sef
  <2>2. linha'.ultimoNsuConsultado = linha.ultimoNsuConsultado /\ linha'.status = linha.status
    BY <1>0, <1>3 DEF Ambiente, Vencer, Reiniciar, Publicar, Linha
  <2>3. QED
    BY <2>1, <2>2 DEF PassoLinha, Existe
<1>4. QED
  BY <1>1, <1>2, <1>3

LEMMA NextLinha == IInv /\ Next => PassoLinha
BY TrabalharLinha, OutrosLinha DEF Next

\* The saved cursor never moves back, with no bound on how long an execution lasts: whoever
\* takes its lease over leaves it nothing to write with.
THEOREM CursorNaoRegrideSempre == Spec => CursorNaoRegride
<1>1. IInv /\ [Next]_vars => [linha'.ultimoNsuConsultado >= linha.ultimoNsuConsultado]_vars
  <2> SUFFICES ASSUME IInv, Next PROVE linha'.ultimoNsuConsultado >= linha.ultimoNsuConsultado
    OBVIOUS
  <2>1. linha.ultimoNsuConsultado \in Int
    BY DadosAssumption DEF IInv, TypeOK, Linha
  <2>2. QED
    BY <2>1, NextLinha DEF PassoLinha
<1>2. QED
  BY <1>1, SpecIInv, PTL DEF Spec, CursorNaoRegride

Existentes == IF Existe THEN {"controle"} ELSE {}

Cursor == [c \in {"controle"} |-> linha.ultimoNsuConsultado]

Respondidos == [c \in {"controle"} |-> persistidos \union vazios]

\* The normal sequence, with reviews next to it, is an incremental consumer: its cursor rests on
\* answered NSUs only, and no answer is forgotten.
THEOREM ImplementaConsumo == Spec => ConsumoCorreto
<1>1. Init => Consumo!Init
  BY DEF Init, Consumo!Init, Existe
<1>2. IInv /\ IInv' /\ [Next]_vars => [Consumo!Next]_(Consumo!vars)
  <2> SUFFICES ASSUME IInv, IInv', [Next]_vars
               PROVE  Consumo!Next \/ UNCHANGED <<Existentes, Cursor, Respondidos>>
    BY DEF Existentes, Cursor, Respondidos, Consumo!vars
  <2>1. CASE UNCHANGED vars
    BY <2>1 DEF vars, sef, Existentes, Cursor, Respondidos, Existe
  <2>2. CASE UNCHANGED linha /\ persistidos \subseteq persistidos' /\ vazios \subseteq vazios' /\ Existe
    <3> DEFINE S == persistidos' \union vazios'
    <3>1. S \in SUBSET (1..MaxNsu)
      BY DEF IInv, TypeOK
    <3>2. Respondidos' = [Respondidos EXCEPT !["controle"] = @ \union S]
      BY <2>2 DEF Respondidos
    <3>3. UNCHANGED <<Existentes, Cursor>> /\ "controle" \in Existentes
      BY <2>2 DEF Existentes, Cursor, Existe
    <3> HIDE DEF S
    <3>4. Consumo!Responder("controle", S)
      BY <3>2, <3>3 DEF Consumo!Responder, Existentes, Cursor, Respondidos
    <3>5. QED
      BY <3>1, <3>4 DEF Consumo!Next
  <2>3. CASE UNCHANGED <<persistidos, vazios>> /\ Existe /\ Existe'
    <3> DEFINE k == linha'.ultimoNsuConsultado
    <3>1. k \in 0..MaxNsu /\ \A n \in 1..k : n \in persistidos \union vazios
      BY <2>3 DEF IInv, TypeOK, Linha, LinhaOK, Coberto
    <3>2. UNCHANGED <<Existentes, Respondidos>> /\ "controle" \in Existentes
      BY <2>3 DEF Existentes, Respondidos
    <3>3. Cursor' = [Cursor EXCEPT !["controle"] = k]
      BY DEF Cursor
    <3> HIDE DEF k
    <3>4. Consumo!Coberto("controle", k)
      BY <3>1 DEF Consumo!Coberto
    <3>5. Consumo!Mover("controle", k)
      BY <3>2, <3>3, <3>4 DEF Consumo!Mover, Existentes, Cursor, Respondidos
    <3>6. QED
      BY <3>1, <3>5 DEF Consumo!Next
  <2>4. CASE /\ UNCHANGED <<persistidos, vazios>> /\ ~Existe
             /\ linha'.ultimoNsuConsultado = linha.ultimoNsuConsultado
    <3>1. linha.ultimoNsuConsultado = 0
      BY <2>4 DEF IInv, LinhaOK
    <3>2. UNCHANGED <<Cursor, Respondidos>>
      BY <2>4 DEF Cursor, Respondidos
    <3>3. CASE ~Existe'
      BY <2>4, <3>2, <3>3 DEF Existentes
    <3>4. CASE Existe'
      <4>1. "controle" \notin Existentes /\ Existentes' = Existentes \union {"controle"}
        BY <2>4, <3>4 DEF Existentes
      <4>2. Cursor' = [Cursor EXCEPT !["controle"] = 0]
        BY <2>4, <3>1 DEF Cursor
      <4>3. [c \in {"controle"} |-> 1] = [[c \in {"controle"} |-> 1] EXCEPT !["controle"] = 0 + 1]
        OBVIOUS
      <4>4. Consumo!Criar("controle", 0)
        BY <3>2, <4>1, <4>2, <4>3 DEF Consumo!Criar, Existentes, Cursor, Respondidos
      <4>5. 0 \in 0..MaxNsu
        BY DadosAssumption
      <4>6. QED
        BY <4>4, <4>5 DEF Consumo!Next
    <3>5. QED
      BY <3>3, <3>4
  <2>5. QED
    BY <2>1, <2>2, <2>3, <2>4, NextLinha DEF PassoLinha
<1>3. QED
  BY <1>1, <1>2, SpecIInv, PTL DEF Spec, ConsumoCorreto, Consumo!Spec
=============================================================================
