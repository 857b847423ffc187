---------------------------- MODULE NfeScProofs ----------------------------
(***************************************************************************)
(* What NfeSc guarantees for any number of controls, processes, dates,     *)
(* filters and NSUs.                                                       *)
(***************************************************************************)
EXTENDS NfeSc, TLAPS

\* Every NSU of the control up to k was passed over, or is stored and paired.
Rastreado(c, k) ==
  \A n \in 1..k : n \in vazios[c] \/ (n \in rastreados[c] /\ n \in persistidos[c])

\* What an execution relies on: the NSU it works from is accounted for, the batch it holds
\* has no gap SEF/SC did not declare, and the document it pairs is stored.
ExecucaoOK(p, c) ==
  LET e == execucao[p][c] IN
  /\ e.pc # "parada" => status[c] # "inexistente"
  /\ e.pc \in {"renovar", "pedir"} => e.ator \in Filtros
  /\ e.pc \in {"renovar", "pedir", "persistir", "rastrear", "fechar"} => Rastreado(c, e.nsu)
  /\ e.pc \in {"persistir", "rastrear"} =>
       \A m \in e.docs, n \in 1..MaxNsu : e.nsu < n /\ n <= m => n \in e.docs \/ n \in vazios[c]
  /\ e.pc = "rastrear" =>
       \A n \in 1..MaxNsu : Primeiro(e, n) => e.nsu < n /\ n \in persistidos[c]

IInv ==
  /\ TypeOK
  /\ \A c \in Controles : status[c] = "inexistente" \/ indAtor[c] \in Filtros
  /\ \A c \in Controles : Rastreado(c, ultimoNsuConsultado[c])
  /\ \A p \in Processos, c \in Controles : ExecucaoOK(p, c)
  /\ UmTitular

-----------------------------------------------------------------------------
(* How a step changes the executions                                       *)

LEMMA ParadaType ==
  /\ Parada \in Execucao /\ Parada.pc = "parada"
  /\ \A d \in Datas : [Parada EXCEPT !.pc = "inicio", !.lease = d] \in Execucao
<1>1. 0 \in 0..MaxNsu /\ {} \in SUBSET (1..MaxNsu)
  BY DadosAssumption
<1>2. Parada \in Execucao /\ Parada.pc = "parada"
  BY <1>1 DEF Parada, Execucao, Desfechos
<1>3. ASSUME NEW d \in Datas PROVE [Parada EXCEPT !.pc = "inicio", !.lease = d] \in Execucao
  BY <1>2 DEF Execucao
<1>4. QED
  BY <1>2, <1>3

\* A step of one execution on one control leaves the others alone.
LEMMA PassaUma ==
  ASSUME TypeOK, NEW p \in Processos, NEW c \in Controles, NEW e \in Execucao, Passa(p, c, e)
  PROVE  /\ execucao' \in [Processos -> [Controles -> Execucao]]
         /\ execucao'[p][c] = e
         /\ \A q \in Processos, b \in Controles :
              <<q, b>> # <<p, c>> => execucao'[q][b] = execucao[q][b]
BY DEF TypeOK, Passa

\* The tracked data only grows, and no control disappears.
Cresce ==
  \A c \in Controles :
    /\ persistidos[c] \subseteq persistidos'[c] /\ rastreados[c] \subseteq rastreados'[c]
    /\ vazios[c] \subseteq vazios'[c]
    /\ status'[c] = "inexistente" => status[c] = "inexistente"

LEMMA RastreadoFica ==
  ASSUME Cresce, NEW c \in Controles, NEW k, Rastreado(c, k)
  PROVE  Rastreado(c, k)'
BY DEF Cresce, Rastreado

LEMMA ExecucaoFica ==
  ASSUME Cresce, NEW p \in Processos, NEW c \in Controles, ExecucaoOK(p, c),
         execucao'[p][c] = execucao[p][c]
  PROVE  ExecucaoOK(p, c)'
<1> DEFINE e == execucao[p][c]
<1>1. Rastreado(c, e.nsu) => Rastreado(c, e.nsu)'
  BY RastreadoFica
<1>2. QED
  BY <1>1 DEF Cresce, ExecucaoOK, Primeiro, Rastreado

\* An execution that stops relies on nothing.
LEMMA ExecucaoParada ==
  ASSUME NEW p \in Processos, NEW c \in Controles, execucao'[p][c] = Parada
  PROVE  ExecucaoOK(p, c)'
BY ParadaType DEF ExecucaoOK

\* Who holds the row after a step held it before: then there is still one holder at most.
LEMMA TitularFica ==
  ASSUME UmTitular,
         \A p \in Processos, c \in Controles : Dono(p, c)' => Dono(p, c)
  PROVE  UmTitular'
BY DEF UmTitular

-----------------------------------------------------------------------------
(* Steps that touch one execution and no row                               *)

Trabalhando == {"pedir", "persistir", "rastrear", "fechar", "erro"}

LEMMA PassoSemLinha ==
  ASSUME IInv, NEW p \in Processos, NEW c \in Controles, NEW e \in Execucao, Passa(p, c, e),
         UNCHANGED <<linha, configuracao, publicados>>, intervencoes' \in 0..MaxIntervencoes,
         persistidos' \in [Controles -> SUBSET (1..MaxNsu)],
         rastreados' \in [Controles -> SUBSET (1..MaxNsu)],
         vazios' \in [Controles -> SUBSET (1..MaxNsu)],
         Cresce, ExecucaoOK(p, c)',
         e.pc \in Trabalhando =>
           execucao[p][c].pc \in Trabalhando /\ e.lease = execucao[p][c].lease
  PROVE  IInv'
<1>1. /\ execucao' \in [Processos -> [Controles -> Execucao]]
      /\ execucao'[p][c] = e
      /\ \A q \in Processos, b \in Controles :
           <<q, b>> # <<p, c>> => execucao'[q][b] = execucao[q][b]
  BY PassaUma DEF IInv
<1>2. TypeOK'
  BY <1>1 DEF IInv, TypeOK, linha
<1>3. \A q \in Processos, b \in Controles : ExecucaoOK(q, b)'
  BY <1>1, ExecucaoFica DEF IInv
<1>4. \A b \in Controles : Rastreado(b, ultimoNsuConsultado[b])'
  <2> TAKE b \in Controles
  <2>1. Rastreado(b, ultimoNsuConsultado[b]) /\ ultimoNsuConsultado' = ultimoNsuConsultado
    BY DEF IInv, linha
  <2>2. QED
    BY <2>1 DEF Rastreado, Cresce
<1>5. \A q \in Processos, b \in Controles : Dono(q, b)' => Dono(q, b)
  BY <1>1 DEF Dono, Titular, Trabalhando, linha
<1>6. QED
  BY <1>2, <1>3, <1>4, <1>5, TitularFica DEF IInv, linha

LEMMA SemMudanca ==
  ASSUME IInv, UNCHANGED <<linha, dados, sef>>
  PROVE  /\ persistidos' \in [Controles -> SUBSET (1..MaxNsu)]
         /\ rastreados' \in [Controles -> SUBSET (1..MaxNsu)]
         /\ vazios' \in [Controles -> SUBSET (1..MaxNsu)]
         /\ Cresce /\ UNCHANGED publicados
BY DEF IInv, TypeOK, linha, dados, sef, Cresce

LEMMA LerControleIInv ==
  ASSUME IInv, NEW p \in Processos, NEW c \in Controles, LerControle(p, c)
  PROVE  IInv'
<1> DEFINE e == execucao[p][c]
           f == IF Titular(p, c)
                THEN [e EXCEPT !.pc = "renovar", !.nsu = ultimoNsuConsultado[c], !.ator = indAtor[c]]
                ELSE Parada
<1>1. e \in Execucao /\ ExecucaoOK(p, c)
  BY DEF IInv, TypeOK
<1>2. f \in Execucao
  BY <1>1, ParadaType DEF IInv, TypeOK, Execucao
<1>3. Passa(p, c, f) /\ UNCHANGED <<linha, dados, configuracao, sef, intervencoes>>
  BY DEF LerControle
<1>4. execucao'[p][c] = f
  BY <1>2, <1>3, PassaUma DEF IInv
<1>5. ExecucaoOK(p, c)'
  <2>1. CASE ~Titular(p, c)
    BY <1>4, <2>1, ExecucaoParada
  <2>2. CASE Titular(p, c)
    <3>1. /\ execucao'[p][c].pc = "renovar" /\ execucao'[p][c].nsu = ultimoNsuConsultado[c]
          /\ execucao'[p][c].ator = indAtor[c]
      BY <1>1, <1>4, <2>2 DEF Execucao
    <3>2. status[c] = "processando" /\ indAtor[c] \in Filtros
      BY <2>2 DEF Titular, IInv
    <3>3. Rastreado(c, ultimoNsuConsultado[c])'
      BY <1>3, SemMudanca, RastreadoFica DEF IInv, linha, Rastreado, Cresce
    <3>4. QED
      BY <1>3, <3>1, <3>2, <3>3 DEF ExecucaoOK, Rastreado, linha
  <2>3. QED
    BY <2>1, <2>2
<1>6. f.pc \notin Trabalhando
  BY <1>1, ParadaType DEF Trabalhando, Execucao
<1> HIDE DEF e, f
<1>7. QED
  BY <1>2, <1>3, <1>5, <1>6, SemMudanca, PassoSemLinha DEF IInv, TypeOK

\* A step to a state that relies on no more than the one before.
LEMMA PassoMenosIInv ==
  ASSUME IInv, NEW p \in Processos, NEW c \in Controles, NEW f \in Execucao, Passa(p, c, f),
         UNCHANGED <<linha, dados, configuracao, sef>>, intervencoes' \in 0..MaxIntervencoes,
         f.pc \in {"parada", "inicio", "fechar", "erro", "excecao", "erroFinal"},
         f.pc # "parada" => status[c] # "inexistente",
         f.pc = "fechar" => execucao[p][c].pc = "pedir" /\ f.nsu = execucao[p][c].nsu,
         f.pc \in Trabalhando =>
           execucao[p][c].pc \in Trabalhando /\ f.lease = execucao[p][c].lease
  PROVE  IInv'
<1>1. execucao'[p][c] = f
  BY PassaUma DEF IInv
<1>2. ExecucaoOK(p, c)
  BY DEF IInv
<1>3. ExecucaoOK(p, c)'
  <2>1. f.pc = "fechar" => Rastreado(c, f.nsu)
    BY <1>2 DEF ExecucaoOK
  <2>2. f.pc = "fechar" => Rastreado(c, f.nsu)'
    BY <2>1, SemMudanca, RastreadoFica
  <2>3. QED
    BY <1>1, <2>2 DEF ExecucaoOK, linha, Rastreado
<1>4. QED
  BY <1>3, SemMudanca, PassoSemLinha

LEMMA FalharIInv ==
  ASSUME IInv, NEW p \in Processos, NEW c \in Controles,
         \/ Falhar(p, c) \/ ForaDeOrdem(p, c) \/ FalhaInterna(p, c) \/ LerAposExcecao(p, c)
         \/ \E desfecho \in Desfechos : BaixarSemLote(p, c, desfecho)
  PROVE  IInv'
<1> DEFINE e == execucao[p][c]
<1>0. TypeOK /\ ExecucaoOK(p, c)
  BY DEF IInv
<1>1. /\ e \in Execucao /\ (e.pc # "parada" => status[c] # "inexistente")
      /\ proximaExecucao[c] \in Datas \union {Nula} /\ intervencoes \in 0..MaxIntervencoes
  BY <1>0 DEF TypeOK, ExecucaoOK
<1> HIDE DEF e
<1>2. CASE Falhar(p, c) \/ ForaDeOrdem(p, c)
  <2> DEFINE f == [e EXCEPT !.pc = "erro", !.docs = {}]
  <2>1. /\ f \in Execucao /\ f.pc = "erro" /\ f.lease = e.lease
    BY <1>1 DEF Execucao
  <2>2. /\ Passa(p, c, f) /\ e.pc \in {"pedir", "persistir", "rastrear"}
        /\ UNCHANGED <<linha, dados, configuracao, sef, intervencoes>>
    BY <1>2 DEF Falhar, ForaDeOrdem, e
  <2> HIDE DEF f
  <2>3. QED
    BY <1>1, <2>1, <2>2, PassoMenosIInv DEF Trabalhando, e
<1>3. CASE FalhaInterna(p, c)
  <2> DEFINE f == IF e.pc \in {"excecao", "erroFinal"} THEN Parada
                  ELSE [e EXCEPT !.pc = "excecao", !.docs = {}]
  <2>1. f \in Execucao /\ f.pc \in {"parada", "excecao"}
    BY <1>1, ParadaType DEF Execucao
  <2>2. /\ Passa(p, c, f) /\ e.pc # "parada"
        /\ UNCHANGED <<linha, dados, configuracao, sef, intervencoes>>
    BY <1>3 DEF FalhaInterna, e
  <2> HIDE DEF f
  <2>3. QED
    BY <1>1, <2>1, <2>2, PassoMenosIInv DEF Trabalhando, e
<1>4. CASE LerAposExcecao(p, c)
  <2> DEFINE f == IF status[c] = "processando" /\ proximaExecucao[c] # Nula
                  THEN [e EXCEPT !.pc = "erroFinal", !.lease = proximaExecucao[c]]
                  ELSE Parada
  <2>1. f \in Execucao /\ f.pc \in {"parada", "erroFinal"}
    BY <1>1, ParadaType DEF Execucao
  <2>2. /\ Passa(p, c, f) /\ e.pc # "parada"
        /\ UNCHANGED <<linha, dados, configuracao, sef, intervencoes>>
    BY <1>4 DEF LerAposExcecao, e
  <2> HIDE DEF f
  <2>3. QED
    BY <1>1, <2>1, <2>2, PassoMenosIInv DEF Trabalhando, e
<1>5. ASSUME NEW desfecho \in Desfechos, BaixarSemLote(p, c, desfecho) PROVE IInv'
  <2> DEFINE f == [e EXCEPT !.pc = "fechar", !.continua = FALSE, !.desfecho = desfecho]
  <2>1. f \in Execucao /\ f.pc = "fechar" /\ f.lease = e.lease /\ f.nsu = e.nsu
    BY <1>1, <1>5 DEF Execucao
  <2>2. /\ Passa(p, c, f) /\ e.pc = "pedir"
        /\ UNCHANGED <<linha, dados, configuracao, sef, intervencoes>>
    BY <1>5 DEF BaixarSemLote, e
  <2> HIDE DEF f
  <2>3. QED
    BY <1>1, <2>1, <2>2, PassoMenosIInv DEF Trabalhando, e
<1>6. QED
  BY <1>2, <1>3, <1>4, <1>5

LEMMA BaixarLoteIInv ==
  ASSUME IInv, NEW p \in Processos, NEW c \in Controles, BaixarLote(p, c)
  PROVE  IInv'
<1> DEFINE e == execucao[p][c]
<1>0. TypeOK /\ ExecucaoOK(p, c)
  BY DEF IInv
<1>1. e \in Execucao /\ e.pc = "pedir" /\ e.ator \in Filtros /\ Rastreado(c, e.nsu)
      /\ status[c] # "inexistente" /\ e.nsu \in 0..MaxNsu
  BY <1>0 DEF TypeOK, ExecucaoOK, BaixarLote, Execucao
<1>2. PICK D \in Respostas(c, e) :
        /\ Passa(p, c, [e EXCEPT !.pc = "persistir", !.docs = D, !.desfecho = "ativo",
                                 !.continua = Cardinality(D) = BatchSize])
        /\ vazios' = [vazios EXCEPT ![c] = @ \union
             {n \in (e.nsu + 1)..MaxNsu : (\E m \in D : n < m) /\ n \notin publicados[c][e.ator]}]
  BY DEF BaixarLote
<1> DEFINE f == [e EXCEPT !.pc = "persistir", !.docs = D, !.desfecho = "ativo",
                          !.continua = Cardinality(D) = BatchSize]
           S == {n \in (e.nsu + 1)..MaxNsu : (\E m \in D : n < m) /\ n \notin publicados[c][e.ator]}
<1>3. publicados[c][e.ator] \subseteq 1..MaxNsu
  BY <1>0, <1>1 DEF TypeOK
<1>4. D \subseteq publicados[c][e.ator]
      /\ \A n \in publicados[c][e.ator] \ D, m \in D : n <= e.nsu \/ m < n
  BY <1>2 DEF Respostas
<1>5. f \in Execucao /\ f.pc = "persistir" /\ f.docs = D /\ f.nsu = e.nsu /\ f.lease = e.lease
  BY <1>1, <1>3, <1>4 DEF Execucao, Desfechos
<1>6. Passa(p, c, f) /\ UNCHANGED <<linha, dados, configuracao, publicados, intervencoes>>
  BY <1>2 DEF BaixarLote
<1>7. vazios' = [vazios EXCEPT ![c] = @ \union S] /\ S \subseteq 1..MaxNsu
  BY <1>1, <1>2, DadosAssumption
<1>8. \A m \in D, n \in 1..MaxNsu : e.nsu < n /\ n <= m => n \in D \/ n \in S
  BY <1>1, <1>3, <1>4, DadosAssumption
<1> HIDE DEF e, f, S
<1>9. Cresce /\ vazios' \in [Controles -> SUBSET (1..MaxNsu)] /\ S \subseteq vazios'[c]
  BY <1>0, <1>6, <1>7 DEF Cresce, TypeOK, dados, linha
<1>10. ExecucaoOK(p, c)'
  <2>1. execucao'[p][c] = f
    BY <1>0, <1>5, <1>6, PassaUma
  <2>2. \A k : Rastreado(c, k) => Rastreado(c, k)'
    BY <1>9, RastreadoFica
  <2>3. \A m \in f.docs, n \in 1..MaxNsu : f.nsu < n /\ n <= m => n \in f.docs \/ n \in vazios'[c]
    BY <1>5, <1>8, <1>9
  <2>4. status'[c] # "inexistente"
    BY <1>1, <1>6 DEF linha
  <2>5. QED
    BY <1>1, <1>5, <2>1, <2>2, <2>3, <2>4 DEF ExecucaoOK, Rastreado
<1>11. persistidos' \in [Controles -> SUBSET (1..MaxNsu)] /\ rastreados' \in [Controles -> SUBSET (1..MaxNsu)]
       /\ intervencoes' \in 0..MaxIntervencoes
  BY <1>0, <1>6 DEF TypeOK, dados
<1>12. QED
  BY <1>1, <1>5, <1>6, <1>9, <1>10, <1>11, PassoSemLinha DEF Trabalhando, e

LEMMA PersistirIInv ==
  ASSUME IInv, NEW p \in Processos, NEW c \in Controles, Persistir(p, c)
  PROVE  IInv'
<1> DEFINE e == execucao[p][c]
           f == [e EXCEPT !.pc = "rastrear"]
<1>0. TypeOK /\ ExecucaoOK(p, c)
  BY DEF IInv
<1>1. e \in Execucao /\ e.pc = "persistir"
  BY <1>0 DEF TypeOK, Persistir
<1>2. PICK n \in 1..MaxNsu : /\ Primeiro(e, n) /\ n > e.nsu
                            /\ persistidos' = [persistidos EXCEPT ![c] = @ \union {n}]
  BY DEF Persistir
<1>3. f \in Execucao /\ f.pc = "rastrear" /\ f.docs = e.docs /\ f.nsu = e.nsu /\ f.lease = e.lease
  BY <1>1 DEF Execucao
<1>4. Passa(p, c, f) /\ UNCHANGED <<linha, rastreados, configuracao, sef, intervencoes>>
  BY DEF Persistir
<1>5. e.nsu \in 0..MaxNsu /\ e.docs \subseteq 1..MaxNsu
  BY <1>1 DEF Execucao
<1> HIDE DEF f
<1>6. Cresce /\ persistidos' \in [Controles -> SUBSET (1..MaxNsu)] /\ n \in persistidos'[c]
  BY <1>0, <1>2, <1>4 DEF Cresce, TypeOK, sef, linha
<1>7. execucao'[p][c] = f
  BY <1>0, <1>3, <1>4, PassaUma
<1>8. ExecucaoOK(p, c)'
  <2>1. \A k : Rastreado(c, k) => Rastreado(c, k)'
    BY <1>6, RastreadoFica
  <2>2. Rastreado(c, e.nsu)
    BY <1>0, <1>1 DEF ExecucaoOK
  <2>3. \A m \in f.docs, k \in 1..MaxNsu : f.nsu < k /\ k <= m => k \in f.docs \/ k \in vazios'[c]
    BY <1>0, <1>1, <1>3, <1>4 DEF ExecucaoOK, sef
  <2>4. \A k \in 1..MaxNsu : Primeiro(f, k) => k = n
    BY <1>2, <1>3, <1>5 DEF Primeiro
  <2>5. status'[c] # "inexistente"
    BY <1>0, <1>1, <1>4 DEF ExecucaoOK, linha
  <2>6. n > f.nsu
    BY <1>2, <1>3
  <2>7. QED
    BY <1>3, <1>5, <1>6, <1>7, <2>1, <2>2, <2>3, <2>4, <2>5, <2>6 DEF ExecucaoOK, Primeiro, Rastreado
<1>9. rastreados' \in [Controles -> SUBSET (1..MaxNsu)] /\ vazios' \in [Controles -> SUBSET (1..MaxNsu)]
      /\ intervencoes' \in 0..MaxIntervencoes /\ UNCHANGED publicados
  BY <1>0, <1>4 DEF TypeOK, sef
<1>10. QED
  BY <1>1, <1>3, <1>4, <1>6, <1>8, <1>9, PassoSemLinha DEF Trabalhando

LEMMA RastrearIInv ==
  ASSUME IInv, NEW p \in Processos, NEW c \in Controles, Rastrear(p, c)
  PROVE  IInv'
<1> DEFINE e == execucao[p][c]
<1>0. TypeOK /\ ExecucaoOK(p, c)
  BY DEF IInv
<1>1. e \in Execucao /\ e.pc = "rastrear" /\ status[c] # "inexistente" /\ Rastreado(c, e.nsu)
  BY <1>0 DEF TypeOK, Rastrear, ExecucaoOK
<1>2. PICK n \in 1..MaxNsu :
        /\ Primeiro(e, n)
        /\ rastreados' = [rastreados EXCEPT ![c] = @ \union {n}]
        /\ IF Titular(p, c)
           THEN /\ Avanca(c, n)
                /\ Passa(p, c, [e EXCEPT !.pc = IF e.docs = {n} THEN "fechar" ELSE "persistir",
                                         !.nsu = n, !.docs = @ \ {n}])
           ELSE Passa(p, c, Parada) /\ UNCHANGED <<ultimoNsuConsultado, totalDocumentosBaixados>>
  BY DEF Rastrear
<1> DEFINE f == IF Titular(p, c)
                THEN [e EXCEPT !.pc = IF e.docs = {n} THEN "fechar" ELSE "persistir",
                               !.nsu = n, !.docs = @ \ {n}]
                ELSE Parada
<1>3. e.nsu \in 0..MaxNsu /\ e.docs \subseteq 1..MaxNsu /\ e.nsu < n /\ n \in persistidos[c]
  <2>1. e.nsu \in 0..MaxNsu /\ e.docs \subseteq 1..MaxNsu
    BY <1>1 DEF Execucao
  <2>2. e.nsu < n /\ n \in persistidos[c]
    BY <1>0, <1>1, <1>2 DEF ExecucaoOK
  <2>3. QED
    BY <2>1, <2>2
<1>4. f \in Execucao
  <2>1. n \in 0..MaxNsu /\ e.docs \ {n} \in SUBSET (1..MaxNsu)
    BY <1>3
  <2>2. QED
    BY <1>1, <2>1, ParadaType DEF Execucao
<1>5. Titular(p, c) => /\ f.pc \in {"fechar", "persistir"} /\ f.nsu = n /\ f.docs = e.docs \ {n}
                       /\ f.lease = e.lease
  BY <1>1 DEF Execucao
<1>6. ~Titular(p, c) => f = Parada
  OBVIOUS
<1>7. Passa(p, c, f)
  BY <1>2
<1>8. UNCHANGED <<status, indAtor, proximaExecucao, vencida, persistidos, configuracao, sef, intervencoes>>
  BY DEF Rastrear
<1> HIDE DEF f
<1>9. /\ execucao' \in [Processos -> [Controles -> Execucao]] /\ execucao'[p][c] = f
      /\ \A q \in Processos, b \in Controles :
           <<q, b>> # <<p, c>> => execucao'[q][b] = execucao[q][b]
  BY <1>0, <1>4, <1>7, PassaUma
<1>10. Cresce /\ rastreados' \in [Controles -> SUBSET (1..MaxNsu)] /\ n \in rastreados'[c]
  BY <1>0, <1>2, <1>8 DEF TypeOK, Cresce, sef
<1>11. /\ ultimoNsuConsultado' =
            IF Titular(p, c) THEN [ultimoNsuConsultado EXCEPT ![c] = n] ELSE ultimoNsuConsultado
       /\ totalDocumentosBaixados' \in [Controles -> 0..MaxNsu + 1]
  <2>1. CASE ~Titular(p, c)
    BY <1>0, <1>2, <2>1 DEF TypeOK
  <2>2. CASE Titular(p, c)
    <3> DEFINE t == totalDocumentosBaixados[c]
               u == IF t > MaxNsu THEN t ELSE t + 1
    <3>1. t \in 0..MaxNsu + 1 /\ MaxNsu \in Nat
      BY <1>0, DadosAssumption DEF TypeOK
    <3>2. u \in 0..MaxNsu + 1
      BY <3>1
    <3>3. totalDocumentosBaixados' = [totalDocumentosBaixados EXCEPT ![c] = u]
      BY <1>2, <2>2 DEF Avanca
    <3>4. ultimoNsuConsultado' = [ultimoNsuConsultado EXCEPT ![c] = n]
      BY <1>2, <2>2 DEF Avanca
    <3> HIDE DEF u
    <3>5. QED
      BY <1>0, <2>2, <3>2, <3>3, <3>4 DEF TypeOK
  <2>3. QED
    BY <2>1, <2>2
<1>12. TypeOK'
  BY <1>0, <1>8, <1>9, <1>10, <1>11 DEF TypeOK, sef
<1>13. \A b \in Controles : \A k : Rastreado(b, k) => Rastreado(b, k)'
  BY <1>10, RastreadoFica
<1>14. \A k \in 1..n : k \in vazios'[c] \/ (k \in rastreados'[c] /\ k \in persistidos'[c])
  <2> TAKE k \in 1..n
  <2>1. CASE k <= e.nsu
    <3>1. k \in vazios[c] \/ (k \in rastreados[c] /\ k \in persistidos[c])
      BY <1>1, <1>3, <2>1 DEF Rastreado
    <3>2. QED
      BY <1>10, <3>1 DEF Cresce
  <2>2. CASE k = n
    BY <1>3, <1>8, <1>10, <2>2
  <2>3. CASE e.nsu < k /\ k < n
    <3>1. n \in e.docs /\ k \notin e.docs /\ k \in 1..MaxNsu
      BY <1>2, <1>3, <2>3, DadosAssumption DEF Primeiro
    <3>2. k \in vazios[c]
      BY <1>0, <1>1, <2>3, <3>1 DEF ExecucaoOK
    <3>3. QED
      BY <1>8, <3>2 DEF sef
  <2>4. QED
    BY <1>3, <2>1, <2>2, <2>3
<1>15. \A b \in Controles : Rastreado(b, ultimoNsuConsultado[b])'
  <2> TAKE b \in Controles
  <2>1. CASE Titular(p, c) /\ b = c
    <3>1. ultimoNsuConsultado'[c] = n
      BY <1>0, <1>11, <2>1 DEF TypeOK
    <3>2. QED
      BY <1>14, <2>1, <3>1 DEF Rastreado
  <2>2. CASE ~(Titular(p, c) /\ b = c)
    <3>1. ultimoNsuConsultado'[b] = ultimoNsuConsultado[b]
      BY <1>0, <1>11, <2>2 DEF TypeOK
    <3>2. Rastreado(b, ultimoNsuConsultado[b])
      BY DEF IInv
    <3>3. QED
      BY <1>13, <3>1, <3>2 DEF Rastreado
  <2>3. QED
    BY <2>1, <2>2
<1>16. ExecucaoOK(p, c)'
  <2>1. CASE ~Titular(p, c)
    BY <1>6, <1>9, <2>1, ExecucaoParada
  <2>2. CASE Titular(p, c)
    <3>1. /\ execucao'[p][c].pc \in {"fechar", "persistir"} /\ execucao'[p][c].nsu = n
          /\ execucao'[p][c].docs = e.docs \ {n}
      BY <1>5, <1>9, <2>2
    <3>2. \A m \in e.docs \ {n}, k \in 1..MaxNsu : n < k /\ k <= m => k \in e.docs \ {n} \/ k \in vazios'[c]
      BY <1>0, <1>1, <1>3, <1>8 DEF ExecucaoOK, sef
    <3>3. status'[c] # "inexistente"
      BY <1>1, <1>8
    <3>4. Rastreado(c, execucao[p][c].nsu)'
      BY <1>14, <3>1 DEF Rastreado
    <3>5. QED
      BY <3>1, <3>2, <3>3, <3>4 DEF ExecucaoOK
  <2>3. QED
    BY <2>1, <2>2
<1>17. \A q \in Processos, b \in Controles : ExecucaoOK(q, b)'
  BY <1>9, <1>10, <1>16, ExecucaoFica DEF IInv
<1>18. \A q \in Processos, b \in Controles : Dono(q, b)' => Dono(q, b)
  <2> TAKE q \in Processos, b \in Controles
  <2>1. CASE <<q, b>> # <<p, c>>
    BY <1>8, <1>9, <2>1 DEF Dono, Titular
  <2>2. CASE <<q, b>> = <<p, c>>
    BY <1>1, <1>5, <1>6, <1>8, <1>9, <2>2, ParadaType DEF Dono, Titular
  <2>3. QED
    BY <2>1, <2>2
<1>19. QED
  BY <1>8, <1>12, <1>15, <1>17, <1>18, TitularFica DEF IInv

-----------------------------------------------------------------------------
(* Steps that touch the row                                                *)

LEMMA Reune ==
  ASSUME IInv, TypeOK', Cresce, UmTitular', UNCHANGED ultimoNsuConsultado,
         \A c \in Controles : status'[c] = "inexistente" \/ indAtor'[c] \in Filtros,
         \A p \in Processos, c \in Controles :
           execucao'[p][c] = execucao[p][c] \/ ExecucaoOK(p, c)'
  PROVE  IInv'
<1>1. \A p \in Processos, c \in Controles : ExecucaoOK(p, c)'
  BY ExecucaoFica DEF IInv
<1>2. \A c \in Controles : Rastreado(c, ultimoNsuConsultado[c])'
  BY DEF IInv, Rastreado, Cresce
<1>3. QED
  BY <1>1, <1>2 DEF IInv

\* The row of one control gets a status and a date, and one execution on it moves on.
LEMMA PassoNaLinha ==
  ASSUME IInv, NEW p \in Processos, NEW c \in Controles, NEW e \in Execucao, Passa(p, c, e),
         NEW s \in Estados \ {"inexistente"}, status' = [status EXCEPT ![c] = s],
         status[c] # "inexistente",
         NEW d \in Datas \union {Nula}, proximaExecucao' = [proximaExecucao EXCEPT ![c] = d],
         NEW v \in BOOLEAN, vencida' = [vencida EXCEPT ![c] = v],
         UNCHANGED <<indAtor, ultimoNsuConsultado, totalDocumentosBaixados, dados, configuracao,
                     sef, intervencoes>>,
         ExecucaoOK(p, c)',
         s = "processando" => \A q \in Processos \ {p} : execucao[q][c].lease # d
  PROVE  IInv'
<1>0. TypeOK
  BY DEF IInv
<1>1. /\ execucao' \in [Processos -> [Controles -> Execucao]] /\ execucao'[p][c] = e
      /\ \A q \in Processos, b \in Controles :
           <<q, b>> # <<p, c>> => execucao'[q][b] = execucao[q][b]
  BY <1>0, PassaUma
<1>2. TypeOK'
  BY <1>0, <1>1 DEF TypeOK, dados, sef
<1>3. Cresce
  BY <1>0 DEF TypeOK, Cresce, dados, sef
<1>4. \A b \in Controles : status'[b] = "inexistente" \/ indAtor'[b] \in Filtros
  BY <1>0 DEF TypeOK, IInv
<1>5. \A q \in Processos \ {p} : ~Dono(q, c)'
  BY <1>0, <1>1 DEF Dono, Titular, TypeOK
<1>6. \A q \in Processos, b \in Controles \ {c} : Dono(q, b)' => Dono(q, b)
  BY <1>0, <1>1 DEF Dono, Titular, TypeOK
<1>7. UmTitular'
  BY <1>5, <1>6 DEF UmTitular, IInv
<1>8. QED
  BY <1>1, <1>2, <1>3, <1>4, <1>7, Reune

LEMMA NovaData ==
  ASSUME TypeOK, NEW c \in Controles, NEW d \in Novas(c)
  PROVE  /\ d \in Datas /\ d # Nula /\ d # proximaExecucao[c]
         /\ \A q \in Processos : execucao[q][c].lease # d
BY DadosAssumption DEF Novas

LEMMA RunIInv ==
  ASSUME IInv, NEW p \in Processos, NEW c \in Controles, Run(p, c)
  PROVE  IInv'
<1>0. TypeOK /\ ExecucaoOK(p, c)
  BY DEF IInv
<1>1. PICK d \in Novas(c) : Agenda(c, d) /\ Inicia(p, c, d)
  BY DEF Run
<1>2. /\ status' = [status EXCEPT ![c] = "processando"] /\ "processando" \in Estados \ {"inexistente"}
      /\ UNCHANGED <<indAtor, ultimoNsuConsultado, totalDocumentosBaixados, dados, configuracao,
                     sef, intervencoes>>
  BY DEF Run, Estados
<1>3. status[c] # "inexistente"
  BY DEF Run, Vencido
<1>4. d \in Datas /\ \A q \in Processos : execucao[q][c].lease # d
  BY <1>0, <1>1, NovaData
<1> DEFINE e == IF execucao[p][c].pc = "parada" THEN [Parada EXCEPT !.pc = "inicio", !.lease = d]
                ELSE execucao[p][c]
<1>5. e \in Execucao
  BY <1>0, <1>4, ParadaType DEF TypeOK
<1>6. Passa(p, c, e)
  BY <1>0, <1>1 DEF Inicia, Passa, TypeOK
<1>7. ExecucaoOK(p, c)'
  <2>1. execucao'[p][c] = e
    BY <1>0, <1>5, <1>6, PassaUma
  <2>2. CASE execucao[p][c].pc = "parada"
    <3>1. execucao'[p][c].pc = "inicio"
      BY <2>1, <2>2 DEF Parada
    <3>2. status'[c] # "inexistente"
      BY <1>0, <1>2 DEF TypeOK
    <3>3. QED
      BY <3>1, <3>2 DEF ExecucaoOK
  <2>3. CASE execucao[p][c].pc # "parada"
    <3>1. Cresce
      BY <1>0, <1>2 DEF Cresce, TypeOK, dados, sef
    <3>2. execucao'[p][c] = execucao[p][c]
      BY <2>1, <2>3
    <3>3. QED
      BY <1>0, <3>1, <3>2, ExecucaoFica
  <2>4. QED
    BY <2>2, <2>3
<1> HIDE DEF e
<1>8. QED
  BY <1>1, <1>2, <1>3, <1>4, <1>5, <1>6, <1>7, PassoNaLinha DEF Agenda

\* A renewal or a full batch: the holder of the row writes a new lease.
LEMMA NovoLeaseIInv ==
  ASSUME IInv, NEW p \in Processos, NEW c \in Controles, Titular(p, c),
         NEW d \in Novas(c), Agenda(c, d), NEW e \in Execucao, Passa(p, c, e),
         UNCHANGED <<status, indAtor, ultimoNsuConsultado, totalDocumentosBaixados, dados,
                     configuracao, sef, intervencoes>>,
         ExecucaoOK(p, c)'
  PROVE  IInv'
<1>1. d \in Datas /\ \A q \in Processos : execucao[q][c].lease # d
  BY NovaData DEF IInv
<1>2. status[c] = "processando" /\ "processando" \in Estados \ {"inexistente"}
  BY DEF Titular, Estados
<1>3. status' = [status EXCEPT ![c] = "processando"]
  BY <1>2 DEF IInv, TypeOK
<1>4. QED
  BY <1>1, <1>2, <1>3, PassoNaLinha DEF Agenda

\* An execution that lost the row stops.
LEMMA PerdeuIInv ==
  ASSUME IInv, NEW p \in Processos, NEW c \in Controles, Passa(p, c, Parada),
         UNCHANGED <<linha, dados, configuracao, sef, intervencoes>>
  PROVE  IInv'
<1>1. Parada \in Execucao /\ Parada.pc = "parada" /\ intervencoes \in 0..MaxIntervencoes
  BY ParadaType DEF IInv, TypeOK
<1>2. QED
  BY <1>1, PassoMenosIInv DEF Trabalhando

LEMMA RenovarLeaseIInv ==
  ASSUME IInv, NEW p \in Processos, NEW c \in Controles, RenovarLease(p, c)
  PROVE  IInv'
<1>0. TypeOK /\ ExecucaoOK(p, c)
  BY DEF IInv
<1>1. /\ execucao[p][c] \in Execucao /\ execucao[p][c].pc = "renovar"
      /\ UNCHANGED <<status, indAtor, ultimoNsuConsultado, totalDocumentosBaixados, dados,
                     configuracao, sef, intervencoes>>
  <2>1. execucao[p][c] \in Execucao
    BY <1>0 DEF TypeOK
  <2>2. QED
    BY <2>1 DEF RenovarLease
<1>2. CASE ~Titular(p, c)
  <2>1. Passa(p, c, Parada) /\ UNCHANGED linha
    BY <1>2 DEF RenovarLease, linha
  <2>2. QED
    BY <1>1, <2>1, PerdeuIInv
<1>3. CASE Titular(p, c)
  <2>1. PICK d \in Novas(c) : /\ Agenda(c, d)
                             /\ Passa(p, c, [execucao[p][c] EXCEPT !.pc = "pedir", !.lease = d])
    BY <1>3 DEF RenovarLease
  <2> DEFINE f == [execucao[p][c] EXCEPT !.pc = "pedir", !.lease = d]
  <2>2. d \in Datas
    BY <1>0, NovaData
  <2>3. f \in Execucao /\ f.pc = "pedir" /\ f.nsu = execucao[p][c].nsu /\ f.ator = execucao[p][c].ator
    BY <1>1, <2>2 DEF Execucao
  <2>4. Passa(p, c, f)
    BY <2>1
  <2> HIDE DEF f
  <2>5. execucao'[p][c] = f
    BY <1>0, <2>3, <2>4, PassaUma
  <2>6. ExecucaoOK(p, c)'
    BY <1>0, <1>1, <2>3, <2>5 DEF ExecucaoOK, Rastreado, dados, sef
  <2>7. QED
    BY <1>1, <1>3, <2>1, <2>3, <2>4, <2>6, NovoLeaseIInv
<1>4. QED
  BY <1>2, <1>3

LEMMA ContinuarIInv ==
  ASSUME IInv, NEW p \in Processos, NEW c \in Controles, Continuar(p, c)
  PROVE  IInv'
<1>0. TypeOK
  BY DEF IInv
<1>1. UNCHANGED <<status, indAtor, ultimoNsuConsultado, totalDocumentosBaixados, dados,
                  configuracao, sef, intervencoes>>
  BY DEF Continuar
<1>2. CASE ~Titular(p, c)
  <2>1. Passa(p, c, Parada) /\ UNCHANGED linha
    BY <1>1, <1>2 DEF Continuar, linha
  <2>2. QED
    BY <1>1, <2>1, PerdeuIInv
<1>3. CASE Titular(p, c)
  <2>1. PICK d \in Novas(c) : /\ Agenda(c, d)
                             /\ Passa(p, c, [Parada EXCEPT !.pc = "inicio", !.lease = d])
    BY <1>3 DEF Continuar
  <2> DEFINE f == [Parada EXCEPT !.pc = "inicio", !.lease = d]
  <2>2. f \in Execucao /\ f.pc = "inicio"
    BY <1>0, NovaData, ParadaType DEF Parada
  <2>3. Passa(p, c, f)
    BY <2>1
  <2> HIDE DEF f
  <2>4. execucao'[p][c] = f
    BY <1>0, <2>2, <2>3, PassaUma
  <2>5. ExecucaoOK(p, c)'
    BY <1>1, <1>3, <2>2, <2>4 DEF ExecucaoOK, Titular
  <2>6. QED
    BY <1>1, <1>3, <2>1, <2>2, <2>3, <2>5, NovoLeaseIInv
<1>4. QED
  BY <1>2, <1>3

LEMMA EncerrarIInv ==
  ASSUME IInv, NEW p \in Processos, NEW c \in Controles, Encerrar(p, c) \/ StopAfterError(p, c)
  PROVE  IInv'
<1>0. TypeOK /\ execucao[p][c] \in Execucao
  BY DEF IInv, TypeOK
<1>1. /\ Passa(p, c, Parada)
      /\ UNCHANGED <<indAtor, ultimoNsuConsultado, totalDocumentosBaixados, dados, configuracao,
                     sef, intervencoes>>
  BY DEF Encerrar, StopAfterError
<1>2. CASE ~Titular(p, c)
  <2>1. UNCHANGED linha
    BY <1>1, <1>2 DEF Encerrar, StopAfterError, linha
  <2>2. QED
    BY <1>1, <2>1, PerdeuIInv
<1>3. CASE Titular(p, c)
  <2>1. PICK x \in Desfechos : Encerra(c, x)
    BY <1>0, <1>3 DEF Encerrar, StopAfterError, Execucao, Desfechos
  <2> DEFINE s == IF x = "suspenso" THEN "erro_api" ELSE x
  <2>2. s \in Estados \ {"inexistente"} /\ s # "processando" /\ status' = [status EXCEPT ![c] = s]
    BY <2>1 DEF Encerra, Desfechos, Estados
  <2>3. \E d \in Datas \union {Nula} : /\ proximaExecucao' = [proximaExecucao EXCEPT ![c] = d]
                                      /\ vencida' = [vencida EXCEPT ![c] = FALSE]
    BY <1>0, <2>1, NovaData DEF Encerra, Agenda
  <2>4. execucao'[p][c] = Parada
    BY <1>0, <1>1, ParadaType, PassaUma
  <2>5. ExecucaoOK(p, c)'
    BY <2>4, ExecucaoParada
  <2>6. Parada \in Execucao /\ status[c] # "inexistente"
    BY <1>3, ParadaType DEF Titular
  <2> HIDE DEF s
  <2>7. QED
    BY <1>1, <2>2, <2>3, <2>5, <2>6, PassoNaLinha
<1>4. QED
  BY <1>2, <1>3

LEMMA ResumeExpiredIInv ==
  ASSUME IInv, NEW p \in Processos, NEW c \in Controles, ResumeExpired(p, c)
  PROVE  IInv'
<1> DEFINE f == [Parada EXCEPT !.pc = "inicio", !.lease = proximaExecucao[c]]
<1>0. TypeOK
  BY DEF IInv
<1>1. proximaExecucao[c] \in Datas /\ status[c] # "inexistente"
  BY <1>0 DEF ResumeExpired, Expirada, TypeOK
<1>2. f \in Execucao /\ f.pc = "inicio"
  BY <1>1, ParadaType DEF Parada
<1>3. Passa(p, c, f) /\ UNCHANGED <<linha, dados, configuracao, sef>> /\ intervencoes' \in 0..MaxIntervencoes
  BY <1>0 DEF ResumeExpired, Inicia, TypeOK
<1> HIDE DEF f
<1>4. QED
  BY <1>1, <1>2, <1>3, PassoMenosIInv DEF Trabalhando

-----------------------------------------------------------------------------
(* Steps outside the executions                                            *)

LEMMA ExecucoesFicam ==
  ASSUME IInv, UNCHANGED <<execucao, ultimoNsuConsultado, dados>>, TypeOK', Cresce,
         \A c \in Controles : status'[c] = "inexistente" \/ indAtor'[c] \in Filtros,
         \A c \in Controles : status'[c] = "processando" =>
           status[c] = "processando" /\ proximaExecucao'[c] = proximaExecucao[c]
  PROVE  IInv'
<1>1. \A p \in Processos, c \in Controles : Dono(p, c)' => Dono(p, c)
  BY DEF Dono, Titular
<1>2. UmTitular'
  BY <1>1, TitularFica DEF IInv
<1>3. QED
  BY <1>2, Reune

LEMMA OperadorIInv ==
  ASSUME IInv, NEW c \in Controles,
         \/ \E ator \in Filtros : LerConfiguracao(c, ator)
         \/ GravarConfiguracao(c) \/ Pause(c) \/ Vencer(c)
  PROVE  IInv'
<1>0. TypeOK /\ \A b \in Controles : status[b] = "inexistente" \/ indAtor[b] \in Filtros
  BY DEF IInv
<1>1. ASSUME NEW ator \in Filtros, LerConfiguracao(c, ator) PROVE IInv'
  <2>1. UNCHANGED <<linha, dados, execucao, sef>> /\ intervencoes' \in 0..MaxIntervencoes
        /\ configuracao' = [controle |-> c, ator |-> ator]
    BY <1>0, <1>1, DadosAssumption DEF LerConfiguracao, Intervir, TypeOK
  <2>2. TypeOK'
    BY <1>0, <2>1 DEF TypeOK, linha, dados, sef
  <2>3. QED
    BY <1>0, <2>1, <2>2, SemMudanca, ExecucoesFicam DEF linha
<1>2. CASE GravarConfiguracao(c)
  <2>1. configuracao.ator \in Filtros
    BY <1>0, <1>2 DEF GravarConfiguracao, TypeOK
  <2>2. /\ status' = [status EXCEPT ![c] = "ativo"] /\ "ativo" \in Estados
        /\ indAtor' = [indAtor EXCEPT ![c] = configuracao.ator] /\ configuracao' = Nenhuma
        /\ UNCHANGED <<ultimoNsuConsultado, totalDocumentosBaixados, proximaExecucao, vencida, dados,
                       execucao, sef, intervencoes>>
    BY <1>2 DEF GravarConfiguracao, Estados
  <2>3. TypeOK' /\ Cresce
    BY <1>0, <2>1, <2>2 DEF TypeOK, Cresce, dados, sef
  <2>4. QED
    BY <1>0, <2>1, <2>2, <2>3, ExecucoesFicam DEF TypeOK
<1>3. CASE Pause(c)
  <2>1. /\ status' = [status EXCEPT ![c] = "pausado"] /\ "pausado" \in Estados
        /\ status[c] # "inexistente"
        /\ proximaExecucao' = [proximaExecucao EXCEPT ![c] = Nula]
        /\ vencida' = [vencida EXCEPT ![c] = FALSE]
        /\ UNCHANGED <<indAtor, ultimoNsuConsultado, totalDocumentosBaixados, dados, execucao,
                       configuracao, sef>>
    BY <1>3 DEF Pause, Estados
  <2>2. intervencoes' \in 0..MaxIntervencoes
    BY <1>0, <1>3, DadosAssumption DEF Pause, Intervir, TypeOK
  <2>3. TypeOK' /\ Cresce
    BY <1>0, <2>1, <2>2 DEF TypeOK, Cresce, dados, sef
  <2>4. QED
    BY <1>0, <2>1, <2>3, ExecucoesFicam DEF TypeOK
<1>4. CASE Vencer(c)
  <2>1. /\ vencida' = [vencida EXCEPT ![c] = TRUE]
        /\ UNCHANGED <<status, indAtor, ultimoNsuConsultado, totalDocumentosBaixados, proximaExecucao,
                       dados, execucao, configuracao, sef, intervencoes>>
    BY <1>4 DEF Vencer
  <2>2. TypeOK' /\ Cresce
    BY <1>0, <2>1 DEF TypeOK, Cresce, dados, sef
  <2>3. QED
    BY <1>0, <2>1, <2>2, ExecucoesFicam
<1>5. QED
  BY <1>1, <1>2, <1>3, <1>4

LEMMA AmbienteIInv ==
  ASSUME IInv,
         \/ \E p \in Processos : Reiniciar(p)
         \/ \E c \in Controles, F \in (SUBSET Filtros) \ {{}}, n \in 1..MaxNsu : Publicar(c, F, n)
  PROVE  IInv'
<1>0. TypeOK /\ \A b \in Controles : status[b] = "inexistente" \/ indAtor[b] \in Filtros
  BY DEF IInv
<1>1. ASSUME NEW p \in Processos, Reiniciar(p) PROVE IInv'
  <2>1. /\ execucao' = [execucao EXCEPT ![p] = [c \in Controles |-> Parada]]
        /\ UNCHANGED <<linha, dados, configuracao, sef>> /\ intervencoes' \in 0..MaxIntervencoes
    BY <1>0, <1>1, DadosAssumption DEF Reiniciar, Intervir, TypeOK
  <2>2. \A q \in Processos, c \in Controles :
          execucao'[q][c] = IF q = p THEN Parada ELSE execucao[q][c]
    BY <1>0, <2>1 DEF TypeOK
  <2>3. TypeOK'
    <3>1. execucao' \in [Processos -> [Controles -> Execucao]]
      BY <1>0, <2>1, ParadaType DEF TypeOK
    <3>2. QED
      BY <1>0, <2>1, <3>1 DEF TypeOK, linha, dados, sef
  <2>4. \A q \in Processos, c \in Controles :
          execucao'[q][c] = execucao[q][c] \/ ExecucaoOK(q, c)'
    BY <2>2, ExecucaoParada
  <2>5. \A q \in Processos, c \in Controles : Dono(q, c)' => Dono(q, c)
    BY <2>1, <2>2, ParadaType DEF Dono, Titular, linha
  <2>6. UmTitular'
    BY <2>5, TitularFica DEF IInv
  <2>7. QED
    BY <1>0, <2>1, <2>3, <2>4, <2>6, SemMudanca, Reune DEF linha
<1>2. ASSUME NEW c \in Controles, NEW F \in (SUBSET Filtros) \ {{}}, NEW n \in 1..MaxNsu, Publicar(c, F, n)
      PROVE  IInv'
  <2>1. /\ publicados' = [publicados EXCEPT ![c] =
                           [f \in Filtros |-> IF f \in F THEN publicados[c][f] \union {n} ELSE publicados[c][f]]]
        /\ UNCHANGED <<linha, dados, execucao, configuracao, vazios, intervencoes>>
    BY <1>2 DEF Publicar
  <2>2. publicados' \in [Controles -> [Filtros -> SUBSET (1..MaxNsu)]]
    BY <1>0, <2>1 DEF TypeOK
  <2>3. TypeOK' /\ Cresce
    BY <1>0, <2>1, <2>2 DEF TypeOK, Cresce, linha, dados
  <2>4. QED
    BY <1>0, <2>1, <2>3, ExecucoesFicam DEF linha
<1>3. QED
  BY <1>1, <1>2

-----------------------------------------------------------------------------

LEMMA InitIInv == Init => IInv
<1> SUFFICES ASSUME Init PROVE IInv
  OBVIOUS
<1>1. 0 \in 0..MaxNsu /\ 0 \in 0..MaxNsu + 1 /\ 0 \in 0..MaxIntervencoes
  BY DadosAssumption
<1>2. TypeOK
  BY <1>1, ParadaType DEF Init, TypeOK, Estados
<1>3. \A p \in Processos, c \in Controles : execucao[p][c].pc = "parada"
  BY ParadaType DEF Init
<1>4. UmTitular /\ \A p \in Processos, c \in Controles : ExecucaoOK(p, c)
  BY <1>3 DEF UmTitular, Dono, ExecucaoOK
<1>5. \A c \in Controles : Rastreado(c, ultimoNsuConsultado[c])
  BY DEF Init, Rastreado
<1>6. QED
  BY <1>2, <1>4, <1>5 DEF IInv, Init

LEMMA TrabalharIInv ==
  ASSUME IInv, NEW p \in Processos, NEW c \in Controles, Trabalhar(p, c)
  PROVE  IInv'
BY LerControleIInv, RenovarLeaseIInv, BaixarLoteIInv, FalharIInv, PersistirIInv, RastrearIInv,
   ContinuarIInv, EncerrarIInv DEF Trabalhar

LEMMA NextIInv == IInv /\ [Next]_vars => IInv'
<1> SUFFICES ASSUME IInv, [Next]_vars PROVE IInv'
  OBVIOUS
<1>1. CASE \E p \in Processos, c \in Controles : Trabalhar(p, c)
  BY <1>1, TrabalharIInv
<1>2. CASE Operar
  BY <1>2, OperadorIInv, RunIInv, ResumeExpiredIInv DEF Operar
<1>3. CASE Ambiente
  BY <1>3, OperadorIInv, AmbienteIInv DEF Ambiente
<1>4. CASE UNCHANGED vars
  BY <1>4 DEF vars, linha, dados, sef, IInv, TypeOK, Rastreado, ExecucaoOK, UmTitular, Dono, Titular
<1>5. QED
  BY <1>1, <1>2, <1>3, <1>4 DEF Next

LEMMA SpecIInv == Spec => []IInv
BY InitIInv, NextIInv, PTL DEF Spec

\* Every reachable state is well formed.
THEOREM TypeCorrect == Spec => []TypeOK
BY SpecIInv, PTL DEF IInv

\* docs/nfe-sc.md:36: nothing up to the cursor lacks its stored document and its pair, unless
\* SEF/SC passed over it, whatever executions outlive their lease, fail or are restarted.
THEOREM Rastreabilidade == Spec => []CursorRastreado
<1>1. IInv => CursorRastreado
  BY DEF IInv, CursorRastreado, Rastreado
<1>2. QED
  BY <1>1, SpecIInv, PTL

\* Of the executions that renewed a lease, one at most still owns the row.
THEOREM Titularidade == Spec => []UmTitular
BY SpecIInv, PTL DEF IInv

-----------------------------------------------------------------------------
(* NfeSc implements ConsumoNsu                                             *)

\* A control starts on NSU 0.
NasceZerado == \A c \in Controles : status[c] = "inexistente" => ultimoNsuConsultado[c] = 0

Existentes == {c \in Controles : status[c] # "inexistente"}

Respondidos == [c \in Controles |-> persistidos[c] \union vazios[c]]

Visto == <<Existentes, [c \in Controles |-> 1], ultimoNsuConsultado, Respondidos>>

LEMMA ResponderConsumo ==
  ASSUME NEW c \in Existentes, NEW S \in SUBSET (1..MaxNsu),
         Respondidos' = [Respondidos EXCEPT ![c] = @ \union S],
         UNCHANGED <<status, ultimoNsuConsultado>>
  PROVE  Consumo!Next
<1>1. Consumo!Responder(c, S)
  BY DEF Consumo!Responder, Existentes, Respondidos
<1>2. QED
  BY <1>1 DEF Consumo!Next, Existentes

\* The status of an existing control changes and nothing else that the consumer sees.
LEMMA VistoFica ==
  ASSUME UNCHANGED <<ultimoNsuConsultado, persistidos, vazios>>,
         \A c \in Controles : status'[c] = "inexistente" <=> status[c] = "inexistente"
  PROVE  UNCHANGED Visto
BY DEF Visto, Existentes, Respondidos

LEMMA TrabalharConsumo ==
  ASSUME IInv, IInv', NEW p \in Processos, NEW c \in Controles, Trabalhar(p, c)
  PROVE  Consumo!Next \/ UNCHANGED Visto
<1> DEFINE e == execucao[p][c]
<1>0. TypeOK /\ ExecucaoOK(p, c) /\ e \in Execucao
  BY DEF IInv, TypeOK
<1>1. CASE LerControle(p, c) \/ Falhar(p, c) \/ ForaDeOrdem(p, c) \/ FalhaInterna(p, c)
           \/ LerAposExcecao(p, c) \/ \E desfecho \in Desfechos : BaixarSemLote(p, c, desfecho)
  <2>1. UNCHANGED <<linha, dados, sef>>
    BY <1>1 DEF LerControle, Falhar, ForaDeOrdem, FalhaInterna, LerAposExcecao, BaixarSemLote
  <2>2. QED
    BY <2>1, VistoFica DEF linha, dados, sef
<1>2. CASE RenovarLease(p, c) \/ Continuar(p, c)
  <2>1. UNCHANGED <<status, ultimoNsuConsultado, dados, sef>>
    BY <1>2 DEF RenovarLease, Continuar
  <2>2. QED
    BY <2>1, VistoFica DEF dados, sef
<1>3. CASE Encerrar(p, c) \/ StopAfterError(p, c)
  <2>1. UNCHANGED <<ultimoNsuConsultado, dados, sef>>
    BY <1>3 DEF Encerrar, StopAfterError
  <2>2. \/ UNCHANGED status
        \/ /\ status[c] = "processando"
           /\ \E s \in Desfechos \ {"suspenso"} : status' = [status EXCEPT ![c] = s]
    BY <1>0, <1>3 DEF Encerrar, StopAfterError, Encerra, Titular, Execucao, Desfechos
  <2>3. \A b \in Controles : status'[b] = "inexistente" <=> status[b] = "inexistente"
    BY <1>0, <2>2 DEF TypeOK, Desfechos
  <2>4. QED
    BY <2>1, <2>3, VistoFica DEF dados, sef
<1>4. CASE BaixarLote(p, c)
  <2>1. PICK D \in Respostas(c, e) :
          vazios' = [vazios EXCEPT ![c] = @ \union
            {n \in (e.nsu + 1)..MaxNsu : (\E m \in D : n < m) /\ n \notin publicados[c][e.ator]}]
    BY <1>4 DEF BaixarLote
  <2> DEFINE S == {n \in (e.nsu + 1)..MaxNsu : (\E m \in D : n < m) /\ n \notin publicados[c][e.ator]}
  <2>2. e.nsu \in 0..MaxNsu /\ c \in Existentes
    <3>1. e.nsu \in 0..MaxNsu
      BY <1>0 DEF Execucao
    <3>2. QED
      BY <1>0, <1>4, <3>1 DEF ExecucaoOK, BaixarLote, Existentes
  <2>3. S \in SUBSET (1..MaxNsu)
    BY <2>2, DadosAssumption
  <2>4. vazios' = [vazios EXCEPT ![c] = @ \union S] /\ UNCHANGED <<linha, dados>>
    BY <1>4, <2>1 DEF BaixarLote
  <2> HIDE DEF S
  <2>5. Respondidos' = [Respondidos EXCEPT ![c] = @ \union S]
    BY <1>0, <2>4 DEF Respondidos, TypeOK, dados
  <2>6. QED
    BY <2>2, <2>3, <2>4, <2>5, ResponderConsumo DEF linha
<1>5. CASE Persistir(p, c)
  <2>1. PICK n \in 1..MaxNsu : persistidos' = [persistidos EXCEPT ![c] = @ \union {n}]
    BY <1>5 DEF Persistir
  <2>2. c \in Existentes /\ UNCHANGED <<linha, sef>>
    BY <1>0, <1>5 DEF ExecucaoOK, Persistir, Existentes
  <2>3. Respondidos' = [Respondidos EXCEPT ![c] = @ \union {n}]
    BY <1>0, <2>1, <2>2 DEF Respondidos, TypeOK, sef
  <2>4. {n} \in SUBSET (1..MaxNsu)
    OBVIOUS
  <2>5. UNCHANGED <<status, ultimoNsuConsultado>>
    BY <2>2 DEF linha
  <2>6. QED
    BY <2>2, <2>3, <2>4, <2>5, ResponderConsumo
<1>6. CASE Rastrear(p, c)
  <2>1. UNCHANGED <<status, persistidos, sef>>
    BY <1>6 DEF Rastrear
  <2>2. CASE ~Titular(p, c)
    <3>1. UNCHANGED ultimoNsuConsultado
      BY <1>6, <2>2 DEF Rastrear
    <3>2. QED
      BY <2>1, <3>1, VistoFica DEF sef
  <2>3. CASE Titular(p, c)
    <3>1. PICK n \in 1..MaxNsu : ultimoNsuConsultado' = [ultimoNsuConsultado EXCEPT ![c] = n]
      BY <1>6, <2>3 DEF Rastrear, Avanca
    <3>2. ultimoNsuConsultado'[c] = n
      BY <1>0, <3>1 DEF TypeOK
    <3>3. \A k \in 1..n : k \in persistidos[c] \union vazios[c]
      BY <2>1, <3>2 DEF IInv, Rastreado, sef
    <3>4. c \in Existentes /\ n \in 0..MaxNsu
      BY <2>3 DEF Titular, Existentes
    <3>5. Respondidos' = Respondidos
      BY <2>1 DEF Respondidos, sef
    <3>6. Consumo!Mover(c, n)
      BY <2>1, <3>1, <3>3, <3>4, <3>5 DEF Consumo!Mover, Consumo!Coberto, Existentes, Respondidos
    <3>7. QED
      BY <3>4, <3>6 DEF Consumo!Next
  <2>4. QED
    BY <2>2, <2>3
<1>7. QED
  BY <1>1, <1>2, <1>3, <1>4, <1>5, <1>6 DEF Trabalhar

LEMMA OutrosConsumo ==
  ASSUME IInv, NasceZerado, Operar \/ Ambiente
  PROVE  Consumo!Next \/ UNCHANGED Visto
<1>0. TypeOK
  BY DEF IInv
<1>1. ASSUME NEW c \in Controles, GravarConfiguracao(c), status[c] = "inexistente"
      PROVE  Consumo!Next
  <2>1. /\ status' = [status EXCEPT ![c] = "ativo"]
        /\ UNCHANGED <<ultimoNsuConsultado, dados, sef>>
    BY <1>1 DEF GravarConfiguracao
  <2>2. Existentes' = Existentes \union {c} /\ c \notin Existentes
    BY <1>0, <1>1, <2>1 DEF Existentes, TypeOK
  <2>3. ultimoNsuConsultado' = [ultimoNsuConsultado EXCEPT ![c] = 0]
    BY <1>0, <1>1, <2>1 DEF NasceZerado, TypeOK
  <2>4. [b \in Controles |-> 1] = [[b \in Controles |-> 1] EXCEPT ![c] = 0 + 1]
    OBVIOUS
  <2>5. Respondidos' = Respondidos
    BY <2>1 DEF Respondidos, dados, sef
  <2>6. Consumo!Criar(c, 0)
    BY <2>2, <2>3, <2>4, <2>5 DEF Consumo!Criar, Existentes, Respondidos
  <2>7. 0 \in 0..MaxNsu
    BY DadosAssumption
  <2>8. QED
    BY <2>6, <2>7 DEF Consumo!Next
<1>2. ASSUME NEW c \in Controles, GravarConfiguracao(c), status[c] # "inexistente"
      PROVE  UNCHANGED Visto
  <2>1. status' = [status EXCEPT ![c] = "ativo"] /\ UNCHANGED <<ultimoNsuConsultado, dados, sef>>
    BY <1>2 DEF GravarConfiguracao
  <2>2. QED
    BY <1>0, <1>2, <2>1, VistoFica DEF TypeOK, dados, sef
<1>3. ASSUME NEW c \in Controles, Pause(c) \/ \E p \in Processos : Run(p, c) PROVE UNCHANGED Visto
  <2>1. /\ status[c] # "inexistente" /\ UNCHANGED <<ultimoNsuConsultado, dados, sef>>
        /\ \E s \in {"pausado", "processando"} : status' = [status EXCEPT ![c] = s]
    BY <1>3 DEF Pause, Run, Vencido
  <2>2. QED
    BY <1>0, <2>1, VistoFica DEF TypeOK, dados, sef
<1>4. ASSUME NEW c \in Controles,
             \/ \E ator \in Filtros : LerConfiguracao(c, ator)
             \/ \E p \in Processos : ResumeExpired(p, c) \/ Reiniciar(p)
             \/ Vencer(c) \/ \E F \in (SUBSET Filtros) \ {{}}, n \in 1..MaxNsu : Publicar(c, F, n)
      PROVE  UNCHANGED Visto
  <2>1. UNCHANGED <<status, ultimoNsuConsultado, dados, vazios>>
    BY <1>4 DEF LerConfiguracao, ResumeExpired, Reiniciar, Vencer, Publicar, linha, sef
  <2>2. QED
    BY <2>1, VistoFica DEF dados
<1>5. ASSUME NEW p \in Processos, Reiniciar(p) PROVE UNCHANGED Visto
  BY <1>5, VistoFica DEF Reiniciar, linha, dados, sef
<1>6. QED
  BY <1>1, <1>2, <1>3, <1>4, <1>5 DEF Operar, Ambiente

LEMMA ZeradoFica == IInv /\ NasceZerado /\ [Next]_vars => NasceZerado'
<1> SUFFICES ASSUME IInv, NasceZerado, [Next]_vars PROVE NasceZerado'
  OBVIOUS
<1>0. TypeOK
  BY DEF IInv
<1>1. ASSUME NEW p \in Processos, NEW c \in Controles, Trabalhar(p, c) PROVE NasceZerado'
  <2>1. CASE Rastrear(p, c) /\ Titular(p, c)
    <3>1. status[c] = "processando" /\ UNCHANGED status
      BY <2>1 DEF Titular, Rastrear
    <3>2. \E n \in 1..MaxNsu : ultimoNsuConsultado' = [ultimoNsuConsultado EXCEPT ![c] = n]
      BY <2>1 DEF Rastrear, Avanca
    <3>3. QED
      BY <1>0, <3>1, <3>2 DEF NasceZerado, TypeOK
  <2>2. CASE ~(Rastrear(p, c) /\ Titular(p, c))
    <3>1. UNCHANGED ultimoNsuConsultado
      BY <1>1, <2>2 DEF Trabalhar, LerControle, RenovarLease, BaixarLote, BaixarSemLote, Falhar,
         Persistir, ForaDeOrdem, Rastrear, Continuar, Encerrar, StopAfterError, FalhaInterna,
         LerAposExcecao, linha
    <3>2. UNCHANGED status \/ (Titular(p, c) /\ \E x : status' = [status EXCEPT ![c] = x] /\ x # "inexistente")
      <4>1. execucao[p][c].desfecho \in Desfechos
        BY <1>0 DEF TypeOK, Execucao
      <4>2. CASE Encerrar(p, c) \/ StopAfterError(p, c)
        BY <4>1, <4>2 DEF Encerrar, StopAfterError, Encerra, Desfechos
      <4>3. CASE ~(Encerrar(p, c) \/ StopAfterError(p, c))
        BY <1>1, <4>3 DEF Trabalhar, LerControle, RenovarLease, BaixarLote, BaixarSemLote, Falhar,
           Persistir, ForaDeOrdem, Rastrear, Continuar, FalhaInterna, LerAposExcecao, linha
      <4>4. QED
        BY <4>2, <4>3
    <3>3. QED
      BY <1>0, <3>1, <3>2 DEF NasceZerado, TypeOK, Titular
  <2>3. QED
    BY <2>1, <2>2
<1>2. ASSUME Operar \/ Ambiente PROVE NasceZerado'
  <2>1. UNCHANGED ultimoNsuConsultado
    BY <1>2 DEF Operar, Ambiente, LerConfiguracao, GravarConfiguracao, Pause, Run, ResumeExpired,
                Vencer, Reiniciar, Publicar, linha
  <2>2. \/ UNCHANGED status
        \/ \E c \in Controles, x \in {"ativo", "pausado", "processando"} : status' = [status EXCEPT ![c] = x]
    BY <1>2 DEF Operar, Ambiente, LerConfiguracao, GravarConfiguracao, Pause, Run, ResumeExpired,
                Vencer, Reiniciar, Publicar, linha
  <2>3. QED
    BY <1>0, <2>1, <2>2 DEF NasceZerado, TypeOK
<1>3. CASE UNCHANGED vars
  BY <1>3 DEF NasceZerado, vars, linha
<1>4. QED
  BY <1>1, <1>2, <1>3 DEF Next

\* The distribution is an incremental consumer: its cursor rests on answered NSUs only.
THEOREM ImplementaConsumo == Spec => ConsumoCorreto
<1>1. Init => Consumo!Init /\ NasceZerado
  BY DEF Init, Consumo!Init, NasceZerado
<1>2. IInv /\ NasceZerado /\ [Next]_vars => [Consumo!Next]_(Consumo!vars)
  <2> SUFFICES ASSUME IInv, NasceZerado, [Next]_vars PROVE Consumo!Next \/ UNCHANGED Visto
    BY DEF Visto, Existentes, Respondidos, Consumo!vars
  <2>1. CASE UNCHANGED vars
    BY <2>1 DEF vars, linha, dados, sef, Visto, Existentes, Respondidos
  <2>2. QED
    BY <2>1, NextIInv, TrabalharConsumo, OutrosConsumo DEF Next
<1>3. QED
  BY <1>1, <1>2, SpecIInv, ZeradoFica, PTL DEF Spec, ConsumoCorreto, Consumo!Spec
=============================================================================
