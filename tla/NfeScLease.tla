----------------------------- MODULE NfeScLease -----------------------------
(***************************************************************************)
(* What the lease of NfeSc adds when no execution works past the lease it  *)
(* renewed: the cursor never moves back and no document is counted twice.  *)
(* Past the lease both fail: another execution may read the row, the first *)
(* one move the cursor, and the second renew and go on from what it read.  *)
(***************************************************************************)
EXTENDS NfeScProofs, FiniteSetTheorems

\* The execution may still renew the lease it was started with.
Candidata(p, c) == execucao[p][c].pc \in {"inicio", "renovar"} /\ Titular(p, c)

\* The owner of a row works from its cursor, its lease has not run out and nobody else may
\* renew it; whoever is about to renew has read the cursor as it is.
LeaseOK(p, c) ==
  /\ Dono(p, c) =>
       /\ execucao[p][c].nsu = ultimoNsuConsultado[c]
       /\ ~vencida[c]
       /\ \A q \in Processos : ~Candidata(q, c)
  /\ Titular(p, c) /\ execucao[p][c].pc = "renovar" => execucao[p][c].nsu = ultimoNsuConsultado[c]

Leases == \A p \in Processos, c \in Controles : LeaseOK(p, c)

\* On every control, whoever matters to LeaseOK after the step mattered to it before.
LEMMA LeaseFica ==
  ASSUME Leases, UNCHANGED <<ultimoNsuConsultado, vencida>>,
         \A p \in Processos, c \in Controles :
           /\ Dono(p, c)' => Dono(p, c) /\ execucao'[p][c].nsu = execucao[p][c].nsu
           /\ Candidata(p, c)' => Candidata(p, c) /\ execucao'[p][c] = execucao[p][c]
  PROVE  Leases'
BY DEF Leases, LeaseOK, Candidata

\* One control changes, and after the step only one execution may own its row.
LEMMA LeaseTroca ==
  ASSUME Leases, NEW p \in Processos, NEW c \in Controles,
         \A q \in Processos, b \in Controles :
           <<q, b>> # <<p, c>> => execucao'[q][b] = execucao[q][b],
         \A b \in Controles \ {c} :
           /\ status'[b] = status[b] /\ proximaExecucao'[b] = proximaExecucao[b]
           /\ vencida'[b] = vencida[b] /\ ultimoNsuConsultado'[b] = ultimoNsuConsultado[b],
         \A q \in Processos \ {p} : ~Titular(q, c)',
         Dono(p, c)' => execucao'[p][c].nsu = ultimoNsuConsultado'[c] /\ ~vencida'[c],
         Titular(p, c)' => execucao'[p][c].pc # "renovar"
  PROVE  Leases'
<1> SUFFICES ASSUME NEW q \in Processos, NEW b \in Controles PROVE LeaseOK(q, b)'
  BY DEF Leases
<1>1. CASE b # c
  BY <1>1 DEF Leases, LeaseOK, Dono, Titular, Candidata
<1>2. CASE b = c /\ q = p
  BY <1>2 DEF LeaseOK, Dono, Candidata
<1>3. CASE b = c /\ q # p
  BY <1>3 DEF LeaseOK, Dono
<1>4. QED
  BY <1>1, <1>2, <1>3

-----------------------------------------------------------------------------

\* A step of one execution that writes no row and does not read it.
LEMMA LeasePasso ==
  ASSUME IInv, Leases, NEW p \in Processos, NEW c \in Controles, NEW e \in Execucao, Passa(p, c, e),
         UNCHANGED linha, e.pc \notin {"inicio", "renovar"},
         e.pc \in Trabalhando =>
           /\ execucao[p][c].pc \in Trabalhando /\ e.lease = execucao[p][c].lease
           /\ e.nsu = execucao[p][c].nsu
  PROVE  Leases'
<1>1. /\ execucao'[p][c] = e
      /\ \A q \in Processos, b \in Controles :
           <<q, b>> # <<p, c>> => execucao'[q][b] = execucao[q][b]
  BY PassaUma DEF IInv
<1>2. \A q \in Processos, b \in Controles :
        /\ Dono(q, b)' => Dono(q, b) /\ execucao'[q][b].nsu = execucao[q][b].nsu
        /\ Candidata(q, b)' => Candidata(q, b) /\ execucao'[q][b] = execucao[q][b]
  BY <1>1 DEF Dono, Candidata, Titular, Trabalhando, linha
<1>3. QED
  BY <1>2, LeaseFica DEF linha

LEMMA LocalLeases ==
  ASSUME IInv, Leases, NEW p \in Processos, NEW c \in Controles,
         \/ BaixarLote(p, c) \/ Falhar(p, c) \/ ForaDeOrdem(p, c) \/ Persistir(p, c)
         \/ FalhaInterna(p, c) \/ LerAposExcecao(p, c)
         \/ \E desfecho \in Desfechos : BaixarSemLote(p, c, desfecho)
  PROVE  Leases'
<1>0. IInv /\ IInv' /\ execucao[p][c] \in Execucao
  BY BaixarLoteIInv, FalharIInv, PersistirIInv DEF IInv, TypeOK
<1>1. UNCHANGED linha
  BY DEF BaixarLote, Falhar, ForaDeOrdem, Persistir, FalhaInterna, LerAposExcecao, BaixarSemLote
<1>2. PICK e \in Execucao : e = execucao[p][c]
  BY <1>0
<1>3. PICK f : /\ Passa(p, c, f) /\ f \in Execucao /\ f.pc \notin {"inicio", "renovar"}
               /\ f.pc \in Trabalhando => e.pc \in Trabalhando /\ f.lease = e.lease /\ f.nsu = e.nsu
  <2> DEFINE Bom(g) == /\ g.pc \notin {"inicio", "renovar"}
                       /\ g.pc \in Trabalhando =>
                            e.pc \in Trabalhando /\ g.lease = e.lease /\ g.nsu = e.nsu
  <2>1. \A g : Passa(p, c, g) => g \in Execucao
    BY <1>0 DEF Passa, IInv, TypeOK
  <2>2. CASE BaixarLote(p, c)
    <3>1. PICK D, k : /\ Passa(p, c, [e EXCEPT !.pc = "persistir", !.docs = D, !.desfecho = "ativo",
                                              !.continua = k])
                      /\ e.pc = "pedir"
      BY <1>2, <2>2 DEF BaixarLote
    <3>2. Bom([e EXCEPT !.pc = "persistir", !.docs = D, !.desfecho = "ativo", !.continua = k])
      BY <1>2, <3>1 DEF Execucao, Trabalhando
    <3>3. QED
      BY <2>1, <3>1, <3>2
  <2>3. CASE Falhar(p, c) \/ ForaDeOrdem(p, c)
    <3>1. Passa(p, c, [e EXCEPT !.pc = "erro", !.docs = {}]) /\ e.pc \in {"pedir", "persistir", "rastrear"}
      BY <1>2, <2>3 DEF Falhar, ForaDeOrdem
    <3>2. Bom([e EXCEPT !.pc = "erro", !.docs = {}])
      BY <1>2, <3>1 DEF Execucao, Trabalhando
    <3>3. QED
      BY <2>1, <3>1, <3>2
  <2>4. CASE Persistir(p, c)
    <3>1. Passa(p, c, [e EXCEPT !.pc = "rastrear"]) /\ e.pc = "persistir"
      BY <1>2, <2>4 DEF Persistir
    <3>2. Bom([e EXCEPT !.pc = "rastrear"])
      BY <1>2, <3>1 DEF Execucao, Trabalhando
    <3>3. QED
      BY <2>1, <3>1, <3>2
  <2>5. CASE FalhaInterna(p, c)
    <3>1. Passa(p, c, Parada) \/ Passa(p, c, [e EXCEPT !.pc = "excecao", !.docs = {}])
      BY <1>2, <2>5 DEF FalhaInterna
    <3>2. Bom(Parada) /\ Bom([e EXCEPT !.pc = "excecao", !.docs = {}])
      BY <1>2, ParadaType DEF Execucao, Trabalhando
    <3>3. QED
      BY <2>1, <3>1, <3>2
  <2>6. CASE LerAposExcecao(p, c)
    <3>1. PICK d : Passa(p, c, Parada) \/ Passa(p, c, [e EXCEPT !.pc = "erroFinal", !.lease = d])
      BY <1>2, <2>6 DEF LerAposExcecao
    <3>2. Bom(Parada) /\ Bom([e EXCEPT !.pc = "erroFinal", !.lease = d])
      BY <1>2, ParadaType DEF Execucao, Trabalhando
    <3>3. QED
      BY <2>1, <3>1, <3>2
  <2>7. ASSUME NEW x \in Desfechos, BaixarSemLote(p, c, x) PROVE \E f : Passa(p, c, f) /\ f \in Execucao /\ Bom(f)
    <3>1. Passa(p, c, [e EXCEPT !.pc = "fechar", !.continua = FALSE, !.desfecho = x]) /\ e.pc = "pedir"
      BY <1>2, <2>7 DEF BaixarSemLote
    <3>2. Bom([e EXCEPT !.pc = "fechar", !.continua = FALSE, !.desfecho = x])
      BY <1>2, <3>1 DEF Execucao, Trabalhando
    <3>3. QED
      BY <2>1, <3>1, <3>2
  <2>8. QED
    BY <2>2, <2>3, <2>4, <2>5, <2>6, <2>7
<1>4. /\ f \in Execucao /\ f.pc \notin {"inicio", "renovar"}
      /\ f.pc \in Trabalhando =>
           /\ execucao[p][c].pc \in Trabalhando /\ f.lease = execucao[p][c].lease
           /\ f.nsu = execucao[p][c].nsu
  BY <1>2, <1>3 DEF Trabalhando
<1>5. Passa(p, c, f)
  BY <1>3
<1>6. f \in Execucao
  BY <1>3
<1>7. QED
  BY <1>1, <1>4, <1>5, <1>6, LeasePasso

LEMMA LerControleLeases ==
  ASSUME IInv, Leases, NEW p \in Processos, NEW c \in Controles, LerControle(p, c)
  PROVE  Leases'
<1>0. TypeOK /\ execucao[p][c] \in Execucao
  BY DEF IInv, TypeOK
<1>1. UNCHANGED linha /\ execucao[p][c].pc = "inicio"
  BY DEF LerControle
<1>2. CASE ~Titular(p, c)
  <2>1. Passa(p, c, Parada) /\ Parada \in Execucao /\ Parada.pc = "parada"
    BY <1>2, ParadaType DEF LerControle
  <2>2. QED
    BY <1>1, <2>1, LeasePasso DEF Trabalhando
<1>3. CASE Titular(p, c)
  <2> DEFINE f == [execucao[p][c] EXCEPT !.pc = "renovar", !.nsu = ultimoNsuConsultado[c], !.ator = indAtor[c]]
  <2>1. /\ f \in Execucao /\ f.pc = "renovar" /\ f.nsu = ultimoNsuConsultado[c]
        /\ f.lease = execucao[p][c].lease
    BY <1>0 DEF TypeOK, Execucao
  <2>2. Passa(p, c, f)
    BY <1>3 DEF LerControle
  <2> HIDE DEF f
  <2>3. /\ execucao'[p][c] = f
        /\ \A q \in Processos, b \in Controles :
             <<q, b>> # <<p, c>> => execucao'[q][b] = execucao[q][b]
    BY <1>0, <2>1, <2>2, PassaUma
  <2>4. \A q \in Processos, b \in Controles : Dono(q, b)' => Dono(q, b) /\ <<q, b>> # <<p, c>>
    BY <1>1, <2>1, <2>3 DEF Dono, Titular, linha
  <2>5. \A q \in Processos, b \in Controles : Candidata(q, b)' => Candidata(q, b)
    BY <1>1, <2>1, <2>3 DEF Candidata, Titular, linha
  <2>6. SUFFICES ASSUME NEW q \in Processos, NEW b \in Controles PROVE LeaseOK(q, b)'
    BY DEF Leases
  <2>7. CASE <<q, b>> = <<p, c>>
    BY <1>1, <2>1, <2>3, <2>4, <2>7 DEF LeaseOK, linha
  <2>8. CASE <<q, b>> # <<p, c>>
    BY <1>1, <2>3, <2>4, <2>5, <2>8 DEF Leases, LeaseOK, Titular, linha
  <2>9. QED
    BY <2>7, <2>8
<1>4. QED
  BY <1>2, <1>3

\* The first check of an expired lease finds nobody at work.
LEMMA ResumeExpiredLeases ==
  ASSUME IInv, Leases, NEW p \in Processos, NEW c \in Controles, ResumeExpired(p, c)
  PROVE  Leases'
<1> DEFINE f == [Parada EXCEPT !.pc = "inicio", !.lease = proximaExecucao[c]]
<1>0. TypeOK
  BY DEF IInv
<1>1. proximaExecucao[c] \in Datas /\ vencida[c] /\ UNCHANGED linha
  BY <1>0 DEF ResumeExpired, Expirada, TypeOK
<1>2. f \in Execucao /\ f.pc = "inicio"
  BY <1>1, ParadaType DEF Parada
<1>3. Passa(p, c, f)
  BY DEF ResumeExpired, Inicia
<1> HIDE DEF f
<1>4. /\ execucao'[p][c] = f
      /\ \A q \in Processos, b \in Controles :
           <<q, b>> # <<p, c>> => execucao'[q][b] = execucao[q][b]
  BY <1>0, <1>2, <1>3, PassaUma
<1>5. \A q \in Processos : ~Dono(q, c)'
  <2> TAKE q \in Processos
  <2>1. CASE q = p
    BY <1>2, <1>4, <2>1 DEF Dono
  <2>2. CASE q # p
    <3>1. ~Dono(q, c)
      BY <1>1 DEF Leases, LeaseOK
    <3>2. QED
      BY <1>1, <1>4, <2>2, <3>1 DEF Dono, Titular, linha
  <2>3. QED
    BY <2>1, <2>2
<1>6. SUFFICES ASSUME NEW q \in Processos, NEW b \in Controles PROVE LeaseOK(q, b)'
  BY DEF Leases
<1>7. CASE b = c
  BY <1>1, <1>2, <1>4, <1>5, <1>7 DEF Leases, LeaseOK, Titular, linha
<1>8. CASE b # c
  BY <1>1, <1>4, <1>8 DEF Leases, LeaseOK, Dono, Titular, Candidata, linha
<1>9. QED
  BY <1>7, <1>8

\* The row of one control leaves 'processando': nobody owns it any more.
LEMMA LinhaLeases ==
  ASSUME IInv, Leases, NEW p \in Processos, NEW c \in Controles, Passa(p, c, Parada),
         NEW s, s # "processando", status' = [status EXCEPT ![c] = s],
         NEW d, proximaExecucao' = [proximaExecucao EXCEPT ![c] = d],
         vencida' = [vencida EXCEPT ![c] = FALSE], UNCHANGED ultimoNsuConsultado
  PROVE  Leases'
<1>0. TypeOK
  BY DEF IInv
<1>1. /\ execucao'[p][c] = Parada
      /\ \A q \in Processos, b \in Controles :
           <<q, b>> # <<p, c>> => execucao'[q][b] = execucao[q][b]
  BY <1>0, PassaUma, ParadaType
<1>2. /\ status'[c] = s /\ \A q \in Processos : ~Titular(q, c)'
      /\ \A b \in Controles \ {c} :
           /\ status'[b] = status[b] /\ proximaExecucao'[b] = proximaExecucao[b]
           /\ vencida'[b] = vencida[b] /\ ultimoNsuConsultado'[b] = ultimoNsuConsultado[b]
  BY <1>0 DEF TypeOK, Titular
<1>3. QED
  BY <1>1, <1>2, LeaseTroca DEF Dono

\* A row in 'processando' gets a lease that nobody else remembers.
LEMMA NovoLeaseLeases ==
  ASSUME IInv, Leases, NEW p \in Processos, NEW c \in Controles, NEW d \in Novas(c), Agenda(c, d),
         NEW e \in Execucao, Passa(p, c, e), status' = [status EXCEPT ![c] = "processando"],
         UNCHANGED ultimoNsuConsultado,
         e.pc \in Trabalhando => e.nsu = ultimoNsuConsultado[c] \/ e.lease # d,
         e.pc # "renovar" \/ e.lease # d
  PROVE  Leases'
<1>0. TypeOK /\ \A q \in Processos : execucao[q][c].lease # d
  BY NovaData DEF IInv
<1>1. /\ execucao'[p][c] = e
      /\ \A q \in Processos, b \in Controles :
           <<q, b>> # <<p, c>> => execucao'[q][b] = execucao[q][b]
  BY <1>0, PassaUma
<1>2. /\ proximaExecucao'[c] = d /\ ~vencida'[c]
      /\ \A b \in Controles \ {c} :
           /\ status'[b] = status[b] /\ proximaExecucao'[b] = proximaExecucao[b]
           /\ vencida'[b] = vencida[b] /\ ultimoNsuConsultado'[b] = ultimoNsuConsultado[b]
  BY <1>0 DEF Agenda, TypeOK
<1>3. \A q \in Processos \ {p} : ~Titular(q, c)'
  BY <1>0, <1>1, <1>2 DEF Titular
<1>4. Dono(p, c)' => execucao'[p][c].nsu = ultimoNsuConsultado'[c] /\ ~vencida'[c]
  BY <1>1, <1>2 DEF Dono, Titular, Trabalhando
<1>5. Titular(p, c)' => execucao'[p][c].pc # "renovar"
  BY <1>1, <1>2 DEF Titular
<1>6. QED
  BY <1>1, <1>2, <1>3, <1>4, <1>5, LeaseTroca

LEMMA PerdeuLeases ==
  ASSUME IInv, Leases, NEW p \in Processos, NEW c \in Controles, Passa(p, c, Parada), UNCHANGED linha
  PROVE  Leases'
<1>1. Parada \in Execucao /\ Parada.pc = "parada"
  BY ParadaType
<1>2. QED
  BY <1>1, LeasePasso DEF Trabalhando

LEMMA RenovarLeases ==
  ASSUME IInv, Leases, NEW p \in Processos, NEW c \in Controles, RenovarLease(p, c) \/ Continuar(p, c)
  PROVE  Leases'
<1>0. TypeOK /\ execucao[p][c] \in Execucao
  BY DEF IInv, TypeOK
<1>1. UNCHANGED <<status, indAtor, ultimoNsuConsultado, totalDocumentosBaixados>>
  BY DEF RenovarLease, Continuar
<1>2. CASE ~Titular(p, c)
  <2>1. Passa(p, c, Parada) /\ UNCHANGED linha
    BY <1>1, <1>2 DEF RenovarLease, Continuar, linha
  <2>2. QED
    BY <2>1, PerdeuLeases
<1>3. CASE Titular(p, c)
  <2>1. PICK d \in Novas(c) :
          /\ Agenda(c, d)
          /\ \/ /\ Passa(p, c, [execucao[p][c] EXCEPT !.pc = "pedir", !.lease = d])
                /\ execucao[p][c].pc = "renovar"
             \/ Passa(p, c, [Parada EXCEPT !.pc = "inicio", !.lease = d])
    BY <1>3 DEF RenovarLease, Continuar
  <2>2. d \in Datas /\ \A q \in Processos : execucao[q][c].lease # d
    BY <1>0, NovaData
  <2>3. PICK e \in Execucao : /\ Passa(p, c, e) /\ e.pc # "renovar"
                              /\ e.pc \in Trabalhando => e.nsu = ultimoNsuConsultado[c]
    <3>1. CASE /\ Passa(p, c, [execucao[p][c] EXCEPT !.pc = "pedir", !.lease = d])
               /\ execucao[p][c].pc = "renovar"
      <4> DEFINE f == [execucao[p][c] EXCEPT !.pc = "pedir", !.lease = d]
      <4>1. f \in Execucao /\ f.pc = "pedir" /\ f.nsu = execucao[p][c].nsu
        BY <1>0, <2>2 DEF Execucao
      <4>2. execucao[p][c].nsu = ultimoNsuConsultado[c]
        BY <1>3, <3>1 DEF Leases, LeaseOK
      <4>3. Passa(p, c, f)
        BY <3>1
      <4> HIDE DEF f
      <4>4. QED
        BY <4>1, <4>2, <4>3
    <3>2. CASE Passa(p, c, [Parada EXCEPT !.pc = "inicio", !.lease = d])
      <4> DEFINE f == [Parada EXCEPT !.pc = "inicio", !.lease = d]
      <4>1. f \in Execucao /\ f.pc = "inicio"
        BY <2>2, ParadaType DEF Parada
      <4>2. Passa(p, c, f)
        BY <3>2
      <4> HIDE DEF f
      <4>3. QED
        BY <4>1, <4>2 DEF Trabalhando
    <3>3. QED
      BY <2>1, <3>1, <3>2
  <2>4. status' = [status EXCEPT ![c] = "processando"]
    BY <1>0, <1>1, <1>3 DEF Titular, TypeOK
  <2>5. QED
    BY <1>1, <2>1, <2>3, <2>4, NovoLeaseLeases
<1>4. QED
  BY <1>2, <1>3

LEMMA EncerrarLeases ==
  ASSUME IInv, Leases, NEW p \in Processos, NEW c \in Controles, Encerrar(p, c) \/ StopAfterError(p, c)
  PROVE  Leases'
<1>0. TypeOK /\ execucao[p][c] \in Execucao
  BY DEF IInv, TypeOK
<1>1. Passa(p, c, Parada) /\ UNCHANGED <<indAtor, ultimoNsuConsultado, totalDocumentosBaixados>>
  BY DEF Encerrar, StopAfterError
<1>2. CASE ~Titular(p, c)
  <2>1. UNCHANGED linha
    BY <1>1, <1>2 DEF Encerrar, StopAfterError, linha
  <2>2. QED
    BY <1>1, <2>1, PerdeuLeases
<1>3. CASE Titular(p, c)
  <2>1. PICK x \in Desfechos : Encerra(c, x)
    BY <1>0, <1>3 DEF Encerrar, StopAfterError, Execucao, Desfechos
  <2>2. PICK s : s # "processando" /\ status' = [status EXCEPT ![c] = s]
    BY <2>1 DEF Encerra, Desfechos
  <2>3. PICK d : /\ proximaExecucao' = [proximaExecucao EXCEPT ![c] = d]
                 /\ vencida' = [vencida EXCEPT ![c] = FALSE]
    BY <2>1 DEF Encerra, Agenda
  <2>4. QED
    BY <1>1, <2>2, <2>3, LinhaLeases
<1>4. QED
  BY <1>2, <1>3

LEMMA RunLeases ==
  ASSUME IInv, Leases, NEW p \in Processos, NEW c \in Controles, Run(p, c)
  PROVE  Leases'
<1>0. TypeOK /\ execucao[p][c] \in Execucao
  BY DEF IInv, TypeOK
<1>1. PICK d \in Novas(c) : Agenda(c, d) /\ Inicia(p, c, d)
  BY DEF Run
<1>2. d \in Datas /\ \A q \in Processos : execucao[q][c].lease # d
  BY <1>0, NovaData
<1>3. PICK e \in Execucao : Passa(p, c, e) /\ (e.lease # d \/ e.pc = "inicio")
  <2>1. CASE execucao[p][c].pc = "parada"
    <3> DEFINE f == [Parada EXCEPT !.pc = "inicio", !.lease = d]
    <3>1. f \in Execucao /\ f.pc = "inicio" /\ Passa(p, c, f)
      BY <1>1, <1>2, <2>1, ParadaType DEF Inicia, Parada
    <3> HIDE DEF f
    <3>2. QED
      BY <3>1
  <2>2. CASE execucao[p][c].pc # "parada"
    <3>1. Passa(p, c, execucao[p][c])
      BY <1>0, <1>1, <2>2 DEF Inicia, Passa, TypeOK
    <3>2. QED
      BY <1>0, <1>2, <3>1
  <2>3. QED
    BY <2>1, <2>2
<1>4. QED
  BY <1>1, <1>3, NovoLeaseLeases DEF Run, Trabalhando

LEMMA RastrearLeases ==
  ASSUME IInv, Leases, NEW p \in Processos, NEW c \in Controles, Rastrear(p, c)
  PROVE  /\ Leases'
         /\ Titular(p, c) => \E n \in 1..MaxNsu :
              /\ ultimoNsuConsultado[c] < n /\ rastreados' = [rastreados EXCEPT ![c] = @ \union {n}]
              /\ Avanca(c, n)
<1> DEFINE e == execucao[p][c]
<1>0. TypeOK /\ ExecucaoOK(p, c) /\ e \in Execucao /\ e.pc = "rastrear"
  BY DEF IInv, TypeOK, Rastrear
<1>1. UNCHANGED <<status, indAtor, proximaExecucao, vencida>>
  BY DEF Rastrear
<1>2. CASE ~Titular(p, c)
  <2>1. Passa(p, c, Parada) /\ UNCHANGED linha
    BY <1>1, <1>2 DEF Rastrear, linha
  <2>2. QED
    BY <1>2, <2>1, PerdeuLeases
<1>3. CASE Titular(p, c)
  <2>1. PICK n \in 1..MaxNsu :
          /\ Primeiro(e, n) /\ Avanca(c, n)
          /\ rastreados' = [rastreados EXCEPT ![c] = @ \union {n}]
          /\ Passa(p, c, [e EXCEPT !.pc = IF e.docs = {n} THEN "fechar" ELSE "persistir",
                                   !.nsu = n, !.docs = @ \ {n}])
    BY <1>3 DEF Rastrear
  <2> DEFINE f == [e EXCEPT !.pc = IF e.docs = {n} THEN "fechar" ELSE "persistir",
                            !.nsu = n, !.docs = @ \ {n}]
  <2>2. Dono(p, c)
    BY <1>0, <1>3 DEF Dono
  <2>3. e.nsu = ultimoNsuConsultado[c] /\ ~vencida[c] /\ \A q \in Processos : ~Candidata(q, c)
    BY <2>2 DEF Leases, LeaseOK
  <2>4. e.nsu < n
    BY <1>0, <2>1 DEF ExecucaoOK
  <2>5. f \in Execucao
    <3>1. n \in 0..MaxNsu /\ e.docs \ {n} \in SUBSET (1..MaxNsu)
      BY <1>0 DEF Execucao
    <3>2. QED
      BY <1>0, <3>1 DEF Execucao
  <2>6. f.pc \in {"fechar", "persistir"} /\ f.nsu = n
    BY <1>0 DEF Execucao
  <2>7. Passa(p, c, f)
    BY <2>1
  <2> HIDE DEF f
  <2>8. /\ execucao'[p][c] = f
        /\ \A q \in Processos, b \in Controles :
             <<q, b>> # <<p, c>> => execucao'[q][b] = execucao[q][b]
    BY <1>0, <2>5, <2>7, PassaUma
  <2>9. ultimoNsuConsultado' = [ultimoNsuConsultado EXCEPT ![c] = n]
    BY <2>1 DEF Avanca
  <2>10. Leases'
    <3> SUFFICES ASSUME NEW q \in Processos, NEW b \in Controles PROVE LeaseOK(q, b)'
      BY DEF Leases
    <3>1. CASE b # c
      BY <1>0, <1>1, <2>8, <2>9, <3>1 DEF Leases, LeaseOK, Dono, Titular, Candidata, TypeOK
    <3>2. CASE b = c
      <4>1. \A x \in Processos : ~Candidata(x, c)'
        BY <1>1, <2>3, <2>6, <2>8 DEF Candidata, Titular
      <4>2. ultimoNsuConsultado'[c] = n /\ ~vencida'[c]
        BY <1>0, <1>1, <2>3, <2>9 DEF TypeOK
      <4>3. q # p => ~Dono(q, c)'
        <5>1. q # p => ~Dono(q, c)
          BY <2>2 DEF IInv, UmTitular
        <5>2. QED
          BY <1>1, <2>8, <5>1 DEF Dono, Titular
      <4>4. q = p => execucao'[q][c].nsu = n
        BY <2>6, <2>8
      <4>5. QED
        BY <3>2, <4>1, <4>2, <4>3, <4>4 DEF LeaseOK, Candidata
    <3>3. QED
      BY <3>1, <3>2
  <2>11. QED
    BY <2>1, <2>3, <2>4, <2>10
<1>4. QED
  BY <1>2, <1>3

-----------------------------------------------------------------------------

LEMMA OperadorLeases ==
  ASSUME IInv, Leases, NEW c \in Controles, GravarConfiguracao(c) \/ Pause(c)
  PROVE  Leases'
<1>0. TypeOK
  BY DEF IInv
<1>1. status'[c] # "processando" /\ UNCHANGED <<execucao, ultimoNsuConsultado>>
  BY <1>0 DEF GravarConfiguracao, Pause, TypeOK
<1>2. \A b \in Controles \ {c} :
        /\ status'[b] = status[b] /\ proximaExecucao'[b] = proximaExecucao[b]
        /\ vencida'[b] = vencida[b]
  BY <1>0 DEF GravarConfiguracao, Pause, TypeOK
<1>3. SUFFICES ASSUME NEW q \in Processos, NEW b \in Controles PROVE LeaseOK(q, b)'
  BY DEF Leases
<1>4. CASE b = c
  BY <1>1, <1>4 DEF LeaseOK, Dono, Titular
<1>5. CASE b # c
  BY <1>1, <1>2, <1>5 DEF Leases, LeaseOK, Dono, Titular, Candidata
<1>6. QED
  BY <1>4, <1>5

\* Time does not pass the lease of an owner.
LEMMA VencerLeases ==
  ASSUME DentroDoLease, IInv, Leases, NEW c \in Controles, Vencer(c)
  PROVE  Leases'
<1>0. TypeOK
  BY DEF IInv
<1>1. /\ \A q \in Processos : ~Dono(q, c)
      /\ UNCHANGED <<status, proximaExecucao, ultimoNsuConsultado, execucao>>
  BY DEF Vencer
<1>2. \A b \in Controles \ {c} : vencida'[b] = vencida[b]
  BY <1>0 DEF Vencer, TypeOK
<1>3. SUFFICES ASSUME NEW q \in Processos, NEW b \in Controles PROVE LeaseOK(q, b)'
  BY DEF Leases
<1>4. CASE b = c
  BY <1>1, <1>4 DEF Leases, LeaseOK, Dono, Titular
<1>5. CASE b # c
  BY <1>1, <1>2, <1>5 DEF Leases, LeaseOK, Dono, Titular, Candidata
<1>6. QED
  BY <1>4, <1>5

LEMMA ReiniciarLeases ==
  ASSUME IInv, Leases, NEW p \in Processos, Reiniciar(p)
  PROVE  Leases'
<1>0. TypeOK
  BY DEF IInv
<1>1. UNCHANGED linha
  BY DEF Reiniciar
<1>2. /\ \A b \in Controles : execucao'[p][b] = Parada
      /\ \A q \in Processos \ {p} : \A b \in Controles : execucao'[q][b] = execucao[q][b]
  BY <1>0 DEF Reiniciar, TypeOK
<1>3. \A q \in Processos, b \in Controles :
        /\ Dono(q, b)' => Dono(q, b) /\ execucao'[q][b].nsu = execucao[q][b].nsu
        /\ Candidata(q, b)' => Candidata(q, b) /\ execucao'[q][b] = execucao[q][b]
  <2> TAKE q \in Processos, b \in Controles
  <2>1. CASE q = p
    BY <1>2, <2>1, ParadaType DEF Dono, Candidata
  <2>2. CASE q # p
    BY <1>1, <1>2, <2>2 DEF Dono, Candidata, Titular, linha
  <2>3. QED
    BY <2>1, <2>2
<1>4. QED
  BY <1>1, <1>3, LeaseFica DEF linha

LEMMA MesmaLinhaLeases ==
  ASSUME Leases, UNCHANGED <<linha, execucao>>
  PROVE  Leases'
BY DEF Leases, LeaseOK, Dono, Titular, Candidata, linha

\* A step keeps what the lease guarantees.  An owner may record one more document, behind
\* the cursor; nothing else touches the cursor or the count.
LEMMA NextLeases ==
  ASSUME DentroDoLease, IInv, Leases, [Next]_vars
  PROVE  /\ Leases'
         /\ \/ /\ UNCHANGED <<ultimoNsuConsultado, totalDocumentosBaixados>>
               /\ \A c \in Controles : rastreados[c] \subseteq rastreados'[c]
            \/ \E c \in Controles : \E n \in 1..MaxNsu :
                 /\ ultimoNsuConsultado[c] < n /\ Avanca(c, n)
                 /\ rastreados' = [rastreados EXCEPT ![c] = @ \union {n}]
<1>1. CASE \E p \in Processos, c \in Controles : Trabalhar(p, c)
  <2>1. PICK p \in Processos, c \in Controles : Trabalhar(p, c)
    BY <1>1
  <2>2. CASE Rastrear(p, c)
    <3>1. CASE Titular(p, c)
      BY <2>2, <3>1, RastrearLeases
    <3>2. CASE ~Titular(p, c)
      <4>1. /\ UNCHANGED <<ultimoNsuConsultado, totalDocumentosBaixados>>
            /\ \E n \in 1..MaxNsu : rastreados' = [rastreados EXCEPT ![c] = @ \union {n}]
        BY <2>2, <3>2 DEF Rastrear
      <4>2. \A b \in Controles : rastreados[b] \subseteq rastreados'[b]
        BY <4>1 DEF IInv, TypeOK
      <4>3. QED
        BY <2>2, <4>1, <4>2, RastrearLeases
    <3>3. QED
      BY <3>1, <3>2
  <2>3. CASE ~Rastrear(p, c)
    <3>1. UNCHANGED <<ultimoNsuConsultado, totalDocumentosBaixados, rastreados>>
      BY <2>1, <2>3 DEF Trabalhar, LerControle, RenovarLease, BaixarLote, BaixarSemLote, Falhar,
         Persistir, ForaDeOrdem, Continuar, Encerrar, StopAfterError, FalhaInterna, LerAposExcecao,
         linha, dados
    <3>2. Leases'
      BY <2>1, <2>3, LerControleLeases, RenovarLeases, LocalLeases, EncerrarLeases DEF Trabalhar
    <3>3. QED
      BY <3>1, <3>2
  <2>4. QED
    BY <2>2, <2>3
<1>2. CASE Operar
  <2>1. UNCHANGED <<ultimoNsuConsultado, totalDocumentosBaixados, rastreados>>
    BY <1>2 DEF Operar, LerConfiguracao, GravarConfiguracao, Pause, Run, ResumeExpired, linha, dados
  <2>2. Leases'
    <3>1. ASSUME NEW c \in Controles, NEW ator \in Filtros, LerConfiguracao(c, ator) PROVE Leases'
      BY <3>1, MesmaLinhaLeases DEF LerConfiguracao
    <3>2. QED
      BY <1>2, <3>1, OperadorLeases, RunLeases, ResumeExpiredLeases DEF Operar
  <2>3. QED
    BY <2>1, <2>2
<1>3. CASE Ambiente
  <2>1. UNCHANGED <<ultimoNsuConsultado, totalDocumentosBaixados, rastreados>>
    BY <1>3 DEF Ambiente, Vencer, Publicar, Reiniciar, linha, dados
  <2>2. Leases'
    <3>1. ASSUME NEW c \in Controles, NEW F, NEW n, Publicar(c, F, n) PROVE Leases'
      BY <3>1, MesmaLinhaLeases DEF Publicar
    <3>2. QED
      BY <1>3, <3>1, VencerLeases, ReiniciarLeases DEF Ambiente
  <2>3. QED
    BY <2>1, <2>2
<1>4. CASE UNCHANGED vars
  BY <1>4, MesmaLinhaLeases DEF vars, linha, dados
<1>5. QED
  BY <1>1, <1>2, <1>3, <1>4 DEF Next

LEMMA InitLeases == Init => Leases
BY ParadaType DEF Init, Leases, LeaseOK, Dono, Titular

LEMMA SpecLeases == DentroDoLease /\ Spec => []Leases
<1> SUFFICES ASSUME DentroDoLease PROVE Spec => []Leases
  OBVIOUS
<1>1. IInv /\ Leases /\ [Next]_vars => Leases'
  BY NextLeases
<1>2. QED
  BY <1>1, InitLeases, SpecIInv, PTL DEF Spec

\* When no execution works past the lease it renewed, the cursor of a control never moves
\* back, however many processes run, fail or are restarted.
THEOREM SemRegresso == DentroDoLease /\ Spec => CursorNaoRegride
<1> SUFFICES ASSUME DentroDoLease PROVE Spec => CursorNaoRegride
  OBVIOUS
<1>1. IInv /\ Leases /\ [Next]_vars =>
        [\A c \in Controles : ultimoNsuConsultado'[c] >= ultimoNsuConsultado[c]]_vars
  <2> SUFFICES ASSUME IInv, Leases, [Next]_vars
               PROVE  [\A c \in Controles : ultimoNsuConsultado'[c] >= ultimoNsuConsultado[c]]_vars
    OBVIOUS
  <2>1. TypeOK
    BY DEF IInv
  <2>2. \A c \in Controles : ultimoNsuConsultado[c] \in Int
    BY <2>1, DadosAssumption DEF TypeOK
  <2>3. CASE UNCHANGED ultimoNsuConsultado
    BY <2>2, <2>3
  <2>4. ASSUME NEW c \in Controles, NEW n \in 1..MaxNsu, ultimoNsuConsultado[c] < n, Avanca(c, n)
        PROVE  \A b \in Controles : ultimoNsuConsultado'[b] >= ultimoNsuConsultado[b]
    BY <2>1, <2>2, <2>4 DEF Avanca, TypeOK
  <2>5. QED
    BY <2>3, <2>4, NextLeases
<1>2. Spec => []Leases
  BY SpecLeases
<1>3. QED
  BY <1>1, <1>2, SpecIInv, PTL DEF Spec, CursorNaoRegride

-----------------------------------------------------------------------------

Contados(c) == {n \in rastreados[c] : n <= ultimoNsuConsultado[c]}

\* A set of NSUs is finite.
LEMMA NsusFinitos ==
  ASSUME NEW S \in SUBSET (1..MaxNsu)
  PROVE  IsFiniteSet(S) /\ Cardinality(S) \in Nat
<1>1. IsFiniteSet(1..MaxNsu)
  BY FS_Interval, DadosAssumption
<1>2. IsFiniteSet(S)
  BY <1>1, FS_Subset
<1>3. QED
  BY <1>2, FS_CardinalityType

LEMMA ContagemPasso ==
  ASSUME DentroDoLease, IInv, Leases, ContagemUnica, [Next]_vars
  PROVE  ContagemUnica'
<1>0. TypeOK /\ TypeOK'
  BY NextIInv DEF IInv
<1>1. ASSUME NEW c \in Controles
      PROVE  totalDocumentosBaixados'[c] <= Cardinality(Contados(c)')
  <2>1. /\ Contados(c) \in SUBSET (1..MaxNsu) /\ Contados(c)' \in SUBSET (1..MaxNsu)
        /\ totalDocumentosBaixados[c] \in Int /\ totalDocumentosBaixados'[c] \in Int
    BY <1>0, DadosAssumption DEF TypeOK, Contados
  <2>2. totalDocumentosBaixados[c] <= Cardinality(Contados(c))
    BY DEF ContagemUnica, Contados
  <2>3. /\ IsFiniteSet(Contados(c)) /\ IsFiniteSet(Contados(c)')
        /\ Cardinality(Contados(c)) \in Int /\ Cardinality(Contados(c)') \in Int
    BY <2>1, NsusFinitos
  <2>4. CASE /\ totalDocumentosBaixados'[c] = totalDocumentosBaixados[c]
             /\ Contados(c) \subseteq Contados(c)'
    <3>1. Cardinality(Contados(c)) <= Cardinality(Contados(c)')
      BY <2>3, <2>4, FS_Subset
    <3>2. QED
      BY <2>1, <2>2, <2>3, <2>4, <3>1
  <2>5. ASSUME NEW n \in 1..MaxNsu, ultimoNsuConsultado[c] < n, Avanca(c, n),
               rastreados' = [rastreados EXCEPT ![c] = @ \union {n}]
        PROVE  totalDocumentosBaixados'[c] <= Cardinality(Contados(c)')
    <3>1. ultimoNsuConsultado[c] \in Int /\ n \in Int
      BY <1>0, DadosAssumption DEF TypeOK
    <3>2. ultimoNsuConsultado'[c] = n /\ rastreados'[c] = rastreados[c] \union {n}
      BY <1>0, <2>5 DEF Avanca, TypeOK
    <3>3. n \notin Contados(c)
      BY <2>5, <3>1 DEF Contados
    <3>4. \A m \in rastreados[c] : m \in Int
      BY <1>0 DEF TypeOK
    <3>5. Contados(c) \union {n} \subseteq Contados(c)'
      BY <2>5, <3>1, <3>2, <3>4 DEF Contados
    <3>6. /\ IsFiniteSet(Contados(c) \union {n})
          /\ Cardinality(Contados(c) \union {n}) = Cardinality(Contados(c)) + 1
      BY <2>3, <3>3, FS_AddElement
    <3>7. Cardinality(Contados(c) \union {n}) <= Cardinality(Contados(c)')
      BY <2>3, <3>5, FS_Subset
    <3>8. totalDocumentosBaixados'[c] <= totalDocumentosBaixados[c] + 1
      BY <1>0, <2>1, <2>5 DEF Avanca, TypeOK
    <3>9. QED
      BY <2>1, <2>2, <2>3, <3>6, <3>7, <3>8
  <2>6. CASE /\ UNCHANGED <<ultimoNsuConsultado, totalDocumentosBaixados>>
             /\ \A b \in Controles : rastreados[b] \subseteq rastreados'[b]
    BY <2>4, <2>6 DEF Contados
  <2>7. ASSUME NEW b \in Controles, NEW n \in 1..MaxNsu, ultimoNsuConsultado[b] < n, Avanca(b, n),
               rastreados' = [rastreados EXCEPT ![b] = @ \union {n}]
        PROVE  totalDocumentosBaixados'[c] <= Cardinality(Contados(c)')
    <3>1. CASE b = c
      BY <2>5, <2>7, <3>1
    <3>2. CASE b # c
      <4>1. /\ totalDocumentosBaixados'[c] = totalDocumentosBaixados[c]
            /\ ultimoNsuConsultado'[c] = ultimoNsuConsultado[c] /\ rastreados'[c] = rastreados[c]
        BY <1>0, <2>7, <3>2 DEF Avanca, TypeOK
      <4>2. QED
        BY <2>4, <4>1 DEF Contados
    <3>3. QED
      BY <3>1, <3>2
  <2>8. QED
    BY <2>6, <2>7, NextLeases
<1>2. QED
  BY <1>1 DEF ContagemUnica, Contados

\* When no execution works past the lease it renewed, no document is counted twice, also when
\* it was asked for again after a failure or a restart.
THEOREM Contagem == DentroDoLease /\ Spec => []ContagemUnica
<1> SUFFICES ASSUME DentroDoLease PROVE Spec => []ContagemUnica
  OBVIOUS
<1>1. Init => ContagemUnica
  <2> SUFFICES ASSUME Init, NEW c \in Controles
               PROVE  totalDocumentosBaixados[c] <= Cardinality(Contados(c))
    BY DEF ContagemUnica, Contados
  <2>1. totalDocumentosBaixados[c] = 0 /\ Contados(c) = {}
    BY DEF Init, Contados
  <2>2. Cardinality({}) = 0
    BY FS_EmptySet
  <2>3. QED
    BY <2>1, <2>2
<1>2. IInv /\ Leases /\ ContagemUnica /\ [Next]_vars => ContagemUnica'
  BY ContagemPasso
<1>3. Spec => []Leases
  BY SpecLeases
<1>4. QED
  BY <1>1, <1>2, <1>3, SpecIInv, PTL DEF Spec
=============================================================================
