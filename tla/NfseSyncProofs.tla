--------------------------- MODULE NfseSyncProofs ---------------------------
(***************************************************************************)
(* Theorems about NfseSync, for every number of controls, clients,         *)
(* workers and processes, every bound and every duration.                  *)
(*                                                                         *)
(* CursorCoberto is not inductive: a runNow writes a cursor it derived     *)
(* from a row it read long before.  The invariant that is, IInv, says of   *)
(* every row and every answer a worker holds that what lies below it has   *)
(* been answered; it stays true because answers are never forgotten and    *)
(* nsuInicial never changes after the control is created.                  *)
(***************************************************************************)
EXTENDS NfseSync, TLAPS

USE DEF ProximoNsu

Existentes == {c \in Controles : status[c] # "inexistente"}

\* The NSUs of c from its first one to k had their answer; I and R stand for
\* nsuInicial and Respondidos.
Coberto(c, k, I, R) == \A n \in I[c]..k : n \in R[c]

\* A row read by a runNow; E stands for Existentes.
LinhaOK(l, E, I, R) == l.controle \in E /\ Coberto(l.controle, l.nsu, I, R)

\* What a runNow relies on at each point of its loop.
RunOK(r, E, I, R) ==
  /\ \A l \in r.fila : LinhaOK(l, E, I, R)
  /\ r.pc \in {"ocioso", "reservar"} \/ r.linha # Nenhum
  /\ r.linha # Nenhum => LinhaOK(r.linha, E, I, R)
  /\ r.pc \in {"consultar", "resposta", "fechar"} => Coberto(r.linha.controle, r.nsu, I, R)
  /\ r.pc = "resposta" /\ AvancaSemDocumento(r.resposta) =>
       r.nsu + 1 <= MaxNsu /\ r.nsu + 1 \in R[r.linha.controle]
  /\ r.pc = "resposta" /\ r.resposta = "lote" =>
       \A n \in r.nsu + 1..r.teto : n \in R[r.linha.controle] \union r.lote

Execucoes == \A w \in Workers : RunOK(run[w], Existentes, nsuInicial, Respondidos)

IInv ==
  /\ TypeOK
  /\ Execucoes
  /\ verificacao.ativos \union verificacao.erros \subseteq Existentes
  /\ CursorCoberto

-----------------------------------------------------------------------------
(* Operators of the model                                                  *)

\* Every due date the code computes is a duration of the configuration.
LEMMA Prazos ==
  /\ 0 \in Prazo /\ ClaimTtl \in Prazo /\ RetryDelay \in Prazo /\ DailyInterval \in Prazo
  /\ SuccessCooldown \in Prazo /\ RateCooldown \in Prazo
  /\ \A origem : BuildActivationSchedule(origem) \subseteq Prazo
  /\ \A t \in Prazo : Antes(t) \in Prazo
  /\ \A s, t \in Prazo : Maior(s, t) \in Prazo
  /\ \A j \in 0..RetryJitter : RetryDelay + j \in Prazo
BY NumerosAssumption DEF Prazo, Maior, BuildActivationSchedule, Antes

\* What a runNow is left with when it is done with a control is a runNow, and relies on
\* nothing but the rows still in its queue.
LEMMA OciosoRun == Ocioso \in Run
BY Prazos, NumerosAssumption DEF Ocioso, Run

LEMMA SeguinteRun ==
  ASSUME NEW r \in Run
  PROVE  Seguinte(r) \in Run
<1>1. [Ocioso EXCEPT !.pc = "reservar", !.fila = r.fila] \in Run
  BY OciosoRun DEF Run
<1>2. QED
  BY <1>1, OciosoRun DEF Seguinte

LEMMA SeguinteOK ==
  ASSUME NEW r \in Run, NEW E, NEW I, NEW R,
         \A l \in r.fila : LinhaOK(l, E, I, R)
  PROVE  RunOK(Seguinte(r), E, I, R) /\ RunOK(Ocioso, E, I, R)
BY DEF Seguinte, Ocioso, RunOK

\* Answers are never forgotten and a control keeps its first NSU: what a runNow relies
\* on goes on holding.
LEMMA RunEstavel ==
  ASSUME NEW r, NEW E, NEW I, NEW R, NEW F, NEW J, NEW S,
         E \subseteq F, \A c \in E : J[c] = I[c] /\ R[c] \subseteq S[c],
         RunOK(r, E, I, R)
  PROVE  RunOK(r, F, J, S)
<1>1. \A l : LinhaOK(l, E, I, R) => LinhaOK(l, F, J, S)
  BY DEF LinhaOK, Coberto
<1>2. r.linha # Nenhum => r.linha.controle \in E
  BY DEF RunOK, LinhaOK
<1>3. QED
  BY <1>1, <1>2 DEF RunOK, Coberto

\* A runNow one of whose fields changes is a runNow.
LEMMA CampoRun ==
  ASSUME NEW r \in Run
  PROVE  /\ \A x \in {"consultar", "resposta", "fechar"} : [r EXCEPT !.pc = x] \in Run
         /\ \A x \in 0..MaxNsu : [r EXCEPT !.nsu = x] \in Run
         /\ \A x \in 0..MaxPassos - 1 : [r EXCEPT !.passo = x] \in Run
         /\ \A x \in BOOLEAN : [r EXCEPT !.salvou = x] \in Run
         /\ \A x \in TodasFalhas \union {"nenhuma", "semDocumento", "lote"} : [r EXCEPT !.resposta = x] \in Run
         /\ \A x \in SUBSET (1..MaxNsu) : [r EXCEPT !.lote = x] \in Run
         /\ \A x \in 0..MaxNsu : [r EXCEPT !.teto = x] \in Run
         /\ \A x \in Prazo : [r EXCEPT !.prazo = x] \in Run
BY DEF Run

LEMMA RecebeRun ==
  ASSUME NEW r \in Run, NEW a \in TodasFalhas \union {"semDocumento", "lote"},
         NEW lote \in SUBSET (1..MaxNsu), NEW teto \in 0..MaxNsu
  PROVE  [r EXCEPT !.pc = "resposta", !.resposta = a, !.lote = lote, !.teto = teto] \in Run
<1> DEFINE r1 == [r EXCEPT !.pc = "resposta"]
           r2 == [r1 EXCEPT !.resposta = a]
           r3 == [r2 EXCEPT !.lote = lote]
<1>1. r1 \in Run
  BY CampoRun
<1> HIDE DEF r1
<1>2. r2 \in Run
  BY <1>1, CampoRun
<1> HIDE DEF r2
<1>3. r3 \in Run
  BY <1>2, CampoRun
<1> HIDE DEF r3
<1>4. [r3 EXCEPT !.teto = teto] \in Run
  BY <1>3, CampoRun
<1>5. QED
  BY <1>4 DEF r1, r2, r3

LEMMA FecharRun ==
  ASSUME NEW r \in Run, NEW k \in 0..MaxNsu
  PROVE  [r EXCEPT !.pc = "fechar", !.nsu = k, !.resposta = "nenhuma", !.teto = 0] \in Run
<1> DEFINE r1 == [r EXCEPT !.pc = "fechar"]
           r2 == [r1 EXCEPT !.nsu = k]
           r3 == [r2 EXCEPT !.resposta = "nenhuma"]
<1>1. r1 \in Run
  BY CampoRun
<1> HIDE DEF r1
<1>2. r2 \in Run
  BY <1>1, CampoRun
<1> HIDE DEF r2
<1>3. r3 \in Run
  BY <1>2, CampoRun
<1> HIDE DEF r3
<1>4. 0 \in 0..MaxNsu
  BY NumerosAssumption
<1>5. [r3 EXCEPT !.teto = 0] \in Run
  BY <1>3, <1>4, CampoRun
<1>6. QED
  BY <1>5 DEF r1, r2, r3

LEMMA ConsultarRun ==
  ASSUME NEW r \in Run, NEW k \in 0..MaxNsu, NEW p \in 0..MaxPassos - 1
  PROVE  [r EXCEPT !.pc = "consultar", !.nsu = k, !.passo = p, !.resposta = "nenhuma", !.teto = 0] \in Run
<1> DEFINE r1 == [r EXCEPT !.pc = "consultar"]
           r2 == [r1 EXCEPT !.nsu = k]
           r3 == [r2 EXCEPT !.passo = p]
           r4 == [r3 EXCEPT !.resposta = "nenhuma"]
<1>1. r1 \in Run
  BY CampoRun
<1> HIDE DEF r1
<1>2. r2 \in Run
  BY <1>1, CampoRun
<1> HIDE DEF r2
<1>3. r3 \in Run
  BY <1>2, CampoRun
<1> HIDE DEF r3
<1>4. r4 \in Run
  BY <1>3, CampoRun
<1> HIDE DEF r4
<1>5. 0 \in 0..MaxNsu
  BY NumerosAssumption
<1>6. [r4 EXCEPT !.teto = 0] \in Run
  BY <1>4, <1>5, CampoRun
<1>7. QED
  BY <1>6 DEF r1, r2, r3, r4

-----------------------------------------------------------------------------
(* Initial states                                                          *)

LEMMA InitTypeOK == Init => TypeOK
BY Prazos, NumerosAssumption, OciosoRun DEF Init, TypeOK, Estados, Modos, Niveis

LEMMA InitIInv == Init => IInv
<1> SUFFICES ASSUME Init PROVE IInv
  OBVIOUS
<1>1. Execucoes
  BY DEF Init, Execucoes, Ocioso, RunOK
<1>2. CursorCoberto
  BY DEF Init, CursorCoberto
<1>3. QED
  BY <1>1, <1>2, InitTypeOK DEF Init, IInv

-----------------------------------------------------------------------------
(* The steps of runNow                                                     *)

\* No step of runNow changes what the rows held by the workers rely on.
Mantem ==
  /\ Existentes \subseteq Existentes'
  /\ nsuInicial' = nsuInicial
  /\ \A c \in Controles : Respondidos[c] \subseteq Respondidos'[c]

LEMMA ExecucoesMantidas ==
  ASSUME Execucoes, Mantem, NEW w \in Workers,
         \A v \in Workers \ {w} : run'[v] = run[v],
         RunOK(run'[w], Existentes', nsuInicial', Respondidos')
  PROVE  Execucoes'
<1>1. ASSUME NEW v \in Workers, v # w
      PROVE  RunOK(run'[v], Existentes', nsuInicial', Respondidos')
  <2>1. RunOK(run[v], Existentes, nsuInicial, Respondidos)
    BY DEF Execucoes
  <2>2. Existentes \subseteq Controles
    BY DEF Existentes
  <2>3. QED
    BY <2>1, <2>2, <1>1, RunEstavel DEF Mantem
<1>2. QED
  BY <1>1 DEF Execucoes

LEMMA CursorMantido ==
  ASSUME CursorCoberto, Mantem, UNCHANGED ultimoNsuConsultado
  PROVE  CursorCoberto'
BY DEF CursorCoberto, Mantem, Respondidos

\* One worker goes on with r, the others stay where they are.
LEMMA Troca ==
  ASSUME IInv, Mantem, NEW w \in Workers, NEW r \in Run,
         run' = [run EXCEPT ![w] = r],
         RunOK(r, Existentes', nsuInicial', Respondidos')
  PROVE  run' \in [Workers -> Run] /\ Execucoes'
<1>1. run' \in [Workers -> Run] /\ run'[w] = r /\ \A v \in Workers \ {w} : run'[v] = run[v]
  BY DEF IInv, TypeOK
<1>2. QED
  BY <1>1, ExecucoesMantidas DEF IInv

\* One worker is done with its control.
LEMMA Segue ==
  ASSUME IInv, Mantem, NEW w \in Workers, NEW r \in Run,
         r.fila \subseteq run[w].fila,
         run' = [run EXCEPT ![w] = Seguinte(r)]
  PROVE  run' \in [Workers -> Run] /\ Execucoes'
<1>1. run[w] \in Run /\ RunOK(run[w], Existentes, nsuInicial, Respondidos)
  BY DEF IInv, TypeOK, Execucoes
<1>2. RunOK(run[w], Existentes', nsuInicial', Respondidos')
  BY <1>1, RunEstavel DEF Mantem, Existentes
<1>3. \A l \in r.fila : LinhaOK(l, Existentes', nsuInicial', Respondidos')
  BY <1>2 DEF RunOK
<1>4. RunOK(Seguinte(r), Existentes', nsuInicial', Respondidos')
  BY <1>3, SeguinteOK
<1>5. QED
  BY <1>4, SeguinteRun, Troca

LEMMA RunNowIInv ==
  ASSUME IInv, NEW w \in Workers, RunNow(w)
  PROVE  IInv'
<1>1. PICK F \in SUBSET {c \in Controles : Vencido(c) /\ ultimoNsuConsultado[c] < MaxNsu} :
        run' = [run EXCEPT ![w] = [Ocioso EXCEPT !.pc = "reservar", !.fila = {Linha(c) : c \in F}]]
  BY DEF RunNow
<1> DEFINE r == [Ocioso EXCEPT !.pc = "reservar", !.fila = {Linha(c) : c \in F}]
<1>2. \A c \in F : Linha(c) \in Linhas /\ LinhaOK(Linha(c), Existentes, nsuInicial, Respondidos)
  BY DEF IInv, TypeOK, CursorCoberto, Linha, Linhas, LinhaOK, Coberto, Existentes, Vencido, Respondidos
<1>3. r \in Run /\ RunOK(r, Existentes, nsuInicial, Respondidos)
  BY <1>2, OciosoRun DEF Run, Ocioso, RunOK
<1>4. Mantem /\ Existentes' = Existentes /\ Respondidos' = Respondidos /\ nsuInicial' = nsuInicial
  BY DEF RunNow, Mantem, tabela, adn, Existentes, Respondidos
<1>5. run' \in [Workers -> Run] /\ Execucoes'
  BY <1>1, <1>3, <1>4, Troca
<1>6. TypeOK' /\ CursorCoberto'
  BY <1>4, <1>5, CursorMantido DEF RunNow, IInv, TypeOK, tabela, adn, historia
<1>7. QED
  BY <1>4, <1>5, <1>6 DEF IInv, RunNow

LEMMA ReservarIInv ==
  ASSUME IInv, NEW w \in Workers, NEW l \in run[w].fila, Reservar(w, l)
  PROVE  IInv'
<1> DEFINE r == [Ocioso EXCEPT !.pc = "certificado", !.fila = run[w].fila \ {l}, !.linha = l,
                               !.prazo = ClaimTtl]
<1>1. run[w] \in Run /\ RunOK(run[w], Existentes, nsuInicial, Respondidos)
  BY DEF IInv, TypeOK, Execucoes
<1>2. l \in Linhas /\ l.controle \in Controles
  BY <1>1 DEF Run, Linhas
<1>3. Mantem /\ Existentes' = Existentes /\ Respondidos' = Respondidos /\ nsuInicial' = nsuInicial
  BY DEF Reservar, Mantem, adn, Existentes, Respondidos
<1>4. r \in Run
  BY <1>1, <1>2, OciosoRun, Prazos DEF Run
<1>5. RunOK(r, Existentes, nsuInicial, Respondidos)
  BY <1>1, <1>2, DadosAssumption DEF RunOK, Ocioso
<1>6. run' \in [Workers -> Run] /\ Execucoes'
  BY <1>3, <1>4, <1>5, Troca DEF Reservar
<1>7. TypeOK'
  BY <1>2, <1>6, Prazos DEF IInv, TypeOK, Reservar, TryClaimDueControl, adn
<1>8. QED
  BY <1>3, <1>6, <1>7, CursorMantido DEF IInv, Reservar

LEMMA IgnorarReservadoIInv ==
  ASSUME IInv, NEW w \in Workers, NEW l \in run[w].fila, IgnorarReservado(w, l)
  PROVE  IInv'
<1> DEFINE r == [run[w] EXCEPT !.fila = @ \ {l}]
<1>0. run[w] \in Run
  BY DEF IInv, TypeOK
<1>1. r \in Run /\ r.fila \subseteq run[w].fila
  BY <1>0 DEF Run
<1>2. Mantem /\ Existentes' = Existentes
  BY DEF IgnorarReservado, Mantem, tabela, adn, Existentes, Respondidos
<1>3. run' \in [Workers -> Run] /\ Execucoes'
  BY <1>1, <1>2, Segue DEF IgnorarReservado
<1>4. TypeOK' /\ CursorCoberto'
  BY <1>2, <1>3, CursorMantido DEF IInv, TypeOK, IgnorarReservado, tabela, adn, historia
<1>5. QED
  BY <1>2, <1>3, <1>4 DEF IInv, IgnorarReservado

LEMMA CertificadoIInv ==
  ASSUME IInv, NEW w \in Workers, SemCertificado(w) \/ ComCertificado(w)
  PROVE  IInv'
<1>1. run[w] \in Run /\ RunOK(run[w], Existentes, nsuInicial, Respondidos)
  BY DEF IInv, TypeOK, Execucoes
<1>2. run[w].linha \in Linhas /\ LinhaOK(run[w].linha, Existentes, nsuInicial, Respondidos)
  BY <1>1 DEF SemCertificado, ComCertificado, Run, RunOK
<1>3. CASE SemCertificado(w)
  <2>1. Mantem
    BY <1>3 DEF IInv, TypeOK, SemCertificado, Mantem, Existentes, Respondidos, adn
  <2>2. run' \in [Workers -> Run] /\ Execucoes'
    BY <1>1, <1>3, <2>1, Segue DEF SemCertificado
  <2>3. TypeOK' /\ CursorCoberto'
    BY <1>2, <1>3, <2>1, <2>2, CursorMantido
    DEF IInv, TypeOK, SemCertificado, Estados, Linhas, adn, historia
  <2>4. QED
    BY <1>3, <2>1, <2>2, <2>3 DEF IInv, SemCertificado, Mantem
<1>4. CASE ComCertificado(w)
  <2> DEFINE r == [run[w] EXCEPT !.pc = "consultar", !.nsu = run[w].linha.nsu]
  <2>1. Mantem /\ Existentes' = Existentes /\ Respondidos' = Respondidos /\ nsuInicial' = nsuInicial
    BY <1>4 DEF ComCertificado, Mantem, Existentes, Respondidos, adn, tabela
  <2>2. r \in Run
    BY <1>1, <1>2 DEF Run, Linhas
  <2>3. RunOK(r, Existentes, nsuInicial, Respondidos)
    BY <1>1, <1>2, <1>4 DEF Run, RunOK, LinhaOK, ComCertificado
  <2>4. run' \in [Workers -> Run] /\ Execucoes'
    BY <1>4, <2>1, <2>2, <2>3, Troca DEF IInv, TypeOK, ComCertificado
  <2>5. TypeOK' /\ CursorCoberto'
    BY <1>4, <2>1, <2>4, CursorMantido DEF IInv, TypeOK, ComCertificado, tabela, adn, historia
  <2>6. QED
    BY <1>4, <2>1, <2>4, <2>5 DEF IInv, ComCertificado
<1>5. QED
  BY <1>3, <1>4

\* The answers of the ADN: what they say about an NSU is on record before runNow acts.
LEMMA ConsultarIInv ==
  ASSUME IInv, NEW w \in Workers,
         ConsultarComLote(w) \/ ConsultarSemDocumento(w) \/ \E f \in Falhas : ConsultarComFalha(w, f)
  PROVE  IInv'
<1> DEFINE c == run[w].linha.controle
           n == run[w].nsu + 1
<1> USE DadosAssumption, NumerosAssumption
<1>1. run[w] \in Run /\ run[w].pc = "consultar" /\ RunOK(run[w], Existentes, nsuInicial, Respondidos)
  BY DEF IInv, TypeOK, Execucoes, ConsultarComLote, ConsultarSemDocumento, ConsultarComFalha
<1>2. run[w].linha \in Linhas /\ c \in Controles /\ run[w].nsu \in 0..MaxNsu
  BY <1>1 DEF Run, RunOK, Linhas
<1>4. Existentes' = Existentes /\ nsuInicial' = nsuInicial /\ armazenados' = armazenados
  BY DEF ConsultarComLote, ConsultarSemDocumento, ConsultarComFalha, tabela, Existentes
<1>5. CASE ConsultarComLote(w)
  <2>1. PICK m \in publicados[c] :
          /\ n <= m
          /\ Recebe(w, n, "lote", Lote(c, n, m), m)
          /\ vazios' = [vazios EXCEPT ![c] = @ \union ((n..m) \ publicados[c])]
    BY <1>5 DEF ConsultarComLote
  <2> DEFINE r == [run[w] EXCEPT !.pc = "resposta", !.resposta = "lote", !.lote = Lote(c, n, m), !.teto = m]
  <2>2. m \in 1..MaxNsu /\ Lote(c, n, m) \in SUBSET (1..MaxNsu) /\ (n..m) \ publicados[c] \subseteq 1..MaxNsu
    BY <1>2 DEF IInv, TypeOK, Lote
  <2>3. vazios' \in [Controles -> SUBSET (1..MaxNsu)]
    BY <2>1, <2>2, <1>2 DEF IInv, TypeOK
  <2>4. Mantem /\ \A k \in n..m : k \in Respondidos'[c] \union Lote(c, n, m)
    BY <2>1, <1>2, <1>4, <1>5 DEF IInv, TypeOK, ConsultarComLote, Mantem, Respondidos, Lote
  <2>5. r \in Run /\ run' = [run EXCEPT ![w] = r]
    <3>1. m \in 0..MaxNsu /\ "lote" \in TodasFalhas \union {"semDocumento", "lote"}
      BY <2>2
    <3>2. r \in Run
      BY <1>1, <2>2, <3>1, RecebeRun, Zenon
    <3>3. QED
      BY <2>1, <3>2 DEF Recebe
  <2>6. RunOK(run[w], Existentes', nsuInicial', Respondidos')
    BY <1>1, <2>4, RunEstavel DEF Mantem, Existentes
  <2>7. RunOK(r, Existentes', nsuInicial', Respondidos')
    BY <1>1, <2>4, <2>6 DEF Run, RunOK, AvancaSemDocumento
  <2>8. run' \in [Workers -> Run] /\ Execucoes'
    BY <2>4, <2>5, <2>7, Troca
  <2>9. QED
    BY <1>4, <1>5, <2>3, <2>4, <2>8, CursorMantido DEF IInv, TypeOK, ConsultarComLote, tabela, historia
<1>6. CASE ConsultarSemDocumento(w)
  <2> DEFINE r == [run[w] EXCEPT !.pc = "resposta", !.resposta = "semDocumento", !.lote = {}, !.teto = n]
  <2>1. n \in 1..MaxNsu
    BY <1>2, <1>6 DEF ConsultarSemDocumento
  <2>2. vazios' \in [Controles -> SUBSET (1..MaxNsu)]
    BY <2>1, <1>2, <1>6 DEF IInv, TypeOK, ConsultarSemDocumento
  <2>3. Mantem /\ n \in Respondidos'[c]
    BY <1>2, <1>4, <1>6 DEF IInv, TypeOK, ConsultarSemDocumento, Mantem, Respondidos
  <2>4. r \in Run /\ run' = [run EXCEPT ![w] = r]
    <3>1. /\ n \in 0..MaxNsu /\ {} \in SUBSET (1..MaxNsu)
          /\ "semDocumento" \in TodasFalhas \union {"semDocumento", "lote"}
      BY <2>1
    <3>2. r \in Run
      BY <1>1, <3>1, RecebeRun, Zenon
    <3>3. QED
      BY <1>6, <3>2 DEF Recebe, ConsultarSemDocumento
  <2>5. RunOK(run[w], Existentes', nsuInicial', Respondidos')
    BY <1>1, <2>3, RunEstavel DEF Mantem, Existentes
  <2>6. RunOK(r, Existentes', nsuInicial', Respondidos')
    BY <1>1, <2>1, <2>3, <2>5 DEF Run, RunOK
  <2>7. run' \in [Workers -> Run] /\ Execucoes'
    BY <2>3, <2>4, <2>6, Troca
  <2>8. QED
    BY <1>4, <1>6, <2>2, <2>3, <2>7, CursorMantido
    DEF IInv, TypeOK, ConsultarSemDocumento, tabela, historia
<1>7. ASSUME NEW f \in Falhas, ConsultarComFalha(w, f) PROVE IInv'
  <2> DEFINE r == [run[w] EXCEPT !.pc = "resposta", !.resposta = f, !.lote = {}, !.teto = n]
  <2>1. n \in 1..MaxNsu /\ f \in TodasFalhas
    BY <1>2, <1>7 DEF ConsultarComFalha
  <2>2. recusados' \in [Controles -> SUBSET (1..MaxNsu)]
    BY <2>1, <1>2, <1>7 DEF IInv, TypeOK, ConsultarComFalha
  <2>3. Mantem /\ (f = "http4xx" => n \in Respondidos'[c])
    BY <1>2, <1>4, <1>7 DEF IInv, TypeOK, ConsultarComFalha, Mantem, Respondidos
  <2>4. r \in Run /\ run' = [run EXCEPT ![w] = r]
    <3>1. /\ n \in 0..MaxNsu /\ {} \in SUBSET (1..MaxNsu)
          /\ f \in TodasFalhas \union {"semDocumento", "lote"}
      BY <2>1
    <3>2. r \in Run
      BY <1>1, <3>1, RecebeRun, Zenon
    <3>3. QED
      BY <1>7, <3>2 DEF Recebe, ConsultarComFalha
  <2>5. RunOK(run[w], Existentes', nsuInicial', Respondidos')
    BY <1>1, <2>3, RunEstavel DEF Mantem, Existentes
  <2>6. RunOK(r, Existentes', nsuInicial', Respondidos')
    BY <1>1, <2>1, <2>3, <2>5
    DEF Run, RunOK, AvancaSemDocumento, MustRetryWithoutAdvancingNsu, TodasFalhas
  <2>7. run' \in [Workers -> Run] /\ Execucoes'
    BY <2>3, <2>4, <2>6, Troca
  <2>8. QED
    BY <1>4, <1>7, <2>2, <2>3, <2>7, CursorMantido
    DEF IInv, TypeOK, ConsultarComFalha, tabela, historia
<1>8. QED
  BY <1>5, <1>6, <1>7

\* The steps that leave the control without moving its cursor.
LEMMA AdiarIInv ==
  ASSUME IInv, NEW w \in Workers,
         FalhaDecifrar(w) \/ ErroTemporario(w) \/ FalhaPersistencia(w) \/ FecharLote(w)
  PROVE  IInv'
<1>1. run[w] \in Run /\ RunOK(run[w], Existentes, nsuInicial, Respondidos)
  BY DEF IInv, TypeOK, Execucoes
<1>2. run[w].linha.controle \in Controles
  BY <1>1 DEF FalhaDecifrar, ErroTemporario, FalhaPersistencia, FecharLote, Run, RunOK, Linhas
<1>3. Mantem
  BY DEF IInv, TypeOK, FalhaDecifrar, ErroTemporario, FalhaPersistencia, FecharLote, Mantem,
         Existentes, Respondidos, adn
<1>4. run' \in [Workers -> Run] /\ Execucoes'
  BY <1>1, <1>3, Segue DEF FalhaDecifrar, ErroTemporario, FalhaPersistencia, FecharLote
<1>5. CursorCoberto' /\ verificacao' = verificacao
  BY <1>3, CursorMantido DEF IInv, FalhaDecifrar, ErroTemporario, FalhaPersistencia, FecharLote
<1>6. CASE FalhaDecifrar(w)
  BY <1>2, <1>3, <1>4, <1>5, <1>6, Prazos DEF IInv, TypeOK, FalhaDecifrar, Estados, Mantem, adn, historia
<1>7. CASE ErroTemporario(w) \/ FalhaPersistencia(w)
  BY <1>2, <1>3, <1>4, <1>5, <1>7, Prazos
  DEF IInv, TypeOK, ErroTemporario, FalhaPersistencia, AgendarNovaTentativa, Mantem, adn
<1>8. CASE FecharLote(w)
  BY <1>2, <1>3, <1>4, <1>5, <1>8, Prazos DEF IInv, TypeOK, FecharLote, Mantem, adn, historia
<1>9. QED
  BY <1>6, <1>7, <1>8

LEMMA LimiteExcedidoIInv ==
  ASSUME IInv, NEW w \in Workers, LimiteExcedido(w)
  PROVE  IInv'
<1>1. run[w] \in Run /\ RunOK(run[w], Existentes, nsuInicial, Respondidos)
  BY DEF IInv, TypeOK, Execucoes
<1>2. run[w].linha.controle \in Controles /\ ProcessoDe[w] \in Processos
  BY <1>1, DadosAssumption DEF LimiteExcedido, Run, RunOK, Linhas
<1>3. Mantem /\ Existentes' = Existentes
  BY DEF LimiteExcedido, Mantem, Existentes, Respondidos, adn
<1>4. RunOK(Ocioso, Existentes', nsuInicial', Respondidos')
  BY DEF RunOK, Ocioso
<1>5. run' \in [Workers -> Run] /\ Execucoes'
  BY <1>3, <1>4, OciosoRun, Troca DEF LimiteExcedido
<1>6. cooldown' \in [Processos -> Prazo] /\ cooldown'[ProcessoDe[w]] \in Prazo
  BY <1>2, Prazos DEF IInv, TypeOK, LimiteExcedido
<1>7. proximaExecucao' \in [Controles -> Prazo] /\ retorno' \in [Controles -> Prazo]
  BY <1>2, <1>6, Prazos DEF IInv, TypeOK, LimiteExcedido
<1>8. QED
  BY <1>3, <1>5, <1>6, <1>7, CursorMantido DEF IInv, TypeOK, LimiteExcedido, adn

LEMMA PersistirDocumentoIInv ==
  ASSUME IInv, NEW w \in Workers, NEW d \in run[w].lote, PersistirDocumento(w, d)
  PROVE  IInv'
<1>0. PICK novo \in BOOLEAN :
        run' = [run EXCEPT ![w] = [run[w] EXCEPT !.lote = @ \ {d},
                  !.salvou = @ \/ novo]]
  BY DEF PersistirDocumento
<1> DEFINE c == run[w].linha.controle
           s == run[w].salvou \/ novo
           q == [run[w] EXCEPT !.lote = @ \ {d}]
           r == [q EXCEPT !.salvou = s]
<1>1. run[w] \in Run /\ RunOK(run[w], Existentes, nsuInicial, Respondidos)
  BY DEF IInv, TypeOK, Execucoes
<1>2. c \in Controles /\ d \in 1..MaxNsu /\ run[w].lote \ {d} \in SUBSET (1..MaxNsu)
  BY <1>1 DEF PersistirDocumento, Run, RunOK, Linhas
<1>3. r \in Run
  <2>1. q \in Run /\ s \in BOOLEAN
    BY <1>1, <1>2, CampoRun DEF Run
  <2>2. QED
    BY <2>1, CampoRun, Zenon
<1>4. armazenados' \in [Controles -> SUBSET (1..MaxNsu)] /\ d \in armazenados'[c]
  BY <1>2 DEF IInv, TypeOK, PersistirDocumento
<1>5. Mantem /\ d \in Respondidos'[c] /\ Existentes' = Existentes
  BY <1>2, <1>4 DEF IInv, TypeOK, PersistirDocumento, Mantem, Existentes, Respondidos, tabela, adn
<1>6. RunOK(run[w], Existentes', nsuInicial', Respondidos')
  BY <1>1, <1>5, RunEstavel DEF Mantem, Existentes
<1>7. RunOK(r, Existentes', nsuInicial', Respondidos')
  BY <1>1, <1>5, <1>6 DEF Run, RunOK
<1>8. run' \in [Workers -> Run] /\ Execucoes'
  BY <1>0, <1>3, <1>5, <1>7, Troca
<1>9. QED
  BY <1>4, <1>5, <1>8, CursorMantido DEF IInv, TypeOK, PersistirDocumento, tabela, adn, historia

\* The cursor moves to an NSU with nothing unanswered below it.
LEMMA CursorMovido ==
  ASSUME IInv, NEW c \in Controles, NEW k \in 0..MaxNsu,
         Coberto(c, k, nsuInicial, Respondidos), Mantem, Respondidos' = Respondidos,
         ultimoNsuConsultado' = [ultimoNsuConsultado EXCEPT ![c] = k]
  PROVE  CursorCoberto' /\ ultimoNsuConsultado' \in [Controles -> 0..MaxNsu]
<1>1. ultimoNsuConsultado' \in [Controles -> 0..MaxNsu]
  BY DEF IInv, TypeOK
<1>2. ASSUME NEW e \in Controles, NEW n \in nsuInicial'[e]..ultimoNsuConsultado'[e]
      PROVE  n \in Respondidos[e]
  <2>1. CASE e = c
    BY <2>1, <1>2 DEF IInv, TypeOK, Mantem, Coberto
  <2>2. CASE e # c
    BY <2>2, <1>2 DEF IInv, TypeOK, Mantem, CursorCoberto, Respondidos
  <2>3. QED
    BY <2>1, <2>2
<1>3. QED
  BY <1>1, <1>2 DEF CursorCoberto, Respondidos

LEMMA SemDocumentoIInv ==
  ASSUME IInv, NEW w \in Workers, SemDocumento(w)
  PROVE  IInv'
<1> DEFINE c == run[w].linha.controle
           n == run[w].nsu + 1
<1>1. run[w] \in Run /\ RunOK(run[w], Existentes, nsuInicial, Respondidos)
  BY DEF IInv, TypeOK, Execucoes
<1>2. c \in Controles /\ run[w].nsu \in 0..MaxNsu
  BY <1>1 DEF SemDocumento, Run, RunOK, Linhas
<1>3. n \in 0..MaxNsu /\ Coberto(c, n, nsuInicial, Respondidos)
  <2>1. Coberto(c, run[w].nsu, nsuInicial, Respondidos) /\ n <= MaxNsu /\ n \in Respondidos[c]
    BY <1>1 DEF SemDocumento, RunOK
  <2>2. QED
    BY <1>2, <2>1, NumerosAssumption DEF IInv, TypeOK, Coberto
<1>4. Mantem /\ Existentes' = Existentes /\ Respondidos' = Respondidos
  BY DEF SemDocumento, Mantem, Existentes, Respondidos, adn
<1>5. CursorCoberto' /\ ultimoNsuConsultado' \in [Controles -> 0..MaxNsu]
  BY <1>2, <1>3, <1>4, CursorMovido DEF SemDocumento
<1>6. run' \in [Workers -> Run] /\ Execucoes'
  BY <1>1, <1>4, Segue DEF SemDocumento
<1>7. proximaExecucao' \in [Controles -> Prazo]
  BY <1>2, Prazos DEF IInv, TypeOK, SemDocumento
<1>8. QED
  BY <1>4, <1>5, <1>6, <1>7 DEF IInv, TypeOK, SemDocumento, adn, historia

LEMMA AvancarNsuIInv ==
  ASSUME IInv, NEW w \in Workers, AvancarNsu(w)
  PROVE  IInv'
<1> DEFINE r == run[w]
           c == r.linha.controle
           consultar == [r EXCEPT !.pc = "consultar", !.nsu = r.teto, !.passo = r.passo + 1,
                                  !.resposta = "nenhuma", !.teto = 0]
           fechar == [r EXCEPT !.pc = "fechar", !.nsu = r.teto, !.resposta = "nenhuma", !.teto = 0]
<1>1. r \in Run /\ RunOK(r, Existentes, nsuInicial, Respondidos)
  BY DEF IInv, TypeOK, Execucoes
<1>2. c \in Controles /\ r.teto \in 0..MaxNsu /\ r.nsu \in 0..MaxNsu
  BY <1>1 DEF AvancarNsu, Run, RunOK, Linhas
<1>3. Coberto(c, r.teto, nsuInicial, Respondidos)
  <2>1. Coberto(c, r.nsu, nsuInicial, Respondidos) /\ \A n \in r.nsu + 1..r.teto : n \in Respondidos[c]
    BY <1>1 DEF AvancarNsu, RunOK
  <2>2. QED
    BY <1>2, <2>1, NumerosAssumption DEF IInv, TypeOK, Coberto
<1>4. Mantem /\ Existentes' = Existentes /\ Respondidos' = Respondidos /\ nsuInicial' = nsuInicial
  BY DEF AvancarNsu, Mantem, Existentes, Respondidos, adn
<1>5. CursorCoberto' /\ ultimoNsuConsultado' \in [Controles -> 0..MaxNsu]
  BY <1>2, <1>3, <1>4, CursorMovido DEF AvancarNsu
<1>6. run' \in [Workers -> Run] /\ Execucoes'
  <2>1. CASE run' = [run EXCEPT ![w] = consultar] /\ r.passo + 1 < Passos(r.linha)
    <3>1. r.passo + 1 \in 0..MaxPassos - 1
      BY <1>1, <2>1, NumerosAssumption DEF Run, Passos
    <3>2. consultar \in Run
      BY <1>1, <1>2, <3>1, ConsultarRun
    <3>3. RunOK(consultar, Existentes, nsuInicial, Respondidos)
      BY <1>1, <1>3 DEF Run, RunOK, AvancarNsu
    <3>4. QED
      BY <1>4, <2>1, <3>2, <3>3, Troca
  <2>2. CASE run' = [run EXCEPT ![w] = fechar]
    <3>1. fechar \in Run
      BY <1>1, <1>2, FecharRun
    <3>2. RunOK(fechar, Existentes, nsuInicial, Respondidos)
      BY <1>1, <1>3 DEF Run, RunOK, AvancarNsu
    <3>3. QED
      BY <1>4, <2>2, <3>1, <3>2, Troca
  <2>3. CASE run' = [run EXCEPT ![w] = Seguinte(r)]
    BY <1>1, <1>4, <2>3, Segue
  <2>4. QED
    BY <2>1, <2>2, <2>3 DEF AvancarNsu
<1>7. proximaExecucao' \in [Controles -> Prazo]
  BY <1>2, Prazos DEF IInv, TypeOK, AvancarNsu
<1>8. QED
  BY <1>4, <1>5, <1>6, <1>7 DEF IInv, TypeOK, AvancarNsu, adn, historia

LEMMA TrabalharIInv ==
  ASSUME IInv, NEW w \in Workers, Trabalhar(w)
  PROVE  IInv'
BY ReservarIInv, IgnorarReservadoIInv, CertificadoIInv, ConsultarIInv, AdiarIInv, LimiteExcedidoIInv,
   SemDocumentoIInv, PersistirDocumentoIInv, AvancarNsuIInv
DEF Trabalhar

-----------------------------------------------------------------------------
(* The operator, the job and the environment                               *)

LEMMA Parados ==
  ASSUME IInv, Mantem, UNCHANGED run
  PROVE  Execucoes'
<1>1. ASSUME NEW w \in Workers PROVE RunOK(run'[w], Existentes', nsuInicial', Respondidos')
  BY RunEstavel DEF IInv, Execucoes, Mantem, Existentes
<1>2. QED
  BY <1>1 DEF Execucoes

LEMMA OperarIInv ==
  ASSUME IInv, Operar
  PROVE  IInv'
<1>1. ASSUME NEW k \in Clientes, PausarSync(k) PROVE IInv'
  <2>1. Mantem /\ status' \in [Controles -> Estados]
    BY <1>1 DEF IInv, TypeOK, PausarSync, Mantem, Existentes, Respondidos, DoCliente, Estados, adn
  <2>2. Execucoes' /\ CursorCoberto'
    BY <1>1, <2>1, Parados, CursorMantido DEF IInv, PausarSync
  <2>3. QED
    BY <1>1, <2>1, <2>2, NumerosAssumption DEF IInv, TypeOK, PausarSync, Intervir, Mantem, adn
<1>2. ASSUME NEW k \in Clientes, RetomarSync(k) PROVE IInv'
  <2>1. Mantem /\ status' \in [Controles -> Estados]
    BY <1>2 DEF IInv, TypeOK, RetomarSync, Mantem, Existentes, Respondidos, DoCliente, Estados, adn
  <2>2. Execucoes' /\ CursorCoberto'
    BY <1>2, <2>1, Parados, CursorMantido DEF IInv, RetomarSync
  <2>3. /\ proximaExecucao' \in [Controles -> Prazo] /\ retorno' \in [Controles -> Prazo]
        /\ reaberto' \in [Controles -> BOOLEAN]
    BY <1>2, Prazos DEF IInv, TypeOK, RetomarSync, Reabrir
  <2>4. QED
    BY <1>2, <2>1, <2>2, <2>3, NumerosAssumption DEF IInv, TypeOK, RetomarSync, Intervir, Mantem, adn
<1>3. ASSUME NEW c \in Controles, NEW modo \in Modos, NEW origem \in Origens(modo),
             Reativar(c, modo, origem)
      PROVE  IInv'
  <2>1. Mantem /\ status' \in [Controles -> Estados]
    BY <1>3 DEF IInv, TypeOK, Reativar, Mantem, Existentes, Respondidos, Estados, adn
  <2>2. Execucoes' /\ CursorCoberto'
    BY <1>3, <2>1, Parados, CursorMantido DEF IInv, Reativar
  <2>3. /\ proximaExecucao' \in [Controles -> Prazo] /\ retorno' \in [Controles -> Prazo]
        /\ reaberto' \in [Controles -> BOOLEAN] /\ modoSync' \in [Controles -> Modos]
    BY <1>3, Prazos DEF IInv, TypeOK, Reativar, Reabrir
  <2>4. QED
    BY <1>3, <2>1, <2>2, <2>3, NumerosAssumption DEF IInv, TypeOK, Reativar, Intervir, Mantem, adn
<1>4. ASSUME NEW c \in Controles, NEW modo \in Modos, NEW origem \in Origens(modo),
             CriarControle(c, modo, origem)
      PROVE  IInv'
  <2>1. PICK n \in 0..MaxNsu : /\ ultimoNsuConsultado' = [ultimoNsuConsultado EXCEPT ![c] = n]
                               /\ nsuInicial' = [nsuInicial EXCEPT ![c] = n + 1]
    <3>1. NsusIniciais(modo) \subseteq 0..MaxNsu
      BY NumerosAssumption DEF NsusIniciais
    <3>2. QED
      BY <1>4, <3>1 DEF CriarControle
  <2>2. /\ Respondidos' = Respondidos
        /\ Existentes \subseteq Existentes'
        /\ \A e \in Existentes : nsuInicial'[e] = nsuInicial[e]
    BY <1>4, <2>1 DEF IInv, TypeOK, CriarControle, Respondidos, Existentes, adn
  <2>3. Execucoes'
    <3>1. ASSUME NEW w \in Workers PROVE RunOK(run[w], Existentes', nsuInicial', Respondidos')
      BY <2>2, RunEstavel DEF IInv, Execucoes
    <3>2. QED
      BY <1>4, <3>1 DEF CriarControle, Execucoes
  <2>4. CursorCoberto'
    <3>1. ASSUME NEW e \in Controles, NEW m \in nsuInicial'[e]..ultimoNsuConsultado'[e]
          PROVE  m \in Respondidos[e]
      <4>1. e # c
        BY <2>1, <3>1 DEF IInv, TypeOK
      <4>2. QED
        BY <2>1, <3>1, <4>1 DEF IInv, TypeOK, CursorCoberto, Respondidos
    <3>2. QED
      BY <2>2, <3>1 DEF CursorCoberto, Respondidos
  <2>5. TypeOK'
    <3>1. nsuInicial' \in [Controles -> 1..MaxNsu + 1] /\ ultimoNsuConsultado' \in [Controles -> 0..MaxNsu]
      BY <2>1, NumerosAssumption DEF IInv, TypeOK
    <3>2. proximaExecucao' \in [Controles -> Prazo]
      BY <1>4, Prazos DEF IInv, TypeOK, CriarControle
    <3>3. QED
      BY <1>4, <3>1, <3>2 DEF IInv, TypeOK, CriarControle, Estados, adn, historia
  <2>6. QED
    BY <1>4, <2>2, <2>3, <2>4, <2>5 DEF IInv, CriarControle
<1>5. QED
  BY <1>1, <1>2, <1>3, <1>4 DEF Operar

LEMMA VerificarIInv ==
  ASSUME IInv, Verificar
  PROVE  IInv'
<1>1. Mantem /\ UNCHANGED <<run, ultimoNsuConsultado>>
  <2>1. UNCHANGED <<run, ultimoNsuConsultado, nsuInicial, armazenados, adn>>
    BY DEF Verificar, IniciarVerificacao, VerificarAtivo, VerificarErro, tabela
  <2>2. CASE IniciarVerificacao
    BY <2>1, <2>2 DEF IniciarVerificacao, Mantem, Existentes, Respondidos, tabela, adn
  <2>3. ASSUME NEW c \in Controles, VerificarAtivo(c) PROVE Existentes \subseteq Existentes'
    BY <2>3 DEF IInv, TypeOK, VerificarAtivo, Existentes
  <2>4. ASSUME NEW c \in Controles, VerificarErro(c) PROVE Existentes \subseteq Existentes'
    BY <2>4 DEF IInv, TypeOK, VerificarErro, Existentes
  <2>5. QED
    BY <2>1, <2>2, <2>3, <2>4 DEF Verificar, Mantem, Respondidos, adn
<1>2. Execucoes' /\ CursorCoberto'
  BY <1>1, Parados, CursorMantido DEF IInv
<1>3. CASE IniciarVerificacao
  BY <1>1, <1>2, <1>3 DEF IInv, TypeOK, IniciarVerificacao, Existentes, tabela, adn, historia
<1>4. ASSUME NEW c \in Controles, VerificarAtivo(c) PROVE IInv'
  <2>1. status' \in [Controles -> Estados]
    BY <1>4 DEF IInv, TypeOK, VerificarAtivo, Estados
  <2>2. /\ verificacao' \in [ativos : SUBSET Controles, erros : SUBSET Controles]
        /\ verificacao'.ativos \subseteq verificacao.ativos /\ verificacao'.erros = verificacao.erros
    BY <1>4 DEF IInv, TypeOK, VerificarAtivo
  <2>3. QED
    BY <1>1, <1>2, <1>4, <2>1, <2>2 DEF IInv, TypeOK, VerificarAtivo, Mantem, adn, historia
<1>5. ASSUME NEW c \in Controles, VerificarErro(c) PROVE IInv'
  <2>1. /\ status' \in [Controles -> Estados] /\ proximaExecucao' \in [Controles -> Prazo]
        /\ retorno' \in [Controles -> Prazo] /\ reaberto' \in [Controles -> BOOLEAN]
    <3>1. CASE JobVeCertificado(c)
      <4>1. status' \in [Controles -> Estados]
        BY <1>5, <3>1 DEF IInv, TypeOK, VerificarErro, Estados
      <4>2. proximaExecucao' \in [Controles -> Prazo] /\ retorno' \in [Controles -> Prazo]
        <5>1. 0 \in Prazo
          BY Prazos
        <5>2. /\ proximaExecucao' = [proximaExecucao EXCEPT ![c] = 0]
              /\ retorno' = [retorno EXCEPT ![c] = 0]
          BY <1>5, <3>1 DEF VerificarErro
        <5>3. QED
          BY <5>1, <5>2 DEF IInv, TypeOK
      <4>3. reaberto' \in [Controles -> BOOLEAN]
        BY <1>5, <3>1 DEF IInv, TypeOK, VerificarErro, Reabrir
      <4>4. QED
        BY <4>1, <4>2, <4>3
    <3>2. CASE ~JobVeCertificado(c)
      BY <1>5, <3>2 DEF IInv, TypeOK, VerificarErro
    <3>3. QED
      BY <3>1, <3>2
  <2>2. /\ verificacao' \in [ativos : SUBSET Controles, erros : SUBSET Controles]
        /\ verificacao'.erros \subseteq verificacao.erros /\ verificacao'.ativos = verificacao.ativos
    BY <1>5 DEF IInv, TypeOK, VerificarErro
  <2>3. QED
    BY <1>1, <1>2, <1>5, <2>1, <2>2 DEF IInv, TypeOK, VerificarErro, Mantem, adn
<1>6. QED
  BY <1>3, <1>4, <1>5 DEF Verificar

LEMMA AmbienteIInv ==
  ASSUME IInv, Ambiente
  PROVE  IInv'
<1>1. Mantem /\ UNCHANGED ultimoNsuConsultado /\ Existentes' = Existentes
  BY DEF Ambiente, TrocarCertificado, Reiniciar, Publicar, Tick, Mantem, Existentes, Respondidos, tabela, adn
<1>2. CursorCoberto' /\ verificacao' = verificacao
  BY <1>1, CursorMantido DEF IInv, Ambiente, TrocarCertificado, Reiniciar, Publicar, Tick
<1>3. ASSUME NEW c \in Controles, NEW nivel \in Niveis, TrocarCertificado(c, nivel) PROVE IInv'
  <2>1. Execucoes'
    BY <1>1, <1>3, Parados DEF TrocarCertificado
  <2>2. QED
    BY <1>1, <1>2, <1>3, <2>1, NumerosAssumption DEF IInv, TypeOK, TrocarCertificado, Intervir, tabela, adn
<1>4. ASSUME NEW p \in Processos, Reiniciar(p) PROVE IInv'
  <2>1. run' \in [Workers -> Run] /\ cooldown' \in [Processos -> Prazo]
    BY <1>4, OciosoRun, Prazos DEF IInv, TypeOK, Reiniciar
  <2>2. ASSUME NEW w \in Workers PROVE RunOK(run'[w], Existentes', nsuInicial', Respondidos')
    <3>1. RunOK(run[w], Existentes', nsuInicial', Respondidos')
      BY <1>1, RunEstavel DEF IInv, Execucoes, Mantem, Existentes
    <3>2. RunOK(Ocioso, Existentes', nsuInicial', Respondidos')
      BY DEF RunOK, Ocioso
    <3>3. QED
      BY <1>4, <3>1, <3>2 DEF Reiniciar
  <2>3. QED
    BY <1>1, <1>2, <1>4, <2>1, <2>2, NumerosAssumption
    DEF IInv, TypeOK, Execucoes, Reiniciar, Intervir, tabela, adn
<1>5. ASSUME NEW c \in Controles, NEW n \in 1..MaxNsu, Publicar(c, n) PROVE IInv'
  <2>1. publicados' \in [Controles -> SUBSET (1..MaxNsu)]
    BY <1>5 DEF IInv, TypeOK, Publicar
  <2>2. Execucoes'
    BY <1>1, <1>5, Parados DEF Publicar
  <2>3. QED
    BY <1>1, <1>2, <1>5, <2>1, <2>2 DEF IInv, TypeOK, Publicar, tabela, historia
<1>6. CASE Tick
  <2> DEFINE p(w) == IF DentroDoTtl THEN Antes(run[w].prazo) ELSE run[w].prazo
             r(w) == [run[w] EXCEPT !.prazo = p(w)]
  <2>1. ASSUME NEW w \in Workers
        PROVE  r(w) \in Run /\ RunOK(r(w), Existentes', nsuInicial', Respondidos')
    <3>0. run[w] \in Run
      BY DEF IInv, TypeOK
    <3>1. RunOK(run[w], Existentes', nsuInicial', Respondidos')
      BY <1>1, RunEstavel DEF IInv, Execucoes, Mantem, Existentes
    <3>2. p(w) \in Prazo
      BY <3>0, Prazos DEF Run
    <3>3. r(w) \in Run
      BY <3>0, <3>2, CampoRun, Zenon
    <3>4. RunOK(r(w), Existentes', nsuInicial', Respondidos')
      BY <3>0, <3>1 DEF Run, RunOK
    <3>5. QED
      BY <3>3, <3>4
  <2>2. run' = [w \in Workers |-> r(w)]
    BY <1>6 DEF Tick
  <2>3. run' \in [Workers -> Run] /\ Execucoes'
    BY <2>1, <2>2 DEF Execucoes
  <2>4. /\ proximaExecucao' \in [Controles -> Prazo] /\ retorno' \in [Controles -> Prazo]
        /\ cooldown' \in [Processos -> Prazo]
    BY <1>6, Prazos DEF IInv, TypeOK, Tick
  <2>5. QED
    BY <1>1, <1>2, <1>6, <2>3, <2>4 DEF IInv, TypeOK, Tick, adn
<1>7. QED
  BY <1>3, <1>4, <1>5, <1>6 DEF Ambiente

-----------------------------------------------------------------------------
(* Theorems                                                                *)

LEMMA NextIInv == IInv /\ [Next]_vars => IInv'
<1> SUFFICES ASSUME IInv, [Next]_vars PROVE IInv'
  OBVIOUS
<1>1. CASE UNCHANGED vars
  BY <1>1 DEF IInv, TypeOK, Execucoes, CursorCoberto, Existentes, Respondidos, vars, tabela, adn, historia
<1>2. CASE Next
  BY <1>2, RunNowIInv, TrabalharIInv, OperarIInv, VerificarIInv, AmbienteIInv DEF Next
<1>3. QED
  BY <1>1, <1>2

THEOREM InvarianteIndutivo == Spec => []IInv
BY InitIInv, NextIInv, PTL DEF Spec

\* The rows, the memory of the workers and the answers keep their types, whatever the
\* interleaving of workers, operators, job and restarts.
THEOREM TipoCorreto == Spec => []TypeOK
<1>1. IInv => TypeOK
  BY DEF IInv
<1>2. QED
  BY <1>1, InvarianteIndutivo, PTL

\* No control leaves an NSU behind without an answer for it, with any number of workers
\* on stale rows and any sequence of failures, interventions and restarts.
THEOREM CursorSempreCoberto == Spec => []CursorCoberto
<1>1. IInv => CursorCoberto
  BY DEF IInv
<1>2. QED
  BY <1>1, InvarianteIndutivo, PTL

-----------------------------------------------------------------------------
(* NfseSync implements ConsumoNsu                                          *)

\* What the abstract consumer sees of a state.
Visto == <<Existentes, nsuInicial, ultimoNsuConsultado, Respondidos>>

LEMMA InitConsumo == Init => Consumo!Init
BY DEF Init, Consumo!Init, Respondidos

\* An answer of the ADN, or a stored document, is an answer for the abstract consumer.
LEMMA ResponderConsumo ==
  ASSUME IInv, NEW c \in Existentes, NEW S \in SUBSET (1..MaxNsu),
         Respondidos' = [Respondidos EXCEPT ![c] = @ \union S],
         UNCHANGED <<Existentes, nsuInicial, ultimoNsuConsultado>>
  PROVE  Consumo!Next
<1>1. Consumo!Responder(c, S)
  BY DEF Consumo!Responder, Existentes
<1>2. QED
  BY <1>1 DEF Consumo!Next, Existentes

LEMMA MoverConsumo ==
  ASSUME IInv, NEW c \in Existentes, NEW k \in 0..MaxNsu,
         Coberto(c, k, nsuInicial, Respondidos),
         ultimoNsuConsultado' = [ultimoNsuConsultado EXCEPT ![c] = k],
         UNCHANGED <<Existentes, nsuInicial, Respondidos>>
  PROVE  Consumo!Next
<1>1. Consumo!Mover(c, k)
  BY DEF Consumo!Mover, Consumo!Coberto, Coberto, Existentes
<1>2. QED
  BY <1>1 DEF Consumo!Next, Existentes

LEMMA TrabalharConsumo ==
  ASSUME IInv, NEW w \in Workers, Trabalhar(w)
  PROVE  Consumo!Next \/ UNCHANGED Visto
<1> DEFINE c == run[w].linha.controle
<1>1. run[w] \in Run /\ RunOK(run[w], Existentes, nsuInicial, Respondidos)
  BY DEF IInv, TypeOK, Execucoes
<1>2. run[w].pc \in {"certificado", "consultar", "resposta", "fechar"} =>
        run[w].linha \in Linhas /\ c \in Existentes /\ c \in Controles
  BY <1>1 DEF Run, RunOK, LinhaOK, Linhas
<1>3. ASSUME NEW l \in run[w].fila, Reservar(w, l) \/ IgnorarReservado(w, l)
      PROVE  UNCHANGED Visto
  BY <1>3 DEF Reservar, IgnorarReservado, Visto, Existentes, Respondidos, tabela, adn
<1>4. CASE SemCertificado(w) \/ FalhaDecifrar(w)
  <2>1. Existentes' = Existentes
    BY <1>2, <1>4 DEF IInv, TypeOK, SemCertificado, FalhaDecifrar, Existentes
  <2>2. QED
    BY <1>4, <2>1 DEF SemCertificado, FalhaDecifrar, Visto, Respondidos, adn
<1>5. CASE ComCertificado(w) \/ ErroTemporario(w) \/ LimiteExcedido(w) \/ FalhaPersistencia(w) \/ FecharLote(w)
  BY <1>5 DEF ComCertificado, ErroTemporario, LimiteExcedido, FalhaPersistencia, FecharLote, Visto,
              Existentes, Respondidos, tabela, adn
<1>6. CASE ConsultarComLote(w)
  <2>1. PICK m \in publicados[c] : vazios' = [vazios EXCEPT ![c] = @ \union ((run[w].nsu + 1..m) \ publicados[c])]
    BY <1>6 DEF ConsultarComLote
  <2> DEFINE S == (run[w].nsu + 1..m) \ publicados[c]
  <2>2. S \in SUBSET (1..MaxNsu)
    <3>1. m \in 1..MaxNsu /\ run[w].nsu \in 0..MaxNsu
      BY <1>1, <1>2, <1>6, <2>1 DEF IInv, TypeOK, ConsultarComLote, Run
    <3>2. QED
      BY <3>1, NumerosAssumption
  <2>3. Respondidos' = [Respondidos EXCEPT ![c] = @ \union S]
    <3>1. vazios' = [vazios EXCEPT ![c] = @ \union S] /\ armazenados' = armazenados /\ recusados' = recusados
      BY <1>6, <2>1 DEF ConsultarComLote
    <3>2. c \in Controles /\ vazios \in [Controles -> SUBSET (1..MaxNsu)]
      BY <1>2, <1>6 DEF IInv, TypeOK, ConsultarComLote
    <3> HIDE DEF S
    <3>3. QED
      BY <3>1, <3>2 DEF Respondidos
  <2>4. QED
    BY <1>2, <1>6, <2>2, <2>3, ResponderConsumo DEF ConsultarComLote, tabela, Existentes
<1>7. CASE ConsultarSemDocumento(w)
  <2>1. {run[w].nsu + 1} \in SUBSET (1..MaxNsu)
    BY <1>1, <1>7 DEF ConsultarSemDocumento, Run
  <2>2. Respondidos' = [Respondidos EXCEPT ![c] = @ \union {run[w].nsu + 1}]
    BY <1>2, <1>7 DEF IInv, TypeOK, ConsultarSemDocumento, Respondidos
  <2>3. QED
    BY <1>2, <1>7, <2>1, <2>2, ResponderConsumo DEF ConsultarSemDocumento, tabela, Existentes
<1>8. ASSUME NEW f \in Falhas, ConsultarComFalha(w, f)
      PROVE  Consumo!Next \/ UNCHANGED Visto
  <2>1. CASE f = "http4xx"
    <3>1. {run[w].nsu + 1} \in SUBSET (1..MaxNsu)
      BY <1>1, <1>8 DEF ConsultarComFalha, Run
    <3>2. Respondidos' = [Respondidos EXCEPT ![c] = @ \union {run[w].nsu + 1}]
      BY <1>2, <1>8, <2>1 DEF IInv, TypeOK, ConsultarComFalha, Respondidos
    <3>3. QED
      BY <1>2, <1>8, <3>1, <3>2, ResponderConsumo DEF ConsultarComFalha, tabela, Existentes
  <2>2. CASE f # "http4xx"
    BY <1>8, <2>2 DEF ConsultarComFalha, Visto, Existentes, Respondidos, tabela
  <2>3. QED
    BY <2>1, <2>2
<1>9. CASE SemDocumento(w)
  <2>1. Coberto(c, run[w].nsu, nsuInicial, Respondidos) /\ run[w].nsu + 1 <= MaxNsu
        /\ run[w].nsu + 1 \in Respondidos[c]
    BY <1>1, <1>9 DEF SemDocumento, RunOK
  <2>2. run[w].nsu + 1 \in 0..MaxNsu /\ Coberto(c, run[w].nsu + 1, nsuInicial, Respondidos)
    <3>1. run[w].nsu \in 0..MaxNsu /\ c \in Controles
      BY <1>1, <1>2, <1>9 DEF SemDocumento, Run
    <3>2. nsuInicial[c] \in 1..MaxNsu + 1
      BY <3>1 DEF IInv, TypeOK
    <3>3. Coberto(c, run[w].nsu + 1, nsuInicial, Respondidos)
      BY <2>1, <3>1, <3>2, NumerosAssumption DEF Coberto
    <3>4. QED
      BY <2>1, <3>1, <3>3, NumerosAssumption
  <2>3. QED
    BY <1>2, <1>9, <2>2, MoverConsumo DEF SemDocumento, Existentes, Respondidos, adn
<1>10. ASSUME NEW d \in run[w].lote, PersistirDocumento(w, d)
       PROVE  Consumo!Next
  <2>1. {d} \in SUBSET (1..MaxNsu)
    BY <1>1 DEF Run
  <2>2. Respondidos' = [Respondidos EXCEPT ![c] = @ \union {d}]
    BY <1>2, <1>10 DEF IInv, TypeOK, PersistirDocumento, Respondidos, adn
  <2>3. QED
    BY <1>2, <1>10, <2>1, <2>2, ResponderConsumo DEF PersistirDocumento, tabela, Existentes
<1>11. CASE AvancarNsu(w)
  <2>1. Coberto(c, run[w].nsu, nsuInicial, Respondidos)
        /\ \A n \in run[w].nsu + 1..run[w].teto : n \in Respondidos[c]
    BY <1>1, <1>11 DEF AvancarNsu, RunOK
  <2>2. run[w].teto \in 0..MaxNsu /\ Coberto(c, run[w].teto, nsuInicial, Respondidos)
    BY <1>1, <1>2, <1>11, <2>1, NumerosAssumption DEF IInv, TypeOK, AvancarNsu, Coberto, Run
  <2>3. QED
    BY <1>2, <1>11, <2>2, MoverConsumo DEF AvancarNsu, Existentes, Respondidos, adn
<1>12. QED
  BY <1>3, <1>4, <1>5, <1>6, <1>7, <1>8, <1>9, <1>10, <1>11 DEF Trabalhar

LEMMA CriarControleConsumo ==
  ASSUME IInv, NEW c \in Controles, NEW modo \in Modos, NEW origem \in Origens(modo),
         CriarControle(c, modo, origem)
  PROVE  Consumo!Next
<1>1. NsusIniciais(modo) \subseteq 0..MaxNsu
  BY NumerosAssumption DEF NsusIniciais
<1>2. PICK n \in 0..MaxNsu : /\ ultimoNsuConsultado' = [ultimoNsuConsultado EXCEPT ![c] = n]
                             /\ nsuInicial' = [nsuInicial EXCEPT ![c] = n + 1]
  BY <1>1 DEF CriarControle
<1>3. Consumo!Criar(c, n)
  BY <1>2 DEF IInv, TypeOK, CriarControle, Consumo!Criar, Respondidos, adn
<1>4. QED
  BY <1>3 DEF Consumo!Next

LEMMA OutrosConsumo ==
  ASSUME IInv, (\E w \in Workers : RunNow(w)) \/ Operar \/ Verificar \/ Ambiente
  PROVE  Consumo!Next \/ UNCHANGED Visto
<1>1. CASE \E w \in Workers : RunNow(w)
  BY <1>1 DEF RunNow, Visto, Existentes, Respondidos, tabela, adn
<1>2. ASSUME NEW k \in Clientes, PausarSync(k) \/ RetomarSync(k) PROVE UNCHANGED Visto
  <2>1. Existentes' = Existentes
    BY <1>2 DEF PausarSync, RetomarSync, Existentes, DoCliente
  <2>2. QED
    BY <1>2, <2>1 DEF PausarSync, RetomarSync, Visto, Respondidos, adn
<1>3. ASSUME NEW c \in Controles, NEW modo \in Modos, NEW origem \in Origens(modo),
             Reativar(c, modo, origem)
      PROVE  UNCHANGED Visto
  <2>1. Existentes' = Existentes
    BY <1>3 DEF IInv, TypeOK, Reativar, Existentes
  <2>2. QED
    BY <1>3, <2>1 DEF Reativar, Visto, Respondidos, adn
<1>4. CASE Operar
  BY <1>2, <1>3, <1>4, CriarControleConsumo DEF Operar
<1>5. CASE Verificar
  <2>1. CASE IniciarVerificacao
    BY <2>1 DEF IniciarVerificacao, Visto, Existentes, Respondidos, tabela, adn
  <2>2. ASSUME NEW c \in Controles, VerificarAtivo(c) \/ VerificarErro(c) PROVE UNCHANGED Visto
    <3>1. c \in Existentes
      BY <2>2 DEF IInv, VerificarAtivo, VerificarErro
    <3>2. Existentes' = Existentes
      BY <2>2, <3>1 DEF IInv, TypeOK, VerificarAtivo, VerificarErro, Existentes
    <3>3. QED
      BY <2>2, <3>2 DEF VerificarAtivo, VerificarErro, Visto, Respondidos, adn
  <2>3. QED
    BY <1>5, <2>1, <2>2 DEF Verificar
<1>6. CASE Ambiente
  BY <1>6 DEF Ambiente, TrocarCertificado, Reiniciar, Publicar, Tick, Visto, Existentes, Respondidos,
              tabela, adn
<1>7. QED
  BY <1>1, <1>4, <1>5, <1>6

LEMMA NextConsumo == IInv /\ [Next]_vars => [Consumo!Next]_(Consumo!vars)
<1> SUFFICES ASSUME IInv, [Next]_vars PROVE Consumo!Next \/ UNCHANGED Visto
  BY DEF Visto, Existentes, Consumo!vars
<1>1. CASE UNCHANGED vars
  BY <1>1 DEF vars, tabela, adn, Visto, Existentes, Respondidos
<1>2. CASE Next
  BY <1>2, TrabalharConsumo, OutrosConsumo DEF Next
<1>3. QED
  BY <1>1, <1>2

\* The synchronisation implements the abstract consumer: a cursor never moves past an
\* NSU that had no answer, no answer is forgotten, no control starts twice.
THEOREM ImplementaConsumo == Spec => ConsumoCorreto
<1>1. IInv /\ [Next]_vars => [Consumo!Next]_(Consumo!vars)
  BY NextConsumo
<1>2. QED
  BY <1>1, InitConsumo, InvarianteIndutivo, PTL DEF Spec, ConsumoCorreto, Consumo!Spec

-----------------------------------------------------------------------------
(* The claim on a control (tryClaimDueControl) is a lock under two         *)
(* conditions on the configuration: a control is left before its claim     *)
(* runs out, and daily mode stops at the first document, so that no step   *)
(* of runNow releases the row it is still working on.                      *)

\* While nobody resets the row from outside, its due date covers the claim of its only
\* holder, and a backoff ends no later than the due date that enforces it.
Posse(c) ==
  ~reaberto[c] =>
    /\ retorno[c] <= proximaExecucao[c]
    /\ \A w \in Workers : Ocupa(w, c) =>
         retorno[c] = 0 /\ 1 <= run[w].prazo /\ run[w].prazo <= proximaExecucao[c]
    /\ \A v, w \in Workers : Ocupa(v, c) /\ Ocupa(w, c) => v = w

PInv ==
  /\ IInv
  /\ \A c \in Controles : Posse(c) /\ (status[c] = "inexistente" => retorno[c] = 0)

LEMMA InitPInv == Init => PInv
<1> SUFFICES ASSUME Init PROVE PInv
  OBVIOUS
<1>1. \A c \in Controles : Posse(c) /\ retorno[c] = 0
  BY DEF Init, Posse, Ocupa, Ocioso
<1>2. QED
  BY <1>1, InitIInv DEF PInv

\* The control a worker holds exists.
LEMMA OcupaExistente ==
  ASSUME IInv, NEW w \in Workers, NEW c, Ocupa(w, c)
  PROVE  c \in Existentes /\ c \in Controles
BY DEF IInv, Execucoes, RunOK, LinhaOK, Ocupa, Existentes

\* No worker takes or leaves a control and no date changes.
LEMMA PosseFica ==
  ASSUME PInv, UNCHANGED <<proximaExecucao, retorno, reaberto>>,
         \A w \in Workers : run'[w].linha = run[w].linha /\ run'[w].prazo = run[w].prazo
  PROVE  \A c \in Controles : Posse(c)'
BY DEF PInv, Posse, Ocupa

\* One worker leaves its control, and sets the dates of that control only.
LEMMA PosseLarga ==
  ASSUME PInv, NEW w \in Workers, NEW c \in Controles, NEW q,
         Ocupa(w, c), run' = [run EXCEPT ![w] = q], q.linha = Nenhum, UNCHANGED reaberto,
         \A e \in Controles \ {c} : proximaExecucao'[e] = proximaExecucao[e] /\ retorno'[e] = retorno[e],
         ~reaberto[c] => retorno'[c] <= proximaExecucao'[c]
  PROVE  \A e \in Controles : Posse(e)'
<1>1. run'[w] = q /\ \A v \in Workers \ {w} : run'[v] = run[v]
  BY DEF PInv, IInv, TypeOK
<1>2. \A v \in Workers, e \in Controles : Ocupa(v, e)' => v # w /\ Ocupa(v, e)
  BY <1>1 DEF Ocupa
<1>3. Posse(c)'
  BY <1>2 DEF PInv, Posse
<1>4. ASSUME NEW e \in Controles, e # c PROVE Posse(e)'
  BY <1>1, <1>2, <1>4 DEF PInv, Posse
<1>5. QED
  BY <1>3, <1>4

LEMMA PrazoNat == Prazo \subseteq Nat
BY NumerosAssumption DEF Prazo, Maior

LEMMA SeguinteLivre == ASSUME NEW r PROVE Seguinte(r).linha = Nenhum /\ Ocioso.linha = Nenhum
BY DEF Seguinte, Ocioso

-----------------------------------------------------------------------------

LEMMA ReservarPosse ==
  ASSUME PInv, NEW w \in Workers, NEW l \in run[w].fila, Reservar(w, l)
  PROVE  \A c \in Controles : Posse(c)'
<1> DEFINE d == l.controle
           q == [Ocioso EXCEPT !.pc = "certificado", !.fila = run[w].fila \ {l}, !.linha = l,
                               !.prazo = ClaimTtl]
<1>1. l \in Linhas /\ d \in Controles /\ l # Nenhum
  BY DadosAssumption DEF PInv, IInv, TypeOK, Run, Linhas
<1>2. run'[w] = q /\ \A v \in Workers \ {w} : run'[v] = run[v]
  BY DEF PInv, IInv, TypeOK, Reservar
<1>3. q.linha = l /\ q.prazo = ClaimTtl
  BY DEF Ocioso
<1>4. /\ proximaExecucao[d] = 0 /\ proximaExecucao' = [proximaExecucao EXCEPT ![d] = ClaimTtl]
      /\ retorno' = [retorno EXCEPT ![d] = IF reaberto[d] THEN 0 ELSE @]
      /\ reaberto' = [reaberto EXCEPT ![d] = @ /\ \E v \in Workers : Ocupa(v, d)]
  BY DEF Reservar, TryClaimDueControl, Vencido
<1>5. \A v \in Workers : ~Ocupa(v, d) \/ reaberto[d]
  BY <1>1, <1>4 DEF PInv, Posse, IInv, TypeOK, Run, Prazo
<1>6. Posse(d)'
  <2>1. SUFFICES ASSUME ~reaberto'[d] PROVE Posse(d)'
    BY DEF Posse
  <2>2. \A v \in Workers : ~Ocupa(v, d)
    BY <1>1, <1>4, <1>5, <2>1 DEF PInv, IInv, TypeOK
  <2>3. \A v \in Workers : Ocupa(v, d)' => v = w
    BY <1>2, <2>2 DEF Ocupa
  <2>4. retorno'[d] = 0
    BY <1>1, <1>4 DEF PInv, Posse, IInv, TypeOK, Prazo
  <2>5. proximaExecucao'[d] = ClaimTtl /\ 1 <= ClaimTtl
    BY <1>1, <1>4, NumerosAssumption DEF PInv, IInv, TypeOK
  <2>6. run'[w].prazo = ClaimTtl
    BY <1>2, <1>3
  <2> HIDE DEF d, q
  <2>7. QED
    BY <2>3, <2>4, <2>5, <2>6, NumerosAssumption DEF Posse
<1>7. ASSUME NEW e \in Controles, e # d PROVE Posse(e)'
  <2>1. proximaExecucao'[e] = proximaExecucao[e] /\ retorno'[e] = retorno[e] /\ reaberto'[e] = reaberto[e]
    BY <1>4, <1>7 DEF PInv, IInv, TypeOK
  <2>2. \A v \in Workers : Ocupa(v, e)' => v # w /\ Ocupa(v, e)
    BY <1>2, <1>3, <1>7 DEF Ocupa
  <2>3. QED
    BY <1>2, <2>1, <2>2 DEF PInv, Posse
<1>8. QED
  BY <1>6, <1>7

LEMMA TrabalharPosse ==
  ASSUME PInv, StopOnFirst, NEW w \in Workers, Trabalhar(w)
  PROVE  \A c \in Controles : Posse(c)'
<1> DEFINE c == run[w].linha.controle
<1>0. proximaExecucao' \in [Controles -> Prazo] /\ cooldown' \in [Processos -> Prazo]
  BY TrabalharIInv DEF PInv, IInv, TypeOK
<1>1. run[w] \in Run /\ RunOK(run[w], Existentes, nsuInicial, Respondidos)
  BY DEF PInv, IInv, TypeOK, Execucoes
<1>2. run[w].pc \in {"certificado", "consultar", "resposta", "fechar"} => Ocupa(w, c) /\ c \in Controles
  BY <1>1 DEF Run, RunOK, Linhas, Ocupa
<1>3. ASSUME NEW l \in run[w].fila, Reservar(w, l) PROVE \A e \in Controles : Posse(e)'
  BY <1>3, ReservarPosse
<1>4. ASSUME NEW l \in run[w].fila, IgnorarReservado(w, l) PROVE \A e \in Controles : Posse(e)'
  <2>1. UNCHANGED <<proximaExecucao, retorno, reaberto>>
    BY <1>4 DEF IgnorarReservado, tabela, historia
  <2>2. \A v \in Workers : v # w => run'[v] = run[v]
    BY <1>4 DEF PInv, IInv, TypeOK, IgnorarReservado
  <2>3. run'[w].linha = Nenhum
    BY <1>4, SeguinteLivre DEF PInv, IInv, TypeOK, IgnorarReservado
  <2>4. \A v \in Workers, e \in Controles : Ocupa(v, e)' => v # w /\ Ocupa(v, e)
    BY <2>2, <2>3 DEF Ocupa
  <2>5. QED
    BY <2>1, <2>2, <2>4 DEF PInv, Posse
<1>5. CASE SemCertificado(w) \/ FalhaDecifrar(w) \/ SemDocumento(w) \/ FecharLote(w)
  <2>1. /\ run' = [run EXCEPT ![w] = Seguinte(run[w])]
        /\ UNCHANGED <<retorno, reaberto>> /\ Ocupa(w, c) /\ c \in Controles
        /\ \A e \in Controles \ {c} : proximaExecucao'[e] = proximaExecucao[e]
    BY <1>2, <1>5 DEF PInv, IInv, TypeOK, SemCertificado, FalhaDecifrar, SemDocumento, FecharLote, historia
  <2>2. proximaExecucao'[c] \in Nat
    BY <1>0, <2>1, PrazoNat
  <2>3. ~reaberto[c] => retorno[c] = 0
    BY <2>1 DEF PInv, Posse
  <2>4. ~reaberto[c] => retorno'[c] <= proximaExecucao'[c]
    BY <2>1, <2>2, <2>3
  <2>5. QED
    BY <2>1, <2>4, SeguinteLivre, PosseLarga
<1>6. CASE ErroTemporario(w) \/ FalhaPersistencia(w)
  <2>1. /\ run' = [run EXCEPT ![w] = Seguinte(run[w])]
        /\ UNCHANGED reaberto /\ Ocupa(w, c) /\ c \in Controles
        /\ proximaExecucao' = [proximaExecucao EXCEPT ![c] = RetryDelay]
        /\ retorno' = [retorno EXCEPT ![c] = RetryDelay]
    BY <1>1, <1>2, <1>6 DEF ErroTemporario, FalhaPersistencia, AgendarNovaTentativa, Run
  <2>2. /\ \A e \in Controles \ {c} : proximaExecucao'[e] = proximaExecucao[e] /\ retorno'[e] = retorno[e]
        /\ retorno'[c] <= proximaExecucao'[c]
    BY <2>1, NumerosAssumption DEF PInv, IInv, TypeOK
  <2>3. QED
    BY <2>1, <2>2, SeguinteLivre, PosseLarga
<1>7. CASE LimiteExcedido(w)
  <2>1. PICK j \in 0..RetryJitter :
          /\ proximaExecucao' = [proximaExecucao EXCEPT ![c] = Maior(RetryDelay + j, cooldown'[ProcessoDe[w]])]
          /\ retorno' = [retorno EXCEPT ![c] = Maior(RetryDelay + j, cooldown'[ProcessoDe[w]])]
    BY <1>7 DEF LimiteExcedido
  <2>2. cooldown'[ProcessoDe[w]] \in Nat
    BY <1>0, DadosAssumption, PrazoNat
  <2>3. Maior(RetryDelay + j, cooldown'[ProcessoDe[w]]) \in Nat
    BY <2>2, NumerosAssumption DEF Maior
  <2>4. /\ run' = [run EXCEPT ![w] = Ocioso]
        /\ UNCHANGED reaberto /\ Ocupa(w, c) /\ c \in Controles
    BY <1>2, <1>7 DEF LimiteExcedido
  <2>5. /\ \A e \in Controles \ {c} : proximaExecucao'[e] = proximaExecucao[e] /\ retorno'[e] = retorno[e]
        /\ retorno'[c] <= proximaExecucao'[c]
    BY <2>1, <2>3, <2>4 DEF PInv, IInv, TypeOK
  <2>6. QED
    BY <2>4, <2>5, SeguinteLivre, PosseLarga
<1>8. CASE AvancarNsu(w)
  <2>1. run' = [run EXCEPT ![w] = Seguinte(run[w])]
    <3>1. run[w].passo \in Nat
      BY <1>1, NumerosAssumption DEF Run
    <3>2. CASE run[w].linha.diario
      BY <1>8, <3>2 DEF AvancarNsu
    <3>3. CASE ~run[w].linha.diario
      <4>1. ~(run[w].passo + 1 < Passos(run[w].linha))
        BY <3>1, <3>3 DEF Passos
      <4>2. QED
        BY <1>8, <3>3, <4>1 DEF AvancarNsu
    <3>4. QED
      BY <3>2, <3>3
  <2>2. /\ UNCHANGED <<retorno, reaberto>> /\ Ocupa(w, c) /\ c \in Controles
        /\ \A e \in Controles \ {c} : proximaExecucao'[e] = proximaExecucao[e]
    BY <1>2, <1>8 DEF PInv, IInv, TypeOK, AvancarNsu, historia
  <2>3. proximaExecucao'[c] \in Nat
    BY <1>2, <1>8, NumerosAssumption DEF PInv, IInv, TypeOK, AvancarNsu
  <2>4. ~reaberto[c] => retorno'[c] <= proximaExecucao'[c]
    BY <2>2, <2>3 DEF PInv, Posse
  <2>5. QED
    BY <2>1, <2>2, <2>4, SeguinteLivre, PosseLarga
<1>9. CASE \/ ComCertificado(w) \/ ConsultarComLote(w) \/ ConsultarSemDocumento(w)
           \/ (\E f \in Falhas : ConsultarComFalha(w, f))
           \/ (\E d \in run[w].lote : PersistirDocumento(w, d))
  <2>1. UNCHANGED <<proximaExecucao, retorno, reaberto>>
    BY <1>9 DEF ComCertificado, ConsultarComLote, ConsultarSemDocumento, ConsultarComFalha,
                PersistirDocumento, tabela, historia
  <2>2. \A v \in Workers : v # w => run'[v] = run[v]
    BY <1>9 DEF PInv, IInv, TypeOK, ComCertificado, ConsultarComLote, ConsultarSemDocumento,
                ConsultarComFalha, PersistirDocumento, Recebe
  <2>3. run'[w].linha = run[w].linha /\ run'[w].prazo = run[w].prazo
    <3>1. CASE ComCertificado(w)
      BY <1>1, <3>1 DEF PInv, IInv, TypeOK, Run, ComCertificado
    <3>2. ASSUME NEW n, NEW a, NEW lote, NEW teto, Recebe(w, n, a, lote, teto)
          PROVE  run'[w].linha = run[w].linha /\ run'[w].prazo = run[w].prazo
      <4>1. run'[w] = [run[w] EXCEPT !.pc = "resposta", !.resposta = a, !.lote = lote, !.teto = teto]
        BY <3>2 DEF PInv, IInv, TypeOK, Recebe
      <4>2. QED
        BY <1>1, <4>1 DEF Run
    <3>3. ASSUME NEW d \in run[w].lote, PersistirDocumento(w, d)
          PROVE  run'[w].linha = run[w].linha /\ run'[w].prazo = run[w].prazo
      BY <1>1, <3>3 DEF PInv, IInv, TypeOK, Run, PersistirDocumento
    <3>4. QED
      BY <1>9, <3>1, <3>2, <3>3 DEF ConsultarComLote, ConsultarSemDocumento, ConsultarComFalha
  <2>4. QED
    BY <2>1, <2>2, <2>3, PosseFica
<1>10. QED
  BY <1>3, <1>4, <1>5, <1>6, <1>7, <1>8, <1>9 DEF Trabalhar

-----------------------------------------------------------------------------

\* The rows of S are reset from outside: the due date is not before the end of a backoff.
LEMMA PosseReaberta ==
  ASSUME PInv, NEW S, Reabrir(S), UNCHANGED run,
         \A e \in Controles \ S : proximaExecucao'[e] = proximaExecucao[e] /\ retorno'[e] = retorno[e],
         \A e \in S \cap Controles : retorno'[e] = 0 /\ proximaExecucao'[e] \in Nat
  PROVE  \A c \in Controles : Posse(c)'
<1>1. ASSUME NEW e \in Controles, e \in S PROVE Posse(e)'
  <2>1. reaberto'[e] = (reaberto[e] \/ \E w \in Workers : Ocupa(w, e))
    BY <1>1 DEF Reabrir
  <2>2. \A w \in Workers : Ocupa(w, e)' = Ocupa(w, e)
    BY DEF Ocupa
  <2>3. retorno'[e] <= proximaExecucao'[e]
    BY <1>1
  <2>4. QED
    BY <2>1, <2>2, <2>3 DEF Posse
<1>2. ASSUME NEW e \in Controles, e \notin S PROVE Posse(e)'
  BY <1>2 DEF PInv, IInv, TypeOK, Posse, Reabrir, Ocupa
<1>3. QED
  BY <1>1, <1>2

LEMMA OperarPosse ==
  ASSUME PInv, Operar
  PROVE  \A c \in Controles : Posse(c)'
<1>1. ASSUME NEW k \in Clientes, PausarSync(k) PROVE \A c \in Controles : Posse(c)'
  BY <1>1, PosseFica DEF PausarSync
<1>2. ASSUME NEW k \in Clientes, RetomarSync(k) PROVE \A c \in Controles : Posse(c)'
  <2>1. /\ \A e \in Controles \ DoCliente(k) : proximaExecucao'[e] = proximaExecucao[e] /\ retorno'[e] = retorno[e]
        /\ \A e \in DoCliente(k) \cap Controles : retorno'[e] = 0 /\ proximaExecucao'[e] \in Nat
    BY <1>2 DEF RetomarSync
  <2>2. QED
    BY <1>2, <2>1, PosseReaberta DEF RetomarSync
<1>3. ASSUME NEW c \in Controles, NEW modo \in Modos, NEW origem \in Origens(modo),
             Reativar(c, modo, origem)
      PROVE  \A e \in Controles : Posse(e)'
  <2>1. PICK d \in BuildActivationSchedule(origem) : proximaExecucao' = [proximaExecucao EXCEPT ![c] = d]
    BY <1>3 DEF Reativar
  <2>2. d \in Nat
    BY <2>1, NumerosAssumption DEF BuildActivationSchedule
  <2>3. /\ \A e \in Controles \ {c} : proximaExecucao'[e] = proximaExecucao[e] /\ retorno'[e] = retorno[e]
        /\ \A e \in {c} \cap Controles : retorno'[e] = 0 /\ proximaExecucao'[e] \in Nat
    BY <1>3, <2>1, <2>2 DEF PInv, IInv, TypeOK, Reativar
  <2>4. QED
    BY <1>3, <2>3, PosseReaberta DEF Reativar
<1>4. ASSUME NEW c \in Controles, NEW modo \in Modos, NEW origem \in Origens(modo),
             CriarControle(c, modo, origem)
      PROVE  \A e \in Controles : Posse(e)'
  <2>1. PICK d \in BuildActivationSchedule(origem) : proximaExecucao' = [proximaExecucao EXCEPT ![c] = d]
    BY <1>4 DEF CriarControle
  <2>2. d \in Nat
    BY <2>1, NumerosAssumption DEF BuildActivationSchedule
  <2>3. UNCHANGED <<run, retorno, reaberto>> /\ proximaExecucao'[c] = d /\ retorno[c] = 0
        /\ \A w \in Workers : ~Ocupa(w, c)
    BY <1>4, <2>1, OcupaExistente DEF PInv, IInv, TypeOK, CriarControle, historia, Existentes
  <2>4. Posse(c)'
    BY <2>2, <2>3 DEF Posse, Ocupa
  <2>5. ASSUME NEW e \in Controles, e # c PROVE Posse(e)'
    BY <2>1, <2>3, <2>5 DEF PInv, IInv, TypeOK, Posse, Ocupa
  <2>6. QED
    BY <2>4, <2>5
<1>5. QED
  BY <1>1, <1>2, <1>3, <1>4 DEF Operar

LEMMA VerificarPosse ==
  ASSUME PInv, Verificar
  PROVE  \A c \in Controles : Posse(c)'
<1>1. CASE IniciarVerificacao
  BY <1>1, PosseFica DEF IniciarVerificacao, tabela, historia
<1>2. ASSUME NEW c \in Controles, VerificarAtivo(c) PROVE \A e \in Controles : Posse(e)'
  BY <1>2, PosseFica DEF VerificarAtivo, historia
<1>3. ASSUME NEW c \in Controles, VerificarErro(c) PROVE \A e \in Controles : Posse(e)'
  <2>1. CASE JobVeCertificado(c)
    <3>1. /\ \A e \in Controles \ {c} : proximaExecucao'[e] = proximaExecucao[e] /\ retorno'[e] = retorno[e]
          /\ \A e \in {c} \cap Controles : retorno'[e] = 0 /\ proximaExecucao'[e] \in Nat
          /\ Reabrir({c}) /\ UNCHANGED run
      BY <1>3, <2>1 DEF PInv, IInv, TypeOK, VerificarErro
    <3>2. QED
      BY <3>1, PosseReaberta
  <2>2. CASE ~JobVeCertificado(c)
    BY <1>3, <2>2, PosseFica DEF VerificarErro
  <2>3. QED
    BY <2>1, <2>2
<1>4. QED
  BY <1>1, <1>2, <1>3 DEF Verificar

LEMMA AmbientePosse ==
  ASSUME PInv, DentroDoTtl, Ambiente
  PROVE  \A c \in Controles : Posse(c)'
<1>1. ASSUME NEW c \in Controles, NEW nivel \in Niveis, TrocarCertificado(c, nivel)
      PROVE  \A e \in Controles : Posse(e)'
  BY <1>1, PosseFica DEF TrocarCertificado, tabela
<1>2. ASSUME NEW p \in Processos, Reiniciar(p) PROVE \A e \in Controles : Posse(e)'
  <2>1. \A w \in Workers : run'[w] = run[w] \/ run'[w].linha = Nenhum
    BY <1>2, SeguinteLivre DEF Reiniciar
  <2>2. \A w \in Workers, e \in Controles : Ocupa(w, e)' => Ocupa(w, e) /\ run'[w] = run[w]
    BY <2>1 DEF Ocupa
  <2>3. UNCHANGED <<proximaExecucao, retorno, reaberto>>
    BY <1>2 DEF Reiniciar, tabela
  <2>4. QED
    BY <2>2, <2>3 DEF PInv, Posse
<1>3. ASSUME NEW c \in Controles, NEW n \in 1..MaxNsu, Publicar(c, n) PROVE \A e \in Controles : Posse(e)'
  BY <1>3, PosseFica DEF Publicar, tabela, historia
<1>4. CASE Tick
  <2>1. ASSUME NEW w \in Workers
        PROVE  run'[w].linha = run[w].linha /\ run'[w].prazo = Antes(run[w].prazo)
    <3>1. run[w] \in Run /\ run'[w] = [run[w] EXCEPT !.prazo = Antes(@)]
      BY <1>4 DEF PInv, IInv, TypeOK, Tick
    <3>2. QED
      BY <3>1 DEF Run
  <2>2. \A w \in Workers : run[w].linha # Nenhum => run[w].prazo > 1
    BY <1>4 DEF Tick
  <2>3. ASSUME NEW c \in Controles PROVE Posse(c)'
    <3>1. /\ proximaExecucao'[c] = Antes(proximaExecucao[c]) /\ retorno'[c] = Antes(retorno[c])
          /\ reaberto'[c] = reaberto[c]
      BY <1>4 DEF Tick
    <3>2. proximaExecucao[c] \in Nat /\ retorno[c] \in Nat /\ \A w \in Workers : run[w].prazo \in Nat
      BY Prazos DEF PInv, IInv, TypeOK, Run, Prazo
    <3>3. \A w \in Workers : Ocupa(w, c)' => Ocupa(w, c) /\ run[w].prazo > 1
      BY <2>1, <2>2 DEF Ocupa
    <3>4. Posse(c)
      BY DEF PInv
    <3>5. QED
      BY <2>1, <3>1, <3>2, <3>3, <3>4 DEF Posse, Antes
  <2>4. QED
    BY <2>3
<1>5. QED
  BY <1>1, <1>2, <1>3, <1>4 DEF Ambiente

-----------------------------------------------------------------------------

LEMMA ExistentesCrescem ==
  ASSUME IInv, [Next]_vars
  PROVE  Existentes \subseteq Existentes'
<1>1. Consumo!Next \/ Existentes' = Existentes
  BY NextConsumo DEF Consumo!vars, Existentes
<1>2. CASE Consumo!Next
  BY <1>2 DEF Consumo!Next, Consumo!Criar, Consumo!Responder, Consumo!Mover, Existentes
<1>3. QED
  BY <1>1, <1>2

\* Only a control that exists gets a backoff.
LEMMA RetornoDeInexistente ==
  ASSUME PInv, Next, NEW c \in Controles, status[c] = "inexistente"
  PROVE  retorno'[c] = 0
<1>1. retorno[c] = 0 /\ Antes(0) = 0
  BY DEF PInv, Antes
<1>2. ASSUME NEW w \in Workers, Trabalhar(w) PROVE retorno'[c] = retorno[c]
  <2>1. RunOK(run[w], Existentes, nsuInicial, Respondidos) /\ c \notin Existentes
    BY DEF PInv, IInv, Execucoes, Existentes
  <2>2. ASSUME NEW l \in run[w].fila, Reservar(w, l) PROVE retorno'[c] = retorno[c]
    <3>1. l.controle # c
      BY <2>1 DEF RunOK, LinhaOK
    <3>2. QED
      BY <2>2, <3>1 DEF PInv, IInv, TypeOK, Reservar
  <2>3. CASE ErroTemporario(w) \/ FalhaPersistencia(w) \/ LimiteExcedido(w)
    <3>1. run[w].linha.controle # c
      BY <2>1, <2>3 DEF RunOK, LinhaOK, ErroTemporario, FalhaPersistencia, LimiteExcedido
    <3>2. QED
      BY <2>3, <3>1 DEF PInv, IInv, TypeOK, ErroTemporario, FalhaPersistencia, LimiteExcedido,
                        AgendarNovaTentativa
  <2>4. QED
    BY <1>2, <2>2, <2>3
    DEF Trabalhar, IgnorarReservado, SemCertificado, ComCertificado, ConsultarComLote,
        ConsultarSemDocumento, ConsultarComFalha, FalhaDecifrar, SemDocumento, PersistirDocumento,
        AvancarNsu, FecharLote, historia
<1>3. CASE Operar
  <2>1. ASSUME NEW k \in Clientes, PausarSync(k) \/ RetomarSync(k) PROVE retorno'[c] = 0
    BY <1>1, <2>1 DEF PausarSync, RetomarSync
  <2>2. ASSUME NEW e \in Controles, NEW modo \in Modos, NEW origem \in Origens(modo),
               Reativar(e, modo, origem) \/ CriarControle(e, modo, origem)
        PROVE  retorno'[c] = 0
    BY <1>1, <2>2 DEF Reativar, CriarControle, historia, PInv, IInv, TypeOK
  <2>3. QED
    BY <1>3, <2>1, <2>2 DEF Operar
<1>4. CASE Verificar
  BY <1>1, <1>4 DEF Verificar, IniciarVerificacao, VerificarAtivo, VerificarErro, historia, PInv, IInv, TypeOK
<1>5. CASE Ambiente
  BY <1>1, <1>5 DEF Ambiente, TrocarCertificado, Reiniciar, Publicar, Tick, historia
<1>6. CASE \E w \in Workers : RunNow(w)
  BY <1>1, <1>6 DEF RunNow, historia
<1>7. QED
  BY <1>1, <1>2, <1>3, <1>4, <1>5, <1>6 DEF Next

LEMMA NextPInv == StopOnFirst /\ DentroDoTtl /\ PInv /\ [Next]_vars => PInv'
<1> SUFFICES ASSUME StopOnFirst, DentroDoTtl, PInv, [Next]_vars PROVE PInv'
  OBVIOUS
<1>1. IInv'
  BY NextIInv DEF PInv
<1>2. \A c \in Controles : Posse(c)'
  <2>1. CASE UNCHANGED vars
    BY <2>1, PosseFica DEF vars, tabela, historia
  <2>2. ASSUME NEW w \in Workers, RunNow(w) PROVE \A c \in Controles : Posse(c)'
    <3>1. \A v \in Workers : run'[v] = run[v] \/ run'[v].linha = Nenhum
      <4>1. PICK F : run' = [run EXCEPT ![w] = [Ocioso EXCEPT !.pc = "reservar", !.fila = {Linha(c) : c \in F}]]
        BY <2>2 DEF RunNow
      <4>2. QED
        BY <4>1 DEF PInv, IInv, TypeOK, Ocioso
    <3>2. \A v \in Workers, c \in Controles : Ocupa(v, c)' => Ocupa(v, c) /\ run'[v] = run[v]
      BY <3>1 DEF Ocupa
    <3>3. UNCHANGED <<proximaExecucao, retorno, reaberto>>
      BY <2>2 DEF RunNow, tabela, historia
    <3>4. QED
      BY <3>2, <3>3 DEF PInv, Posse
  <2>3. QED
    BY <2>1, <2>2, TrabalharPosse, OperarPosse, VerificarPosse, AmbientePosse DEF Next
<1>3. ASSUME NEW c \in Controles, status'[c] = "inexistente" PROVE retorno'[c] = 0
  <2>1. status[c] = "inexistente" /\ retorno[c] = 0
    <3>1. Existentes \subseteq Existentes'
      BY ExistentesCrescem DEF PInv
    <3>2. QED
      BY <1>3, <3>1 DEF PInv, Existentes
  <2>2. QED
    BY <2>1, RetornoDeInexistente DEF vars, historia
<1>4. QED
  BY <1>1, <1>2, <1>3 DEF PInv

\* tryClaimDueControl is a lock: no two executions of runNow work on one control, unless
\* the operator or the certificate job reset its row while it was held.
THEOREM ClaimExclusivo == StopOnFirst /\ DentroDoTtl /\ Spec => []Exclusividade
<1> SUFFICES ASSUME StopOnFirst, DentroDoTtl PROVE Spec => []Exclusividade
  OBVIOUS
<1>1. PInv => Exclusividade
  BY DEF PInv, Posse, Exclusividade
<1>2. PInv /\ [Next]_vars => PInv'
  BY NextPInv
<1>3. QED
  BY <1>1, <1>2, InitPInv, PTL DEF Spec

\* A control is not asked for before the backoff of its last failure is over.
THEOREM BackoffSempreRespeitado == StopOnFirst /\ DentroDoTtl /\ Spec => []BackoffRespeitado
<1> SUFFICES ASSUME StopOnFirst, DentroDoTtl PROVE Spec => []BackoffRespeitado
  OBVIOUS
<1>1. PInv => BackoffRespeitado
  <2>1. SUFFICES ASSUME PInv, NEW w \in Workers, run[w].pc = "consultar"
                 PROVE  retorno[run[w].linha.controle] = 0 \/ reaberto[run[w].linha.controle]
    BY DEF BackoffRespeitado
  <2>2. Ocupa(w, run[w].linha.controle)
    BY <2>1 DEF PInv, IInv, Execucoes, RunOK, Ocupa
  <2>3. run[w].linha.controle \in Controles
    BY <2>1, <2>2, OcupaExistente DEF PInv
  <2>4. QED
    BY <2>1, <2>2, <2>3 DEF PInv, Posse
<1>2. PInv /\ [Next]_vars => PInv'
  BY NextPInv
<1>3. QED
  BY <1>1, <1>2, InitPInv, PTL DEF Spec
==============================================================================
