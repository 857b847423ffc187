-------------------------- MODULE NfeNacionalProofs --------------------------
(***************************************************************************)
(* What NfeNacional guarantees for any number of executions, of any kind,  *)
(* any batch, any period and any number of NSUs.                           *)
(***************************************************************************)
EXTENDS NfeNacional, TLAPS

Tipos == {"nenhum", "ciclo", "noturna", "periodo"}
Execucao ==
  [pc : Passos, tipo : Tipos, foto : Fotos, prox : Nat, alvo : Nsus, topo : Nsus,
   vez : 0..NsusPorVez, marcas : Seq(Marcas), motivo : Motivos \union {"parou"}, antiga : BOOLEAN]

\* Everything the row answers for, up to k, is stored or too old.
Cobertos(k) == \A n \in base + 1..k : n \in salvos \/ n <= antigos

MarcaOK(m) == m.prox <= publicados /\ m.alvo <= publicados /\ Revisto(m)

\* A copy of the row, however old, never knows more than what was stored and published.
FotoOK(f) ==
  /\ f.consultado <= publicados /\ f.maximo <= publicados /\ Cobertos(f.consultado)
  /\ f.marca # Nenhum => MarcaOK(f.marca)

Recuperacao == {"marcar", "pontual", "enviada", "documento", "progresso", "fim", "fim_status"}

\* The texts still to be written: the wait alone, or that of a point query, twice.
MarcasOK(s) ==
  \E m \in Marcas : s \in {<<m>>, <<Nenhum, m>>} /\ (m # Nenhum => MarcaOK(m))

\* What an execution relies on, whatever became of the row since it read it.
Apoiada(x) ==
  /\ FotoOK(x.foto) /\ x.topo <= publicados /\ x.alvo <= publicados /\ x.prox <= publicados + 1
  /\ x.pc \in {"ativar", "base"} => x.tipo = "noturna"
  /\ x.pc = "base" => x.alvo >= 1
  /\ x.pc = "persistir" => x.prox \in 1..x.alvo /\ Cobertos(x.prox - 1)
  /\ x.pc = "avancar" => x.alvo >= 1 /\ Cobertos(x.alvo)
  /\ x.pc # "avancar" => x.prox <= publicados
  /\ x.pc \in Recuperacao => Revisto(x)
  /\ x.pc \in {"enviada", "documento"} => x.prox >= 1
  /\ x.pc \in {"pausar", "status"} =>
       /\ MarcasOK(x.marcas) /\ x.motivo \in Motivos
       /\ Len(x.marcas) = 2 => Revisto(x) /\ x.prox >= 1 /\ ~x.antiga

SemLinha == {"livre", "ativar", "base", "controles"}

Confiavel(e) ==
  /\ exec[e].tipo \in TiposDe[e] \union {"nenhum"}
  /\ Apoiada(exec[e])
  /\ exec[e].pc \notin SemLinha => linha # Nenhum

Tipada ==
  /\ linha \in Linhas \union {Nenhum}
  /\ base \in Nsus /\ publicados \in Nsus /\ salvos \subseteq 1..publicados
  /\ antigos \in 0..publicados
  /\ bloqueado \in BOOLEAN /\ desfeita \in BOOLEAN /\ hora \in {"livre", "137", "656"}
  /\ exec \in [Execucoes -> Execucao]

LinhaOK ==
  /\ linha # Nenhum => FotoOK(linha.foto)
  /\ base # 0 => linha # Nenhum /\ linha.foto.consultado >= 1

\* One nightly sweep at a time, and only it positions the row, once.
UmaNoturna ==
  /\ \A e, o \in Execucoes : exec[e].tipo = "noturna" /\ exec[o].tipo = "noturna" => e = o
  /\ \A e \in Execucoes : exec[e].pc = "base" => base = 0

IInv ==
  /\ Tipada
  /\ LinhaOK
  /\ \A e \in Execucoes : Confiavel(e)
  /\ UmaNoturna

-----------------------------------------------------------------------------
(* What a step leaves true                                                 *)

\* Documents are never lost, SEFAZ only publishes and forgets, the row stays, and the base is
\* set once.
Cresce ==
  /\ salvos \subseteq salvos' /\ publicados <= publicados' /\ antigos <= antigos'
  /\ base' \in Nat /\ base <= base'
  /\ linha # Nenhum => linha' # Nenhum

LEMMA Numeros ==
  ASSUME Tipada
  PROVE  base \in Nat /\ publicados \in Nat /\ antigos \in Nat
BY ConstantesValidas DEF Tipada, Nsus

\* The provers do no arithmetic on a primed variable: b and a stand for two of them.
LEMMA CobertosFica ==
  ASSUME Tipada, Tipada', Cresce, NEW k \in Nat, Cobertos(k)
  PROVE  \A n \in base' + 1..k : n \in salvos' \/ n <= antigos'
<1>1. base \in Nat /\ antigos \in Nat /\ base' \in Nat /\ antigos' \in Nat
  BY Numeros, ConstantesValidas DEF Tipada, Nsus
<1>2. PICK b \in Nat : b = base'
  BY <1>1
<1>3. PICK a \in Nat : a = antigos'
  BY <1>1
<1>4. base <= b /\ antigos <= a /\ \A n : n \in salvos => n \in salvos'
  BY <1>2, <1>3 DEF Cresce
<1>5. \A n \in b + 1..k : n \in base + 1..k /\ (n <= antigos => n <= a)
  BY <1>1, <1>4
<1>6. \A n \in b + 1..k : n \in salvos' \/ n <= a
  BY <1>4, <1>5 DEF Cobertos
<1>7. QED
  BY <1>2, <1>3, <1>6

LEMMA RevistoFica ==
  ASSUME Tipada, Tipada', Cresce, NEW x, Revisto(x)
  PROVE  \A n \in NoPeriodo : n > x.prox /\ n <= x.alvo => n \in salvos' \/ n <= antigos'
BY ConstantesValidas DEF Tipada, Cresce, Revisto, Nsus

LEMMA MarcaFica ==
  ASSUME Tipada, Tipada', Cresce, NEW m \in Marcas, MarcaOK(m), m # Nenhum
  PROVE  /\ m.prox <= publicados' /\ m.alvo <= publicados'
         /\ \A n \in NoPeriodo : n > m.prox /\ n <= m.alvo => n \in salvos' \/ n <= antigos'
<1>1. m.prox \in Nat /\ m.alvo \in Nat
  BY DEF Marcas, Nsus
<1>2. publicados \in Nat /\ publicados' \in Nat /\ publicados <= publicados'
  BY DEF Tipada, Cresce, Nsus
<1>3. m.prox <= publicados' /\ m.alvo <= publicados'
  BY <1>1, <1>2 DEF MarcaOK
<1>4. QED
  BY <1>3, RevistoFica DEF MarcaOK

LEMMA FotoFica ==
  ASSUME Tipada, Tipada', Cresce, NEW f \in Fotos, FotoOK(f)
  PROVE  /\ f.consultado <= publicados' /\ f.maximo <= publicados'
         /\ \A n \in base' + 1..f.consultado : n \in salvos' \/ n <= antigos'
         /\ f.marca # Nenhum =>
              /\ f.marca.prox <= publicados' /\ f.marca.alvo <= publicados'
              /\ \A n \in NoPeriodo : n > f.marca.prox /\ n <= f.marca.alvo
                                        => n \in salvos' \/ n <= antigos'
<1>1. f.consultado \in Nat /\ f.maximo \in Nat /\ f.marca \in Marcas
  BY DEF Fotos, Nsus
<1>2. publicados \in Nat /\ publicados' \in Nat /\ publicados <= publicados'
  BY DEF Tipada, Cresce, Nsus
<1>3. f.consultado <= publicados' /\ f.maximo <= publicados'
  BY <1>1, <1>2 DEF FotoOK
<1>4. QED
  BY <1>1, <1>3, CobertosFica, MarcaFica DEF FotoOK

LEMMA MarcasFicam ==
  ASSUME Tipada, Tipada', Cresce, NEW s, MarcasOK(s)
  PROVE  \E m \in Marcas :
           /\ s \in {<<m>>, <<Nenhum, m>>}
           /\ m # Nenhum =>
                /\ m.prox <= publicados' /\ m.alvo <= publicados'
                /\ \A n \in NoPeriodo : n > m.prox /\ n <= m.alvo => n \in salvos' \/ n <= antigos'
<1>1. PICK m \in Marcas : s \in {<<m>>, <<Nenhum, m>>} /\ (m # Nenhum => MarcaOK(m))
  BY DEF MarcasOK
<1>2. QED
  BY <1>1, MarcaFica

\* The executions that do not move keep what they rely on.
LEMMA ApoiadaFica ==
  ASSUME Tipada, Tipada', Cresce, NEW e \in Execucoes, NEW x \in Execucao, Apoiada(x), exec'[e] = x
  PROVE  Apoiada(exec[e])'
<1>1. /\ x.foto \in Fotos /\ x.topo \in Nat /\ x.alvo \in Nat /\ x.prox \in Nat
  BY DEF Execucao, Nsus
<1>2. publicados \in Nat /\ publicados' \in Nat /\ publicados <= publicados'
  BY DEF Tipada, Cresce, Nsus
<1>3. FotoOK(exec[e].foto)'
  BY <1>1, FotoFica DEF Apoiada, FotoOK, Cobertos, MarcaOK, Revisto
<1>4. x.topo <= publicados' /\ x.alvo <= publicados' /\ x.prox <= publicados' + 1
  BY <1>1, <1>2 DEF Apoiada
<1>5. x.pc # "avancar" => x.prox <= publicados'
  BY <1>1, <1>2 DEF Apoiada
<1>6. x.pc = "persistir" => x.prox \in 1..x.alvo
                            /\ \A n \in base' + 1..x.prox - 1 : n \in salvos' \/ n <= antigos'
  <2> SUFFICES ASSUME x.pc = "persistir" PROVE x.prox \in 1..x.alvo
                            /\ \A n \in base' + 1..x.prox - 1 : n \in salvos' \/ n <= antigos'
    OBVIOUS
  <2>1. x.prox \in 1..x.alvo /\ Cobertos(x.prox - 1) /\ x.prox - 1 \in Nat
    BY <1>1 DEF Apoiada
  <2>2. QED
    BY <2>1, CobertosFica
<1>7. x.pc = "avancar" => x.alvo >= 1
                          /\ \A n \in base' + 1..x.alvo : n \in salvos' \/ n <= antigos'
  BY <1>1, CobertosFica DEF Apoiada
<1>8. Revisto(x) =>
        \A n \in NoPeriodo : n > x.prox /\ n <= x.alvo => n \in salvos' \/ n <= antigos'
  BY RevistoFica
<1>8a. Revisto(x) => Revisto(exec[e])'
  BY <1>8 DEF Revisto
<1>9. x.pc \in {"pausar", "status"} =>
        /\ MarcasOK(exec[e].marcas)' /\ x.motivo \in Motivos
        /\ Len(x.marcas) = 2 => Revisto(exec[e])' /\ x.prox >= 1 /\ ~x.antiga
  <2>1. x.pc \in {"pausar", "status"} => MarcasOK(exec[e].marcas)'
    BY MarcasFicam DEF Apoiada, MarcasOK, MarcaOK, Revisto
  <2>2. QED
    BY <1>8a, <2>1 DEF Apoiada
<1>10. /\ x.pc \in {"ativar", "base"} => x.tipo = "noturna"
       /\ x.pc = "base" => x.alvo >= 1
       /\ x.pc \in {"enviada", "documento"} => x.prox >= 1
  BY DEF Apoiada
<1>11. /\ x.pc = "persistir" => x.prox \in 1..x.alvo /\ Cobertos(exec[e].prox - 1)'
       /\ x.pc = "avancar" => x.alvo >= 1 /\ Cobertos(exec[e].alvo)'
       /\ x.pc \in Recuperacao => Revisto(exec[e])'
  <2>1. x.pc \in Recuperacao => Revisto(exec[e])'
    BY <1>8a DEF Apoiada
  <2>2. QED
    BY <1>6, <1>7, <2>1 DEF Cobertos
<1>12. QED
  BY <1>3, <1>4, <1>5, <1>9, <1>10, <1>11 DEF Apoiada

LEMMA ConfiavelFica ==
  ASSUME Tipada, Tipada', Cresce, NEW e \in Execucoes, Confiavel(e), exec'[e] = exec[e]
  PROVE  Confiavel(e)'
<1>1. exec[e] \in Execucao
  BY DEF Tipada
<1>2. QED
  BY <1>1, ApoiadaFica DEF Confiavel, Cresce

\* A step of one execution, that may change everything else as well.
LEMMA PassoDeUma ==
  ASSUME IInv, Tipada', LinhaOK', Cresce, NEW e \in Execucoes, Confiavel(e)',
         \A o \in Execucoes \ {e} : exec'[o] = exec[o],
         exec'[e].tipo = "noturna" => \/ exec[e].tipo = "noturna"
                                      \/ \A o \in Execucoes : exec[o].tipo # "noturna",
         exec'[e].pc = "base" => base' = 0,
         base' = base \/ exec[e].pc = "base"
  PROVE  IInv'
<1>1. \A o \in Execucoes : Confiavel(o)'
  BY ConfiavelFica DEF IInv
<1>2. \A o \in Execucoes : exec[o].pc = "base" => exec[o].tipo = "noturna"
  BY DEF IInv, Confiavel, Apoiada
<1>3. UmaNoturna'
  BY <1>2 DEF IInv, UmaNoturna
<1>4. QED
  BY <1>1, <1>3 DEF IInv

\* Nobody else is the nightly sweep of the execution that becomes x.
UnicaNoturna(e, x) ==
  x.tipo = "noturna" => \/ exec[e].tipo = "noturna"
                        \/ \A o \in Execucoes : exec[o].tipo # "noturna"

\* It leaves the row, the documents and SEFAZ alone.
LEMMA PassoSemLinha ==
  ASSUME IInv, NEW e \in Execucoes, NEW x \in Execucao, exec' = [exec EXCEPT ![e] = x],
         UNCHANGED <<linha, base, salvos, publicados, antigos>>,
         bloqueado' \in BOOLEAN, desfeita' \in BOOLEAN, hora' \in {"livre", "137", "656"},
         x.tipo \in TiposDe[e] \union {"nenhum"}, UnicaNoturna(e, x),
         Apoiada(x), x.pc \notin SemLinha => linha # Nenhum, x.pc = "base" => base = 0
  PROVE  IInv'
<1>1. exec' \in [Execucoes -> Execucao] /\ exec'[e] = x /\ \A o \in Execucoes \ {e} : exec'[o] = exec[o]
  BY DEF IInv, Tipada
<1>2. Tipada'
  BY <1>1 DEF IInv, Tipada
<1>3. LinhaOK'
  BY DEF IInv, LinhaOK, FotoOK, Cobertos, MarcaOK, Revisto
<1>4. Cresce
  BY ConstantesValidas DEF IInv, Tipada, Cresce, Nsus
<1>5. Confiavel(e)'
  <2>1. Apoiada(exec[e])'
    BY <1>1, <1>2, <1>4, ApoiadaFica DEF IInv
  <2>2. QED
    BY <1>1, <2>1 DEF Confiavel
<1>6. QED
  BY <1>1, <1>2, <1>3, <1>4, <1>5, PassoDeUma DEF UnicaNoturna

\* It rewrites the row, and moves neither the cursor nor the highest NSU known.
LEMMA PassoNaLinha ==
  ASSUME IInv, NEW e \in Execucoes, NEW x \in Execucao, exec' = [exec EXCEPT ![e] = x],
         linha # Nenhum, linha' \in Linhas,
         linha'.foto.consultado = linha.foto.consultado, linha'.foto.maximo = linha.foto.maximo,
         linha'.foto.marca # Nenhum => MarcaOK(linha'.foto.marca),
         UNCHANGED <<base, salvos, publicados, antigos>>,
         bloqueado' \in BOOLEAN, desfeita' \in BOOLEAN, hora' \in {"livre", "137", "656"},
         x.tipo \in {exec[e].tipo, "nenhum"}, Apoiada(x), x.pc # "base"
  PROVE  IInv'
<1>1. exec' \in [Execucoes -> Execucao] /\ exec'[e] = x /\ \A o \in Execucoes \ {e} : exec'[o] = exec[o]
  BY DEF IInv, Tipada
<1>2. Tipada'
  BY <1>1 DEF IInv, Tipada
<1>3. LinhaOK'
  <2>1. FotoOK(linha.foto) /\ (base # 0 => linha.foto.consultado >= 1)
    BY DEF IInv, LinhaOK
  <2>2. FotoOK(linha.foto)'
    BY <2>1 DEF FotoOK, Cobertos, MarcaOK, Revisto
  <2>3. QED
    BY <2>1, <2>2, NenhumNaoELinha DEF LinhaOK
<1>4. Cresce
  BY NenhumNaoELinha, Numeros DEF IInv, Cresce
<1>5. Apoiada(exec[e])'
  BY <1>1, <1>2, <1>4, ApoiadaFica DEF IInv
<1>6. Confiavel(e)'
  BY <1>1, <1>5, NenhumNaoELinha DEF IInv, Confiavel
<1>7. QED
  BY <1>1, <1>2, <1>3, <1>4, <1>6, PassoDeUma

\* It stops, or goes on to what asks nothing of the row.
Vazia(x) ==
  /\ x \in Execucao /\ x.foto = SemFoto /\ x.prox = 0 /\ x.alvo = 0 /\ x.topo = 0
  /\ x.pc \in {"livre", "controles", "ativar"} /\ (x.pc = "ativar" => x.tipo = "noturna")

LEMMA SemFotoTipo == SemFoto \in Fotos /\ (Tipada => FotoOK(SemFoto))
<1>1. SemFoto \in Fotos
  BY ConstantesValidas DEF SemFoto, Fotos, Nsus, Motivos, Marcas
<1>2. Tipada => FotoOK(SemFoto)
  BY Numeros DEF SemFoto, FotoOK, Cobertos
<1>3. QED
  BY <1>1, <1>2

LEMMA LivreVazia == Vazia(Livre) /\ Livre.tipo = "nenhum"
<1>1. /\ "livre" \in Passos /\ "nenhum" \in Tipos /\ 0 \in Nsus /\ 0 \in 0..NsusPorVez
      /\ << >> \in Seq(Marcas) /\ "neutra" \in Motivos
  BY ConstantesValidas DEF Passos, Tipos, Nsus, Motivos
<1>2. QED
  BY <1>1, SemFotoTipo DEF Livre, Vazia, Execucao

LEMMA SegueVazia ==
  ASSUME NEW x \in Execucao
  PROVE  Vazia(Segue(x)) /\ Segue(x).tipo \in {x.tipo, "nenhum"}
<1>1. Livre \in Execucao /\ x.tipo \in Tipos
  BY LivreVazia DEF Vazia, Execucao
<1>2. "controles" \in Passos /\ "ativar" \in Passos
  BY DEF Passos
<1>3. /\ [Livre EXCEPT !.tipo = x.tipo, !.pc = "controles"] \in Execucao
      /\ [Livre EXCEPT !.tipo = x.tipo, !.pc = "ativar"] \in Execucao
  BY <1>1, <1>2 DEF Execucao
<1>4. QED
  BY <1>1, <1>3, LivreVazia DEF Segue, Vazia, Livre

LEMMA VaziaOK ==
  ASSUME Tipada, NEW x, Vazia(x)
  PROVE  Apoiada(x)
<1>1. publicados \in Nat /\ FotoOK(x.foto)
  BY Numeros, SemFotoTipo DEF Vazia
<1>2. QED
  BY <1>1 DEF Vazia, Apoiada, Recuperacao

LEMMA PassoVazio ==
  ASSUME IInv, NEW e \in Execucoes, NEW x, Vazia(x), x.tipo \in {exec[e].tipo, "nenhum"},
         exec' = [exec EXCEPT ![e] = x],
         UNCHANGED <<linha, base, salvos, publicados, antigos>>,
         bloqueado' \in BOOLEAN, desfeita' \in BOOLEAN, hora' \in {"livre", "137", "656"}
  PROVE  IInv'
<1>1. x.tipo \in TiposDe[e] \union {"nenhum"} /\ UnicaNoturna(e, x)
  BY DEF IInv, Confiavel, UnicaNoturna
<1>2. Apoiada(x)
  BY VaziaOK DEF IInv
<1>3. QED
  BY <1>1, <1>2, PassoSemLinha DEF Vazia, SemLinha

LEMMA EscritaVazia ==
  ASSUME IInv, NEW e \in Execucoes, NEW x, Vazia(x), x.tipo \in {exec[e].tipo, "nenhum"},
         exec' = [exec EXCEPT ![e] = x],
         linha # Nenhum, linha' \in Linhas,
         linha'.foto.consultado = linha.foto.consultado, linha'.foto.maximo = linha.foto.maximo,
         linha'.foto.marca # Nenhum => MarcaOK(linha'.foto.marca),
         UNCHANGED <<base, salvos, publicados, antigos>>,
         bloqueado' \in BOOLEAN, desfeita' \in BOOLEAN, hora' \in {"livre", "137", "656"}
  PROVE  IInv'
BY VaziaOK, PassoNaLinha DEF Vazia, IInv

\* No execution moves.
LEMMA PassoDeFora ==
  ASSUME IInv, Tipada', LinhaOK', Cresce, UNCHANGED <<exec, base>>
  PROVE  IInv'
<1>1. \A o \in Execucoes : Confiavel(o)'
  BY ConfiavelFica DEF IInv
<1>2. QED
  BY <1>1 DEF IInv, UmaNoturna

-----------------------------------------------------------------------------
(* The writes of the row                                                   *)

LEMMA TextoLema ==
  ASSUME NEW l \in Linhas, NEW m \in Motivos, NEW k \in Marcas
  PROVE  /\ Texto(l, m, k) \in Linhas /\ Texto(l, m, k).status = l.status
         /\ Texto(l, m, k).foto.consultado = l.foto.consultado
         /\ Texto(l, m, k).foto.maximo = l.foto.maximo
         /\ Texto(l, m, k).foto.recente = l.foto.recente
         /\ Texto(l, m, k).foto.motivo = m /\ Texto(l, m, k).foto.marca = k
<1>1. l.foto \in Fotos
  BY DEF Linhas
<1>2. [l.foto EXCEPT !.motivo = m, !.marca = k] \in Fotos
  BY <1>1 DEF Fotos
<1> DEFINE f == [l.foto EXCEPT !.motivo = m, !.marca = k]
<1>3. Texto(l, m, k) = [l EXCEPT !.foto = f]
  BY DEF Texto, Linhas
<1>4. /\ f.consultado = l.foto.consultado /\ f.maximo = l.foto.maximo /\ f.recente = l.foto.recente
      /\ f.motivo = m /\ f.marca = k
  BY <1>1 DEF Fotos
<1>5. Texto(l, m, k).foto = f
  BY <1>3 DEF Linhas
<1> HIDE DEF f
<1>6. Texto(l, m, k) \in Linhas /\ Texto(l, m, k).status = l.status
  BY <1>2, <1>3 DEF Linhas, f
<1>7. QED
  BY <1>4, <1>5, <1>6 DEF f

LEMMA AgoraLema ==
  ASSUME NEW l \in Linhas
  PROVE  /\ Agora(l) \in Linhas /\ Agora(l).status = l.status
         /\ Agora(l).foto.consultado = l.foto.consultado
         /\ Agora(l).foto.maximo = l.foto.maximo
         /\ Agora(l).foto.recente = TRUE
         /\ Agora(l).foto.motivo = l.foto.motivo /\ Agora(l).foto.marca = l.foto.marca
<1>1. l.foto \in Fotos
  BY DEF Linhas
<1>2. [l.foto EXCEPT !.recente = TRUE] \in Fotos
  BY <1>1 DEF Fotos
<1>3. Agora(l) = [l EXCEPT !.foto = [l.foto EXCEPT !.recente = TRUE]]
  BY DEF Agora, Linhas
<1>4. QED
  BY <1>1, <1>2, <1>3 DEF Linhas, Fotos

LEMMA StatusLema ==
  ASSUME NEW l \in Linhas, NEW s \in {"ativo", "pausado"}
  PROVE  /\ [l EXCEPT !.status = s] \in Linhas /\ [l EXCEPT !.status = s].foto = l.foto
         /\ [l EXCEPT !.status = s].status = s
BY DEF Linhas

LEMMA NeutraTipo == "neutra" \in Motivos /\ Nenhum \in Marcas
BY DEF Motivos, Marcas

LEMMA GravaTipo ==
  ASSUME Tipada, NEW l, NEW a \in BOOLEAN, Grava(l, a)
  PROVE  linha' = l /\ desfeita' \in BOOLEAN /\ hora' = hora /\ hora' \in {"livre", "137", "656"}
BY DEF Tipada, Grava

-----------------------------------------------------------------------------
(* The operator                                                            *)

LEMMA TextoDoOperador ==
  ASSUME IInv, linha # Nenhum, NEW s \in {"ativo", "pausado"},
         Grava([Texto(linha, "neutra", Nenhum) EXCEPT !.status = s], TRUE),
         UNCHANGED <<base, salvos, sefaz, bloqueado, exec>>
  PROVE  IInv'
<1>1. linha \in Linhas
  BY DEF IInv, Tipada
<1>2. /\ linha' = [Texto(linha, "neutra", Nenhum) EXCEPT !.status = s]
      /\ desfeita' \in BOOLEAN /\ hora' \in {"livre", "137", "656"}
  BY GravaTipo DEF IInv
<1> DEFINE t == Texto(linha, "neutra", Nenhum)
<1>a. /\ t \in Linhas /\ t.foto.consultado = linha.foto.consultado
      /\ t.foto.maximo = linha.foto.maximo /\ t.foto.marca = Nenhum
  BY <1>1, TextoLema, NeutraTipo
<1>b. linha' = [t EXCEPT !.status = s]
  BY <1>2
<1> HIDE DEF t
<1>c. linha' \in Linhas /\ linha'.foto = t.foto
  BY <1>a, <1>b DEF Linhas
<1>3. /\ linha' \in Linhas /\ linha'.foto.consultado = linha.foto.consultado
      /\ linha'.foto.maximo = linha.foto.maximo /\ linha'.foto.marca = Nenhum
  BY <1>a, <1>c
<1>4. Tipada'
  BY <1>2, <1>3 DEF IInv, Tipada, sefaz
<1>5. LinhaOK'
  <2>1. FotoOK(linha.foto) /\ (base # 0 => linha.foto.consultado >= 1)
    BY DEF IInv, LinhaOK
  <2>2. FotoOK(linha.foto)'
    BY <1>3, <2>1 DEF FotoOK, Cobertos, sefaz
  <2>3. QED
    BY <1>3, <2>1, <2>2, NenhumNaoELinha DEF LinhaOK
<1>6. Cresce
  BY <1>3, NenhumNaoELinha, Numeros DEF IInv, Cresce, sefaz
<1>7. QED
  BY <1>4, <1>5, <1>6, PassoDeFora

LEMMA IniciarSyncIInv == ASSUME IInv, IniciarSync PROVE IInv'
<1>1. CASE linha = Nenhum
  <2>1. Grava([status |-> "ativo", foto |-> SemFoto], FALSE)
    BY <1>1 DEF IniciarSync
  <2>2. /\ linha' = [status |-> "ativo", foto |-> SemFoto]
        /\ desfeita' \in BOOLEAN /\ hora' \in {"livre", "137", "656"}
    BY <2>1, GravaTipo DEF IInv
  <2>3. linha' \in Linhas /\ linha'.foto = SemFoto
    BY <2>2, SemFotoTipo DEF Linhas
  <2>4. Tipada'
    BY <2>2, <2>3 DEF IInv, Tipada, IniciarSync, sefaz
  <2>5. base = 0
    BY <1>1 DEF IInv, LinhaOK
  <2>6. FotoOK(linha.foto)'
    <3>1. FotoOK(SemFoto)
      BY SemFotoTipo DEF IInv
    <3>2. QED
      BY <2>3, <3>1 DEF FotoOK, Cobertos, MarcaOK, Revisto, IniciarSync, sefaz
  <2>7. LinhaOK' /\ Cresce
    BY <1>1, <2>3, <2>5, <2>6, Numeros, NenhumNaoELinha DEF IInv, LinhaOK, Cresce, IniciarSync, sefaz
  <2>8. QED
    BY <2>4, <2>7, PassoDeFora DEF IniciarSync
<1>2. CASE linha # Nenhum
  BY <1>2, TextoDoOperador DEF IniciarSync
<1>3. QED
  BY <1>1, <1>2

LEMMA PausarSyncIInv == ASSUME IInv, PausarSync PROVE IInv'
BY TextoDoOperador DEF PausarSync

-----------------------------------------------------------------------------
(* Timers and requests                                                     *)

LEMMA Parados == ASSUME Tipada PROVE bloqueado \in BOOLEAN /\ desfeita \in BOOLEAN /\ hora \in {"livre", "137", "656"}
BY DEF Tipada

LEMMA CopiaOK ==
  ASSUME IInv, linha # Nenhum
  PROVE  linha \in Linhas /\ linha.foto \in Fotos /\ FotoOK(linha.foto)
BY DEF IInv, Tipada, LinhaOK, Linhas

LEMMA FilaFora ==
  /\ "retomar" \notin SemLinha /\ "fila" \notin SemLinha /\ "retomar" # "base" /\ "fila" # "base"
  /\ "periodo" # "noturna"
BY DEF SemLinha

\* An execution that holds a copy of the row and nothing else.
LEMMA ComCopia ==
  ASSUME IInv, linha # Nenhum, NEW x \in Execucao, x.pc \in {"retomar", "fila"},
         x.foto = linha.foto, x.prox = 0, x.alvo = 0, x.topo = 0
  PROVE  Apoiada(x)
BY CopiaOK, Numeros DEF IInv, Apoiada, Recuperacao

Retoma(t, f) == [Livre EXCEPT !.tipo = t, !.pc = "retomar", !.foto = f]

LEMMA RetomaTipo ==
  ASSUME NEW f \in Fotos, NEW t \in Tipos, NEW x, x = Retoma(t, f)
  PROVE  /\ x \in Execucao /\ x.pc = "retomar" /\ x.tipo = t /\ x.foto = f
         /\ x.prox = 0 /\ x.alvo = 0 /\ x.topo = 0
<1>1. "retomar" \in Passos /\ Livre \in Execucao
  BY LivreVazia DEF Vazia, Passos
<1>2. /\ x \in Execucao /\ x.tipo = t /\ x.pc = "retomar" /\ x.foto = f
      /\ x.prox = Livre.prox /\ x.alvo = Livre.alvo /\ x.topo = Livre.topo
  BY <1>1 DEF Execucao, Retoma
<1>3. QED
  BY <1>2 DEF Livre

LEMMA ComecarCicloIInv ==
  ASSUME IInv, NEW e \in Execucoes, NEW tipo, ComecarCiclo(e, tipo)
  PROVE  IInv'
<1>1. /\ tipo \in TiposDe[e] /\ tipo \in {"ciclo", "noturna"} /\ tipo \in Tipos
      /\ \A o \in Execucoes : exec[o].tipo # tipo
      /\ UNCHANGED <<linha, base, salvos, publicados, antigos, bloqueado, desfeita, hora>>
  BY DEF ComecarCiclo, Tipos, sefaz, ghosts
<1>2. bloqueado' \in BOOLEAN /\ desfeita' \in BOOLEAN /\ hora' \in {"livre", "137", "656"}
  BY <1>1, Parados DEF IInv
<1>3. CASE Lida /\ linha.foto.marca # Nenhum
  <2>0. PICK f \in Fotos : f = linha.foto
    BY <1>3, CopiaOK DEF Lida
  <2>1. PICK x : x = Retoma(tipo, f)
    OBVIOUS
  <2>2. exec' = [exec EXCEPT ![e] = x]
    BY <1>3, <2>0, <2>1 DEF ComecarCiclo, Retoma
  <2>3. x \in Execucao /\ x.tipo = tipo /\ x.pc = "retomar" /\ Apoiada(x)
    <3>1. /\ x \in Execucao /\ x.pc = "retomar" /\ x.tipo = tipo /\ x.foto = f
          /\ x.prox = 0 /\ x.alvo = 0 /\ x.topo = 0
      BY <1>1, <2>1, RetomaTipo
    <3>2. QED
      BY <1>3, <2>0, <3>1, ComCopia DEF Lida
  <2>4. UnicaNoturna(e, x)
    BY <1>1, <2>3 DEF UnicaNoturna
  <2>5. QED
    BY <1>1, <1>2, <1>3, <2>2, <2>3, <2>4, PassoSemLinha, FilaFora DEF Lida
<1>4. CASE ~(Lida /\ linha.foto.marca # Nenhum)
  <2> DEFINE y == [Livre EXCEPT !.tipo = tipo]
  <2>1. PICK x : x = Segue(y)
    OBVIOUS
  <2>2. exec' = [exec EXCEPT ![e] = x]
    BY <1>4, <2>1 DEF ComecarCiclo
  <2>3. y \in Execucao /\ y.tipo = tipo
    BY <1>1, LivreVazia DEF Vazia, Execucao
  <2> HIDE DEF y
  <2>4. Vazia(x) /\ x.tipo \in {tipo, "nenhum"}
    BY <2>1, <2>3, SegueVazia
  <2>5. x \in Execucao /\ Apoiada(x) /\ x.pc \in SemLinha /\ x.pc # "base"
    BY <2>4, VaziaOK DEF IInv, Vazia, SemLinha
  <2>6. UnicaNoturna(e, x) /\ x.tipo \in TiposDe[e] \union {"nenhum"}
    BY <1>1, <2>4 DEF UnicaNoturna
  <2>7. QED
    BY <1>1, <1>2, <2>2, <2>5, <2>6, PassoSemLinha
<1>5. QED
  BY <1>3, <1>4

LEMMA TerminaIInv ==
  ASSUME IInv, NEW e \in Execucoes, Termina(e), UNCHANGED <<linha, base, salvos, sefaz, hora>>,
         bloqueado' \in BOOLEAN, desfeita' \in BOOLEAN
  PROVE  IInv'
<1>1. UNCHANGED <<linha, base, salvos, publicados, antigos>>
  BY DEF sefaz
<1>2. hora' \in {"livre", "137", "656"}
  BY Parados DEF IInv
<1>3. exec' = [exec EXCEPT ![e] = Livre]
  BY DEF Termina
<1>4. QED
  BY <1>1, <1>2, <1>3, PassoVazio, LivreVazia

LEMMA PassaIInv ==
  ASSUME IInv, NEW e \in Execucoes, Passa(e), UNCHANGED <<linha, base, salvos, sefaz, bloqueado, ghosts>>
  PROVE  IInv'
<1>1. UNCHANGED <<linha, base, salvos, publicados, antigos>>
  BY DEF sefaz
<1>2. bloqueado' \in BOOLEAN /\ desfeita' \in BOOLEAN /\ hora' \in {"livre", "137", "656"}
  BY Parados DEF IInv, ghosts
<1>3. PICK x : x = Segue(exec[e])
  OBVIOUS
<1>4. exec' = [exec EXCEPT ![e] = x] /\ exec[e] \in Execucao
  BY <1>3 DEF Passa, IInv, Tipada
<1>5. Vazia(x) /\ x.tipo \in {exec[e].tipo, "nenhum"}
  BY <1>3, <1>4, SegueVazia
<1>6. QED
  BY <1>1, <1>2, <1>4, <1>5, PassoVazio

LEMMA PedirPeriodoIInv ==
  ASSUME IInv, NEW e \in Execucoes, PedirPeriodo(e)
  PROVE  IInv'
<1>1. /\ linha # Nenhum /\ "periodo" \in TiposDe[e] /\ "periodo" \in Tipos
      /\ UNCHANGED <<linha, base, salvos, publicados, antigos, bloqueado, desfeita, hora>>
  BY DEF PedirPeriodo, Lida, Tipos, sefaz, ghosts
<1>2. bloqueado' \in BOOLEAN /\ desfeita' \in BOOLEAN /\ hora' \in {"livre", "137", "656"}
  BY <1>1, Parados DEF IInv
<1>0. PICK f \in Fotos : f = linha.foto
  BY <1>1, CopiaOK
<1>3. PICK x : x = Retoma("periodo", f)
  OBVIOUS
<1>4. exec' = [exec EXCEPT ![e] = x]
  BY <1>0, <1>3 DEF PedirPeriodo, Retoma
<1>5. x \in Execucao /\ x.tipo = "periodo" /\ x.pc = "retomar" /\ Apoiada(x)
  <2>1. /\ x \in Execucao /\ x.pc = "retomar" /\ x.tipo = "periodo" /\ x.foto = f
        /\ x.prox = 0 /\ x.alvo = 0 /\ x.topo = 0
    BY <1>1, <1>3, RetomaTipo
  <2>2. QED
    BY <1>0, <1>1, <2>1, ComCopia
<1>6. UnicaNoturna(e, x)
  BY <1>5 DEF UnicaNoturna
<1>7. QED
  BY <1>1, <1>2, <1>4, <1>5, <1>6, PassoSemLinha, FilaFora

\* A step of an execution written with EXCEPT.
LEMMA DeUma ==
  ASSUME IInv, NEW e \in Execucoes
  PROVE  exec[e] \in Execucao /\ Apoiada(exec[e]) /\ exec[e].tipo \in TiposDe[e] \union {"nenhum"}
BY DEF IInv, Tipada, Confiavel

\* The kind of an execution does not change on its way.
LEMMA MesmoTipo ==
  ASSUME IInv, NEW e \in Execucoes, NEW x, x.tipo = exec[e].tipo
  PROVE  x.tipo \in TiposDe[e] \union {"nenhum"} /\ UnicaNoturna(e, x)
BY DeUma DEF UnicaNoturna

LEMMA LerControlesIInv ==
  ASSUME IInv, NEW e \in Execucoes, LerControles(e)
  PROVE  IInv'
<1>1. /\ UNCHANGED <<linha, base, salvos, publicados, antigos>> /\ desfeita' \in BOOLEAN
      /\ bloqueado' \in BOOLEAN /\ hora' \in {"livre", "137", "656"}
  BY Parados DEF IInv, LerControles, sefaz, ghosts
<1>2. CASE Lida
  <2>1. PICK f \in Fotos : f = linha.foto
    BY <1>2, CopiaOK DEF Lida
  <2>2. PICK x : x = [exec[e] EXCEPT !.pc = "fila", !.foto = f]
    OBVIOUS
  <2>3. exec' = [exec EXCEPT ![e] = x]
    BY <1>2, <2>1, <2>2 DEF LerControles, IInv, Tipada
  <2>4. exec[e] \in Execucao /\ "fila" \in Passos
    BY DeUma DEF Passos
  <2>5. /\ x \in Execucao /\ x.pc = "fila" /\ x.tipo = exec[e].tipo /\ x.foto = f
        /\ x.prox = exec[e].prox /\ x.alvo = exec[e].alvo /\ x.topo = exec[e].topo
    BY <2>2, <2>4 DEF Execucao
  <2>6. Apoiada(x)
    <3>1. exec[e].pc = "controles" /\ Apoiada(exec[e]) /\ FotoOK(f)
      BY <1>2, <2>1, DeUma, CopiaOK DEF LerControles, Lida
    <3>2. QED
      BY <2>5, <3>1 DEF Apoiada, Recuperacao
  <2>7. x.tipo \in TiposDe[e] \union {"nenhum"} /\ UnicaNoturna(e, x)
    BY <2>5, MesmoTipo
  <2>8. QED
    BY <1>1, <1>2, <2>3, <2>5, <2>6, <2>7, PassoSemLinha, FilaFora DEF Lida
<1>3. CASE ~Lida
  BY <1>1, <1>3, TerminaIInv DEF LerControles, ghosts
<1>4. QED
  BY <1>2, <1>3

LEMMA ReativarIInv ==
  ASSUME IInv, NEW e \in Execucoes, Reativar(e)
  PROVE  IInv'
<1>1. linha # Nenhum /\ linha \in Linhas
  BY CopiaOK DEF Reativar, SemBase
<1>2. PICK t : t = Texto(linha, "neutra", Nenhum)
  OBVIOUS
<1>3. /\ t \in Linhas /\ t.foto.consultado = linha.foto.consultado
      /\ t.foto.maximo = linha.foto.maximo /\ t.foto.marca = Nenhum
  BY <1>1, <1>2, TextoLema, NeutraTipo
<1>4. linha' = [t EXCEPT !.status = "ativo"] /\ desfeita' \in BOOLEAN /\ hora' \in {"livre", "137", "656"}
  BY <1>2, GravaTipo DEF IInv, Reativar
<1>5. linha' \in Linhas /\ linha'.foto = t.foto
  BY <1>3, <1>4 DEF Linhas
<1>6. PICK x : x = Segue(exec[e])
  OBVIOUS
<1>7. exec' = [exec EXCEPT ![e] = x] /\ exec[e] \in Execucao
  BY <1>6, DeUma DEF Passa, Reativar
<1>8. Vazia(x) /\ x.tipo \in {exec[e].tipo, "nenhum"}
  BY <1>6, <1>7, SegueVazia
<1>9. UNCHANGED <<base, salvos, publicados, antigos>> /\ bloqueado' \in BOOLEAN
  BY Parados DEF IInv, Reativar, sefaz
<1>10. QED
  BY <1>1, <1>3, <1>4, <1>5, <1>7, <1>8, <1>9, EscritaVazia

LEMMA CapturarBaseIInv ==
  ASSUME IInv, NEW e \in Execucoes, CapturarBase(e)
  PROVE  IInv'
<1>1. /\ UNCHANGED <<linha, base, salvos, publicados, antigos>> /\ desfeita' \in BOOLEAN
      /\ bloqueado' \in BOOLEAN /\ hora' \in {"livre", "137", "656"}
  BY Parados DEF IInv, CapturarBase, sefaz, ghosts
<1>2. CASE publicados > 0
  <2>1. PICK x, n : /\ n = IF linha = Nenhum THEN 0 ELSE 1
                    /\ x = [exec[e] EXCEPT !.pc = "base", !.alvo = publicados, !.topo = n]
    OBVIOUS
  <2>2. exec' = [exec EXCEPT ![e] = x]
    BY <1>2, <2>1 DEF CapturarBase, IInv, Tipada
  <2>3. exec[e] \in Execucao /\ "base" \in Passos /\ n \in Nsus /\ n <= publicados /\ publicados \in Nsus
    BY <1>2, <2>1, DeUma, ConstantesValidas DEF Passos, Nsus, IInv, Tipada
  <2>4. /\ x \in Execucao /\ x.pc = "base" /\ x.tipo = exec[e].tipo /\ x.foto = exec[e].foto
        /\ x.prox = exec[e].prox /\ x.alvo = publicados /\ x.topo = n
    BY <2>1, <2>3 DEF Execucao
  <2>5. Apoiada(x)
    <3>1. exec[e].pc = "ativar" /\ Apoiada(exec[e]) /\ publicados >= 1 /\ publicados <= publicados
      BY <1>2, DeUma, Numeros DEF CapturarBase, IInv
    <3>2. QED
      BY <2>3, <2>4, <3>1 DEF Apoiada, Recuperacao
  <2>6. base = 0
    <3>1. linha = Nenhum \/ linha.foto.consultado = 0
      BY DEF CapturarBase, SemBase
    <3>2. QED
      BY <3>1 DEF IInv, LinhaOK
  <2>7. x.tipo \in TiposDe[e] \union {"nenhum"} /\ UnicaNoturna(e, x)
    BY <2>4, MesmoTipo
  <2>8. QED
    BY <1>1, <2>2, <2>4, <2>5, <2>6, <2>7, PassoSemLinha DEF SemLinha
<1>3. CASE ~(publicados > 0)
  BY <1>3, PassaIInv DEF CapturarBase
<1>4. QED
  BY <1>2, <1>3

LEMMA GravarBaseIInv ==
  ASSUME IInv, NEW e \in Execucoes, GravarBase(e)
  PROVE  IInv'
<1>1. CASE exec[e].topo = 0 /\ linha # Nenhum
  BY <1>1, PassaIInv DEF GravarBase
<1>2. CASE ~(exec[e].topo = 0 /\ linha # Nenhum)
  <2>1. PICK n : n = exec[e].alvo
    OBVIOUS
  <2>2. PICK f : f = [SemFoto EXCEPT !.consultado = n, !.maximo = n, !.recente = TRUE]
    OBVIOUS
  <2>3. /\ linha' = [status |-> "ativo", foto |-> f] /\ desfeita' \in BOOLEAN
        /\ hora' \in {"livre", "137", "656"} /\ base' = n
    BY <1>2, <2>1, <2>2, GravaTipo DEF GravarBase, IInv
  <2>4. n \in Nsus /\ n \in Nat /\ n >= 1 /\ n <= publicados /\ base = 0 /\ exec[e].tipo = "noturna"
    BY <2>1, DeUma DEF GravarBase, Apoiada, Execucao, Nsus, IInv, UmaNoturna
  <2>5. f \in Fotos /\ f.consultado = n /\ f.maximo = n /\ f.marca = Nenhum
    <3>1. f \in Fotos /\ f.consultado = n /\ f.maximo = n /\ f.marca = SemFoto.marca
      BY <2>2, <2>4, SemFotoTipo DEF Fotos
    <3>2. QED
      BY <3>1 DEF SemFoto
  <2>6. linha' \in Linhas /\ linha'.foto = f
    BY <2>3, <2>5 DEF Linhas
  <2>7. PICK x : x = Segue(exec[e])
    OBVIOUS
  <2>8. exec' = [exec EXCEPT ![e] = x] /\ exec[e] \in Execucao
    BY <2>7, DeUma DEF Passa, GravarBase
  <2>9. Vazia(x) /\ x.tipo \in {exec[e].tipo, "nenhum"}
    BY <2>7, <2>8, SegueVazia
  <2>10. /\ exec' \in [Execucoes -> Execucao] /\ exec'[e] = x
         /\ \A o \in Execucoes \ {e} : exec'[o] = exec[o]
    BY <2>8, <2>9 DEF IInv, Tipada, Vazia
  <2>11. UNCHANGED <<salvos, publicados, antigos>> /\ bloqueado' \in BOOLEAN
    BY Parados DEF IInv, GravarBase, sefaz
  <2>12. Tipada'
    BY <2>3, <2>4, <2>6, <2>10, <2>11 DEF IInv, Tipada
  <2>13. FotoOK(linha.foto)'
    <3>1. \A k \in n + 1..n : FALSE
      BY <2>4
    <3>2. Cobertos(linha.foto.consultado)'
      BY <2>3, <2>5, <2>6, <3>1 DEF Cobertos
    <3>3. QED
      BY <2>4, <2>5, <2>6, <2>11, <3>2 DEF FotoOK
  <2>14. LinhaOK'
    BY <2>4, <2>5, <2>6, <2>13, NenhumNaoELinha DEF LinhaOK
  <2>15. Cresce
    BY <2>3, <2>4, <2>6, <2>11, Numeros, NenhumNaoELinha DEF IInv, Cresce
  <2>16. Confiavel(e)'
    <3>1. Apoiada(exec[e])'
      BY <2>9, <2>10, <2>12, <2>15, VaziaOK, ApoiadaFica DEF IInv, Vazia
    <3>2. exec'[e].tipo \in TiposDe[e] \union {"nenhum"}
      BY <2>9, <2>10, DeUma
    <3>3. QED
      BY <2>9, <2>10, <3>1, <3>2 DEF Confiavel, Vazia, SemLinha
  <2>17. exec[e].pc = "base" /\ exec'[e].pc # "base"
    BY <2>9, <2>10 DEF GravarBase, Vazia
  <2>18. QED
    BY <2>4, <2>10, <2>12, <2>14, <2>15, <2>16, <2>17, PassoDeUma
<1>3. QED
  BY <1>1, <1>2

LEMMA CicloIInv ==
  ASSUME IInv, NEW e \in Execucoes, OutraRetomada(e) \/ FalharBase(e)
  PROVE  IInv'
<1>1. CASE OutraRetomada(e)
  BY <1>1, TerminaIInv, Parados DEF OutraRetomada, ghosts, IInv
<1>2. CASE FalharBase(e)
  BY <1>2, PassaIInv DEF FalharBase
<1>3. QED
  BY <1>1, <1>2

-----------------------------------------------------------------------------
(* The incremental run                                                     *)

LEMMA TemLinha ==
  ASSUME IInv, NEW e \in Execucoes, exec[e].pc \notin SemLinha
  PROVE  linha # Nenhum /\ linha \in Linhas
BY CopiaOK DEF IInv, Confiavel

\* A step of an execution that works on the row, and writes nothing.
LEMMA PassoInterno ==
  ASSUME IInv, NEW e \in Execucoes, NEW x \in Execucao, exec' = [exec EXCEPT ![e] = x],
         exec[e].pc \notin SemLinha, x.pc # "base", x.tipo = exec[e].tipo, Apoiada(x),
         UNCHANGED <<linha, base, salvos, sefaz>>,
         bloqueado' \in BOOLEAN, desfeita' \in BOOLEAN, hora' \in {"livre", "137", "656"}
  PROVE  IInv'
<1>1. UNCHANGED <<linha, base, salvos, publicados, antigos>>
  BY DEF sefaz
<1>2. QED
  BY <1>1, TemLinha, MesmoTipo, PassoSemLinha

LEMMA AntigaTipo == ASSUME NEW e PROVE Antiga(e) \in BOOLEAN
BY DEF Antiga

LEMMA TomarIInv ==
  ASSUME IInv, NEW e \in Execucoes, Tomar(e)
  PROVE  IInv'
<1>1. /\ UNCHANGED <<linha, base, salvos, sefaz>> /\ desfeita' \in BOOLEAN
      /\ bloqueado' \in BOOLEAN /\ hora' \in {"livre", "137", "656"}
  BY Parados DEF IInv, Tomar, ghosts
<1>2. CASE Liberada(exec[e].foto) /\ ~Ocupado
  <2>0. PICK a \in BOOLEAN : a = Antiga(e)
    BY AntigaTipo
  <2>1. PICK f : f = [SemFoto EXCEPT !.consultado = exec[e].foto.consultado]
    OBVIOUS
  <2>2. PICK x : x = [exec[e] EXCEPT !.pc = "consultar", !.antiga = a, !.foto = f]
    OBVIOUS
  <2>3. exec' = [exec EXCEPT ![e] = x]
    BY <1>2, <2>0, <2>1, <2>2 DEF Tomar, IInv, Tipada
  <2>4. exec[e] \in Execucao /\ exec[e].foto \in Fotos /\ "consultar" \in Passos
    BY DeUma DEF Passos, ComPosse, Execucao
  <2>5. f \in Fotos /\ f.consultado = exec[e].foto.consultado /\ f.maximo = 0 /\ f.marca = Nenhum
    <3>1. f \in Fotos /\ f.consultado = exec[e].foto.consultado /\ f.maximo = SemFoto.maximo
          /\ f.marca = SemFoto.marca
      BY <2>1, <2>4, SemFotoTipo DEF Fotos
    <3>2. QED
      BY <3>1 DEF SemFoto
  <2>6. /\ x \in Execucao /\ x.pc = "consultar" /\ x.tipo = exec[e].tipo /\ x.foto = f
        /\ x.prox = exec[e].prox /\ x.alvo = exec[e].alvo /\ x.topo = exec[e].topo
    BY <2>2, <2>4, <2>5 DEF Execucao
  <2>7. Apoiada(x)
    <3>1. exec[e].pc = "fila" /\ Apoiada(exec[e]) /\ 0 <= publicados
      BY DeUma, Numeros DEF Tomar, IInv
    <3>2. QED
      BY <2>5, <2>6, <3>1 DEF Apoiada, FotoOK, Recuperacao
  <2>8. exec[e].pc \notin SemLinha /\ x.pc # "base"
    BY <2>6 DEF Tomar, SemLinha
  <2>9. QED
    BY <1>1, <2>3, <2>6, <2>7, <2>8, PassoInterno
<1>3. CASE ~(Liberada(exec[e].foto) /\ ~Ocupado)
  BY <1>1, <1>3, TerminaIInv DEF Tomar, ghosts
<1>4. QED
  BY <1>2, <1>3

\* A wait begins: its texts are still to be written.
Esperando(x, motivo, s, a) ==
  [x EXCEPT !.pc = "pausar", !.foto = SemFoto, !.motivo = motivo, !.marcas = s, !.antiga = a]

LEMMA EsperaRegistro ==
  ASSUME IInv, NEW e \in Execucoes, NEW motivo \in Motivos, NEW s \in Seq(Marcas), NEW a \in BOOLEAN,
         NEW x, x = Esperando(exec[e], motivo, s, a)
  PROVE  /\ x \in Execucao /\ x.pc = "pausar" /\ x.tipo = exec[e].tipo /\ x.foto = SemFoto
         /\ x.prox = exec[e].prox /\ x.alvo = exec[e].alvo /\ x.topo = exec[e].topo
         /\ x.motivo = motivo /\ x.marcas = s /\ x.antiga = a
<1>1. exec[e] \in Execucao /\ "pausar" \in Passos
  BY DeUma DEF Passos, ComPosse
<1>2. QED
  BY <1>1, SemFotoTipo DEF Esperando, Execucao

LEMMA EsperaLema ==
  ASSUME IInv, NEW e \in Execucoes, NEW motivo \in Motivos, NEW s \in Seq(Marcas), NEW a \in BOOLEAN,
         MarcasOK(s), exec[e].pc \in ComPosse, exec[e].pc # "avancar",
         Len(s) = 2 => Revisto(exec[e]) /\ exec[e].prox >= 1 /\ ~a,
         NEW x, x = Esperando(exec[e], motivo, s, a), exec' = [exec EXCEPT ![e] = x],
         UNCHANGED <<linha, base, salvos, sefaz, bloqueado>>,
         desfeita' \in BOOLEAN, hora' \in {"livre", "137", "656"}
  PROVE  IInv'
<1>1. /\ x \in Execucao /\ x.pc = "pausar" /\ x.tipo = exec[e].tipo /\ x.foto = SemFoto
      /\ x.prox = exec[e].prox /\ x.alvo = exec[e].alvo /\ x.topo = exec[e].topo
      /\ x.motivo = motivo /\ x.marcas = s /\ x.antiga = a
  BY EsperaRegistro
<1>2. Apoiada(x)
  <2>1. Apoiada(exec[e]) /\ FotoOK(SemFoto)
    BY DeUma, SemFotoTipo DEF IInv
  <2>2. Len(s) = 2 => Revisto(x) /\ x.prox >= 1 /\ ~x.antiga
    BY <1>1 DEF Revisto
  <2>3. QED
    BY <1>1, <2>1, <2>2 DEF Apoiada, Recuperacao
<1>3. exec[e].pc \notin SemLinha /\ x.pc # "base"
  BY <1>1 DEF SemLinha, ComPosse
<1>4. bloqueado' \in BOOLEAN
  BY Parados DEF IInv
<1>5. QED
  BY <1>1, <1>2, <1>3, <1>4, PassoInterno

\* What SEFAZ asks for, and what it does to an old copy.
LEMMA PedidoDeEspera ==
  ASSUME IInv, NEW e \in Execucoes, NEW m \in {"137", "656"}, NEW s, Espera(e, m, s)
  PROVE  \E a \in BOOLEAN :
           /\ exec' = [exec EXCEPT ![e] = Esperando(exec[e], m, s, a)]
           /\ a => exec[e].antiga /\ hora = "656" /\ m = "137"
           /\ hora = "656" /\ m = "137" => a = exec[e].antiga
<1>1. exec[e] \in Execucao
  BY DeUma
<1>2. PICK n \in BOOLEAN : n = (hora = "656" /\ m # "656")
  OBVIOUS
<1>3. PICK a \in BOOLEAN : a = (exec[e].antiga /\ n)
  OBVIOUS
<1>5. exec' = [exec EXCEPT ![e] = Esperando(exec[e], m, s, a)]
  <2>1. exec' = [exec EXCEPT ![e].pc = "pausar", ![e].foto = SemFoto, ![e].motivo = m,
                             ![e].marcas = s, ![e].antiga = @ /\ n]
    BY <1>2 DEF Espera
  <2>2. QED
    BY <1>1, <1>3, <2>1 DEF IInv, Tipada, Esperando
<1>6. exec[e].antiga \in BOOLEAN
  BY <1>1 DEF Execucao
<1>7. /\ a => exec[e].antiga /\ hora = "656" /\ m = "137"
      /\ hora = "656" /\ m = "137" => a = exec[e].antiga
  BY <1>2, <1>3, <1>6
<1>8. QED
  BY <1>5, <1>7

LEMMA MarcaSo ==
  /\ <<Nenhum>> \in Seq(Marcas) /\ MarcasOK(<<Nenhum>>)
  /\ \A m \in Marcas : <<Nenhum, m>> \in Seq(Marcas)
                       /\ ((m # Nenhum => MarcaOK(m)) => MarcasOK(<<Nenhum, m>>))
<1>1. Nenhum \in Marcas
  BY NeutraTipo
<1>2. <<Nenhum>> \in Seq(Marcas) /\ \A m \in Marcas : <<Nenhum, m>> \in Seq(Marcas)
  BY <1>1
<1>3. QED
  BY <1>1, <1>2 DEF MarcasOK

LEMMA ConsultaIInv ==
  ASSUME IInv, NEW e \in Execucoes, SemDocumentos(e) \/ ConsumoIndevido(e) \/ SemAvanco(e)
  PROVE  IInv'
<1>1. exec[e].pc = "consultar" /\ "consultar" \in ComPosse
  BY DEF SemDocumentos, ConsumoIndevido, SemAvanco, ComPosse
<1>2. "137" \in Motivos /\ "656" \in Motivos /\ "sem_avanco" \in Motivos
  BY DEF Motivos
<1>3. hora \in {"livre", "137", "656"}
  BY Parados DEF IInv
<1>3a. PICK s : s = <<Nenhum>>
  OBVIOUS
<1>3b. s \in Seq(Marcas) /\ MarcasOK(s) /\ Len(s) # 2
  BY <1>3a, MarcaSo
<1>4. CASE SemDocumentos(e) \/ ConsumoIndevido(e)
  <2>1. PICK m \in {"137", "656"} : Espera(e, m, s)
    BY <1>3a, <1>4 DEF SemDocumentos, ConsumoIndevido
  <2>2. hora' \in {"livre", "137", "656"} /\ desfeita' \in BOOLEAN /\ m \in Motivos
    BY <1>2, <1>3, <2>1 DEF Espera
  <2>3. PICK a \in BOOLEAN : exec' = [exec EXCEPT ![e] = Esperando(exec[e], m, s, a)]
    BY <2>1, PedidoDeEspera
  <2>4. UNCHANGED <<linha, base, salvos, sefaz, bloqueado>> /\ exec[e].pc # "avancar"
    BY <1>1, <2>1 DEF Espera
  <2>5. QED
    BY <1>1, <1>3b, <2>2, <2>3, <2>4, EsperaLema
<1>5. CASE SemAvanco(e)
  <2>1. exec[e] \in Execucao
    BY DeUma
  <2>2. PICK a \in BOOLEAN : a = exec[e].antiga
    BY <2>1 DEF Execucao
  <2>3. PICK x : x = Esperando(exec[e], "sem_avanco", s, a)
    OBVIOUS
  <2>4. x = [exec[e] EXCEPT !.pc = "pausar", !.foto = SemFoto, !.motivo = "sem_avanco", !.marcas = s]
    BY <2>1, <2>2, <2>3 DEF Execucao, Esperando
  <2>5. exec' = [exec EXCEPT ![e] = x]
    BY <1>3a, <1>5, <2>4 DEF SemAvanco, IInv, Tipada
  <2>6. /\ UNCHANGED <<linha, base, salvos, sefaz, bloqueado>> /\ exec[e].pc # "avancar"
        /\ desfeita' \in BOOLEAN /\ hora' \in {"livre", "137", "656"}
    BY <1>1, <1>3, <1>5, Parados DEF SemAvanco, ghosts, IInv
  <2>7. QED
    BY <1>1, <1>2, <1>3b, <2>3, <2>5, <2>6, EsperaLema
<1>6. QED
  BY <1>4, <1>5

LEMMA ReceberLoteIInv ==
  ASSUME IInv, NEW e \in Execucoes, ReceberLote(e)
  PROVE  IInv'
<1>1. /\ UNCHANGED <<linha, base, salvos, sefaz>> /\ desfeita' \in BOOLEAN
      /\ bloqueado' \in BOOLEAN /\ hora' \in {"livre", "137", "656"}
  BY Parados DEF IInv, ReceberLote, ghosts
<1>2. exec[e] \in Execucao /\ Apoiada(exec[e]) /\ exec[e].pc = "consultar"
  BY DeUma DEF ReceberLote
<1>3. PICK k \in Nat : k = exec[e].foto.consultado
  BY <1>2 DEF Execucao, Fotos, Nsus
<1>4. antigos \in Nat /\ publicados \in Nat /\ publicados <= MaxNsu /\ MaxNsu \in Nat
      /\ Lote \in Nat /\ Lote >= 1 /\ base \in Nat
  BY ConstantesValidas, Numeros DEF IInv, Tipada, Nsus
<1>5. PICK d \in Nat, a \in Nat : d = Maior(k, antigos) /\ a = Menor(d + Lote, publicados)
  BY <1>4 DEF Maior, Menor
<1>6. PICK x : x = [exec[e] EXCEPT !.pc = "persistir", !.prox = d + 1, !.foto = SemFoto,
                                   !.alvo = a, !.topo = publicados]
  OBVIOUS
<1>7. exec' = [exec EXCEPT ![e] = x] /\ d < publicados
  BY <1>3, <1>5, <1>6 DEF ReceberLote, IInv, Tipada
<1>8. /\ a <= publicados /\ d + 1 <= a /\ a \in Nsus /\ d + 1 \in Nat /\ publicados \in Nsus
      /\ d + 1 <= publicados /\ (d + 1) - 1 = d /\ 1 <= d + 1
  BY <1>4, <1>5, <1>7 DEF Menor, Nsus
<1>9. Cobertos(d)
  <2>1. Cobertos(k)
    BY <1>2, <1>3 DEF Apoiada, FotoOK
  <2>2. \A n \in base + 1..d : n \in base + 1..k \/ n <= antigos
    BY <1>4, <1>5 DEF Maior
  <2>3. QED
    BY <2>1, <2>2 DEF Cobertos
<1>10. /\ x \in Execucao /\ x.pc = "persistir" /\ x.tipo = exec[e].tipo /\ x.foto = SemFoto
       /\ x.prox = d + 1 /\ x.alvo = a /\ x.topo = publicados
  <2>1. "persistir" \in Passos
    BY DEF Passos, ComPosse
  <2>2. QED
    BY <1>2, <1>6, <1>8, <2>1, SemFotoTipo DEF Execucao
<1>11. Apoiada(x)
  <2>1. FotoOK(x.foto)
    BY <1>10, SemFotoTipo DEF IInv
  <2>2. x.prox \in 1..x.alvo /\ Cobertos(x.prox - 1)
    BY <1>4, <1>8, <1>9, <1>10
  <2>3. x.topo <= publicados /\ x.alvo <= publicados /\ x.prox <= publicados /\ x.prox <= publicados + 1
    BY <1>4, <1>8, <1>10
  <2>4. QED
    BY <1>10, <2>1, <2>2, <2>3 DEF Apoiada, Recuperacao
<1>12. exec[e].pc \notin SemLinha /\ x.pc # "base"
  BY <1>2, <1>10 DEF SemLinha
<1>13. QED
  BY <1>1, <1>7, <1>10, <1>11, <1>12, PassoInterno

\* The row is left alone and keeps what it says, whatever documents are stored or forgotten.
LEMMA LinhaFica ==
  ASSUME Tipada, LinhaOK, Tipada', Cresce, UNCHANGED <<linha, base>>
  PROVE  LinhaOK'
<1>1. CASE linha = Nenhum
  BY <1>1 DEF LinhaOK
<1>2. CASE linha # Nenhum
  <2>1. linha.foto \in Fotos /\ FotoOK(linha.foto)
    BY <1>2 DEF Tipada, LinhaOK, Linhas
  <2>2. PICK f \in Fotos : f = linha.foto
    BY <2>1
  <2>3. FotoOK(linha.foto)'
    BY <2>1, <2>2, FotoFica DEF FotoOK, Cobertos, MarcaOK, Revisto
  <2>4. QED
    BY <1>2, <2>3 DEF LinhaOK
<1>3. QED
  BY <1>1, <1>2

\* A step that stores documents.
LEMMA PassoGuarda ==
  ASSUME IInv, NEW e \in Execucoes, NEW x \in Execucao, exec' = [exec EXCEPT ![e] = x],
         NEW S \in SUBSET (1..publicados), salvos' = salvos \union S,
         UNCHANGED <<linha, base, sefaz, bloqueado, ghosts>>,
         exec[e].pc \notin SemLinha, x.pc # "base", x.tipo = exec[e].tipo, Apoiada(exec[e])'
  PROVE  IInv'
<1>1. exec' \in [Execucoes -> Execucao] /\ exec'[e] = x /\ \A o \in Execucoes \ {e} : exec'[o] = exec[o]
  BY DEF IInv, Tipada
<1>2. Tipada'
  BY <1>1 DEF IInv, Tipada, sefaz, ghosts
<1>3. Cresce
  BY Numeros DEF IInv, Cresce, sefaz
<1>4. LinhaOK'
  BY <1>2, <1>3, LinhaFica DEF IInv
<1>5. Confiavel(e)'
  BY <1>1, TemLinha, DeUma DEF Confiavel
<1>6. QED
  BY <1>1, <1>2, <1>3, <1>4, <1>5, PassoDeUma

LEMMA PersistirDocumentoIInv ==
  ASSUME IInv, NEW e \in Execucoes, PersistirDocumento(e)
  PROVE  IInv'
<1>1. exec[e] \in Execucao /\ Apoiada(exec[e]) /\ exec[e].pc = "persistir"
  BY DeUma DEF PersistirDocumento
<1>2. PICK n \in Nat, a \in Nat : n = exec[e].prox /\ a = exec[e].alvo
  BY <1>1 DEF Execucao, Nsus
<1>3. PICK passo : passo = IF n = a THEN "avancar" ELSE "persistir"
  OBVIOUS
<1>4. PICK x : x = [exec[e] EXCEPT !.prox = n + 1, !.pc = passo]
  OBVIOUS
<1>5. exec' = [exec EXCEPT ![e] = x]
  BY <1>2, <1>3, <1>4 DEF PersistirDocumento, AposDocumento, IInv, Tipada
<1>6. /\ n >= 1 /\ n <= a /\ a <= publicados /\ Cobertos(n - 1) /\ FotoOK(exec[e].foto)
      /\ exec[e].topo <= publicados
  BY <1>1, <1>2 DEF Apoiada
<1>7. /\ x \in Execucao /\ x.pc = passo /\ x.tipo = exec[e].tipo /\ x.foto = exec[e].foto
      /\ x.prox = n + 1 /\ x.alvo = a /\ x.topo = exec[e].topo
  <2>1. passo \in Passos /\ n + 1 \in Nat
    BY <1>3 DEF Passos, ComPosse
  <2>2. x \in Execucao
    BY <1>1, <1>4, <2>1 DEF Execucao
  <2>3. /\ x.pc = passo /\ x.tipo = exec[e].tipo /\ x.foto = exec[e].foto
        /\ x.alvo = exec[e].alvo /\ x.topo = exec[e].topo
    BY <1>1, <1>4 DEF Execucao
  <2>4. x.prox = n + 1
    BY <1>1, <1>4 DEF Execucao
  <2>5. QED
    BY <1>2, <2>2, <2>3, <2>4
<1>8. publicados \in Nat /\ base \in Nat /\ UNCHANGED <<linha, base, publicados, antigos>>
  BY Numeros DEF IInv, PersistirDocumento, sefaz
<1>9. {n} \in SUBSET (1..publicados) /\ salvos' = salvos \union {n}
  BY <1>2, <1>6, <1>8 DEF PersistirDocumento
<1>10. exec'[e] = x
  BY <1>5 DEF IInv, Tipada
<1>11. Apoiada(exec[e])'
  <2>1. FotoOK(exec[e].foto)'
    BY <1>6, <1>7, <1>8, <1>9, <1>10 DEF FotoOK, Cobertos, MarcaOK, Revisto
  <2>2. \A k \in base + 1..n : k \in salvos' \/ k <= antigos
    <3>1. \A k \in base + 1..n : k = n \/ k \in base + 1..n - 1
      BY <1>8
    <3>2. QED
      BY <1>6, <1>9, <3>1 DEF Cobertos
  <2>3. /\ x.topo <= publicados /\ x.alvo <= publicados /\ x.prox <= publicados + 1
        /\ x.pc \in {"avancar", "persistir"}
    BY <1>2, <1>3, <1>6, <1>7, <1>8
  <2>4. x.pc = "persistir" => x.prox \in 1..x.alvo /\ x.prox <= publicados /\ x.prox - 1 = n
    BY <1>3, <1>6, <1>7, <1>8
  <2>5. x.pc = "avancar" => x.alvo >= 1 /\ x.alvo = n
    BY <1>3, <1>6, <1>7
  <2>6. (x.pc = "persistir" => Cobertos(exec[e].prox - 1)') /\ (x.pc = "avancar" => Cobertos(exec[e].alvo)')
    BY <1>8, <1>10, <2>2, <2>4, <2>5 DEF Cobertos
  <2>7. QED
    BY <1>8, <1>10, <2>1, <2>3, <2>4, <2>5, <2>6 DEF Apoiada, Recuperacao
<1>12. exec[e].pc \notin SemLinha /\ x.pc # "base" /\ UNCHANGED <<linha, base, sefaz, bloqueado, ghosts>>
  BY <1>1, <1>3, <1>7 DEF SemLinha, PersistirDocumento
<1>13. QED
  BY <1>5, <1>7, <1>9, <1>11, <1>12, PassoGuarda

LEMMA AvancarIInv ==
  ASSUME IInv, NEW e \in Execucoes, Avancar(e)
  PROVE  IInv'
<1>1. exec[e] \in Execucao /\ Apoiada(exec[e]) /\ exec[e].pc = "avancar"
  BY DeUma DEF Avancar
<1>2. PICK k \in Nat, u \in Nat : k = exec[e].alvo /\ u = exec[e].topo
  BY <1>1 DEF Execucao, Nsus
<1>3. /\ k \in Nsus /\ u \in Nsus /\ k <= publicados /\ u <= publicados /\ k >= 1 /\ Cobertos(k)
      /\ linha # Nenhum /\ linha \in Linhas
  BY <1>1, <1>2, TemLinha DEF Execucao, Apoiada, SemLinha
<1>4. PICK t : t = Texto(linha, "neutra", Nenhum)
  OBVIOUS
<1>4a. PICK l : l = Agora(t)
  OBVIOUS
<1>4b. t \in Linhas /\ t.foto.marca = Nenhum
  BY <1>3, <1>4, TextoLema, NeutraTipo
<1>5. l \in Linhas /\ l.foto \in Fotos /\ l.foto.marca = Nenhum
  BY <1>4a, <1>4b, AgoraLema DEF Linhas
<1>6. PICK f : f = [l.foto EXCEPT !.consultado = k, !.maximo = u]
  OBVIOUS
<1>7. f \in Fotos /\ f.consultado = k /\ f.maximo = u /\ f.marca = Nenhum
  BY <1>3, <1>5, <1>6 DEF Fotos
<1>8. PICK nova : nova = [l EXCEPT !.status = "ativo", !.foto = f]
  OBVIOUS
<1>9. nova \in Linhas /\ nova.foto = f
  BY <1>5, <1>7, <1>8 DEF Linhas
<1>10. [l EXCEPT !.status = "ativo", !.foto.consultado = k, !.foto.maximo = u] = nova
  BY <1>5, <1>6, <1>8 DEF Linhas, Fotos
<1>11. PICK a \in BOOLEAN : a = exec[e].antiga
  BY <1>1 DEF Execucao
<1>12. Grava(nova, a)
  BY <1>2, <1>4, <1>4a, <1>10, <1>11 DEF Avancar, Cursor
<1>13. linha' = nova /\ desfeita' \in BOOLEAN /\ hora' \in {"livre", "137", "656"}
  BY <1>12, GravaTipo DEF IInv
<1>14. UNCHANGED <<base, salvos, publicados, antigos>> /\ bloqueado' \in BOOLEAN
  BY Parados DEF Avancar, IInv, sefaz
<1>15. /\ exec' \in [Execucoes -> Execucao] /\ exec'[e] = Livre
       /\ \A o \in Execucoes \ {e} : exec'[o] = exec[o]
  BY LivreVazia DEF IInv, Tipada, Avancar, Termina, Vazia
<1>16. Tipada'
  BY <1>9, <1>13, <1>14, <1>15 DEF IInv, Tipada
<1>17. LinhaOK'
  <2>1. FotoOK(linha.foto)'
    BY <1>3, <1>7, <1>9, <1>13, <1>14 DEF FotoOK, Cobertos
  <2>2. QED
    BY <1>3, <1>7, <1>9, <1>13, <2>1, NenhumNaoELinha DEF LinhaOK
<1>18. Cresce
  BY <1>9, <1>13, <1>14, Numeros, NenhumNaoELinha DEF IInv, Cresce
<1>19. Confiavel(e)'
  <2>1. Apoiada(exec[e])'
    BY <1>15, <1>16, <1>18, LivreVazia, VaziaOK, ApoiadaFica DEF IInv, Vazia
  <2>2. QED
    BY <1>15, <2>1 DEF Confiavel, SemLinha, Livre
<1>2a. exec'[e].tipo # "noturna" /\ exec'[e].pc # "base"
  BY <1>15 DEF Livre
<1>21. QED
  BY <1>14, <1>15, <1>16, <1>17, <1>18, <1>19, <1>2a, PassoDeUma

LEMMA ContaTipo == ASSUME Tipada, NEW quem, PodeContar(quem) PROVE bloqueado' \in BOOLEAN
<1>1. PICK c \in BOOLEAN : c = \E e \in quem : Conta(exec[e])
  OBVIOUS
<1>2. bloqueado' \in {bloqueado, bloqueado \/ c}
  BY <1>1 DEF PodeContar
<1>3. QED
  BY <1>2, Parados

LEMMA FalharIInv ==
  ASSUME IInv, NEW e \in Execucoes, Falhar(e)
  PROVE  IInv'
<1>1. linha # Nenhum /\ linha \in Linhas
  <2>1. exec[e].pc \notin SemLinha
    BY DEF Falhar, SemLinha
  <2>2. QED
    BY <2>1, TemLinha
<1>2. PICK t : t = Texto(linha, "neutra", Nenhum)
  OBVIOUS
<1>2a. PICK l : l = Agora(t)
  OBVIOUS
<1>2b. /\ t \in Linhas /\ t.foto.marca = Nenhum
      /\ t.foto.consultado = linha.foto.consultado /\ t.foto.maximo = linha.foto.maximo
  BY <1>1, <1>2, TextoLema, NeutraTipo
<1>3. /\ l \in Linhas /\ l.foto.marca = Nenhum
      /\ l.foto.consultado = linha.foto.consultado /\ l.foto.maximo = linha.foto.maximo
  BY <1>2a, <1>2b, AgoraLema
<1>4. PICK nova : nova = [l EXCEPT !.status = "ativo"]
  OBVIOUS
<1>5. nova \in Linhas /\ nova.foto = l.foto
  BY <1>3, <1>4 DEF Linhas
<1>6. linha' = nova /\ desfeita' \in BOOLEAN /\ hora' \in {"livre", "137", "656"}
  BY <1>2, <1>2a, <1>4, Parados DEF Falhar, Grava, IInv
<1>7. exec' = [exec EXCEPT ![e] = Livre] /\ UNCHANGED <<base, salvos, publicados, antigos>>
      /\ bloqueado' \in BOOLEAN
  BY ContaTipo DEF Falhar, Termina, sefaz, IInv
<1>8. QED
  BY <1>1, <1>3, <1>5, <1>6, <1>7, LivreVazia, EscritaVazia

-----------------------------------------------------------------------------
(* The wait, and the recovery of a period                                  *)

LEMMA CabecaCauda ==
  ASSUME Tipada, NEW s, MarcasOK(s)
  PROVE  /\ Head(s) \in Marcas /\ (Head(s) # Nenhum => MarcaOK(Head(s)))
         /\ Tail(s) # << >> => /\ Tail(s) \in Seq(Marcas) /\ MarcasOK(Tail(s))
                               /\ Len(Tail(s)) # 2
<1>1. PICK m \in Marcas : s \in {<<m>>, <<Nenhum, m>>} /\ (m # Nenhum => MarcaOK(m))
  BY DEF MarcasOK
<1>2. CASE s = <<m>>
  <2>1. Head(s) = m /\ Tail(s) = << >>
    BY <1>2
  <2>2. QED
    BY <1>1, <2>1
<1>3. CASE s = <<Nenhum, m>>
  <2>1. Head(s) = Nenhum /\ Tail(s) = <<m>>
    BY <1>3
  <2>2. <<m>> \in Seq(Marcas) /\ MarcasOK(<<m>>) /\ Len(<<m>>) # 2
    BY <1>1 DEF MarcasOK
  <2>3. QED
    BY <2>1, <2>2, NeutraTipo
<1>4. QED
  BY <1>1, <1>2, <1>3

LEMMA SoPasso ==
  ASSUME IInv, NEW e \in Execucoes, NEW p \in Passos, Vai(e, p), NEW x, x = [exec[e] EXCEPT !.pc = p]
  PROVE  /\ exec' = [exec EXCEPT ![e] = x] /\ x \in Execucao /\ x.pc = p
         /\ x.tipo = exec[e].tipo /\ x.foto = exec[e].foto /\ x.prox = exec[e].prox
         /\ x.alvo = exec[e].alvo /\ x.topo = exec[e].topo /\ x.vez = exec[e].vez
         /\ x.marcas = exec[e].marcas /\ x.motivo = exec[e].motivo /\ x.antiga = exec[e].antiga
<1>1. exec[e] \in Execucao
  BY DeUma
<1>2. exec' = [exec EXCEPT ![e] = x]
  BY DEF Vai, IInv, Tipada
<1>3. x \in Execucao /\ x.pc = p
  BY <1>1 DEF Execucao
<1>4. /\ x.tipo = exec[e].tipo /\ x.foto = exec[e].foto /\ x.prox = exec[e].prox
      /\ x.alvo = exec[e].alvo /\ x.topo = exec[e].topo /\ x.vez = exec[e].vez
  BY <1>1 DEF Execucao
<1>5. x.marcas = exec[e].marcas /\ x.motivo = exec[e].motivo /\ x.antiga = exec[e].antiga
  BY <1>1 DEF Execucao
<1>6. QED
  BY <1>2, <1>3, <1>4, <1>5

LEMMA PausarIInv ==
  ASSUME IInv, NEW e \in Execucoes, Pausar(e)
  PROVE  IInv'
<1>1. exec[e] \in Execucao /\ Apoiada(exec[e]) /\ exec[e].pc = "pausar"
  BY DeUma DEF Pausar
<1>2. linha # Nenhum /\ linha \in Linhas
  BY <1>1, TemLinha DEF SemLinha
<1>3. PICK m, k : m = exec[e].motivo /\ k = Head(exec[e].marcas)
  OBVIOUS
<1>4. m \in Motivos /\ k \in Marcas /\ (k # Nenhum => MarcaOK(k))
  BY <1>1, <1>3, CabecaCauda DEF Apoiada, IInv
<1>5. PICK t : t = Texto(linha, m, k)
  OBVIOUS
<1>6. PICK a \in BOOLEAN : a = exec[e].antiga
  BY <1>1 DEF Execucao
<1>7. Grava(Agora(t), a)
  BY <1>3, <1>5, <1>6 DEF Pausar
<1>8. linha' = Agora(t) /\ desfeita' \in BOOLEAN /\ hora' \in {"livre", "137", "656"}
  BY <1>7, GravaTipo DEF IInv
<1>9. /\ linha' \in Linhas /\ linha'.foto.marca = k
      /\ linha'.foto.consultado = linha.foto.consultado /\ linha'.foto.maximo = linha.foto.maximo
  <2>1. /\ t \in Linhas /\ t.foto.marca = k
        /\ t.foto.consultado = linha.foto.consultado /\ t.foto.maximo = linha.foto.maximo
    BY <1>2, <1>4, <1>5, TextoLema
  <2>2. QED
    BY <1>8, <2>1, AgoraLema
<1>10. UNCHANGED <<base, salvos, publicados, antigos>> /\ bloqueado' \in BOOLEAN
  BY Parados DEF IInv, Pausar, sefaz
<1>11. PICK x : x = [exec[e] EXCEPT !.pc = "status"]
  OBVIOUS
<1>12. /\ exec' = [exec EXCEPT ![e] = x] /\ x \in Execucao /\ x.pc = "status"
       /\ x.tipo = exec[e].tipo /\ x.foto = exec[e].foto /\ x.prox = exec[e].prox
       /\ x.alvo = exec[e].alvo /\ x.topo = exec[e].topo
       /\ x.marcas = exec[e].marcas /\ x.motivo = exec[e].motivo /\ x.antiga = exec[e].antiga
  <2>1. "status" \in Passos /\ Vai(e, "status")
    BY DEF Passos, ComPosse, Pausar
  <2>2. QED
    BY <1>11, <2>1, SoPasso
<1>13. Apoiada(x) /\ x.pc # "base"
  BY <1>1, <1>12 DEF Apoiada, Recuperacao, Revisto
<1>14. QED
  BY <1>2, <1>4, <1>8, <1>9, <1>10, <1>12, <1>13, PassoNaLinha

\* Only the status changes.
LEMMA SoStatus ==
  ASSUME IInv, linha # Nenhum, linha' = [linha EXCEPT !.status = "ativo"]
  PROVE  /\ linha' \in Linhas /\ linha'.foto = linha.foto
         /\ linha'.foto.marca # Nenhum => MarcaOK(linha'.foto.marca)
<1>1. linha \in Linhas /\ FotoOK(linha.foto)
  BY CopiaOK
<1>2. linha' \in Linhas /\ linha'.foto = linha.foto
  BY <1>1 DEF Linhas
<1>3. QED
  BY <1>1, <1>2 DEF FotoOK

LEMMA PausarStatusIInv ==
  ASSUME IInv, NEW e \in Execucoes, PausarStatus(e)
  PROVE  IInv'
<1>1. exec[e] \in Execucao /\ Apoiada(exec[e]) /\ exec[e].pc = "status"
  BY DeUma DEF PausarStatus
<1>2. linha # Nenhum
  BY <1>1, TemLinha DEF SemLinha
<1>3. /\ linha' \in Linhas /\ linha'.foto = linha.foto
      /\ linha'.foto.marca # Nenhum => MarcaOK(linha'.foto.marca)
  BY <1>2, SoStatus DEF PausarStatus
<1>4. /\ UNCHANGED <<base, salvos, publicados, antigos>> /\ bloqueado' \in BOOLEAN
      /\ desfeita' \in BOOLEAN /\ hora' \in {"livre", "137", "656"}
  BY Parados DEF IInv, PausarStatus, sefaz, ghosts
<1>5. PICK s : s = Tail(exec[e].marcas)
  OBVIOUS
<1>6. CASE s = << >>
  <2>1. exec' = [exec EXCEPT ![e] = Livre]
    BY <1>5, <1>6 DEF PausarStatus, Termina
  <2>2. QED
    BY <1>2, <1>3, <1>4, <2>1, LivreVazia, EscritaVazia
<1>7. CASE s # << >>
  <2>1. s \in Seq(Marcas) /\ MarcasOK(s) /\ Len(s) # 2
    BY <1>1, <1>5, <1>7, CabecaCauda DEF Apoiada, IInv
  <2>2. PICK x : x = [exec[e] EXCEPT !.pc = "pausar", !.marcas = s]
    OBVIOUS
  <2>3. exec' = [exec EXCEPT ![e] = x]
    BY <1>5, <1>7, <2>2 DEF PausarStatus, IInv, Tipada
  <2>4. /\ x \in Execucao /\ x.pc = "pausar" /\ x.tipo = exec[e].tipo /\ x.foto = exec[e].foto
        /\ x.prox = exec[e].prox /\ x.alvo = exec[e].alvo /\ x.topo = exec[e].topo
        /\ x.marcas = s /\ x.motivo = exec[e].motivo
    BY <1>1, <2>1, <2>2 DEF Execucao, Passos, ComPosse
  <2>5. Apoiada(x) /\ x.pc # "base"
    BY <1>1, <2>1, <2>4 DEF Apoiada, Recuperacao
  <2>6. QED
    BY <1>2, <1>3, <1>4, <2>3, <2>4, <2>5, PassoNaLinha
<1>8. QED
  BY <1>6, <1>7

LEMMA EncerrarStatusIInv ==
  ASSUME IInv, NEW e \in Execucoes, EncerrarStatus(e)
  PROVE  IInv'
<1>1. linha # Nenhum
  BY TemLinha DEF SemLinha, EncerrarStatus
<1>2. /\ linha' \in Linhas /\ linha'.foto = linha.foto
      /\ linha'.foto.marca # Nenhum => MarcaOK(linha'.foto.marca)
  BY <1>1, SoStatus DEF EncerrarStatus
<1>3. /\ UNCHANGED <<base, salvos, publicados, antigos>> /\ bloqueado' \in BOOLEAN
      /\ desfeita' \in BOOLEAN /\ hora' \in {"livre", "137", "656"}
  BY Parados DEF IInv, EncerrarStatus, sefaz, ghosts
<1>4. exec' = [exec EXCEPT ![e] = Livre]
  BY DEF EncerrarStatus, Termina
<1>5. QED
  BY <1>1, <1>2, <1>3, <1>4, LivreVazia, EscritaVazia

\* A recovery starts at what its mark, or the copy, says is already covered.
LEMMA InicioDoPeriodo ==
  ASSUME Tipada, NEW f \in Fotos, FotoOK(f)
  PROVE  /\ Proximo(f) \in Nsus /\ Alvo(f) \in Nsus
         /\ Proximo(f) <= publicados /\ Alvo(f) <= publicados
         /\ \A x : x.prox = Proximo(f) /\ x.alvo = Alvo(f) => Revisto(x)
<1>1. f.maximo \in Nsus /\ f.consultado \in Nsus /\ f.marca \in Marcas
  BY DEF Fotos
<1>2. CASE f.marca # Nenhum
  <2>1. Proximo(f) = f.marca.prox /\ Alvo(f) = f.marca.alvo
    BY <1>2 DEF Proximo, Alvo
  <2>2. f.marca.prox \in Nsus /\ f.marca.alvo \in Nsus /\ MarcaOK(f.marca)
    BY <1>1, <1>2 DEF Marcas, FotoOK
  <2>3. QED
    BY <2>1, <2>2 DEF MarcaOK, Revisto
<1>3. CASE f.marca = Nenhum
  <2>1. Alvo(f) = Maior(f.maximo, f.consultado) /\ Proximo(f) = Alvo(f)
    BY <1>3 DEF Proximo, Alvo
  <2>2. Alvo(f) \in Nsus /\ Alvo(f) <= publicados
    BY <1>1, <2>1 DEF Maior, FotoOK
  <2>3. \A x : x.prox = Proximo(f) /\ x.alvo = Alvo(f) => Revisto(x)
    BY <2>1, <2>2, ConstantesValidas DEF Revisto, Nsus
  <2>4. QED
    BY <2>1, <2>2, <2>3
<1>4. QED
  BY <1>2, <1>3

LEMMA ComecarPeriodoIInv ==
  ASSUME IInv, NEW e \in Execucoes, ComecarPeriodo(e)
  PROVE  IInv'
<1>1. /\ UNCHANGED <<linha, base, salvos, sefaz>> /\ desfeita' \in BOOLEAN
      /\ bloqueado' \in BOOLEAN /\ hora' \in {"livre", "137", "656"}
  BY Parados DEF IInv, ComecarPeriodo, ghosts
<1>2. exec[e] \in Execucao /\ Apoiada(exec[e]) /\ exec[e].pc = "retomar"
  BY DeUma DEF ComecarPeriodo
<1>3. PICK f \in Fotos : f = exec[e].foto
  BY <1>2 DEF Execucao
<1>4. FotoOK(f)
  BY <1>2, <1>3 DEF Apoiada
<1>5. CASE Suspensa(f, "consNSU") \/ Ocupado
  BY <1>3, <1>5, PassaIInv DEF ComecarPeriodo
<1>6. CASE ~(Suspensa(f, "consNSU") \/ Ocupado) /\ Proximo(f) = 0
  <2>1. Termina(e)
    BY <1>3, <1>6 DEF ComecarPeriodo
  <2>2. QED
    BY <1>1, <2>1, TerminaIInv DEF ComecarPeriodo, ghosts
<1>7. CASE ~(Suspensa(f, "consNSU") \/ Ocupado) /\ Proximo(f) # 0
  <2>1. PICK p, q, m : p = Proximo(f) /\ q = Alvo(f) /\ m = EsperaDita(f)
    OBVIOUS
  <2>2. PICK a \in BOOLEAN : a = Antiga(e)
    BY AntigaTipo
  <2>3. PICK r \in BOOLEAN : r = (f.recente /\ m # "neutra")
    OBVIOUS
  <2>4. PICK g : g = [SemFoto EXCEPT !.motivo = m, !.recente = r]
    OBVIOUS
  <2>5. PICK x : x = [exec[e] EXCEPT !.pc = "marcar", !.prox = p, !.alvo = q, !.antiga = a, !.foto = g]
    OBVIOUS
  <2>6. exec' = [exec EXCEPT ![e] = x]
    <3>1. exec' = [exec EXCEPT ![e].pc = "marcar", ![e].prox = p, ![e].alvo = q,
                     ![e].antiga = Antiga(e),
                     ![e].foto = [SemFoto EXCEPT !.motivo = m, !.recente = f.recente /\ m # "neutra"]]
      BY <1>3, <1>7, <2>1 DEF ComecarPeriodo
    <3>2. QED
      BY <2>2, <2>3, <2>4, <2>5, <3>1 DEF IInv, Tipada
  <2>7. p \in Nsus /\ p \in Nat /\ q \in Nsus /\ p <= publicados /\ q <= publicados
        /\ \A y : y.prox = p /\ y.alvo = q => Revisto(y)
    BY <1>4, <2>1, InicioDoPeriodo DEF IInv, Nsus
  <2>8. /\ g \in Fotos /\ g.consultado = SemFoto.consultado /\ g.maximo = SemFoto.maximo
        /\ g.marca = SemFoto.marca
    <3>1. m \in Motivos
      BY <2>1 DEF EsperaDita, Motivos
    <3>2. QED
      BY <2>3, <2>4, <3>1, SemFotoTipo DEF Fotos
  <2>9. FotoOK(g)
    <3>1. FotoOK(SemFoto)
      BY SemFotoTipo DEF IInv
    <3>2. QED
      BY <2>8, <3>1 DEF FotoOK
  <2>10. x \in Execucao
    BY <1>2, <2>5, <2>7, <2>8 DEF Execucao, Passos, ComPosse
  <2>11. x.pc = "marcar" /\ x.tipo = exec[e].tipo /\ x.foto = g /\ x.topo = exec[e].topo
    BY <1>2, <2>5 DEF Execucao
  <2>12. x.prox = p /\ x.alvo = q
    BY <1>2, <2>5 DEF Execucao
  <2>13. Apoiada(x)
    <3>1. Revisto(x) /\ x.prox <= publicados /\ x.prox <= publicados + 1 /\ x.alvo <= publicados
      BY <2>7, <2>12, Numeros DEF IInv
    <3>2. QED
      BY <1>2, <2>9, <2>11, <3>1 DEF Apoiada, Recuperacao
  <2>14. exec[e].pc \notin SemLinha /\ x.pc # "base"
    BY <1>2, <2>11 DEF SemLinha
  <2>15. QED
    BY <1>1, <2>6, <2>10, <2>11, <2>13, <2>14, PassoInterno
<1>8. QED
  BY <1>5, <1>6, <1>7

LEMMA MarcaLema ==
  ASSUME IInv, NEW e \in Execucoes, exec[e].pc \in Recuperacao
  PROVE  Marca(exec[e]) \in Marcas /\ MarcaOK(Marca(exec[e]))
<1>1. exec[e] \in Execucao /\ Apoiada(exec[e])
  BY DeUma
<1>2. exec[e].prox \in Nsus /\ exec[e].alvo \in Nsus /\ exec[e].prox <= publicados
      /\ exec[e].alvo <= publicados
  <2>1. exec[e].prox \in Nat /\ exec[e].alvo \in Nsus /\ exec[e].prox <= publicados
        /\ exec[e].alvo <= publicados
    BY <1>1 DEF Execucao, Apoiada, Recuperacao
  <2>2. publicados \in Nsus
    BY DEF IInv, Tipada
  <2>3. QED
    BY <2>1, <2>2, ConstantesValidas DEF Nsus
<1>3. Revisto(exec[e])
  BY <1>1 DEF Apoiada
<1>4. Marca(exec[e]) \in Marcas /\ Marca(exec[e]).prox = exec[e].prox
      /\ Marca(exec[e]).alvo = exec[e].alvo
  BY <1>2 DEF Marca, Marcas
<1>5. QED
  BY <1>2, <1>3, <1>4 DEF MarcaOK, Revisto

\* marcar and progresso: the row says how far the recovery is.
LEMMA ProgressoIInv ==
  ASSUME IInv, NEW e \in Execucoes, Marcar(e) \/ Progredir(e)
  PROVE  IInv'
<1>1. /\ exec[e] \in Execucao /\ Apoiada(exec[e]) /\ exec[e].pc \in {"marcar", "progresso"}
      /\ exec[e].pc \in Recuperacao /\ exec[e].pc \notin SemLinha
  BY DeUma DEF Marcar, Progredir, Recuperacao, SemLinha
<1>2. linha # Nenhum /\ linha \in Linhas
  BY <1>1, TemLinha
<1>3. PICK k : k = Marca(exec[e])
  OBVIOUS
<1>4. k \in Marcas /\ MarcaOK(k)
  BY <1>1, <1>3, MarcaLema
<1>5. PICK t : t = Texto(linha, "neutra", k)
  OBVIOUS
<1>6. /\ t \in Linhas /\ t.foto.marca = k
      /\ t.foto.consultado = linha.foto.consultado /\ t.foto.maximo = linha.foto.maximo
  BY <1>2, <1>4, <1>5, TextoLema, NeutraTipo
<1>7. PICK a \in BOOLEAN : a = exec[e].antiga
  BY <1>1 DEF Execucao
<1>8. Grava(t, a) /\ Vai(e, "pontual") /\ UNCHANGED <<base, salvos, sefaz, bloqueado>>
  BY <1>3, <1>5, <1>7 DEF Marcar, Progredir
<1>9. linha' = t /\ desfeita' \in BOOLEAN /\ hora' \in {"livre", "137", "656"}
  BY <1>8, GravaTipo DEF IInv
<1>10. UNCHANGED <<base, salvos, publicados, antigos>> /\ bloqueado' \in BOOLEAN
  BY <1>8, Parados DEF IInv, sefaz
<1>11. PICK x : x = [exec[e] EXCEPT !.pc = "pontual"]
  OBVIOUS
<1>12. /\ exec' = [exec EXCEPT ![e] = x] /\ x \in Execucao /\ x.pc = "pontual"
       /\ x.tipo = exec[e].tipo /\ x.foto = exec[e].foto /\ x.prox = exec[e].prox
       /\ x.alvo = exec[e].alvo /\ x.topo = exec[e].topo
  <2>1. "pontual" \in Passos
    BY DEF Passos, ComPosse
  <2>2. QED
    BY <1>8, <1>11, <2>1, SoPasso
<1>13. Apoiada(x) /\ x.pc # "base"
  BY <1>1, <1>12 DEF Apoiada, Revisto, Recuperacao
<1>14. QED
  BY <1>2, <1>4, <1>6, <1>9, <1>10, <1>12, <1>13, PassoNaLinha

LEMMA ParaIInv ==
  ASSUME IInv, NEW e \in Execucoes, Para(e), exec[e].pc \in Recuperacao \/ Primeira(exec[e]),
         UNCHANGED <<linha, base, salvos, sefaz, ghosts>>, bloqueado' \in BOOLEAN
  PROVE  IInv'
<1>1. exec[e] \in Execucao /\ Apoiada(exec[e])
  BY DeUma
<1>2. PICK s : s = << >> /\ s \in Seq(Marcas)
  <2>1. << >> \in Seq(Marcas)
    OBVIOUS
  <2>2. QED
    BY <2>1
<1>2a. PICK x : x = [exec[e] EXCEPT !.pc = "fim", !.foto = SemFoto, !.vez = 0, !.marcas = s,
                                    !.motivo = "parou"]
  OBVIOUS
<1>3. exec' = [exec EXCEPT ![e] = x]
  BY <1>2, <1>2a DEF Para, IInv, Tipada
<1>4. 0 \in 0..NsusPorVez /\ "fim" \in Passos
  BY ConstantesValidas DEF Passos, ComPosse
<1>5. /\ x \in Execucao /\ x.pc = "fim" /\ x.tipo = exec[e].tipo /\ x.foto = SemFoto
      /\ x.prox = exec[e].prox /\ x.alvo = exec[e].alvo /\ x.topo = exec[e].topo
  BY <1>1, <1>2, <1>2a, <1>4, SemFotoTipo DEF Execucao
<1>6. Apoiada(x)
  <2>1. FotoOK(x.foto)
    BY <1>5, SemFotoTipo DEF IInv
  <2>2. Revisto(exec[e]) /\ exec[e].pc # "avancar"
    BY <1>1 DEF Apoiada, Primeira, Recuperacao
  <2>3. Revisto(x)
    BY <1>5, <2>2 DEF Revisto
  <2>4. QED
    BY <1>1, <1>5, <2>1, <2>2, <2>3 DEF Apoiada
<1>7. exec[e].pc \notin SemLinha /\ x.pc # "base"
  BY <1>5 DEF SemLinha, Recuperacao, Primeira
<1>8. desfeita' \in BOOLEAN /\ hora' \in {"livre", "137", "656"}
  BY Parados DEF IInv, ghosts
<1>9. QED
  BY <1>3, <1>5, <1>6, <1>7, <1>8, PassoInterno

LEMMA ReservarConsultaIInv ==
  ASSUME IInv, NEW e \in Execucoes, ReservarConsulta(e)
  PROVE  IInv'
<1>1. /\ exec[e] \in Execucao /\ Apoiada(exec[e]) /\ exec[e].pc = "pontual"
      /\ exec[e].pc \in Recuperacao /\ exec[e].pc \notin SemLinha
  BY DeUma DEF ReservarConsulta, Recuperacao, SemLinha
<1>2. /\ UNCHANGED <<linha, base, salvos, sefaz>> /\ desfeita' \in BOOLEAN
      /\ bloqueado' \in BOOLEAN /\ hora' \in {"livre", "137", "656"}
  BY Parados DEF IInv, ReservarConsulta, ghosts
<1>3. CASE Para(e)
  BY <1>1, <1>2, <1>3, ParaIInv DEF ReservarConsulta
<1>4. CASE ~Para(e)
  <2>1. PICK p \in {"fim", "enviada"}, v \in 0..NsusPorVez :
          /\ exec' = [exec EXCEPT ![e].pc = p, ![e].vez = v]
          /\ p = "enviada" => exec[e].prox # 0
    <3>1. CASE exec[e].prox = 0 \/ exec[e].vez = NsusPorVez
      <4>1. 0 \in 0..NsusPorVez
        BY ConstantesValidas
      <4>2. exec' = [exec EXCEPT ![e].pc = "fim", ![e].vez = 0]
        BY <3>1 DEF ReservarConsulta
      <4>3. QED
        BY <4>1, <4>2
    <3>2. CASE ~(exec[e].prox = 0 \/ exec[e].vez = NsusPorVez)
      <4>1. exec[e].vez \in 0..NsusPorVez
        BY <1>1 DEF Execucao
      <4>2. PICK v \in 0..NsusPorVez : v = exec[e].vez + 1
        BY <3>2, <4>1, ConstantesValidas
      <4>3. exec' = [exec EXCEPT ![e].pc = "enviada", ![e].vez = v]
        BY <1>4, <3>2, <4>2 DEF ReservarConsulta, IInv, Tipada
      <4>4. QED
        BY <3>2, <4>3
    <3>3. QED
      BY <3>1, <3>2
  <2>2. PICK x : x = [exec[e] EXCEPT !.pc = p, !.vez = v]
    OBVIOUS
  <2>3. exec' = [exec EXCEPT ![e] = x]
    BY <2>1, <2>2 DEF IInv, Tipada
  <2>4. p \in Passos
    BY DEF Passos, ComPosse
  <2>5. x \in Execucao /\ x.pc = p
    BY <1>1, <2>2, <2>4 DEF Execucao
  <2>6. /\ x.tipo = exec[e].tipo /\ x.foto = exec[e].foto /\ x.prox = exec[e].prox
        /\ x.alvo = exec[e].alvo /\ x.topo = exec[e].topo
    BY <1>1, <2>2 DEF Execucao
  <2>7. x.pc = "enviada" => x.prox >= 1
    BY <1>1, <2>1, <2>5, <2>6 DEF Execucao
  <2>8. Apoiada(x)
    BY <1>1, <2>5, <2>6, <2>7 DEF Apoiada, Revisto, Recuperacao
  <2>9. x.pc # "base"
    BY <2>5
  <2>10. QED
    BY <1>1, <1>2, <2>3, <2>5, <2>6, <2>8, <2>9, PassoInterno
<1>5. QED
  BY <1>3, <1>4

LEMMA InterromperIInv ==
  ASSUME IInv, NEW e \in Execucoes, Interromper(e)
  PROVE  IInv'
<1>1. exec[e].pc \in Recuperacao \/ Primeira(exec[e])
  BY DEF Interromper, Recuperacao
<1>2. bloqueado' \in BOOLEAN
  BY ContaTipo DEF Interromper, IInv
<1>3. QED
  BY <1>1, <1>2, ParaIInv DEF Interromper

LEMMA ConsultarNsuIInv ==
  ASSUME IInv, NEW e \in Execucoes, ConsultarNsu(e)
  PROVE  IInv'
<1>1. /\ exec[e] \in Execucao /\ Apoiada(exec[e]) /\ exec[e].pc = "enviada"
      /\ exec[e].pc \in Recuperacao /\ exec[e].pc \notin SemLinha
  BY DeUma DEF ConsultarNsu, Recuperacao, SemLinha
<1>2. /\ UNCHANGED <<linha, base, salvos, sefaz>> /\ desfeita' \in BOOLEAN
      /\ bloqueado' \in BOOLEAN /\ hora' \in {"livre", "137", "656"}
  BY Parados DEF IInv, ConsultarNsu, ghosts
<1>3. CASE exec[e].prox > antigos
  <2>1. PICK x : x = [exec[e] EXCEPT !.pc = "documento"]
    OBVIOUS
  <2>2. Vai(e, "documento") /\ "documento" \in Passos
    BY <1>3 DEF ConsultarNsu, Passos, ComPosse
  <2>3. /\ exec' = [exec EXCEPT ![e] = x] /\ x \in Execucao /\ x.pc = "documento"
        /\ x.tipo = exec[e].tipo /\ x.foto = exec[e].foto /\ x.prox = exec[e].prox
        /\ x.alvo = exec[e].alvo /\ x.topo = exec[e].topo
    BY <2>1, <2>2, SoPasso
  <2>4. Apoiada(x) /\ x.pc # "base"
    BY <1>1, <2>3 DEF Apoiada, Revisto, Recuperacao
  <2>5. QED
    BY <1>1, <1>2, <2>3, <2>4, PassoInterno
<1>4. CASE ~(exec[e].prox > antigos)
  <2>1. PICK x : x = [exec[e] EXCEPT !.pc = "fim", !.prox = 0, !.vez = 0]
    OBVIOUS
  <2>2. exec' = [exec EXCEPT ![e] = x]
    BY <1>4, <2>1 DEF ConsultarNsu, IInv, Tipada
  <2>3. 0 \in 0..NsusPorVez /\ "fim" \in Passos
    BY ConstantesValidas DEF Passos, ComPosse
  <2>4. /\ x \in Execucao /\ x.pc = "fim" /\ x.tipo = exec[e].tipo /\ x.foto = exec[e].foto
        /\ x.prox = 0 /\ x.alvo = exec[e].alvo /\ x.topo = exec[e].topo
    BY <1>1, <2>1, <2>3 DEF Execucao
  <2>5. Revisto(x)
    <3>1. PICK p \in Nat, q \in Nat : p = exec[e].prox /\ q = exec[e].alvo
      BY <1>1 DEF Execucao, Nsus
    <3>2. p <= antigos /\ antigos \in Nat
      BY <1>4, <3>1, Numeros DEF IInv
    <3>3. \A n \in NoPeriodo : n > p /\ n <= q => n \in salvos \/ n <= antigos
      BY <1>1, <3>1 DEF Apoiada, Revisto
    <3>4. \A n \in NoPeriodo : n \in Nat
      BY ConstantesValidas
    <3>5. \A n \in NoPeriodo : n <= q => n \in salvos \/ n <= antigos
      <4>1. SUFFICES ASSUME NEW n \in NoPeriodo, n <= q PROVE n \in salvos \/ n <= antigos
        OBVIOUS
      <4>2. n > p \/ n <= antigos
        BY <3>2, <3>4
      <4>3. QED
        BY <3>3, <4>1, <4>2
    <3>6. QED
      BY <2>4, <3>1, <3>5 DEF Revisto
  <2>6. Apoiada(x) /\ x.pc # "base"
    <3>1. 0 <= publicados /\ 0 <= publicados + 1
      BY Numeros DEF IInv
    <3>2. QED
      BY <1>1, <2>4, <2>5, <3>1 DEF Apoiada, Recuperacao
  <2>7. QED
    BY <1>1, <1>2, <2>2, <2>4, <2>6, PassoInterno
<1>5. QED
  BY <1>3, <1>4

LEMMA ConsumoIndevidoPontualIInv ==
  ASSUME IInv, NEW e \in Execucoes, ConsumoIndevidoPontual(e)
  PROVE  IInv'
<1>1. exec[e].pc = "enviada" /\ exec[e].pc \in ComPosse /\ exec[e].pc \in Recuperacao
  BY DEF ConsumoIndevidoPontual, ComPosse, Recuperacao
<1>2. PICK k : k = Marca(exec[e])
  OBVIOUS
<1>3. k \in Marcas /\ MarcaOK(k)
  BY <1>1, <1>2, MarcaLema
<1>4. <<Nenhum, k>> \in Seq(Marcas) /\ MarcasOK(<<Nenhum, k>>)
  BY <1>3, MarcaSo
<1>5. Espera(e, "656", <<Nenhum, k>>)
  BY <1>2 DEF ConsumoIndevidoPontual
<1>6. /\ hora' \in {"livre", "137", "656"} /\ "656" \in Motivos /\ desfeita' \in BOOLEAN
      /\ UNCHANGED <<linha, base, salvos, sefaz, bloqueado>>
  BY <1>5, Parados DEF Espera, IInv, Motivos
<1>7. PICK s : s = <<Nenhum, k>>
  OBVIOUS
<1>8. PICK a \in BOOLEAN :
        exec' = [exec EXCEPT ![e] = Esperando(exec[e], "656", s, a)] /\ ~a
  BY <1>5, <1>7, PedidoDeEspera
<1>9. Revisto(exec[e]) /\ exec[e].prox >= 1 /\ exec[e].pc # "avancar"
  BY <1>1, DeUma DEF Apoiada
<1>10. s \in Seq(Marcas) /\ MarcasOK(s)
  BY <1>4, <1>7
<1>11. QED
  BY <1>1, <1>6, <1>8, <1>9, <1>10, EsperaLema

LEMMA GuardarDocumentoIInv ==
  ASSUME IInv, NEW e \in Execucoes, GuardarDocumento(e)
  PROVE  IInv'
<1>1. exec[e] \in Execucao /\ Apoiada(exec[e]) /\ exec[e].pc = "documento"
  BY DeUma DEF GuardarDocumento
<1>2. PICK n \in Nat, a \in Nat : n = exec[e].prox /\ a = exec[e].alvo
  BY <1>1 DEF Execucao, Nsus
<1>3. PICK x : x = [exec[e] EXCEPT !.pc = "progresso", !.prox = n - 1]
  OBVIOUS
<1>4. exec' = [exec EXCEPT ![e] = x]
  BY <1>2, <1>3 DEF GuardarDocumento, Anterior, IInv, Tipada
<1>5. /\ n >= 1 /\ n <= publicados /\ a <= publicados /\ FotoOK(exec[e].foto)
      /\ exec[e].topo <= publicados /\ Revisto(exec[e]) /\ n - 1 \in Nat
  BY <1>1, <1>2 DEF Apoiada, Recuperacao
<1>6. x \in Execucao /\ x.pc = "progresso" /\ x.prox = n - 1
  BY <1>1, <1>3, <1>5 DEF Execucao, Passos, ComPosse
<1>7. x.tipo = exec[e].tipo /\ x.foto = exec[e].foto /\ x.alvo = a /\ x.topo = exec[e].topo
  <2>1. /\ x.tipo = exec[e].tipo /\ x.foto = exec[e].foto /\ x.alvo = exec[e].alvo
        /\ x.topo = exec[e].topo
    BY <1>1, <1>3 DEF Execucao
  <2>2. QED
    BY <1>2, <2>1
<1>8. publicados \in Nat /\ UNCHANGED <<linha, base, publicados, antigos>>
  BY Numeros DEF IInv, GuardarDocumento, sefaz
<1>9. PICK S : S = {n} \cap NoPeriodo
  OBVIOUS
<1>10. S \in SUBSET (1..publicados) /\ salvos' = salvos \union S
  BY <1>2, <1>5, <1>8, <1>9 DEF GuardarDocumento
<1>11. exec'[e] = x
  BY <1>4 DEF IInv, Tipada
<1>12. Apoiada(exec[e])'
  <2>1. FotoOK(exec[e].foto)'
    BY <1>5, <1>7, <1>8, <1>10, <1>11 DEF FotoOK, Cobertos, MarcaOK, Revisto
  <2>2. \A k \in NoPeriodo : k > n - 1 /\ k <= a => k \in salvos' \/ k <= antigos
    <3>1. SUFFICES ASSUME NEW k \in NoPeriodo, k > n - 1, k <= a
                   PROVE  k \in salvos' \/ k <= antigos
      OBVIOUS
    <3>a. k \in Nat
      BY ConstantesValidas
    <3>2. k = n \/ k > n
      BY <1>5, <3>a, <3>1
    <3>3. k = n => k \in salvos'
      BY <1>9, <1>10
    <3>4. k > n => k \in salvos \/ k <= antigos
      BY <1>2, <1>5, <3>1 DEF Revisto
    <3>5. QED
      BY <1>10, <3>2, <3>3, <3>4
  <2>3. Revisto(exec[e])'
    BY <1>6, <1>7, <1>8, <1>11, <2>2 DEF Revisto
  <2>4. x.prox <= publicados /\ x.prox <= publicados + 1 /\ x.alvo <= publicados /\ x.topo <= publicados
    BY <1>5, <1>6, <1>7, <1>8
  <2>5. QED
    BY <1>6, <1>8, <1>11, <2>1, <2>3, <2>4 DEF Apoiada
<1>13. exec[e].pc \notin SemLinha /\ x.pc # "base" /\ UNCHANGED <<linha, base, sefaz, bloqueado, ghosts>>
  BY <1>1, <1>6 DEF SemLinha, GuardarDocumento
<1>14. QED
  BY <1>4, <1>6, <1>7, <1>10, <1>12, <1>13, PassoGuarda

LEMMA EncerrarIInv ==
  ASSUME IInv, NEW e \in Execucoes, Encerrar(e)
  PROVE  IInv'
<1>1. /\ exec[e] \in Execucao /\ Apoiada(exec[e]) /\ exec[e].pc = "fim"
      /\ exec[e].pc \in Recuperacao /\ exec[e].pc \notin SemLinha
  BY DeUma DEF Encerrar, Recuperacao, SemLinha
<1>2. linha # Nenhum /\ linha \in Linhas
  BY <1>1, TemLinha
<1>3. PICK a \in BOOLEAN : a = exec[e].antiga
  BY <1>1 DEF Execucao
<1>4. /\ linha' \in Linhas
      /\ linha'.foto.consultado = linha.foto.consultado /\ linha'.foto.maximo = linha.foto.maximo
      /\ linha'.foto.marca # Nenhum => MarcaOK(linha'.foto.marca)
      /\ desfeita' \in BOOLEAN /\ hora' \in {"livre", "137", "656"}
  <2>1. CASE exec[e].prox = 0
    <3>1. PICK m \in Motivos : m = IF exec[e].foto.motivo = "137" THEN "137" ELSE "neutra"
      BY DEF Motivos
    <3>2. PICK t : t = Texto(linha, m, Nenhum)
      OBVIOUS
    <3>3. /\ t \in Linhas /\ t.foto.marca = Nenhum /\ t.foto \in Fotos
          /\ t.foto.consultado = linha.foto.consultado /\ t.foto.maximo = linha.foto.maximo
      BY <1>2, <3>1, <3>2, TextoLema, NeutraTipo DEF Linhas
    <3>4. PICK r \in BOOLEAN : r = IF exec[e].foto.motivo # "neutra" THEN exec[e].foto.recente ELSE TRUE
      BY <1>1 DEF Execucao, Fotos
    <3>5. PICK f : f = [t.foto EXCEPT !.recente = r]
      OBVIOUS
    <3>6. /\ f \in Fotos /\ f.marca = Nenhum
          /\ f.consultado = linha.foto.consultado /\ f.maximo = linha.foto.maximo
      BY <3>3, <3>5 DEF Fotos
    <3>7. PICK nova : nova = [t EXCEPT !.foto = f]
      OBVIOUS
    <3>8. nova \in Linhas /\ nova.foto = f
      BY <3>3, <3>6, <3>7 DEF Linhas
    <3>9. Conclusao(exec[e]) = nova
      BY <3>1, <3>2, <3>3, <3>4, <3>5, <3>7 DEF Conclusao, Linhas
    <3>10. Grava(nova, a)
      BY <1>3, <2>1, <3>9 DEF Encerrar
    <3>11. linha' = nova /\ desfeita' \in BOOLEAN /\ hora' \in {"livre", "137", "656"}
      BY <3>10, GravaTipo DEF IInv
    <3>12. QED
      BY <3>6, <3>8, <3>11
  <2>2. CASE exec[e].prox # 0
    <3>1. PICK k : k = Marca(exec[e])
      OBVIOUS
    <3>2. k \in Marcas /\ MarcaOK(k) /\ "656" \in Motivos
      BY <1>1, <3>1, MarcaLema DEF Motivos
    <3>3. PICK t : t = Texto(linha, "656", k)
      OBVIOUS
    <3>4. /\ t \in Linhas /\ t.foto.marca = k
          /\ t.foto.consultado = linha.foto.consultado /\ t.foto.maximo = linha.foto.maximo
      BY <1>2, <3>2, <3>3, TextoLema
    <3>5. Grava(Agora(t), a)
      BY <1>3, <2>2, <3>1, <3>3 DEF Encerrar
    <3>6. linha' = Agora(t) /\ desfeita' \in BOOLEAN /\ hora' \in {"livre", "137", "656"}
      BY <3>5, GravaTipo DEF IInv
    <3>7. QED
      BY <3>2, <3>4, <3>6, AgoraLema
  <2>3. QED
    BY <2>1, <2>2
<1>5. UNCHANGED <<base, salvos, publicados, antigos>> /\ bloqueado' \in BOOLEAN
  BY Parados DEF IInv, Encerrar, sefaz
<1>6. CASE Termina(e)
  BY <1>2, <1>4, <1>5, <1>6, LivreVazia, EscritaVazia DEF Termina
<1>7. CASE Vai(e, "fim_status")
  <2>1. PICK x : x = [exec[e] EXCEPT !.pc = "fim_status"]
    OBVIOUS
  <2>2. "fim_status" \in Passos
    BY DEF Passos, ComPosse
  <2>3. /\ exec' = [exec EXCEPT ![e] = x] /\ x \in Execucao /\ x.pc = "fim_status"
        /\ x.tipo = exec[e].tipo /\ x.foto = exec[e].foto /\ x.prox = exec[e].prox
        /\ x.alvo = exec[e].alvo /\ x.topo = exec[e].topo
    BY <1>7, <2>1, <2>2, SoPasso
  <2>4. Apoiada(x) /\ x.pc # "base"
    BY <1>1, <2>3 DEF Apoiada, Revisto, Recuperacao
  <2>5. QED
    BY <1>2, <1>4, <1>5, <2>3, <2>4, PassoNaLinha
<1>8. QED
  BY <1>6, <1>7 DEF Encerrar

-----------------------------------------------------------------------------
(* Failures, time and SEFAZ                                                *)

LEMMA ExcecaoIInv == ASSUME IInv, NEW e \in Execucoes, Excecao(e) PROVE IInv'
<1>1. desfeita' \in BOOLEAN /\ bloqueado' \in BOOLEAN
  BY Parados, ContaTipo DEF Excecao, IInv
<1>2. QED
  BY <1>1, TerminaIInv DEF Excecao

\* A step that leaves all executions where they are, but may take from them what they hold.
LEMMA PassoDeTodas ==
  ASSUME IInv, Tipada', LinhaOK', Cresce, base' = base,
         \A e \in Execucoes : /\ exec'[e].tipo \in {exec[e].tipo, "nenhum"} /\ Confiavel(e)'
                              /\ exec'[e].pc = "base" => exec[e].pc = "base"
  PROVE  IInv'
<1>1. UmaNoturna'
  BY DEF IInv, UmaNoturna
<1>2. QED
  BY <1>1 DEF IInv

LEMMA ReiniciarIInv == ASSUME IInv, Reiniciar PROVE IInv'
<1>1. /\ UNCHANGED <<linha, base, salvos, publicados, antigos>> /\ desfeita' \in BOOLEAN
      /\ bloqueado' \in BOOLEAN /\ hora' \in {"livre", "137", "656"}
  BY Parados, ContaTipo DEF IInv, Reiniciar, sefaz
<1>2. /\ exec' \in [Execucoes -> Execucao] /\ \A e \in Execucoes : exec'[e] = Livre
      /\ Livre.pc = "livre" /\ Livre.tipo = "nenhum" /\ Vazia(Livre) /\ Livre \in Execucao
  BY LivreVazia DEF Reiniciar, Vazia, Livre
<1>3. Tipada'
  BY <1>1, <1>2 DEF IInv, Tipada
<1>4. Cresce
  BY <1>1, Numeros DEF IInv, Cresce
<1>5. LinhaOK'
  BY <1>1, <1>3, <1>4, LinhaFica DEF IInv
<1>6. Apoiada(Livre)
  BY <1>2, VaziaOK DEF IInv
<1>7. ASSUME NEW e \in Execucoes
      PROVE  /\ exec'[e].tipo \in {exec[e].tipo, "nenhum"} /\ Confiavel(e)'
             /\ exec'[e].pc = "base" => exec[e].pc = "base"
  <2>1. Apoiada(exec[e])'
    BY <1>2, <1>3, <1>4, <1>6, ApoiadaFica DEF IInv
  <2>2. QED
    BY <1>2, <2>1 DEF Confiavel, SemLinha
<1>8. QED
  BY <1>1, <1>3, <1>4, <1>5, <1>7, PassoDeTodas

\* A date more than an hour old says nothing else of a copy.
LEMMA VencidaLema ==
  ASSUME NEW f \in Fotos
  PROVE  /\ Vencida(f) \in Fotos /\ Vencida(f).consultado = f.consultado
         /\ Vencida(f).maximo = f.maximo /\ Vencida(f).marca = f.marca
         /\ Vencida(f).motivo = f.motivo /\ Vencida(f).recente = FALSE
         /\ FotoOK(f) => FotoOK(Vencida(f))
<1>1. /\ Vencida(f) \in Fotos /\ Vencida(f).consultado = f.consultado
      /\ Vencida(f).maximo = f.maximo /\ Vencida(f).marca = f.marca
      /\ Vencida(f).motivo = f.motivo /\ Vencida(f).recente = FALSE
  BY DEF Vencida, Fotos
<1>2. QED
  BY <1>1 DEF FotoOK

LEMMA CopiaVencida ==
  ASSUME IInv, NEW e \in Execucoes, NEW x, x = [exec[e] EXCEPT !.foto = Vencida(@)]
  PROVE  /\ x \in Execucao /\ Apoiada(x) /\ x.pc = exec[e].pc /\ x.tipo = exec[e].tipo
         /\ x.prox = exec[e].prox /\ x.alvo = exec[e].alvo /\ x.marcas = exec[e].marcas
         /\ x.motivo = exec[e].motivo /\ x.antiga = exec[e].antiga
         /\ x.foto = Vencida(exec[e].foto)
<1>1. exec[e] \in Execucao /\ Apoiada(exec[e]) /\ exec[e].foto \in Fotos
  BY DeUma DEF Execucao
<1>2. PICK f \in Fotos : f = Vencida(exec[e].foto)
  BY <1>1, VencidaLema
<1>3. FotoOK(f)
  BY <1>1, <1>2, VencidaLema DEF Apoiada
<1>4. x = [exec[e] EXCEPT !.foto = f]
  BY <1>2
<1>5. x \in Execucao /\ x.foto = f
  BY <1>1, <1>4 DEF Execucao
<1>6. /\ x.pc = exec[e].pc /\ x.tipo = exec[e].tipo /\ x.prox = exec[e].prox
      /\ x.alvo = exec[e].alvo /\ x.topo = exec[e].topo
  BY <1>1, <1>4 DEF Execucao
<1>7. x.marcas = exec[e].marcas /\ x.motivo = exec[e].motivo /\ x.antiga = exec[e].antiga
  BY <1>1, <1>4 DEF Execucao
<1>8. Apoiada(x)
  BY <1>1, <1>3, <1>5, <1>6, <1>7 DEF Apoiada, Revisto
<1>9. QED
  BY <1>2, <1>5, <1>6, <1>7, <1>8

LEMMA PassarHoraIInv == ASSUME IInv, PassarHora PROVE IInv'
<1>1. linha # Nenhum /\ linha \in Linhas /\ linha.foto \in Fotos /\ FotoOK(linha.foto)
  BY CopiaOK DEF PassarHora
<1>2. PICK f \in Fotos : f = Vencida(linha.foto)
  BY <1>1, VencidaLema
<1>3. f.consultado = linha.foto.consultado /\ FotoOK(f)
  BY <1>1, <1>2, VencidaLema
<1>4. linha' = [linha EXCEPT !.foto = f]
  BY <1>2 DEF PassarHora
<1>5. linha' \in Linhas /\ linha'.foto = f
  BY <1>1, <1>4 DEF Linhas
<1>6. /\ UNCHANGED <<base, salvos, publicados, antigos>> /\ desfeita' \in BOOLEAN
      /\ bloqueado' \in BOOLEAN /\ hora' \in {"livre", "137", "656"}
      /\ exec' = [e \in Execucoes |-> [exec[e] EXCEPT !.foto = Vencida(@)]]
  BY DEF PassarHora, sefaz
<1>7. ASSUME NEW e \in Execucoes
      PROVE  /\ exec'[e] \in Execucao /\ Apoiada(exec'[e])
             /\ exec'[e].pc = exec[e].pc /\ exec'[e].tipo = exec[e].tipo
  <2>1. PICK x : x = [exec[e] EXCEPT !.foto = Vencida(@)]
    OBVIOUS
  <2>2. exec'[e] = x
    BY <1>6, <2>1
  <2>3. x \in Execucao /\ Apoiada(x) /\ x.pc = exec[e].pc /\ x.tipo = exec[e].tipo
    BY <2>1, CopiaVencida
  <2>4. QED
    BY <2>2, <2>3
<1>8. exec' \in [Execucoes -> Execucao]
  <2>1. exec' = [e \in Execucoes |-> exec'[e]]
    BY <1>6
  <2>2. QED
    BY <1>7, <2>1
<1>9. Tipada'
  BY <1>5, <1>6, <1>8 DEF IInv, Tipada
<1>10. LinhaOK'
  <2>1. FotoOK(linha.foto)'
    BY <1>3, <1>5, <1>6 DEF FotoOK, Cobertos, MarcaOK, Revisto
  <2>2. QED
    BY <1>3, <1>5, <1>6, <2>1, NenhumNaoELinha DEF IInv, LinhaOK
<1>11. Cresce
  BY <1>5, <1>6, Numeros, NenhumNaoELinha DEF IInv, Cresce
<1>12. ASSUME NEW e \in Execucoes PROVE Confiavel(e)'
  <2>1. PICK x \in Execucao : x = exec'[e]
    BY <1>7
  <2>2. Apoiada(exec[e])'
    BY <1>7, <1>9, <1>11, <2>1, ApoiadaFica DEF IInv
  <2>3. QED
    BY <1>5, <1>7, <2>2, DeUma, NenhumNaoELinha DEF Confiavel
<1>13. QED
  BY <1>6, <1>7, <1>9, <1>10, <1>11, <1>12, PassoDeTodas

LEMMA PassarHoraDaSefazIInv == ASSUME IInv, PassarHoraDaSefaz PROVE IInv'
<1>1. UNCHANGED <<linha, base, salvos, publicados, antigos, exec>>
  BY DEF PassarHoraDaSefaz, sefaz
<1>2. Tipada'
  BY <1>1 DEF IInv, Tipada, PassarHoraDaSefaz
<1>3. Cresce
  BY <1>1, Numeros DEF IInv, Cresce
<1>4. QED
  BY <1>1, <1>2, <1>3, LinhaFica, PassoDeFora DEF IInv

LEMMA PassarHoraDaCopiaIInv ==
  ASSUME IInv, NEW e \in Execucoes, PassarHoraDaCopia(e)
  PROVE  IInv'
<1>1. /\ UNCHANGED <<linha, base, salvos, publicados, antigos>> /\ desfeita' \in BOOLEAN
      /\ bloqueado' \in BOOLEAN /\ hora' \in {"livre", "137", "656"}
  BY Parados DEF IInv, PassarHoraDaCopia, sefaz, ghosts
<1>2. PICK x : x = [exec[e] EXCEPT !.foto = Vencida(@)]
  OBVIOUS
<1>3. exec' = [exec EXCEPT ![e] = x]
  BY <1>2 DEF PassarHoraDaCopia, IInv, Tipada
<1>4. x \in Execucao /\ Apoiada(x) /\ x.pc = exec[e].pc /\ x.tipo = exec[e].tipo
  BY <1>2, CopiaVencida
<1>5. x.tipo \in TiposDe[e] \union {"nenhum"} /\ UnicaNoturna(e, x)
  BY <1>4, MesmoTipo
<1>6. (x.pc \notin SemLinha => linha # Nenhum) /\ (x.pc = "base" => base = 0)
  BY <1>4 DEF IInv, Confiavel, UmaNoturna
<1>7. QED
  BY <1>1, <1>3, <1>4, <1>5, <1>6, PassoSemLinha

LEMMA SefazIInv == ASSUME IInv, Publicar \/ Envelhecer PROVE IInv'
<1>1. UNCHANGED <<linha, base, salvos, bloqueado, exec, hora, desfeita>>
  BY DEF Publicar, Envelhecer, ghosts
<1>2. base \in Nat /\ publicados \in Nat /\ antigos \in Nat /\ antigos <= publicados
  BY Numeros DEF IInv, Tipada
<1>3. PICK p \in Nat, a \in Nat :
        /\ publicados' = p /\ antigos' = a /\ p \in Nsus /\ a <= p
        /\ publicados <= p /\ antigos <= a
  BY <1>2, ConstantesValidas DEF Publicar, Envelhecer, IInv, Tipada, Nsus
<1>4. salvos' \subseteq 1..p
  BY <1>1, <1>2, <1>3 DEF IInv, Tipada
<1>5. Tipada'
  <2>1. antigos' \in 0..publicados'
    BY <1>3
  <2>2. QED
    BY <1>1, <1>3, <1>4, <2>1 DEF IInv, Tipada
<1>6. Cresce
  BY <1>1, <1>2, <1>3 DEF Cresce
<1>7. QED
  BY <1>1, <1>5, <1>6, LinhaFica, PassoDeFora DEF IInv

-----------------------------------------------------------------------------
(* The invariant                                                           *)

LEMMA InitIInv == Init => IInv
<1> SUFFICES ASSUME Init PROVE IInv
  OBVIOUS
<1>1. Livre \in Execucao /\ Livre.tipo = "nenhum" /\ Livre.pc = "livre" /\ Vazia(Livre)
  BY LivreVazia DEF Vazia, Livre
<1>2. /\ linha = Nenhum /\ base = 0 /\ salvos = {} /\ publicados = 0 /\ antigos = 0
      /\ bloqueado = FALSE /\ hora = "livre" /\ desfeita = FALSE
      /\ exec = [e \in Execucoes |-> Livre]
  BY DEF Init
<1>3. Tipada
  <2>1. exec \in [Execucoes -> Execucao]
    BY <1>1, <1>2
  <2>2. base \in Nsus /\ publicados \in Nsus /\ salvos \subseteq 1..publicados /\ antigos \in 0..publicados
    BY <1>2, ConstantesValidas DEF Nsus
  <2>3. QED
    BY <1>2, <2>1, <2>2 DEF Tipada
<1>4. LinhaOK
  BY <1>2 DEF LinhaOK
<1>5. \A e \in Execucoes : Confiavel(e)
  BY <1>1, <1>2, <1>3, VaziaOK DEF Confiavel, SemLinha
<1>6. UmaNoturna
  BY <1>1, <1>2 DEF UmaNoturna
<1>7. QED
  BY <1>3, <1>4, <1>5, <1>6 DEF IInv

LEMMA PassoIInv == ASSUME IInv, NEW e \in Execucoes, Passo(e) PROVE IInv'
BY LerControlesIInv, ReativarIInv, CapturarBaseIInv, GravarBaseIInv, TomarIInv, ConsultaIInv,
   ReceberLoteIInv, PersistirDocumentoIInv, AvancarIInv, PausarIInv, PausarStatusIInv,
   ComecarPeriodoIInv, ProgressoIInv, ReservarConsultaIInv, ConsultarNsuIInv,
   GuardarDocumentoIInv, EncerrarIInv, EncerrarStatusIInv DEF Passo

LEMMA FalhaIInv == ASSUME IInv, Falha PROVE IInv'
BY ReiniciarIInv, CicloIInv, ConsultaIInv, FalharIInv, ConsumoIndevidoPontualIInv, InterromperIInv,
   ExcecaoIInv DEF Falha

LEMMA TempoIInv == ASSUME IInv, Tempo PROVE IInv'
BY PassarHoraIInv, PassarHoraDaSefazIInv, PassarHoraDaCopiaIInv, SefazIInv DEF Tempo

LEMMA NextIInv == IInv /\ [Next]_vars => IInv'
<1> SUFFICES ASSUME IInv, [Next]_vars PROVE IInv'
  OBVIOUS
<1>1. CASE Operador
  BY <1>1, IniciarSyncIInv, PausarSyncIInv DEF Operador
<1>2. CASE Falha
  BY <1>2, FalhaIInv
<1>3. CASE Tempo
  BY <1>3, TempoIInv
<1>4. CASE \E e \in Execucoes :
             Passo(e) \/ PedirPeriodo(e) \/ \E t \in TiposDe[e] : ComecarCiclo(e, t)
  BY <1>4, PassoIInv, PedirPeriodoIInv, ComecarCicloIInv
<1>5. CASE UNCHANGED vars
  <2>1. UNCHANGED <<linha, base, salvos, publicados, antigos, bloqueado, exec, hora, desfeita>>
    BY <1>5 DEF vars
  <2>2. Tipada'
    BY <2>1 DEF IInv, Tipada
  <2>3. Cresce
    BY <2>1, Numeros DEF IInv, Cresce
  <2>4. QED
    BY <2>1, <2>2, <2>3, LinhaFica, PassoDeFora DEF IInv
<1>6. QED
  BY <1>1, <1>2, <1>3, <1>4, <1>5 DEF Next

LEMMA SpecIInv == Spec => []IInv
BY InitIInv, NextIInv, PTL DEF Spec

-----------------------------------------------------------------------------
(* What follows from it                                                    *)

\* Every reachable state is well typed: no NSU is stored, copied or asked for that SEFAZ has
\* not published, whatever executions overlap.
THEOREM TipoCorreto == Spec => []TypeOK
<1>1. ASSUME IInv PROVE TypeOK
  <2>1. ASSUME NEW e \in Execucoes
        PROVE  /\ exec[e].pc \in Passos /\ exec[e].tipo \in TiposDe[e] \union {"nenhum"}
               /\ exec[e].foto \in Fotos /\ exec[e].prox \in 0..publicados + 1
               /\ exec[e].alvo \in 0..publicados /\ exec[e].vez \in 0..NsusPorVez
    <3>1. exec[e] \in Execucao /\ Apoiada(exec[e]) /\ exec[e].tipo \in TiposDe[e] \union {"nenhum"}
      BY <1>1, DeUma
    <3>2. exec[e].prox \in Nat /\ exec[e].alvo \in Nat /\ publicados \in Nat
      BY <1>1, <3>1, Numeros DEF IInv, Execucao, Nsus
    <3>3. exec[e].prox \in 0..publicados + 1 /\ exec[e].alvo \in 0..publicados
      BY <3>1, <3>2 DEF Apoiada
    <3>4. QED
      BY <3>1, <3>3 DEF Execucao
  <2>2. QED
    BY <1>1, <2>1 DEF IInv, Tipada, TypeOK
<1>2. QED
  BY <1>1, SpecIInv, PTL

\* The cursor of the row covers what is stored: nothing from the base to the NSU the row says was
\* consulted is missing, unless SEFAZ no longer had it, although each execution decides on a copy
\* of the row it read before it took the lock.
THEOREM CursorSempreCoberto == Spec => []CursorCoberto
<1>1. ASSUME IInv PROVE CursorCoberto
  BY <1>1 DEF IInv, LinhaOK, FotoOK, Cobertos, CursorCoberto
<1>2. QED
  BY <1>1, SpecIInv, PTL

\* A recovery never leaves a gap behind the mark it resumes from, nor behind the one the row keeps
\* while others rewrite it.
THEOREM RecuperacaoSempreSemLacuna == Spec => []RecuperacaoSemLacuna
<1>1. ASSUME IInv PROVE RecuperacaoSemLacuna
  BY <1>1 DEF IInv, LinhaOK, FotoOK, MarcaOK, Confiavel, Apoiada, Recuperacao, RecuperacaoSemLacuna
<1>2. QED
  BY <1>1, SpecIInv, PTL

-----------------------------------------------------------------------------
(* The wait SEFAZ asks for                                                 *)

\* The hour lasts, and nobody rewrote the row without having seen that it began.
Vigente == hora # "livre" /\ ~desfeita

\* A recovery that will write the wait again when it ends: its copy has that of a 137, or it
\* stopped before the end.
Lembra(e) ==
  /\ exec[e].pc \in Recuperacao \ {"fim_status"} /\ ~exec[e].antiga
  /\ \/ hora = "137" /\ exec[e].foto.motivo = "137" /\ exec[e].foto.recente
     \/ exec[e].pc = "fim" /\ exec[e].prox # 0

PorEscrever(e) ==
  \/ exec[e].pc = "pausar" /\ exec[e].motivo \in {"656", hora}
  \/ Lembra(e)

\* What the holder of the lock may be doing while the wait is in force.
Ciente(e) ==
  /\ exec[e].pc \in {"consultar", "persistir", "avancar"} => exec[e].antiga
  /\ exec[e].pc \in {"pausar", "status"} => exec[e].antiga \/ exec[e].motivo = hora
  /\ exec[e].pc \in Recuperacao \ {"marcar", "fim_status"} => ~exec[e].antiga
  /\ exec[e].pc \in Recuperacao \ {"fim_status"} /\ ~exec[e].antiga => Lembra(e)

JInv ==
  /\ \A e, o \in Execucoes : exec[e].pc \in ComPosse /\ exec[o].pc \in ComPosse => e = o
  /\ hora # "livre" => linha # Nenhum
  /\ Vigente => /\ NaLinha \/ \E e \in Execucoes : PorEscrever(e)
                /\ \A e \in Execucoes : Ciente(e)

Sozinha(e) == \A o \in Execucoes \ {e} : exec[o].pc \notin ComPosse

LEMMA EmPosse ==
  /\ Recuperacao \subseteq ComPosse
  /\ \A e : exec[e].pc \notin ComPosse => Ciente(e) /\ ~PorEscrever(e)
  /\ \A e : exec'[e].pc \notin ComPosse => Ciente(e)' /\ ~PorEscrever(e)'
BY DEF Recuperacao, ComPosse, Ciente, PorEscrever, Lembra

LEMMA DonaSozinha ==
  ASSUME JInv, NEW e \in Execucoes, exec[e].pc \in ComPosse \/ ~Ocupado
  PROVE  Sozinha(e)
BY DEF JInv, Sozinha, Ocupado

\* When the holder of the lock has nothing to write of the wait, the row says it.
LEMMA SoALinha ==
  ASSUME JInv, Vigente, NEW e \in Execucoes, Sozinha(e), ~PorEscrever(e)
  PROVE  NaLinha
BY EmPosse DEF JInv, Sozinha

\* A step of the one that holds the lock, takes it or leaves it.
LEMMA PassoDaDona ==
  ASSUME JInv, NEW e \in Execucoes, Sozinha(e), \A o \in Execucoes \ {e} : exec'[o] = exec[o],
         hora' # "livre" => linha' # Nenhum,
         Vigente' => (NaLinha \/ PorEscrever(e))' /\ Ciente(e)'
  PROVE  JInv'
<1>1. \A o \in Execucoes \ {e} : exec'[o].pc \notin ComPosse
  BY DEF Sozinha
<1>2. \A o \in Execucoes \ {e} : Ciente(o)'
  BY <1>1, EmPosse
<1>3. QED
  BY <1>1, <1>2 DEF JInv

\* A write by someone who had not seen the wait ends what is claimed of it.
LEMMA SemVigencia ==
  ASSUME \A e, o \in Execucoes : exec'[e].pc \in ComPosse /\ exec'[o].pc \in ComPosse => e = o,
         hora' # "livre" => linha' # Nenhum, hora' = "livre" \/ desfeita'
  PROVE  JInv'
BY DEF JInv, Vigente

\* A step of an execution that has no lock.
LEMMA PassoSemPosse ==
  ASSUME JInv, NEW e \in Execucoes, exec[e].pc \notin ComPosse, exec'[e].pc \notin ComPosse,
         \A o \in Execucoes \ {e} : exec'[o] = exec[o],
         UNCHANGED <<linha, hora, desfeita>>
  PROVE  JInv'
<1>1. \A o \in Execucoes : (Ciente(o) => Ciente(o)') /\ (PorEscrever(o) => PorEscrever(o)')
  <2>1. SUFFICES ASSUME NEW o \in Execucoes
                 PROVE  (Ciente(o) => Ciente(o)') /\ (PorEscrever(o) => PorEscrever(o)')
    OBVIOUS
  <2>2. CASE o = e
    BY <2>2, EmPosse
  <2>3. CASE o # e
    BY <2>3 DEF Ciente, PorEscrever, Lembra
  <2>4. QED
    BY <2>2, <2>3
<1>2. (Vigente' <=> Vigente) /\ (NaLinha' <=> NaLinha)
  BY DEF Vigente, NaLinha
<1>3. QED
  BY <1>1, <1>2 DEF JInv

\* Neither the row, nor the wait, nor an execution.
LEMMA NadaMuda ==
  ASSUME JInv, UNCHANGED <<linha, hora, desfeita, exec>>
  PROVE  JInv'
<1>1. \A o \in Execucoes : (Ciente(o) <=> Ciente(o)') /\ (PorEscrever(o) <=> PorEscrever(o)')
  BY DEF Ciente, PorEscrever, Lembra
<1>2. (Vigente' <=> Vigente) /\ (NaLinha' <=> NaLinha)
  BY DEF Vigente, NaLinha
<1>3. QED
  BY <1>1, <1>2 DEF JInv

\* What the step of one execution leaves of the others.
LEMMA Outras ==
  ASSUME IInv, NEW e \in Execucoes, NEW x, exec' = [exec EXCEPT ![e] = x]
  PROVE  exec'[e] = x /\ \A o \in Execucoes \ {e} : exec'[o] = exec[o]
BY DEF IInv, Tipada

LEMMA OperadorJInv == ASSUME IInv, JInv, Operador PROVE JInv'
<1>1. exec' = exec /\ \A e, o \in Execucoes : exec[e].pc \in ComPosse /\ exec[o].pc \in ComPosse => e = o
  BY DEF Operador, IniciarSync, PausarSync, JInv
<1>2. CASE linha = Nenhum
  <2>1. hora = "livre" /\ hora' = hora
    BY <1>2 DEF JInv, Operador, IniciarSync, PausarSync, Grava
  <2>2. QED
    BY <1>1, <2>1, SemVigencia
<1>3. CASE linha # Nenhum
  <2>1. PICK s \in {"ativo", "pausado"} : Grava([Texto(linha, "neutra", Nenhum) EXCEPT !.status = s], TRUE)
    BY <1>3 DEF Operador, IniciarSync, PausarSync
  <2>2. hora' = "livre" \/ desfeita'
    BY <2>1 DEF Grava
  <2>3. PICK t : t = Texto(linha, "neutra", Nenhum)
    OBVIOUS
  <2>4. t \in Linhas
    BY <1>3, <2>3, CopiaOK, TextoLema, NeutraTipo
  <2>5. linha' = [t EXCEPT !.status = s]
    BY <2>1, <2>3 DEF Grava
  <2>6. linha' \in Linhas
    BY <2>4, <2>5 DEF Linhas
  <2>7. QED
    BY <1>1, <2>2, <2>6, NenhumNaoELinha, SemVigencia
<1>4. QED
  BY <1>2, <1>3

\* A step that ends before the lock is taken, or after it was left, and goes on without one.
LEMMA SaiOuContinua ==
  ASSUME IInv, JInv, NEW e \in Execucoes, NEW x, exec' = [exec EXCEPT ![e] = x],
         x.pc \notin ComPosse, exec[e].pc \notin ComPosse, UNCHANGED <<linha, hora, desfeita>>
  PROVE  JInv'
BY Outras, PassoSemPosse

LEMMA SegueForaDaPosse ==
  ASSUME NEW x \in Execucao
  PROVE  Segue(x).pc \notin ComPosse /\ Livre.pc \notin ComPosse
<1>1. Segue(x).pc \in {"livre", "controles", "ativar"} /\ Livre.pc = "livre"
  BY SegueVazia DEF Vazia, Livre
<1>2. QED
  BY <1>1 DEF ComPosse

LEMMA PassaJInv ==
  ASSUME IInv, JInv, NEW e \in Execucoes, Passa(e) \/ Termina(e), exec[e].pc \notin ComPosse,
         UNCHANGED <<linha, hora, desfeita>>
  PROVE  JInv'
<1>1. exec[e] \in Execucao
  BY DeUma
<1>2. PICK x : exec' = [exec EXCEPT ![e] = x] /\ x \in {Segue(exec[e]), Livre}
  BY DEF Passa, Termina
<1>3. x.pc \notin ComPosse
  BY <1>1, <1>2, SegueForaDaPosse
<1>4. QED
  BY <1>2, <1>3, SaiOuContinua

LEMMA ComecarJInv ==
  ASSUME IInv, JInv, NEW e \in Execucoes, NEW t, ComecarCiclo(e, t) \/ PedirPeriodo(e)
  PROVE  JInv'
<1>1. exec[e].pc \notin ComPosse /\ UNCHANGED <<linha, hora, desfeita>>
  BY DEF ComecarCiclo, PedirPeriodo, ghosts, Livre, ComPosse
<1>2. exec'[e].pc \notin ComPosse /\ \A o \in Execucoes \ {e} : exec'[o] = exec[o]
  <2>1. CASE ComecarCiclo(e, t)
    <3>1. t \in Tipos
      BY <2>1 DEF ComecarCiclo, Tipos
    <3>2. CASE Lida /\ linha.foto.marca # Nenhum
      <4>1. PICK f \in Fotos : f = linha.foto
        BY <3>2, CopiaOK DEF Lida
      <4>2. PICK x : x = Retoma(t, f)
        OBVIOUS
      <4>3. exec' = [exec EXCEPT ![e] = x]
        BY <2>1, <3>2, <4>1, <4>2 DEF ComecarCiclo, Retoma
      <4>4. x.pc = "retomar"
        BY <3>1, <4>2, RetomaTipo
      <4>5. QED
        BY <4>3, <4>4, Outras DEF ComPosse
    <3>3. CASE ~(Lida /\ linha.foto.marca # Nenhum)
      <4>1. PICK y : y = [Livre EXCEPT !.tipo = t]
        OBVIOUS
      <4>2. y \in Execucao
        BY <3>1, <4>1, LivreVazia DEF Vazia, Execucao
      <4>3. PICK x : x = Segue(y)
        OBVIOUS
      <4>4. exec' = [exec EXCEPT ![e] = x]
        BY <2>1, <3>3, <4>1, <4>3 DEF ComecarCiclo
      <4>5. x.pc \notin ComPosse
        BY <4>2, <4>3, SegueForaDaPosse
      <4>6. QED
        BY <4>4, <4>5, Outras
    <3>4. QED
      BY <3>2, <3>3
  <2>2. CASE PedirPeriodo(e)
    <3>1. PICK f \in Fotos : f = linha.foto
      BY <2>2, CopiaOK DEF PedirPeriodo, Lida
    <3>2. PICK x : x = Retoma("periodo", f)
      OBVIOUS
    <3>3. exec' = [exec EXCEPT ![e] = x]
      BY <2>2, <3>1, <3>2 DEF PedirPeriodo, Retoma
    <3>4. x.pc = "retomar"
      BY <3>2, RetomaTipo DEF Tipos
    <3>5. QED
      BY <3>3, <3>4, Outras DEF ComPosse
  <2>3. QED
    BY <2>1, <2>2
<1>3. QED
  BY <1>1, <1>2, PassoSemPosse

LEMMA CicloJInv ==
  ASSUME IInv, JInv, NEW e \in Execucoes,
         OutraRetomada(e) \/ LerControles(e) \/ CapturarBase(e) \/ FalharBase(e)
  PROVE  JInv'
<1>1. exec[e].pc \notin ComPosse /\ UNCHANGED <<linha, hora, desfeita>> /\ exec[e] \in Execucao
  BY DeUma DEF OutraRetomada, LerControles, CapturarBase, FalharBase, ghosts, ComPosse
<1>2. CASE Passa(e) \/ Termina(e)
  BY <1>1, <1>2, PassaJInv
<1>3. CASE ~(Passa(e) \/ Termina(e))
  <2>1. PICK x : exec' = [exec EXCEPT ![e] = x] /\ x.pc \in {"fila", "base"}
    <3>1. CASE LerControles(e)
      <4>1. PICK f : f = linha.foto
        OBVIOUS
      <4>2. PICK x : x = [exec[e] EXCEPT !.pc = "fila", !.foto = f]
        OBVIOUS
      <4>3. exec' = [exec EXCEPT ![e].pc = "fila", ![e].foto = f]
        BY <1>3, <3>1, <4>1 DEF LerControles
      <4>4. exec' = [exec EXCEPT ![e] = x] /\ x.pc = "fila"
        BY <1>1, <4>2, <4>3 DEF IInv, Tipada, Execucao
      <4>5. QED
        BY <4>4
    <3>2. CASE CapturarBase(e)
      <4>1. PICK n : n = IF linha = Nenhum THEN 0 ELSE 1
        OBVIOUS
      <4>2. PICK x : x = [exec[e] EXCEPT !.pc = "base", !.alvo = publicados, !.topo = n]
        OBVIOUS
      <4>3. exec' = [exec EXCEPT ![e].pc = "base", ![e].alvo = publicados, ![e].topo = n]
        BY <1>3, <3>2, <4>1 DEF CapturarBase
      <4>4. exec' = [exec EXCEPT ![e] = x] /\ x.pc = "base"
        BY <1>1, <4>2, <4>3 DEF IInv, Tipada, Execucao
      <4>5. QED
        BY <4>4
    <3>3. QED
      BY <1>3, <3>1, <3>2 DEF OutraRetomada, FalharBase
  <2>2. x.pc \notin ComPosse
    BY <2>1 DEF ComPosse
  <2>3. QED
    BY <1>1, <2>1, <2>2, SaiOuContinua
<1>4. QED
  BY <1>2, <1>3

\* ativarSyncNoNsuAtual replaces the text without a look at it.
LEMMA AtivarJInv ==
  ASSUME IInv, IInv', JInv, NEW e \in Execucoes, Reativar(e) \/ GravarBase(e)
  PROVE  JInv'
<1>1. exec[e].pc \notin ComPosse /\ Passa(e) /\ exec[e] \in Execucao
  BY DeUma DEF Reativar, GravarBase, ComPosse
<1>2. CASE UNCHANGED <<linha, hora, desfeita>>
  BY <1>1, <1>2, PassaJInv
<1>3. CASE ~UNCHANGED <<linha, hora, desfeita>>
  <2>1. PICK l : Grava(l, TRUE)
    BY <1>3 DEF Reativar, GravarBase, ghosts
  <2>2. hora' = "livre" \/ desfeita'
    BY <2>1 DEF Grava
  <2>3. hora' = hora
    BY <2>1 DEF Grava
  <2>4. linha # Nenhum => linha' # Nenhum
    <3>1. CASE Reativar(e)
      <4>1. PICK t : t = Texto(linha, "neutra", Nenhum)
        OBVIOUS
      <4>2. linha # Nenhum
        BY <3>1 DEF Reativar, SemBase
      <4>3. t \in Linhas
        BY <4>1, <4>2, CopiaOK, TextoLema, NeutraTipo
      <4>4. linha' = [t EXCEPT !.status = "ativo"]
        BY <3>1, <4>1 DEF Reativar, Grava
      <4>5. linha' \in Linhas
        BY <4>3, <4>4 DEF Linhas
      <4>6. QED
        BY <4>5, NenhumNaoELinha
    <3>2. CASE GravarBase(e)
      <4>1. exec[e].pc = "base" /\ base' = exec[e].alvo
        BY <1>3, <3>2 DEF GravarBase, ghosts
      <4>2. exec[e].alvo >= 1 /\ exec[e].alvo \in Nat
        BY <1>1, <4>1, DeUma DEF Apoiada, Execucao, Nsus
      <4>3. base' # 0
        BY <4>1, <4>2
      <4>4. QED
        BY <4>3 DEF IInv, LinhaOK
    <3>3. QED
      BY <3>1, <3>2
  <2>5. exec'[e].pc \notin ComPosse /\ \A o \in Execucoes \ {e} : exec'[o] = exec[o]
    <3>1. PICK x : x = Segue(exec[e])
      OBVIOUS
    <3>2. exec' = [exec EXCEPT ![e] = x] /\ x.pc \notin ComPosse
      BY <1>1, <3>1, SegueForaDaPosse DEF Passa
    <3>3. QED
      BY <3>2, Outras
  <2>6. \A o, u \in Execucoes : exec'[o].pc \in ComPosse /\ exec'[u].pc \in ComPosse => o = u
    BY <2>5 DEF JInv
  <2>7. QED
    BY <2>2, <2>3, <2>4, <2>6, SemVigencia DEF JInv
<1>4. QED
  BY <1>2, <1>3

LEMMA TomarJInv ==
  ASSUME IInv, JInv, NEW e \in Execucoes, Tomar(e)
  PROVE  JInv'
<1>1. exec[e].pc \notin ComPosse /\ UNCHANGED <<linha, hora, desfeita>> /\ exec[e] \in Execucao
  BY DeUma DEF Tomar, ghosts, ComPosse
<1>2. CASE Liberada(exec[e].foto) /\ ~Ocupado
  <2>1. PICK a \in BOOLEAN : a = Antiga(e)
    BY AntigaTipo
  <2>2. PICK f : f = [SemFoto EXCEPT !.consultado = exec[e].foto.consultado]
    OBVIOUS
  <2>3. PICK x : x = [exec[e] EXCEPT !.pc = "consultar", !.antiga = a, !.foto = f]
    OBVIOUS
  <2>4. exec' = [exec EXCEPT ![e] = x]
    BY <1>2, <2>1, <2>2, <2>3 DEF Tomar, IInv, Tipada
  <2>5. x.pc = "consultar" /\ x.antiga = a
    BY <1>1, <2>3 DEF Execucao
  <2>6. exec'[e] = x /\ \A o \in Execucoes \ {e} : exec'[o] = exec[o]
    BY <2>4, Outras
  <2>7. Sozinha(e)
    BY <1>2, DonaSozinha
  <2>8. ASSUME Vigente'
        PROVE  NaLinha' /\ Ciente(e)'
    <3>1. Vigente
      BY <1>1, <2>8 DEF Vigente
    <3>2. NaLinha
      BY <1>1, <2>7, <3>1, EmPosse, SoALinha
    <3>3. exec[e].foto # linha.foto
      BY <1>2, <3>2 DEF NaLinha, Liberada, Suspensa
    <3>4. Antiga(e)
      BY <3>1, <3>3 DEF Antiga, Vigente
    <3>5. exec'[e].pc = "consultar" /\ exec'[e].antiga
      BY <2>1, <2>5, <2>6, <3>4
    <3>6. Ciente(e)'
      BY <3>5 DEF Ciente, Recuperacao
    <3>7. NaLinha'
      BY <1>1, <3>2 DEF NaLinha
    <3>8. QED
      BY <3>6, <3>7
  <2>9. QED
    BY <1>1, <2>6, <2>7, <2>8, PassoDaDona DEF JInv
<1>3. CASE ~(Liberada(exec[e].foto) /\ ~Ocupado)
  BY <1>1, <1>3, PassaJInv DEF Tomar
<1>4. QED
  BY <1>2, <1>3

\* The fields of an execution at the start of a wait.
LEMMA EsperaJInv ==
  ASSUME IInv, JInv, NEW e \in Execucoes,
         SemDocumentos(e) \/ ConsumoIndevido(e) \/ ConsumoIndevidoPontual(e)
  PROVE  JInv'
<1>1. /\ exec[e].pc \in {"consultar", "enviada"} /\ exec[e].pc \in ComPosse
      /\ exec[e].pc \notin SemLinha
  BY DEF SemDocumentos, ConsumoIndevido, ConsumoIndevidoPontual, ComPosse, SemLinha
<1>2. PICK m \in {"137", "656"} :
        (\E s : Espera(e, m, s) /\ s \in Seq(Marcas)) /\ (m = "137" => exec[e].pc = "consultar")
  <2>1. <<Nenhum>> \in Seq(Marcas)
    BY MarcaSo
  <2>2. CASE SemDocumentos(e)
    BY <1>1, <2>1, <2>2 DEF SemDocumentos
  <2>3. CASE ConsumoIndevido(e)
    BY <2>1, <2>3 DEF ConsumoIndevido
  <2>4. CASE ConsumoIndevidoPontual(e)
    <3>1. exec[e].pc \in Recuperacao
      BY <2>4 DEF ConsumoIndevidoPontual, Recuperacao
    <3>2. PICK k : k = Marca(exec[e])
      OBVIOUS
    <3>3. k \in Marcas
      BY <3>1, <3>2, MarcaLema
    <3>4. <<Nenhum, k>> \in Seq(Marcas)
      BY <3>3, MarcaSo
    <3>5. QED
      BY <2>4, <3>2, <3>4 DEF ConsumoIndevidoPontual
  <2>5. QED
    BY <2>2, <2>3, <2>4
<1>2a. PICK s : Espera(e, m, s) /\ s \in Seq(Marcas)
  BY <1>2
<1>3. PICK a \in BOOLEAN :
        /\ exec' = [exec EXCEPT ![e] = Esperando(exec[e], m, s, a)]
        /\ hora = "656" /\ m = "137" => a = exec[e].antiga
  BY <1>2a, PedidoDeEspera
<1>3a. /\ exec'[e].pc = "pausar" /\ exec'[e].motivo = m /\ exec'[e].antiga = a
       /\ \A o \in Execucoes \ {e} : exec'[o] = exec[o]
  <2>1. m \in Motivos
    BY DEF Motivos
  <2>2. PICK x : x = Esperando(exec[e], m, s, a)
    OBVIOUS
  <2>3. x.pc = "pausar" /\ x.motivo = m /\ x.antiga = a
    BY <1>2a, <2>1, <2>2, EsperaRegistro
  <2>4. QED
    BY <1>3, <2>2, <2>3, Outras
<1>3b. /\ linha' = linha
       /\ hora = "656" /\ m = "137" => hora' = hora /\ desfeita' = desfeita
       /\ ~(hora = "656" /\ m = "137") => hora' = m
  BY <1>2a, Parados DEF Espera, IInv, Tipada
<1>4. linha' # Nenhum /\ Sozinha(e)
  BY <1>1, <1>3b, TemLinha, DonaSozinha
<1>5. ASSUME Vigente'
      PROVE  (NaLinha \/ PorEscrever(e))' /\ Ciente(e)'
  <2>1. CASE m = hora'
    <3>1. PorEscrever(e)' /\ Ciente(e)'
      BY <1>3a, <2>1 DEF PorEscrever, Ciente, Recuperacao
    <3>2. QED
      BY <3>1
  <2>2. CASE m # hora'
    <3>1. hora = "656" /\ hora' = hora /\ desfeita' = desfeita /\ m = "137" /\ exec[e].pc = "consultar"
      BY <1>2, <1>3b, <2>2
    <3>2. Vigente
      BY <1>5, <3>1 DEF Vigente
    <3>3. exec[e].antiga /\ exec'[e].antiga
      BY <1>3, <1>3a, <3>1, <3>2 DEF JInv, Ciente
    <3>4. ~PorEscrever(e)
      BY <3>1 DEF PorEscrever, Lembra, Recuperacao
    <3>5. NaLinha
      BY <1>4, <3>2, <3>4, SoALinha
    <3>6. NaLinha' /\ Ciente(e)'
      BY <1>3a, <1>3b, <3>1, <3>3, <3>5 DEF NaLinha, Ciente, Recuperacao
    <3>7. QED
      BY <3>6
  <2>3. QED
    BY <2>1, <2>2
<1>6. QED
  BY <1>3a, <1>4, <1>5, PassoDaDona

\* A step of the holder that leaves the row and the wait alone, and has none of it to write.
LEMMA SegueCiente ==
  ASSUME IInv, JInv, NEW e \in Execucoes, exec[e].pc \in ComPosse,
         \A o \in Execucoes \ {e} : exec'[o] = exec[o],
         linha # Nenhum => linha' # Nenhum, hora' = hora, desfeita' = desfeita,
         Vigente => NaLinha' = NaLinha /\ ~PorEscrever(e) /\ Ciente(e)'
  PROVE  JInv'
<1>1. Sozinha(e)
  BY DonaSozinha
<1>2. ASSUME Vigente' PROVE NaLinha' /\ Ciente(e)'
  <2>1. Vigente
    BY <1>2 DEF Vigente
  <2>2. QED
    BY <1>1, <2>1, SoALinha
<1>3. QED
  BY <1>1, <1>2, PassoDaDona DEF JInv

LEMMA SemAvancoJInv ==
  ASSUME IInv, JInv, NEW e \in Execucoes, SemAvanco(e)
  PROVE  JInv'
<1>1. exec[e].pc = "consultar" /\ exec[e].pc \in ComPosse /\ UNCHANGED <<linha, hora, desfeita>>
  BY DEF SemAvanco, ComPosse, ghosts
<1>2. /\ exec'[e].pc = "pausar" /\ exec'[e].antiga = exec[e].antiga
      /\ \A o \in Execucoes \ {e} : exec'[o] = exec[o]
  <2>1. PICK x : x = [exec[e] EXCEPT !.pc = "pausar", !.foto = SemFoto, !.motivo = "sem_avanco",
                                     !.marcas = <<Nenhum>>]
    OBVIOUS
  <2>2. exec' = [exec EXCEPT ![e] = x] /\ exec[e] \in Execucao
    BY <2>1, DeUma DEF SemAvanco, IInv, Tipada
  <2>3. x.pc = "pausar" /\ x.antiga = exec[e].antiga
    BY <2>1, <2>2 DEF Execucao
  <2>4. QED
    BY <2>2, <2>3, Outras
<1>3. ASSUME Vigente PROVE NaLinha' = NaLinha /\ ~PorEscrever(e) /\ Ciente(e)'
  <2>1. exec[e].antiga
    BY <1>1, <1>3 DEF JInv, Ciente
  <2>2. QED
    BY <1>1, <1>2, <2>1 DEF NaLinha, PorEscrever, Lembra, Ciente, Recuperacao
<1>4. QED
  BY <1>1, <1>2, <1>3, SegueCiente

LEMMA LoteJInv ==
  ASSUME IInv, JInv, NEW e \in Execucoes, ReceberLote(e) \/ PersistirDocumento(e)
  PROVE  JInv'
<1>1. /\ exec[e].pc \in {"consultar", "persistir"} /\ exec[e].pc \in ComPosse
      /\ UNCHANGED <<linha, hora, desfeita>> /\ exec[e] \in Execucao
  BY DeUma DEF ReceberLote, PersistirDocumento, ComPosse, ghosts
<1>2. PICK x : /\ exec' = [exec EXCEPT ![e] = x]
               /\ x.pc \in {"persistir", "avancar"} /\ x.antiga = exec[e].antiga
  <2>1. CASE ReceberLote(e)
    <3>1. PICK p, a : p = Maior(exec[e].foto.consultado, antigos) + 1
                      /\ a = Menor(Maior(exec[e].foto.consultado, antigos) + Lote, publicados)
      OBVIOUS
    <3>2. PICK x : x = [exec[e] EXCEPT !.pc = "persistir", !.prox = p, !.foto = SemFoto,
                                       !.alvo = a, !.topo = publicados]
      OBVIOUS
    <3>3. exec' = [exec EXCEPT ![e] = x] /\ x.pc = "persistir" /\ x.antiga = exec[e].antiga
      BY <1>1, <2>1, <3>1, <3>2 DEF ReceberLote, IInv, Tipada, Execucao
    <3>4. QED
      BY <3>3
  <2>2. CASE PersistirDocumento(e)
    <3>1. PICK passo : passo = AposDocumento(exec[e])
      OBVIOUS
    <3>2. PICK p : p = exec[e].prox + 1
      OBVIOUS
    <3>3. PICK x : x = [exec[e] EXCEPT !.prox = p, !.pc = passo]
      OBVIOUS
    <3>4. exec' = [exec EXCEPT ![e] = x]
      BY <2>2, <3>1, <3>2, <3>3 DEF PersistirDocumento, IInv, Tipada
    <3>5. x.pc = passo /\ x.antiga = exec[e].antiga /\ passo \in {"persistir", "avancar"}
      BY <1>1, <3>1, <3>3 DEF AposDocumento, Execucao
    <3>6. QED
      BY <3>4, <3>5
  <2>3. QED
    BY <2>1, <2>2
<1>3. exec'[e] = x /\ \A o \in Execucoes \ {e} : exec'[o] = exec[o]
  BY <1>2, Outras
<1>4. ASSUME Vigente PROVE NaLinha' = NaLinha /\ ~PorEscrever(e) /\ Ciente(e)'
  <2>1. exec[e].antiga
    BY <1>1, <1>4 DEF JInv, Ciente
  <2>2. QED
    BY <1>1, <1>2, <1>3, <2>1 DEF NaLinha, PorEscrever, Lembra, Ciente, Recuperacao
<1>5. QED
  BY <1>1, <1>3, <1>4, SegueCiente

\* A write that leaves the wait in force was made by one that had seen it.
LEMMA GravaCiente ==
  ASSUME NEW l, NEW a \in BOOLEAN, Grava(l, a), Vigente'
  PROVE  Vigente /\ ~a /\ hora' = hora /\ linha' = l
BY DEF Grava, Vigente

LEMMA NaPosse ==
  ASSUME IInv, JInv, NEW e \in Execucoes, exec[e].pc \in ComPosse
  PROVE  /\ exec[e] \in Execucao /\ Apoiada(exec[e]) /\ exec[e].antiga \in BOOLEAN
         /\ linha # Nenhum /\ linha \in Linhas /\ Sozinha(e)
<1>1. exec[e].pc \notin SemLinha
  BY DEF ComPosse, SemLinha
<1>2. QED
  BY <1>1, DeUma, TemLinha, DonaSozinha DEF Execucao

\* The holder leaves with a row that says nothing of the wait.
LEMMA DeixaJInv ==
  ASSUME IInv, JInv, NEW e \in Execucoes, exec[e].pc \in ComPosse, Termina(e),
         linha' # Nenhum, ~Vigente'
  PROVE  JInv'
<1>1. \A o \in Execucoes \ {e} : exec'[o] = exec[o]
  BY Outras DEF Termina
<1>2. QED
  BY <1>1, NaPosse, PassoDaDona

LEMMA AvancarJInv ==
  ASSUME IInv, JInv, NEW e \in Execucoes, Avancar(e)
  PROVE  JInv'
<1>1. exec[e].pc = "avancar" /\ exec[e].pc \in ComPosse /\ Termina(e)
  BY DEF Avancar, ComPosse
<1>2. exec[e] \in Execucao /\ linha \in Linhas
  BY <1>1, NaPosse
<1>3. PICK t : t = Texto(linha, "neutra", Nenhum)
  OBVIOUS
<1>4. PICK l \in Linhas : l = Agora(t)
  BY <1>2, <1>3, TextoLema, AgoraLema, NeutraTipo
<1>5. PICK k, u : k = exec[e].alvo /\ u = exec[e].topo /\ k \in Nsus /\ u \in Nsus
  BY <1>2 DEF Execucao
<1>6. PICK nova : nova = [l EXCEPT !.status = "ativo", !.foto.consultado = k, !.foto.maximo = u]
  OBVIOUS
<1>7. nova \in Linhas
  BY <1>5, <1>6 DEF Linhas, Fotos
<1>8. PICK a \in BOOLEAN : a = exec[e].antiga
  BY <1>2 DEF Execucao
<1>9. Grava(nova, a)
  BY <1>3, <1>4, <1>5, <1>6, <1>8 DEF Avancar, Cursor
<1>10. linha' # Nenhum
  BY <1>7, <1>9, NenhumNaoELinha DEF Grava
<1>11. ~Vigente'
  BY <1>1, <1>8, <1>9, GravaCiente DEF JInv, Ciente
<1>12. QED
  BY <1>1, <1>10, <1>11, DeixaJInv

LEMMA FalharJInv ==
  ASSUME IInv, JInv, NEW e \in Execucoes, Falhar(e)
  PROVE  JInv'
<1>1. /\ exec[e].pc \in {"consultar", "persistir", "avancar", "pausar", "status"}
      /\ exec[e].pc \in ComPosse /\ Termina(e)
  BY DEF Falhar, ComPosse
<1>2. exec[e] \in Execucao /\ linha \in Linhas
  BY <1>1, NaPosse
<1>3. PICK t : t = Texto(linha, "neutra", Nenhum)
  OBVIOUS
<1>4. PICK l \in Linhas : l = Agora(t)
  BY <1>2, <1>3, TextoLema, AgoraLema, NeutraTipo
<1>5. PICK nova : nova = [l EXCEPT !.status = "ativo"]
  OBVIOUS
<1>6. nova \in Linhas
  BY <1>5, StatusLema
<1>7. PICK a \in BOOLEAN : a = (exec[e].antiga \/ exec[e].pc \in {"pausar", "status"})
  OBVIOUS
<1>8. Grava(nova, a)
  BY <1>3, <1>4, <1>5, <1>7 DEF Falhar
<1>9. linha' # Nenhum
  BY <1>6, <1>8, NenhumNaoELinha DEF Grava
<1>10. ~Vigente'
  BY <1>1, <1>7, <1>8, GravaCiente DEF JInv, Ciente
<1>11. QED
  BY <1>1, <1>9, <1>10, DeixaJInv

LEMMA PausarJInv ==
  ASSUME IInv, JInv, NEW e \in Execucoes, Pausar(e)
  PROVE  JInv'
<1>1. exec[e].pc = "pausar" /\ exec[e].pc \in ComPosse
  BY DEF Pausar, ComPosse
<1>2. exec[e] \in Execucao /\ Apoiada(exec[e]) /\ linha \in Linhas /\ Sozinha(e)
  BY <1>1, NaPosse
<1>3. PICK m, k : m = exec[e].motivo /\ k = Head(exec[e].marcas)
  OBVIOUS
<1>4. m \in Motivos /\ k \in Marcas
  BY <1>1, <1>2, <1>3, CabecaCauda DEF Apoiada, IInv
<1>5. PICK t : t = Texto(linha, m, k)
  OBVIOUS
<1>6. PICK a \in BOOLEAN : a = exec[e].antiga
  BY <1>2 DEF Execucao
<1>7. Grava(Agora(t), a)
  BY <1>3, <1>5, <1>6 DEF Pausar
<1>8. linha' \in Linhas /\ linha'.foto.recente /\ linha'.foto.motivo = m
  <2>1. t \in Linhas /\ t.foto.motivo = m
    BY <1>2, <1>4, <1>5, TextoLema
  <2>2. QED
    BY <1>7, <2>1, AgoraLema DEF Grava
<1>9. PICK x : x = [exec[e] EXCEPT !.pc = "status"]
  OBVIOUS
<1>10. exec' = [exec EXCEPT ![e] = x] /\ x.pc = "status" /\ x.motivo = m /\ x.antiga = a
  <2>1. "status" \in Passos /\ Vai(e, "status")
    BY DEF Passos, ComPosse, Pausar
  <2>2. QED
    BY <1>3, <1>6, <1>9, <2>1, SoPasso
<1>11. exec'[e] = x /\ \A o \in Execucoes \ {e} : exec'[o] = exec[o]
  BY <1>10, Outras
<1>12. ASSUME Vigente' PROVE (NaLinha \/ PorEscrever(e))' /\ Ciente(e)'
  <2>1. Vigente /\ ~a /\ hora' = hora
    BY <1>7, <1>12, GravaCiente
  <2>2. m = hora /\ hora \in {"137", "656"}
    BY <1>1, <1>3, <1>6, <2>1 DEF JInv, Ciente, Vigente, IInv, Tipada
  <2>3. NaLinha'
    BY <1>8, <2>1, <2>2 DEF NaLinha, Suspensa
  <2>4. Ciente(e)'
    BY <1>10, <1>11, <2>1, <2>2 DEF Ciente, Recuperacao
  <2>5. QED
    BY <2>3, <2>4
<1>13. QED
  BY <1>2, <1>8, <1>11, <1>12, NenhumNaoELinha, PassoDaDona

\* The status alone: what the row says of the wait stays.
LEMMA StatusJInv ==
  ASSUME IInv, JInv, NEW e \in Execucoes, PausarStatus(e) \/ EncerrarStatus(e)
  PROVE  JInv'
<1>1. /\ exec[e].pc \in {"status", "fim_status"} /\ exec[e].pc \in ComPosse
      /\ hora' = hora /\ desfeita' = desfeita
  BY DEF PausarStatus, EncerrarStatus, ghosts, ComPosse
<1>2. exec[e] \in Execucao /\ Apoiada(exec[e]) /\ linha # Nenhum
  BY <1>1, NaPosse
<1>3. linha' \in Linhas /\ linha'.foto = linha.foto
  BY <1>2, SoStatus DEF PausarStatus, EncerrarStatus
<1>4. PICK x : /\ exec' = [exec EXCEPT ![e] = x]
               /\ \/ x = Livre
                  \/ /\ exec[e].pc = "status" /\ x.pc = "pausar"
                     /\ x.motivo = exec[e].motivo /\ x.antiga = exec[e].antiga
  <2>1. CASE Termina(e)
    BY <2>1 DEF Termina
  <2>2. CASE ~Termina(e)
    <3>1. PICK s : s = Tail(exec[e].marcas)
      OBVIOUS
    <3>2. PICK x : x = [exec[e] EXCEPT !.pc = "pausar", !.marcas = s]
      OBVIOUS
    <3>3. exec[e].pc = "status" /\ exec' = [exec EXCEPT ![e] = x]
      BY <2>2, <3>1, <3>2 DEF PausarStatus, EncerrarStatus, IInv, Tipada
    <3>4. x.pc = "pausar" /\ x.motivo = exec[e].motivo /\ x.antiga = exec[e].antiga
      BY <1>2, <3>2 DEF Execucao
    <3>5. QED
      BY <3>3, <3>4
  <2>3. QED
    BY <2>1, <2>2
<1>5. exec'[e] = x /\ \A o \in Execucoes \ {e} : exec'[o] = exec[o]
  BY <1>4, Outras
<1>6. ASSUME Vigente PROVE NaLinha' = NaLinha /\ ~PorEscrever(e) /\ Ciente(e)'
  <2>1. NaLinha' = NaLinha
    BY <1>1, <1>3 DEF NaLinha
  <2>2. ~PorEscrever(e)
    BY <1>1 DEF PorEscrever, Lembra, Recuperacao
  <2>3. CASE x = Livre
    <3>1. exec'[e].pc \notin ComPosse
      BY <1>5, <2>3 DEF Livre, ComPosse
    <3>2. QED
      BY <2>1, <2>2, <3>1, EmPosse
  <2>4. CASE x # Livre
    <3>1. exec[e].antiga \/ exec[e].motivo = hora
      BY <1>4, <1>6, <2>4 DEF JInv, Ciente
    <3>2. Ciente(e)'
      BY <1>1, <1>4, <1>5, <2>4, <3>1 DEF Ciente, Recuperacao
    <3>3. QED
      BY <2>1, <2>2, <3>2
  <2>5. QED
    BY <2>3, <2>4
<1>7. QED
  BY <1>1, <1>3, <1>5, <1>6, NenhumNaoELinha, SegueCiente

\* Of a wait in force a recovery, once it has its mark, knows what it will write.
LEMMA RecuperandoCiente ==
  ASSUME JInv, Vigente, NEW e \in Execucoes, exec[e].pc \in Recuperacao \ {"fim_status"},
         exec[e].pc # "marcar" \/ ~exec[e].antiga
  PROVE  ~exec[e].antiga /\ Lembra(e)
BY DEF JInv, Ciente

\* A step of a recovery that forgets nothing of the wait.
LEMMA RecuperaJInv ==
  ASSUME IInv, JInv, NEW e \in Execucoes, NEW x, exec' = [exec EXCEPT ![e] = x],
         exec[e].pc \in Recuperacao \ {"fim_status"}, x.pc \in Recuperacao \ {"marcar", "fim_status"},
         x.antiga = exec[e].antiga,
         \/ x.foto = exec[e].foto /\ exec[e].pc # "fim"
         \/ x.pc = "fim" /\ x.prox # 0,
         hora' = hora, linha' # Nenhum,
         Vigente' => Vigente /\ (exec[e].pc # "marcar" \/ ~exec[e].antiga)
  PROVE  JInv'
<1>1. exec[e].pc \in ComPosse
  BY EmPosse
<1>2. exec'[e] = x /\ \A o \in Execucoes \ {e} : exec'[o] = exec[o]
  BY Outras
<1>3. ASSUME Vigente' PROVE PorEscrever(e)' /\ Ciente(e)'
  <2>1. ~exec[e].antiga /\ Lembra(e)
    BY <1>3, RecuperandoCiente
  <2>2. Lembra(e)'
    BY <1>2, <2>1 DEF Lembra
  <2>3. exec'[e].pc \in Recuperacao \ {"marcar", "fim_status"} /\ ~exec'[e].antiga
    BY <1>2, <2>1
  <2>4. PorEscrever(e)'
    BY <2>2, <2>3 DEF PorEscrever
  <2>5. exec'[e].pc \notin {"consultar", "persistir", "avancar", "pausar", "status"}
    BY <2>3 DEF Recuperacao
  <2>6. Ciente(e)'
    BY <2>2, <2>3, <2>5 DEF Ciente
  <2>7. QED
    BY <2>4, <2>6
<1>4. QED
  BY <1>1, <1>2, <1>3, NaPosse, PassoDaDona

LEMMA ProgressoJInv ==
  ASSUME IInv, JInv, NEW e \in Execucoes, Marcar(e) \/ Progredir(e)
  PROVE  JInv'
<1>1. /\ exec[e].pc \in {"marcar", "progresso"} /\ exec[e].pc \in ComPosse
      /\ exec[e].pc \in Recuperacao \ {"fim_status"}
  BY DEF Marcar, Progredir, ComPosse, Recuperacao
<1>2. exec[e] \in Execucao /\ linha \in Linhas
  BY <1>1, NaPosse
<1>3. PICK k : k = Marca(exec[e])
  OBVIOUS
<1>4. k \in Marcas
  BY <1>1, <1>3, MarcaLema
<1>5. PICK t \in Linhas : t = Texto(linha, "neutra", k)
  BY <1>2, <1>4, TextoLema, NeutraTipo
<1>6. PICK a \in BOOLEAN : a = exec[e].antiga
  BY <1>2 DEF Execucao
<1>7. Grava(t, a) /\ Vai(e, "pontual")
  BY <1>3, <1>5, <1>6 DEF Marcar, Progredir
<1>8. PICK x : x = [exec[e] EXCEPT !.pc = "pontual"]
  OBVIOUS
<1>9. exec' = [exec EXCEPT ![e] = x] /\ x.pc = "pontual" /\ x.foto = exec[e].foto
      /\ x.antiga = exec[e].antiga
  <2>1. "pontual" \in Passos
    BY DEF Passos, ComPosse
  <2>2. QED
    BY <1>7, <1>8, <2>1, SoPasso
<1>10. linha' # Nenhum /\ hora' = hora
  BY <1>5, <1>7, NenhumNaoELinha DEF Grava
<1>11. Vigente' => Vigente /\ ~exec[e].antiga
  BY <1>6, <1>7, GravaCiente
<1>12. x.pc \in Recuperacao \ {"marcar", "fim_status"} /\ exec[e].pc # "fim"
  BY <1>1, <1>9 DEF Recuperacao
<1>13. QED
  BY <1>1, <1>9, <1>10, <1>11, <1>12, RecuperaJInv

\* A recovery that stops writes its pause when it ends, also in the place of a 656 that it could
\* not register.
LEMMA ParaJInv ==
  ASSUME IInv, JInv, NEW e \in Execucoes, Para(e), exec[e].prox # 0,
         \/ exec[e].pc \in {"pontual", "enviada", "documento"}
         \/ Primeira(exec[e]) /\ ~exec[e].antiga,
         UNCHANGED <<linha, base, salvos, sefaz, ghosts>>
  PROVE  JInv'
<1>1. exec[e].pc \in ComPosse
  BY DEF Primeira, ComPosse
<1>2. exec[e] \in Execucao /\ linha # Nenhum /\ Sozinha(e) /\ UNCHANGED <<linha, hora, desfeita>>
  BY <1>1, NaPosse DEF ghosts
<1>3. PICK x : x = [exec[e] EXCEPT !.pc = "fim", !.foto = SemFoto, !.vez = 0, !.marcas = << >>,
                                   !.motivo = "parou"]
  OBVIOUS
<1>4. exec' = [exec EXCEPT ![e] = x]
  BY <1>3 DEF Para, IInv, Tipada
<1>5. x.pc = "fim" /\ x.prox # 0 /\ x.antiga = exec[e].antiga
  BY <1>2, <1>3 DEF Execucao
<1>6. exec'[e] = x /\ \A o \in Execucoes \ {e} : exec'[o] = exec[o]
  BY <1>4, Outras
<1>7. ASSUME Vigente' PROVE PorEscrever(e)' /\ Ciente(e)'
  <2>1. Vigente
    BY <1>2, <1>7 DEF Vigente
  <2>2. ~exec[e].antiga
    BY <2>1 DEF JInv, Ciente, Recuperacao
  <2>3. Lembra(e)'
    BY <1>5, <1>6, <2>2 DEF Lembra, Recuperacao
  <2>4. QED
    BY <1>5, <1>6, <2>2, <2>3 DEF PorEscrever, Ciente
<1>8. QED
  BY <1>2, <1>6, <1>7, PassoDaDona

LEMMA InterromperJInv ==
  ASSUME IInv, JInv, NEW e \in Execucoes, Interromper(e)
  PROVE  JInv'
<1>1. exec[e].pc \in {"enviada", "documento"} \/ Primeira(exec[e])
  BY DEF Interromper
<1>2. exec[e].pc \in ComPosse
  BY <1>1 DEF Primeira, ComPosse
<1>3. exec[e].prox \in Nat /\ Apoiada(exec[e])
  BY <1>2, NaPosse DEF Execucao
<1>3a. /\ exec[e].prox >= 1
       /\ Primeira(exec[e]) => ~exec[e].antiga
  <2>1. CASE exec[e].pc \in {"enviada", "documento"}
    BY <1>3, <2>1 DEF Apoiada, Primeira
  <2>2. CASE Primeira(exec[e])
    BY <1>3, <2>2 DEF Apoiada, Primeira
  <2>3. QED
    BY <1>1, <2>1, <2>2
<1>4. QED
  BY <1>1, <1>3, <1>3a, ParaJInv DEF Interromper

LEMMA PontualJInv ==
  ASSUME IInv, JInv, NEW e \in Execucoes,
         ReservarConsulta(e) \/ ConsultarNsu(e) \/ GuardarDocumento(e)
  PROVE  JInv'
<1>1. /\ exec[e].pc \in {"pontual", "enviada", "documento"} /\ exec[e].pc # "marcar"
      /\ exec[e].pc # "fim" /\ exec[e].pc \in Recuperacao \ {"fim_status"}
      /\ exec[e].pc \in ComPosse /\ UNCHANGED <<linha, hora, desfeita>>
  BY DEF ReservarConsulta, ConsultarNsu, GuardarDocumento, Recuperacao, ComPosse, ghosts
<1>2. exec[e] \in Execucao /\ linha # Nenhum
  BY <1>1, NaPosse
<1>3. CASE ReservarConsulta(e) /\ exec[e].prox # 0 /\ Para(e)
  BY <1>1, <1>3, ParaJInv DEF ReservarConsulta
<1>4. CASE ~(ReservarConsulta(e) /\ exec[e].prox # 0 /\ Para(e))
  <2>1. PICK x : /\ exec' = [exec EXCEPT ![e] = x]
                 /\ x.pc \in {"fim", "enviada", "documento", "progresso"}
                 /\ x.foto = exec[e].foto /\ x.antiga = exec[e].antiga
    <3>1. CASE ReservarConsulta(e)
      <4>0. PICK p \in {"fim", "enviada"} : \E v : exec' = [exec EXCEPT ![e].pc = p, ![e].vez = v]
        <5>1. CASE exec[e].prox = 0 \/ exec[e].vez = NsusPorVez
          BY <3>1, <5>1 DEF ReservarConsulta
        <5>2. CASE ~(exec[e].prox = 0 \/ exec[e].vez = NsusPorVez)
          <6>1. PICK v : v = exec[e].vez + 1
            OBVIOUS
          <6>2. exec' = [exec EXCEPT ![e].pc = "enviada", ![e].vez = v]
            BY <1>4, <3>1, <5>2, <6>1 DEF ReservarConsulta, IInv, Tipada
          <6>3. QED
            BY <6>2
        <5>3. QED
          BY <5>1, <5>2
      <4>1. PICK v : exec' = [exec EXCEPT ![e].pc = p, ![e].vez = v]
        BY <4>0
      <4>2. PICK x : x = [exec[e] EXCEPT !.pc = p, !.vez = v]
        OBVIOUS
      <4>3. exec' = [exec EXCEPT ![e] = x]
        BY <4>1, <4>2 DEF IInv, Tipada
      <4>4. x.pc = p /\ x.foto = exec[e].foto /\ x.antiga = exec[e].antiga
        BY <1>2, <4>2 DEF Execucao
      <4>5. QED
        BY <4>3, <4>4
    <3>2. CASE ConsultarNsu(e)
      <4>1. CASE exec[e].prox > antigos
        <5>1. PICK x : x = [exec[e] EXCEPT !.pc = "documento"]
          OBVIOUS
        <5>2. Vai(e, "documento") /\ "documento" \in Passos
          BY <3>2, <4>1 DEF ConsultarNsu, Passos, ComPosse
        <5>3. /\ exec' = [exec EXCEPT ![e] = x] /\ x.pc = "documento"
              /\ x.foto = exec[e].foto /\ x.antiga = exec[e].antiga
          BY <5>1, <5>2, SoPasso
        <5>4. QED
          BY <5>3
      <4>2. CASE ~(exec[e].prox > antigos)
        <5>1. PICK x : x = [exec[e] EXCEPT !.pc = "fim", !.prox = 0, !.vez = 0]
          OBVIOUS
        <5>2. exec' = [exec EXCEPT ![e] = x]
          BY <3>2, <4>2, <5>1 DEF ConsultarNsu, IInv, Tipada
        <5>3. x.pc = "fim" /\ x.foto = exec[e].foto /\ x.antiga = exec[e].antiga
          BY <1>2, <5>1 DEF Execucao
        <5>4. QED
          BY <5>2, <5>3
      <4>3. QED
        BY <4>1, <4>2
    <3>3. CASE GuardarDocumento(e)
      <4>1. PICK n : n = Anterior(exec[e])
        OBVIOUS
      <4>2. PICK x : x = [exec[e] EXCEPT !.pc = "progresso", !.prox = n]
        OBVIOUS
      <4>3. exec' = [exec EXCEPT ![e] = x]
        BY <3>3, <4>1, <4>2 DEF GuardarDocumento, IInv, Tipada
      <4>4. x.pc = "progresso" /\ x.foto = exec[e].foto /\ x.antiga = exec[e].antiga
        BY <1>2, <4>2 DEF Execucao
      <4>5. QED
        BY <4>3, <4>4
    <3>4. QED
      BY <3>1, <3>2, <3>3
  <2>2. x.pc \in Recuperacao \ {"marcar", "fim_status"}
    BY <2>1 DEF Recuperacao
  <2>3. Vigente' => Vigente
    BY <1>1 DEF Vigente
  <2>4. QED
    BY <1>1, <1>2, <2>1, <2>2, <2>3, RecuperaJInv
<1>5. QED
  BY <1>3, <1>4

\* A recovery takes the lock on a copy: either it says what the row says of the wait, or it is old.
LEMMA ComecarPeriodoJInv ==
  ASSUME IInv, JInv, NEW e \in Execucoes, ComecarPeriodo(e)
  PROVE  JInv'
<1>1. /\ exec[e].pc = "retomar" /\ exec[e].pc \notin ComPosse
      /\ UNCHANGED <<linha, hora, desfeita>> /\ exec[e] \in Execucao
  BY DeUma DEF ComecarPeriodo, ghosts, ComPosse
<1>2. PICK f \in Fotos : f = exec[e].foto
  BY <1>1 DEF Execucao
<1>3. CASE Suspensa(f, "consNSU") \/ Ocupado \/ Proximo(f) = 0
  <2>1. Passa(e) \/ Termina(e)
    BY <1>2, <1>3 DEF ComecarPeriodo
  <2>2. QED
    BY <1>1, <2>1, PassaJInv
<1>4. CASE ~(Suspensa(f, "consNSU") \/ Ocupado \/ Proximo(f) = 0)
  <2>1. PICK p, q, m : p = Proximo(f) /\ q = Alvo(f) /\ m = EsperaDita(f)
    OBVIOUS
  <2>2. PICK a \in BOOLEAN : a = Antiga(e)
    BY AntigaTipo
  <2>3. PICK r \in BOOLEAN : r = (f.recente /\ m # "neutra")
    OBVIOUS
  <2>4. PICK g : g = [SemFoto EXCEPT !.motivo = m, !.recente = r]
    OBVIOUS
  <2>5. PICK x : x = [exec[e] EXCEPT !.pc = "marcar", !.prox = p, !.alvo = q, !.antiga = a, !.foto = g]
    OBVIOUS
  <2>6. exec' = [exec EXCEPT ![e] = x]
    <3>1. exec' = [exec EXCEPT ![e].pc = "marcar", ![e].prox = p, ![e].alvo = q,
                     ![e].antiga = Antiga(e),
                     ![e].foto = [SemFoto EXCEPT !.motivo = m, !.recente = f.recente /\ m # "neutra"]]
      BY <1>2, <1>4, <2>1 DEF ComecarPeriodo
    <3>2. QED
      BY <2>2, <2>3, <2>4, <2>5, <3>1 DEF IInv, Tipada
  <2>7. x.pc = "marcar" /\ x.antiga = a /\ x.foto = g /\ g.motivo = m /\ g.recente = r
    <3>1. SemFoto \in Fotos
      BY SemFotoTipo
    <3>2. g.motivo = m /\ g.recente = r
      BY <2>4, <3>1 DEF Fotos
    <3>3. x.pc = "marcar" /\ x.antiga = a /\ x.foto = g
      BY <1>1, <2>5 DEF Execucao
    <3>4. QED
      BY <3>2, <3>3
  <2>8. exec'[e] = x /\ \A o \in Execucoes \ {e} : exec'[o] = exec[o]
    BY <2>6, Outras
  <2>9. Sozinha(e)
    BY <1>4, DonaSozinha
  <2>10. ASSUME Vigente' PROVE NaLinha' /\ Ciente(e)'
    <3>1. Vigente
      BY <1>1, <2>10 DEF Vigente
    <3>2. NaLinha
      BY <1>1, <2>9, <3>1, EmPosse, SoALinha
    <3>3. NaLinha'
      BY <1>1, <3>2 DEF NaLinha
    <3>4. ASSUME ~a PROVE hora = "137" /\ m = "137" /\ r
      <4>1. f = linha.foto
        BY <1>2, <2>2, <3>1, <3>4 DEF Antiga, Vigente
      <4>2. hora = "137" /\ f.recente /\ f.motivo = "137"
        BY <1>4, <3>1, <3>2, <4>1 DEF NaLinha, Suspensa, Vigente, IInv, Tipada
      <4>3. m = "137"
        BY <2>1, <4>2 DEF EsperaDita
      <4>4. QED
        BY <2>3, <4>2, <4>3
    <3>5. ~a => hora' = "137" /\ Lembra(e)'
      BY <1>1, <2>7, <2>8, <3>4 DEF Lembra, Recuperacao
    <3>6. exec'[e].pc = "marcar" /\ exec'[e].antiga = a
      BY <2>7, <2>8
    <3>7. Ciente(e)'
      BY <3>5, <3>6 DEF Ciente
    <3>8. QED
      BY <3>3, <3>7
  <2>11. QED
    BY <1>1, <2>8, <2>9, <2>10, PassoDaDona DEF JInv
<1>5. QED
  BY <1>3, <1>4

\* A recovery that ends writes the wait it knew of, or one of its own.
LEMMA EncerrarJInv ==
  ASSUME IInv, JInv, NEW e \in Execucoes, Encerrar(e)
  PROVE  JInv'
<1>1. /\ exec[e].pc = "fim" /\ exec[e].pc \in ComPosse /\ exec[e].pc # "marcar"
      /\ exec[e].pc \in Recuperacao \ {"fim_status"} /\ exec[e].pc \in Recuperacao
  BY DEF Encerrar, Recuperacao, ComPosse
<1>2. exec[e] \in Execucao /\ linha \in Linhas
  BY <1>1, NaPosse
<1>3. PICK a \in BOOLEAN : a = exec[e].antiga
  BY <1>2 DEF Execucao
<1>4. PICK m \in Motivos, r \in BOOLEAN :
        /\ linha' \in Linhas /\ linha'.foto.motivo = m /\ linha'.foto.recente = r
        /\ Grava(linha', a)
        /\ exec[e].prox # 0 => m = "656" /\ r
        /\ exec[e].prox = 0 /\ exec[e].foto.motivo = "137" => m = "137" /\ r = exec[e].foto.recente
  <2>1. CASE exec[e].prox = 0
    <3>1. PICK m \in Motivos : m = IF exec[e].foto.motivo = "137" THEN "137" ELSE "neutra"
      BY DEF Motivos
    <3>2. PICK t : t = Texto(linha, m, Nenhum)
      OBVIOUS
    <3>3. t \in Linhas /\ t.foto \in Fotos /\ t.foto.motivo = m
      BY <1>2, <3>1, <3>2, TextoLema, NeutraTipo DEF Linhas
    <3>4. PICK r \in BOOLEAN : r = IF exec[e].foto.motivo # "neutra" THEN exec[e].foto.recente ELSE TRUE
      BY <1>2 DEF Execucao, Fotos
    <3>5. PICK f : f = [t.foto EXCEPT !.recente = r]
      OBVIOUS
    <3>6. f \in Fotos /\ f.motivo = m /\ f.recente = r
      BY <3>3, <3>5 DEF Fotos
    <3>7. PICK nova : nova = [t EXCEPT !.foto = f]
      OBVIOUS
    <3>8. nova \in Linhas /\ nova.foto = f
      BY <3>3, <3>6, <3>7 DEF Linhas
    <3>9. Conclusao(exec[e]) = nova
      BY <3>1, <3>2, <3>3, <3>4, <3>5, <3>7 DEF Conclusao, Linhas
    <3>10. Grava(nova, a)
      BY <1>3, <2>1, <3>9 DEF Encerrar
    <3>11. linha' = nova
      BY <3>10 DEF Grava
    <3>12. QED
      BY <2>1, <3>1, <3>4, <3>6, <3>8, <3>10, <3>11
  <2>2. CASE exec[e].prox # 0
    <3>1. PICK k : k = Marca(exec[e])
      OBVIOUS
    <3>2. k \in Marcas /\ "656" \in Motivos
      BY <1>1, <3>1, MarcaLema DEF Motivos
    <3>3. PICK t : t = Texto(linha, "656", k)
      OBVIOUS
    <3>4. t \in Linhas /\ t.foto.motivo = "656"
      BY <1>2, <3>2, <3>3, TextoLema
    <3>5. Grava(Agora(t), a)
      BY <1>3, <2>2, <3>1, <3>3 DEF Encerrar
    <3>6. linha' = Agora(t)
      BY <3>5 DEF Grava
    <3>7. QED
      BY <2>2, <3>2, <3>4, <3>5, <3>6, AgoraLema
  <2>3. QED
    BY <2>1, <2>2
<1>5. /\ exec'[e].pc \in {"livre", "fim_status"}
      /\ \A o \in Execucoes \ {e} : exec'[o] = exec[o]
  <2>1. CASE Termina(e)
    <3>1. exec'[e] = Livre /\ \A o \in Execucoes \ {e} : exec'[o] = exec[o]
      BY <2>1, Outras DEF Termina
    <3>2. QED
      BY <3>1 DEF Livre
  <2>2. CASE Vai(e, "fim_status")
    <3>1. PICK x : x = [exec[e] EXCEPT !.pc = "fim_status"]
      OBVIOUS
    <3>2. "fim_status" \in Passos
      BY DEF Passos, ComPosse
    <3>3. exec' = [exec EXCEPT ![e] = x] /\ x.pc = "fim_status"
      BY <2>2, <3>1, <3>2, SoPasso
    <3>4. QED
      BY <3>3, Outras
  <2>3. QED
    BY <2>1, <2>2 DEF Encerrar
<1>6. ASSUME Vigente' PROVE NaLinha' /\ Ciente(e)'
  <2>1. Vigente /\ hora' = hora
    BY <1>4, <1>6, GravaCiente
  <2>2. Lembra(e)
    BY <1>1, <2>1, RecuperandoCiente
  <2>3. r /\ (m = "656" \/ (m = "137" /\ hora = "137"))
    BY <1>4, <2>2 DEF Lembra
  <2>4. NaLinha'
    BY <1>4, <2>1, <2>2, <2>3 DEF NaLinha, Suspensa
  <2>5. Ciente(e)'
    BY <1>5 DEF Ciente, Recuperacao
  <2>6. QED
    BY <2>4, <2>5
<1>7. QED
  BY <1>1, <1>4, <1>5, <1>6, NaPosse, NenhumNaoELinha, PassoDaDona

\* An exception or a restart takes nothing from a row that says of the wait, and otherwise leaves
\* nothing of it.
LEMMA ExcecaoJInv ==
  ASSUME IInv, JInv, NEW e \in Execucoes, Excecao(e)
  PROVE  JInv'
<1>1. exec[e].pc \in ComPosse /\ UNCHANGED <<linha, hora>> /\ Termina(e)
  BY DEF Excecao
<1>2. linha' # Nenhum /\ Sozinha(e)
  BY <1>1, NaPosse
<1>3. exec'[e] = Livre /\ \A o \in Execucoes \ {e} : exec'[o] = exec[o]
  BY <1>1, Outras DEF Termina
<1>4. Ciente(e)'
  BY <1>3, EmPosse DEF Livre, ComPosse
<1>5. Vigente' => NaLinha'
  BY <1>1 DEF Vigente, Excecao, SoEmMemoria, NaLinha
<1>6. QED
  BY <1>2, <1>3, <1>4, <1>5, PassoDaDona

LEMMA ReiniciarJInv == ASSUME IInv, JInv, Reiniciar PROVE JInv'
<1>1. linha' = linha /\ hora' = hora /\ \A e \in Execucoes : exec'[e].pc \notin ComPosse
  BY DEF Reiniciar, Livre, ComPosse
<1>2. Vigente' => NaLinha'
  BY <1>1 DEF Vigente, Reiniciar, SoEmMemoria, NaLinha
<1>3. QED
  BY <1>1, <1>2, EmPosse DEF JInv

\* The hour is over.
LEMMA HoraJInv == ASSUME IInv, JInv, PassarHora \/ PassarHoraDaSefaz PROVE JInv'
<1>1. hora' = "livre" /\ \A e \in Execucoes : exec'[e].pc = exec[e].pc
  <2>1. CASE PassarHora
    <3>1. ASSUME NEW e \in Execucoes PROVE exec'[e].pc = exec[e].pc
      <4>1. PICK x : x = [exec[e] EXCEPT !.foto = Vencida(@)]
        OBVIOUS
      <4>2. exec'[e] = x
        BY <2>1, <4>1 DEF PassarHora
      <4>3. QED
        BY <4>1, <4>2, CopiaVencida
    <3>2. QED
      BY <2>1, <3>1 DEF PassarHora
  <2>2. CASE PassarHoraDaSefaz
    BY <2>2 DEF PassarHoraDaSefaz
  <2>3. QED
    BY <2>1, <2>2
<1>2. \A e, o \in Execucoes : exec'[e].pc \in ComPosse /\ exec'[o].pc \in ComPosse => e = o
  BY <1>1 DEF JInv
<1>3. QED
  BY <1>1, <1>2, SemVigencia

\* Only an old copy goes out of date while the wait lasts.
LEMMA PassarHoraDaCopiaJInv ==
  ASSUME IInv, JInv, NEW e \in Execucoes, PassarHoraDaCopia(e)
  PROVE  JInv'
<1>1. UNCHANGED <<linha, hora, desfeita>>
  BY DEF PassarHoraDaCopia, ghosts
<1>2. PICK x : x = [exec[e] EXCEPT !.foto = Vencida(@)]
  OBVIOUS
<1>3. exec' = [exec EXCEPT ![e] = x]
  BY <1>2 DEF PassarHoraDaCopia, IInv, Tipada
<1>4. /\ x.pc = exec[e].pc /\ x.prox = exec[e].prox /\ x.motivo = exec[e].motivo
      /\ x.antiga = exec[e].antiga
  BY <1>2, CopiaVencida
<1>5. exec'[e] = x /\ \A o \in Execucoes \ {e} : exec'[o] = exec[o]
  BY <1>3, Outras
<1>6. CASE exec[e].pc \notin ComPosse
  BY <1>1, <1>4, <1>5, <1>6, PassoSemPosse
<1>7. CASE exec[e].pc \in ComPosse
  <2>1. linha # Nenhum /\ Sozinha(e)
    BY <1>7, NaPosse
  <2>2. ASSUME Vigente' PROVE (NaLinha \/ PorEscrever(e))' /\ Ciente(e)'
    <3>1. Vigente /\ exec[e].antiga
      BY <1>1, <1>7, <2>2 DEF Vigente, PassarHoraDaCopia
    <3>2. NaLinha \/ PorEscrever(e)
      BY <2>1, <3>1, SoALinha
    <3>3. NaLinha => NaLinha'
      BY <1>1 DEF NaLinha
    <3>4. PorEscrever(e) => PorEscrever(e)'
      BY <1>1, <1>4, <1>5, <3>1 DEF PorEscrever, Lembra
    <3>5. Ciente(e)
      BY <3>1 DEF JInv
    <3>6. Ciente(e)'
      BY <1>4, <1>5, <3>1, <3>5 DEF Ciente
    <3>7. QED
      BY <3>2, <3>3, <3>4, <3>6
  <2>3. QED
    BY <1>1, <1>5, <2>1, <2>2, PassoDaDona
<1>8. QED
  BY <1>6, <1>7

LEMMA InitJInv == Init => JInv
<1>1. Init => hora = "livre" /\ \A e \in Execucoes : exec[e].pc \notin ComPosse
  BY DEF Init, Livre, ComPosse
<1>2. QED
  BY <1>1 DEF JInv, Vigente

LEMMA PassoJInv == ASSUME IInv, IInv', JInv, NEW e \in Execucoes, Passo(e) PROVE JInv'
BY CicloJInv, AtivarJInv, TomarJInv, EsperaJInv, LoteJInv, AvancarJInv, PausarJInv, StatusJInv,
   ComecarPeriodoJInv, ProgressoJInv, PontualJInv, EncerrarJInv DEF Passo

LEMMA FalhaJInv == ASSUME IInv, JInv, Falha PROVE JInv'
BY ReiniciarJInv, CicloJInv, EsperaJInv, SemAvancoJInv, FalharJInv, InterromperJInv, ExcecaoJInv
   DEF Falha

LEMMA TempoJInv == ASSUME IInv, JInv, Tempo PROVE JInv'
<1>1. Publicar \/ Envelhecer => UNCHANGED <<linha, hora, desfeita, exec>>
  BY DEF Publicar, Envelhecer, ghosts
<1>2. QED
  BY <1>1, NadaMuda, HoraJInv, PassarHoraDaCopiaJInv DEF Tempo

LEMMA NextJInv == IInv /\ IInv' /\ JInv /\ [Next]_vars => JInv'
<1> SUFFICES ASSUME IInv, IInv', JInv, [Next]_vars PROVE JInv'
  OBVIOUS
<1>1. CASE UNCHANGED vars
  BY <1>1, NadaMuda DEF vars
<1>2. CASE Next
  BY <1>2, OperadorJInv, FalhaJInv, TempoJInv, PassoJInv, ComecarJInv DEF Next
<1>3. QED
  BY <1>1, <1>2

LEMMA SpecJInv == Spec => []JInv
<1>1. QED
  BY InitJInv, NextJInv, SpecIInv, PTL DEF Spec

\* SEFAZ's hour, for every constant: as long as the text was neither lost nor overwritten from
\* outside since SEFAZ last asked (desfeita), distNSU is not sent in it by an execution that took
\* the lock on the row as it is (antiga), nor consNSU in that of a 656 by anyone, whatever
\* recoveries stop, resume and end, and whatever exceptions and restarts leave the row saying it.
THEOREM PausaSempreRespeitada == Spec => []PausaRespeitada
<1>1. IInv /\ JInv => PausaRespeitada
  <2> SUFFICES ASSUME IInv, JInv, NEW e \in Execucoes
               PROVE  /\ exec[e].pc = "consultar" /\ ~exec[e].antiga /\ ~desfeita => hora = "livre"
                      /\ exec[e].pc = "enviada" /\ ~desfeita => hora # "656"
    BY DEF PausaRespeitada
  <2>1. exec[e].pc = "consultar" /\ ~exec[e].antiga /\ ~desfeita => hora = "livre"
    BY DEF JInv, Vigente, Ciente
  <2>2. exec[e].pc = "enviada" /\ ~desfeita => hora # "656"
    BY DEF JInv, Vigente, Ciente, Lembra, Recuperacao
  <2>3. QED
    BY <2>1, <2>2
<1>2. QED
  BY <1>1, SpecIInv, SpecJInv, PTL

=============================================================================
