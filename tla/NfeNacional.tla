---------------------------- MODULE NfeNacional ----------------------------
(***************************************************************************)
(* The national NF-e distribution for one CPF control (NfeService): the    *)
(* incremental run over distNSU, the recovery of a period over consNSU,    *)
(* the automatic cycle, the nightly sweep and the requests of the operator *)
(* that rewrite the row.  There is no column for "do not ask before" nor   *)
(* for "a recovery is under way": both are read back, by regular           *)
(* expression, from ultimaMensagem, the text every writer of the row       *)
(* replaces.                                                               *)
(***************************************************************************)
EXTENDS Naturals, Sequences, FiniteSets

CONSTANTS
  Execucoes,      \* asynchronous executions of the process that may overlap
  MaxNsu,         \* bound on the NSUs SEFAZ publishes for the actor
  NoPeriodo,      \* the NSUs whose document was issued in the period asked for
  Lote,           \* documents in one answer of distNSU
  NsusPorVez,     \* SEFAZ_CPF_HISTORICAL_NSUS_PER_RUN
  MaxAntigos,     \* bound on the NSUs that grow too old
  TiposDe,        \* the kinds of execution each of them may be
  Nenhum

ASSUME ConstantesValidas ==
  /\ MaxNsu \in Nat \ {0} /\ Lote \in Nat \ {0} /\ NsusPorVez \in Nat \ {0}
  /\ MaxAntigos \in Nat /\ NoPeriodo \subseteq 1..MaxNsu
  /\ TiposDe \in [Execucoes -> SUBSET {"ciclo", "noturna", "periodo"}]

VARIABLES
  linha,          \* the row of nfe_sync_controle, Nenhum before it is created
  base,           \* the NSU the row was positioned at: what it answers for starts after it
  salvos,         \* NSUs whose document is stored
  publicados,     \* NSUs 1..publicados exist at SEFAZ
  antigos,        \* NSUs 1..antigos are older than 90 days: SEFAZ no longer has them
  bloqueado,      \* blockedUntil of the actor in the stored point-query counters
  exec,           \* the executions of the process
  hora,           \* the wait SEFAZ has asked for, while its hour lasts
  desfeita        \* within that hour the row has come to say nothing of the wait that SEFAZ last
                  \* asked for, or was rewritten by someone who did not know of it

sefaz  == <<publicados, antigos>>
ghosts == <<hora, desfeita>>
vars   == <<linha, base, salvos, publicados, antigos, bloqueado, exec, hora, desfeita>>

Nsus == 0..MaxNsu
\* The waits read back from a text; the pause of a recovery is treated like that of a 656.
Motivos == {"neutra", "137", "656", "sem_avanco"}
Marcas == {Nenhum} \union [prox : Nsus, alvo : Nsus]

\* What the executions read of the row: the cursor, whether ultimaExecucao is less than an
\* hour old, and the two things parsed from ultimaMensagem.
Fotos == [consultado : Nsus, maximo : Nsus, recente : BOOLEAN, motivo : Motivos, marca : Marcas]
Linhas == [status : {"ativo", "pausado"}, foto : Fotos]
SemFoto == [consultado |-> 0, maximo |-> 0, recente |-> FALSE, motivo |-> "neutra", marca |-> Nenhum]

ASSUME NenhumNaoELinha == Nenhum \notin Linhas

ComPosse == {"consultar", "persistir", "avancar", "pausar", "status", "marcar", "pontual",
             "enviada", "documento", "progresso", "fim", "fim_status"}
Passos == ComPosse \union {"livre", "retomar", "ativar", "base", "controles", "fila"}

\* prox..alvo: the NSUs of a batch still to store, or those a recovery has still to ask for;
\* topo: maxNSU of the answer; vez: NSUs asked for; marcas: the texts registerSefazDfeCooldown has
\* still to write; antiga: SEFAZ had asked for an hour, and the row was no longer as it was read,
\* when the lock was taken, and has not asked the execution itself since.
Livre == [pc |-> "livre", tipo |-> "nenhum", foto |-> SemFoto, prox |-> 0, alvo |-> 0, topo |-> 0,
          vez |-> 0, marcas |-> << >>, motivo |-> "neutra", antiga |-> FALSE]

Init ==
  /\ linha = Nenhum /\ base = 0
  /\ salvos = {} /\ publicados = 0 /\ antigos = 0
  /\ bloqueado = FALSE
  /\ exec = [e \in Execucoes |-> Livre]
  /\ hora = "livre" /\ desfeita = FALSE

----------------------------------------------------------------------------
Menor(a, b) == IF a < b THEN a ELSE b
Maior(a, b) == IF a > b THEN a ELSE b

\* activeSefazActorQueries holds the key of the actor.
Ocupado == \E e \in Execucoes : exec[e].pc \in ComPosse

\* ativo and erro_api are treated alike: both are "ativo" here.
Lida == linha # Nenhum /\ linha.status = "ativo"

\* Mutant of Suspensa: the text of a 656 is not recognised.
SuspensaSem656(f, metodo) ==
  /\ f.recente
  /\ f.motivo = "sem_avanco" \/ (f.motivo = "137" /\ metodo = "distNSU")

\* getSefazDfeCooldownUntil: 137 holds back distNSU only.
Suspensa(f, metodo) ==
  /\ f.recente
  /\ f.motivo \in {"656", "sem_avanco"} \/ (f.motivo = "137" /\ metodo = "distNSU")

Antiga(e) == hora # "livre" /\ exec[e].foto # linha.foto

\* The row itself holds back what SEFAZ does not want to be asked.
NaLinha == Suspensa(linha.foto, IF hora = "656" THEN "consNSU" ELSE "distNSU")

\* Nothing in the database says of the wait: it goes with whoever has it in mind.
SoEmMemoria == hora # "livre" /\ ~NaLinha

Vai(e, passo) == exec' = [exec EXCEPT ![e].pc = passo]
Termina(e) == exec' = [exec EXCEPT ![e] = Livre]

\* The new text of ultimaMensagem: what can be read back from it of a wait and of a recovery.
Texto(l, motivo, marca) == [l EXCEPT !.foto.motivo = motivo, !.foto.marca = marca]
Agora(l) == [l EXCEPT !.foto.recente = TRUE]

\* A write of the row; alheia: by someone who did not read it after the wait began.
Grava(l, alheia) ==
  /\ linha' = l
  /\ desfeita' = (desfeita \/ (alheia /\ hora # "livre"))
  /\ UNCHANGED hora

----------------------------------------------------------------------------
(* The operator rewrites the row *)

\* iniciarSync: an upsert; a first start puts the row before NSU 1.
IniciarSync ==
  /\ IF linha = Nenhum
     THEN Grava([status |-> "ativo", foto |-> SemFoto], FALSE)
     ELSE Grava([Texto(linha, "neutra", Nenhum) EXCEPT !.status = "ativo"], TRUE)
  /\ UNCHANGED <<base, salvos, sefaz, bloqueado, exec>>

PausarSync ==
  /\ linha # Nenhum
  /\ Grava([Texto(linha, "neutra", Nenhum) EXCEPT !.status = "pausado"], TRUE)
  /\ UNCHANGED <<base, salvos, sefaz, bloqueado, exec>>

----------------------------------------------------------------------------
(* Timers and requests: what each execution begins with, and goes on to *)

\* Where an execution goes when there is no recovery for it to resume, or once it has activated.
Segue(x) ==
  CASE x.tipo = "ciclo" \/ (x.tipo = "noturna" /\ x.pc \in {"ativar", "base"})
         -> [Livre EXCEPT !.tipo = x.tipo, !.pc = "controles"]
    [] x.tipo = "noturna" /\ x.pc \notin {"ativar", "base"}
         -> [Livre EXCEPT !.tipo = x.tipo, !.pc = "ativar"]
    [] OTHER -> Livre
Passa(e) == exec' = [exec EXCEPT ![e] = Segue(@)]

\* runAutomaticSyncCycle and runNightlySweepCycle, one of each at a time, begin with the rows that
\* carry a mark (resumeDueSefazCpfHistoricalBackfills).
ComecarCiclo(e, tipo) ==
  /\ exec[e] = Livre /\ tipo \in TiposDe[e] \intersect {"ciclo", "noturna"}
  /\ \A o \in Execucoes : exec[o].tipo # tipo
  /\ exec' = [exec EXCEPT ![e] =
       IF Lida /\ linha.foto.marca # Nenhum
       THEN [Livre EXCEPT !.tipo = tipo, !.pc = "retomar", !.foto = linha.foto]
       ELSE Segue([Livre EXCEPT !.tipo = tipo])]
  /\ UNCHANGED <<linha, base, salvos, sefaz, bloqueado, ghosts>>

\* The recovery of another actor was tried: the cycle ends there, whatever came of it.
OutraRetomada(e) ==
  /\ <<exec[e].tipo, exec[e].pc>> \in {<<"ciclo", "controles">>, <<"noturna", "ativar">>}
  /\ Termina(e)
  /\ UNCHANGED <<linha, base, salvos, sefaz, bloqueado, ghosts>>

\* runNowCpfViaSefazGlobal for a period: getManualCpfProducerOrThrow
PedirPeriodo(e) ==
  /\ exec[e] = Livre /\ "periodo" \in TiposDe[e]
  /\ Lida
  /\ exec' = [exec EXCEPT ![e] = [Livre EXCEPT !.tipo = "periodo", !.pc = "retomar", !.foto = linha.foto]]
  /\ UNCHANGED <<linha, base, salvos, sefaz, bloqueado, ghosts>>

\* The findMany of runNowInternal
LerControles(e) ==
  /\ exec[e].pc = "controles"
  /\ IF Lida THEN exec' = [exec EXCEPT ![e].pc = "fila", ![e].foto = linha.foto] ELSE Termina(e)
  /\ UNCHANGED <<linha, base, salvos, sefaz, bloqueado, ghosts>>

----------------------------------------------------------------------------
(* ativarSyncNoNsuAtual: no lock of the actor, no look at the cooldown *)

\* shouldRecaptureBase, or no row at all
SemBase == IF linha = Nenhum THEN TRUE
           ELSE linha.foto.consultado = 0 /\ linha.foto.maximo = 0

Reativar(e) ==
  /\ exec[e].pc = "ativar" /\ ~SemBase
  /\ Grava([Texto(linha, "neutra", Nenhum) EXCEPT !.status = "ativo"], TRUE)
  /\ Passa(e)
  /\ UNCHANGED <<base, salvos, sefaz, bloqueado>>

\* topo records whether there was a row when the method looked.
CapturarBase(e) ==
  /\ exec[e].pc = "ativar" /\ SemBase
  /\ IF publicados > 0
     THEN exec' = [exec EXCEPT ![e].pc = "base", ![e].alvo = publicados,
                               ![e].topo = IF linha = Nenhum THEN 0 ELSE 1]
     ELSE Passa(e)
  /\ UNCHANGED <<linha, base, salvos, sefaz, bloqueado, ghosts>>

\* The create meets the unique key if a row appeared meanwhile.
GravarBase(e) ==
  LET n == exec[e].alvo
      nova == [status |-> "ativo",
               foto |-> [SemFoto EXCEPT !.consultado = n, !.maximo = n, !.recente = TRUE]] IN
  /\ exec[e].pc = "base"
  /\ IF exec[e].topo = 0 /\ linha # Nenhum
     THEN UNCHANGED <<linha, base, ghosts>>
     ELSE Grava(nova, TRUE) /\ base' = n
  /\ Passa(e)
  /\ UNCHANGED <<salvos, sefaz, bloqueado>>

FalharBase(e) ==
  /\ exec[e].pc \in {"ativar", "base"}
  /\ Passa(e)
  /\ UNCHANGED <<linha, base, salvos, sefaz, bloqueado, ghosts>>

----------------------------------------------------------------------------
(* runNowInternal *)

\* Everything between the row read and the lock taken is decided on the row as it was read.
Liberada(f) == f.marca = Nenhum /\ ~Suspensa(f, "distNSU")

Tomar(e) ==
  /\ exec[e].pc = "fila"
  /\ IF Liberada(exec[e].foto) /\ ~Ocupado
     THEN exec' = [exec EXCEPT ![e].pc = "consultar", ![e].antiga = Antiga(e),
                               ![e].foto = [SemFoto EXCEPT !.consultado = exec[e].foto.consultado]]
     ELSE Termina(e)
  /\ UNCHANGED <<linha, base, salvos, sefaz, bloqueado, ghosts>>

\* SEFAZ asks for an hour: the wait begins anew, except that a 137 does not shorten a 656.
Espera(e, motivo, marcas) ==
  LET menor == hora = "656" /\ motivo # "656" IN
  /\ hora' = IF menor THEN hora ELSE motivo
  /\ desfeita' = (desfeita /\ menor)
  /\ exec' = [exec EXCEPT ![e].pc = "pausar", ![e].foto = SemFoto, ![e].motivo = motivo,
                          ![e].marcas = marcas, ![e].antiga = @ /\ menor]
  /\ UNCHANGED <<linha, base, salvos, sefaz, bloqueado>>

SemDocumentos(e) ==
  /\ exec[e].pc = "consultar"
  /\ Maior(exec[e].foto.consultado, antigos) >= publicados
  /\ Espera(e, "137", <<Nenhum>>)

ConsumoIndevido(e) ==
  /\ exec[e].pc = "consultar"
  /\ Espera(e, "656", <<Nenhum>>)

\* An answer with documents that does not move ultNSU: an internal wait.
SemAvanco(e) ==
  /\ exec[e].pc = "consultar"
  /\ exec' = [exec EXCEPT ![e].pc = "pausar", ![e].foto = SemFoto,
                          ![e].motivo = "sem_avanco", ![e].marcas = <<Nenhum>>]
  /\ UNCHANGED <<linha, base, salvos, sefaz, bloqueado, ghosts>>

\* 138: the next documents SEFAZ still has after the cursor of the copy.
ReceberLote(e) ==
  LET de == Maior(exec[e].foto.consultado, antigos) IN
  /\ exec[e].pc = "consultar"
  /\ de < publicados
  /\ exec' = [exec EXCEPT ![e].pc = "persistir", ![e].prox = de + 1, ![e].foto = SemFoto,
                          ![e].alvo = Menor(de + Lote, publicados), ![e].topo = publicados]
  /\ UNCHANGED <<linha, base, salvos, sefaz, bloqueado, ghosts>>

\* Mutant of AposDocumento: one document too many.
AposDocumentoUmAMais(x) == IF x.prox > x.alvo THEN "avancar" ELSE "persistir"

\* What is left to do once the document prox is stored.
AposDocumento(x) == IF x.prox = x.alvo THEN "avancar" ELSE "persistir"

PersistirDocumento(e) ==
  /\ exec[e].pc = "persistir"
  /\ salvos' = salvos \union {exec[e].prox}
  /\ exec' = [exec EXCEPT ![e].prox = @ + 1, ![e].pc = AposDocumento(exec[e])]
  /\ UNCHANGED <<linha, base, sefaz, bloqueado, ghosts>>

\* ultNSU of the answer
Cursor(x) == x.alvo

Avancar(e) ==
  /\ exec[e].pc = "avancar"
  /\ Grava([Agora(Texto(linha, "neutra", Nenhum)) EXCEPT !.status = "ativo",
              !.foto.consultado = Cursor(exec[e]), !.foto.maximo = exec[e].topo],
           exec[e].antiga)
  /\ Termina(e)
  /\ UNCHANGED <<base, salvos, sefaz, bloqueado>>

\* registerSefazDfeCooldown counts a 656 against the actor before it writes the row: whatever
\* breaks it off may leave the one without the other.
Conta(x) == x.pc = "pausar" /\ x.motivo = "656"
PodeContar(quem) == bloqueado' \in {bloqueado, bloqueado \/ \E e \in quem : Conta(exec[e])}

\* Mutant of Falhar: the cursor moves to the end of the batch all the same.
FalharAvancando(e) ==
  LET esquece == exec[e].pc \in {"pausar", "status"} IN
  /\ exec[e].pc \in {"consultar", "persistir", "avancar", "pausar", "status"}
  /\ exec[e].vez = 0
  /\ Grava([Agora(Texto(linha, "neutra", Nenhum)) EXCEPT !.status = "ativo",
              !.foto.consultado = Maior(@, exec[e].alvo)],
           exec[e].antiga \/ esquece)
  /\ Termina(e) /\ PodeContar({e})
  /\ UNCHANGED <<base, salvos, sefaz>>

\* No certificate, no answer, another cStat, an incomplete extraction, a document that cannot be
\* stored, a write that fails: all end in the same write.  A wait not yet written is forgotten.
Falhar(e) ==
  LET esquece == exec[e].pc \in {"pausar", "status"} IN
  /\ exec[e].pc \in {"consultar", "persistir", "avancar", "pausar", "status"}
  /\ exec[e].vez = 0
  /\ Grava([Agora(Texto(linha, "neutra", Nenhum)) EXCEPT !.status = "ativo"],
           exec[e].antiga \/ esquece)
  /\ Termina(e) /\ PodeContar({e})
  /\ UNCHANGED <<base, salvos, sefaz>>

----------------------------------------------------------------------------
(* registerSefazDfeCooldown: the text and its date, then the status *)

\* A point query registers the wait twice: applyOfficialPointQueryRestriction without the mark of
\* the recovery, then the recovery with it.
Pausar(e) ==
  /\ exec[e].pc = "pausar"
  /\ bloqueado' = (bloqueado \/ exec[e].motivo = "656")
  /\ Grava(Agora(Texto(linha, exec[e].motivo, Head(exec[e].marcas))), exec[e].antiga)
  /\ Vai(e, "status")
  /\ UNCHANGED <<base, salvos, sefaz>>

PausarStatus(e) ==
  LET resto == Tail(exec[e].marcas) IN
  /\ exec[e].pc = "status"
  /\ linha' = [linha EXCEPT !.status = "ativo"]
  /\ IF resto = << >> THEN Termina(e)
     ELSE exec' = [exec EXCEPT ![e].pc = "pausar", ![e].marcas = resto]
  /\ UNCHANGED <<base, salvos, sefaz, bloqueado, ghosts>>

----------------------------------------------------------------------------
(* runManualCpfSefazPeriodWithLock: back from the highest known NSU, one consNSU at a time *)

\* Where the recovery starts: at the mark, or at the highest NSU the copy knows.
Alvo(f) == IF f.marca # Nenhum THEN f.marca.alvo ELSE Maior(f.maximo, f.consultado)
Proximo(f) == IF f.marca # Nenhum THEN f.marca.prox ELSE Alvo(f)

\* getSefazDfeIncrementalCooldownMessage
EsperaDita(f) == IF f.motivo \in {"137", "sem_avanco"} THEN f.motivo ELSE "neutra"

\* With nothing to ask for the method returns, and leaves the mark as it is.
ComecarPeriodo(e) ==
  LET f == exec[e].foto IN
  /\ exec[e].pc = "retomar"
  /\ IF Suspensa(f, "consNSU") \/ Ocupado THEN Passa(e)
     ELSE IF Proximo(f) = 0 THEN Termina(e)
     ELSE exec' = [exec EXCEPT ![e].pc = "marcar", ![e].prox = Proximo(f), ![e].alvo = Alvo(f),
                 ![e].antiga = Antiga(e),
                 ![e].foto = [SemFoto EXCEPT !.motivo = EsperaDita(f),
                                             !.recente = f.recente /\ EsperaDita(f) # "neutra"]]
  /\ UNCHANGED <<linha, base, salvos, sefaz, bloqueado, ghosts>>

Marca(x) == [prox |-> x.prox, alvo |-> x.alvo]

\* persistSefazCpfHistoricalBackfill: the mark, with a text that asks for no wait.
Marcar(e) ==
  /\ exec[e].pc = "marcar"
  /\ Grava(Texto(linha, "neutra", Marca(exec[e])), exec[e].antiga)
  /\ Vai(e, "pontual")
  /\ UNCHANGED <<base, salvos, sefaz, bloqueado>>

\* stoppedOnError: the mark stays where it is.
Para(e) == exec' = [exec EXCEPT ![e].pc = "fim", ![e].foto = SemFoto, ![e].vez = 0,
                                ![e].marcas = << >>, ![e].motivo = "parou"]

\* The head of the loop and reserveOfficialPointQuery
ReservarConsulta(e) ==
  LET x == exec[e] IN
  /\ x.pc = "pontual"
  /\ IF x.prox = 0 \/ x.vez = NsusPorVez THEN exec' = [exec EXCEPT ![e].pc = "fim", ![e].vez = 0]
     ELSE IF bloqueado THEN Para(e)
     ELSE exec' = [exec EXCEPT ![e].pc = "enviada", ![e].vez = @ + 1]
  /\ UNCHANGED <<linha, base, salvos, sefaz, bloqueado, ghosts>>

\* 138 when SEFAZ still has the NSU; 632 when it is too old, and with it all before it.
ConsultarNsu(e) ==
  /\ exec[e].pc = "enviada"
  /\ IF exec[e].prox > antigos THEN Vai(e, "documento")
     ELSE exec' = [exec EXCEPT ![e].pc = "fim", ![e].prox = 0, ![e].vez = 0]
  /\ UNCHANGED <<linha, base, salvos, sefaz, bloqueado, ghosts>>

ConsumoIndevidoPontual(e) ==
  /\ exec[e].pc = "enviada"
  /\ Espera(e, "656", <<Nenhum, Marca(exec[e])>>)

\* The first of the two registrations of a point query, inside the try of the loop.
Primeira(x) == x.pc \in {"pausar", "status"} /\ Len(x.marcas) = 2

\* The quota is used up, no answer, another cStat, a document that cannot be stored, or a wait
\* that cannot be written with the answer.
Interromper(e) ==
  /\ exec[e].pc \in {"enviada", "documento"} \/ Primeira(exec[e])
  /\ Para(e) /\ PodeContar({e})
  /\ UNCHANGED <<linha, base, salvos, sefaz, ghosts>>

\* Mutant of Anterior: an NSU is skipped.
AnteriorDoAnterior(x) == IF x.prox > 1 THEN x.prox - 2 ELSE 0

\* The NSU a recovery goes on from once the document of NSU prox is dealt with.
Anterior(x) == x.prox - 1

GuardarDocumento(e) ==
  LET x == exec[e] IN
  /\ x.pc = "documento"
  /\ salvos' = salvos \union ({x.prox} \cap NoPeriodo)
  /\ exec' = [exec EXCEPT ![e].pc = "progresso", ![e].prox = Anterior(x)]
  /\ UNCHANGED <<linha, base, sefaz, bloqueado, ghosts>>

Progredir(e) ==
  /\ exec[e].pc = "progresso"
  /\ Grava(Texto(linha, "neutra", Marca(exec[e])), exec[e].antiga)
  /\ Vai(e, "pontual")
  /\ UNCHANGED <<base, salvos, sefaz, bloqueado>>

\* The last text.  A finished recovery says that the wait the copy knew of "permanece vigente":
\* the expressions that read the text back recognise that of 137 and not that of sem_avanco.
Conclusao(x) ==
  LET depois == Texto(linha, IF x.foto.motivo = "137" THEN "137" ELSE "neutra", Nenhum) IN
  [depois EXCEPT !.foto.recente =
     IF x.foto.motivo # "neutra" THEN x.foto.recente ELSE TRUE]

Encerrar(e) ==
  LET x == exec[e] IN
  /\ x.pc = "fim"
  /\ IF x.prox = 0
     THEN Grava(Conclusao(x), x.antiga)
     ELSE Grava(Agora(Texto(linha, "656", Marca(x))), x.antiga)
  /\ IF x.motivo = "parou" /\ x.prox # 0 THEN Termina(e) ELSE Vai(e, "fim_status")
  /\ UNCHANGED <<base, salvos, sefaz, bloqueado>>

EncerrarStatus(e) ==
  /\ exec[e].pc = "fim_status"
  /\ linha' = [linha EXCEPT !.status = "ativo"]
  /\ Termina(e)
  /\ UNCHANGED <<base, salvos, sefaz, bloqueado, ghosts>>

----------------------------------------------------------------------------
(* Failures, time and SEFAZ *)

\* An error the method does not catch: the lock is released, what it had in mind is gone, the
\* wait included when the row does not say it: before its text is written, or after the mark of
\* a recovery has taken the place of the sentence of a 137.
Excecao(e) ==
  /\ exec[e].pc \in ComPosse
  /\ Termina(e) /\ PodeContar({e})
  /\ desfeita' = (desfeita \/ SoEmMemoria)
  /\ UNCHANGED <<linha, base, salvos, sefaz, hora>>

Reiniciar ==
  /\ \E e \in Execucoes : exec[e] # Livre
  /\ exec' = [e \in Execucoes |-> Livre]
  /\ desfeita' = (desfeita \/ SoEmMemoria)
  /\ PodeContar(Execucoes)
  /\ UNCHANGED <<linha, base, salvos, sefaz, hora>>

Vencida(f) == [f EXCEPT !.recente = FALSE]

\* An hour after the last ultimaExecucao, and so after everything written before it.
PassarHora ==
  /\ linha # Nenhum /\ (linha.foto.recente \/ hora # "livre")
  /\ linha' = [linha EXCEPT !.foto = Vencida(@)]
  /\ exec' = [e \in Execucoes |-> [exec[e] EXCEPT !.foto = Vencida(@)]]
  /\ hora' = "livre" /\ desfeita' = FALSE /\ bloqueado' = FALSE
  /\ UNCHANGED <<base, salvos, sefaz>>

\* An hour after SEFAZ asked for it, when the row has been written since.
PassarHoraDaSefaz ==
  /\ hora # "livre" /\ linha.foto.recente
  /\ hora' = "livre" /\ desfeita' = FALSE /\ bloqueado' = FALSE
  /\ UNCHANGED <<linha, base, salvos, sefaz, exec>>

\* An hour after the date in an old copy.
PassarHoraDaCopia(e) ==
  /\ exec[e].foto.recente
  /\ exec[e].antiga \/ hora = "livre" \/ (exec[e].pc \notin ComPosse /\ exec[e].foto # linha.foto)
  /\ exec' = [exec EXCEPT ![e].foto = Vencida(@)]
  /\ UNCHANGED <<linha, base, salvos, sefaz, bloqueado, ghosts>>

Publicar ==
  /\ publicados < MaxNsu
  /\ publicados' = publicados + 1
  /\ UNCHANGED <<linha, base, salvos, antigos, bloqueado, exec, ghosts>>

Envelhecer ==
  /\ antigos < publicados /\ antigos < MaxAntigos
  /\ antigos' = antigos + 1
  /\ UNCHANGED <<linha, base, salvos, publicados, bloqueado, exec, ghosts>>

----------------------------------------------------------------------------
Operador == IniciarSync \/ PausarSync

\* What an execution does when nothing fails.
Passo(e) ==
  \/ LerControles(e) \/ Reativar(e) \/ CapturarBase(e) \/ GravarBase(e)
  \/ Tomar(e) \/ SemDocumentos(e) \/ ReceberLote(e) \/ PersistirDocumento(e) \/ Avancar(e)
  \/ Pausar(e) \/ PausarStatus(e)
  \/ ComecarPeriodo(e) \/ Marcar(e) \/ ReservarConsulta(e) \/ ConsultarNsu(e)
  \/ GuardarDocumento(e) \/ Progredir(e) \/ Encerrar(e) \/ EncerrarStatus(e)

Falha ==
  \/ Reiniciar
  \/ \E e \in Execucoes :
       \/ OutraRetomada(e) \/ FalharBase(e) \/ ConsumoIndevido(e) \/ SemAvanco(e) \/ Falhar(e)
       \/ ConsumoIndevidoPontual(e) \/ Interromper(e) \/ Excecao(e)

Tempo ==
  \/ PassarHora \/ PassarHoraDaSefaz \/ Publicar \/ Envelhecer
  \/ \E e \in Execucoes : PassarHoraDaCopia(e)

Next ==
  \/ Operador \/ Falha \/ Tempo
  \/ \E e \in Execucoes :
       Passo(e) \/ PedirPeriodo(e) \/ \E t \in TiposDe[e] : ComecarCiclo(e, t)

Spec == Init /\ [][Next]_vars

----------------------------------------------------------------------------
(* Properties *)

TypeOK ==
  /\ linha = Nenhum \/ linha \in Linhas
  /\ base \in Nsus /\ salvos \subseteq 1..publicados /\ publicados \in Nsus
  /\ antigos \in 0..publicados
  /\ \A e \in Execucoes : /\ exec[e].pc \in Passos /\ exec[e].tipo \in TiposDe[e] \union {"nenhum"}
                          /\ exec[e].foto \in Fotos
                          /\ exec[e].prox \in 0..publicados + 1 /\ exec[e].alvo \in 0..publicados
                          /\ exec[e].vez \in 0..NsusPorVez
  /\ hora \in {"livre", "137", "656"}

\* The NSU of the row is never beyond a document that was not stored: whatever copies the
\* executions work from, wherever one stopped or the base was captured again.
CursorCoberto ==
  linha # Nenhum =>
    \A n \in base + 1..linha.foto.consultado : n \in salvos \/ n <= antigos

Revisto(x) == \A n \in NoPeriodo : n > x.prox /\ n <= x.alvo => n \in salvos \/ n <= antigos

\* A recovery never leaves a gap behind it: what its mark says was asked for is stored, through
\* stops, hours of waiting, restarts and the other executions that write the row.
RecuperacaoSemLacuna ==
  /\ linha # Nenhum => (linha.foto.marca # Nenhum => Revisto(linha.foto.marca))
  /\ \A e \in Execucoes :
       exec[e].pc \in {"marcar", "pontual", "enviada", "documento", "progresso", "fim", "fim_status"}
         => Revisto(exec[e])

\* SEFAZ's hour: distNSU is not sent in it, nor consNSU in that of a 656, through the two writes
\* of a registration, the recoveries that put their mark in the place of its sentence and take it
\* up at the end, their stops, and exceptions and restarts that leave the row saying of the wait.
\* Not held to it, because the code does not keep it (README, section 3):
\*   - an execution that took the lock on a copy the row had left behind in that hour (antiga);
\*   - everyone, once the text is lost until SEFAZ asks again (desfeita): replaced by the operator,
\*     by an activation or by such an execution; never written, the registration having failed; or
\*     gone with the execution that alone remembered it, an exception or a restart having come
\*     before the text was written or while the mark of a recovery stood in the place of a 137.
PausaRespeitada ==
  \A e \in Execucoes :
    /\ exec[e].pc = "consultar" /\ ~exec[e].antiga /\ ~desfeita => hora = "livre"
    /\ exec[e].pc = "enviada" /\ ~desfeita => hora # "656"

=============================================================================
