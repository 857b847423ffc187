----------------------------- MODULE NfseFaixas -----------------------------
(***************************************************************************)
(* Where the audit of numbering gaps looks for the notes that are missing: *)
(* the ranges of NSUs inferred from the notes already stored and the order *)
(* in which they are asked for (sync.service.ts, preparePastNsuRecoveryPlan*)
(* and the operators it calls).                                            *)
(*                                                                         *)
(* A stored note is [nsu, numero]; a gap is an interval of numbers         *)
(* [ini, fim].  One series is kept: the code treats each by itself.        *)
(***************************************************************************)
EXTENDS Integers, Sequences, FiniteSets, SequencesExt

CONSTANTS
  LimiteDistancia,      \* widest distance between two neighbours searched whole (250)
  JanelaMin, JanelaMax, \* trailingFallbackWindow (60 and 250)
  FolgaMin, FolgaMax    \* buffer around an interpolated position (10 and 60)

ASSUME FaixasAssumption ==
  /\ LimiteDistancia \in Nat
  /\ JanelaMin \in Nat /\ JanelaMax \in Nat /\ FolgaMin \in Nat /\ FolgaMax \in Nat

MaiorDe(a, b) == IF a >= b THEN a ELSE b
MenorDe(a, b) == IF a <= b THEN a ELSE b
Limitado(a, minimo, maximo) == MaiorDe(minimo, MenorDe(maximo, a))

Quantidade(lacuna) == lacuna.fim - lacuna.ini + 1

\* The elements of a finite set in the order of their keys, which differ: the one at i has i keys
\* up to its own.
Ordenados(S, chave) ==
  [i \in 1..Cardinality(S) |-> CHOOSE x \in S : Cardinality({y \in S : chave[y] <= chave[x]}) = i]

\* The maximal intervals of a set of numbers, in order.
Intervalos(S) ==
  LET todos == {f \in [ini : S, fim : S] :
                  f.ini <= f.fim /\ f.ini..f.fim \subseteq S /\ f.ini - 1 \notin S /\ f.fim + 1 \notin S} IN
  Ordenados(todos, [f \in todos |-> f.ini])

\* removeStoredNfseNumbersFromGaps: what is missing of each gap.
RemoveStoredNfseNumbersFromGaps(lacunas, numeros) ==
  FlattenSeq([i \in DOMAIN lacunas |-> Intervalos((lacunas[i].ini..lacunas[i].fim) \ numeros)])

\* createPlannedPastNsuRange: no range, or one.
CreatePlannedPastNsuRange(ini, fim, prioritarios) ==
  IF fim < ini THEN <<>> ELSE <<[ini |-> ini, fim |-> fim, prioritarios |-> prioritarios]>>

\* estimateGapPriorityNsus: for each missing number the NSU in proportion to its
\* distance from the neighbours (up to 250 numbers, which no instance reaches).  The scan drops
\* the repeated ones.
EstimateGapPriorityNsus(lacuna, lower, upper, ini, fim) ==
  LET distancia == upper.numero - lower.numero
      estimado(numero) ==
        lower.nsu + ((numero - lower.numero) * (upper.nsu - lower.nsu) + distancia \div 2) \div distancia IN
  [i \in 1..Quantidade(lacuna) |-> Limitado(estimado(lacuna.ini + i - 1), ini, fim)]

\* prioritizeRangeFromEnd
PrioritizeRangeFromEnd(ini, fim) == [i \in 1..MaiorDe(0, fim - ini + 1) |-> fim + 1 - i]

\* The last note before the gap and the first one after it (of equal numbers, the last
\* and the first by NSU).
Antes(itens, lacuna) ==
  {i \in itens : /\ i.numero < lacuna.ini
                 /\ \A j \in itens : j.numero < lacuna.ini =>
                      j.numero < i.numero \/ (j.numero = i.numero /\ j.nsu <= i.nsu)}

Depois(itens, lacuna) ==
  {i \in itens : /\ i.numero > lacuna.fim
                 /\ \A j \in itens : j.numero > lacuna.fim =>
                      j.numero > i.numero \/ (j.numero = i.numero /\ j.nsu >= i.nsu)}

\* Between two neighbours: the whole distance, or a window around the position in proportion.
FaixaEntre(lacuna, lower, upper) ==
  LET nsus    == upper.nsu - lower.nsu
      numeros == upper.numero - lower.numero
      folga   == Limitado(Quantidade(lacuna) * 8, FolgaMin, FolgaMax)
      perto   == nsus <= LimiteDistancia
      inicio  == lower.nsu + ((lacuna.ini - lower.numero) * nsus) \div numeros
      termino == lower.nsu + ((lacuna.fim - lower.numero) * nsus + numeros - 1) \div numeros
      ini     == IF perto THEN lower.nsu + 1 ELSE MaiorDe(lower.nsu + 1, inicio - folga)
      fim     == IF perto THEN upper.nsu - 1 ELSE MenorDe(upper.nsu - 1, termino + folga) IN
  CreatePlannedPastNsuRange(ini, fim, EstimateGapPriorityNsus(lacuna, lower, upper, ini, fim))

\* inferGapAuditRange
InferGapAuditRange(cursor, lacuna, itens) ==
  LET janela == Limitado(Quantidade(lacuna) * 20, JanelaMin, JanelaMax)
      antes  == Antes(itens, lacuna)
      depois == Depois(itens, lacuna)
      lower  == CHOOSE i \in antes : TRUE
      upper  == CHOOSE i \in depois : TRUE
      doFim(ini, fim) == CreatePlannedPastNsuRange(ini, fim, PrioritizeRangeFromEnd(ini, fim)) IN
  IF antes # {} /\ depois # {} /\ upper.nsu > lower.nsu THEN FaixaEntre(lacuna, lower, upper)
  ELSE IF antes # {}
       THEN CreatePlannedPastNsuRange(lower.nsu + 1, MenorDe(cursor, lower.nsu + janela), <<>>)
  ELSE IF depois # {} THEN doFim(MaiorDe(1, upper.nsu - janela), upper.nsu - 1)
  ELSE IF cursor < 1 THEN <<>>
  ELSE doFim(MaiorDe(1, cursor - janela + 1), cursor)

\* mergePlannedPastNsuRanges: ranges that overlap or touch become one, with the likely NSUs of
\* each in the order of the ranges (a stable sort by their first NSU).
MergePlannedPastNsuRanges(faixas) ==
  LET juntas  == Intervalos(UNION {faixas[i].ini..faixas[i].fim : i \in DOMAIN faixas})
      partes(j) == {i \in DOMAIN faixas : faixas[i].ini \in j.ini..j.fim}
      ordem(j)  == Ordenados(partes(j), [i \in partes(j) |-> faixas[i].ini * Len(faixas) + i]) IN
  [k \in DOMAIN juntas |->
    [ini |-> juntas[k].ini, fim |-> juntas[k].fim,
     prioritarios |-> FlattenSeq([p \in DOMAIN ordem(juntas[k]) |-> faixas[ordem(juntas[k])[p]].prioritarios])]]

\* buildGapAuditRangesForControl
BuildGapAuditRanges(cursor, lacunas, itens) ==
  MergePlannedPastNsuRanges(
    FlattenSeq([i \in DOMAIN lacunas |-> InferGapAuditRange(cursor, lacunas[i], itens)]))

\* The NSUs of a range, in order.
EmOrdem(ini, fim) == [i \in 1..(fim - ini + 1) |-> ini + i - 1]

\* iteratePastNsuScanOrder: the likely NSUs first, each where it comes first, then the others in order.
IteratePastNsuScanOrder(faixa) ==
  LET p     == faixa.prioritarios
      nsus  == faixa.ini..faixa.fim
      ordem == [n \in nsus |-> IF n \in ToSet(p) THEN CHOOSE i \in DOMAIN p : p[i] = n /\ \A j \in 1..i - 1 : p[j] # n
                               ELSE Len(p) + n] IN
  IF p = <<>> THEN EmOrdem(faixa.ini, faixa.fim) ELSE Ordenados(nsus, ordem)
=============================================================================
