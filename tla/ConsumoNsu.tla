----------------------------- MODULE ConsumoNsu -----------------------------
(***************************************************************************)
(* What an incremental consumer of an NSU sequence promises, whatever the  *)
(* scheduling behind it: the saved cursor of a control only ever rests on  *)
(* an NSU below which every NSU has had its answer (a stored document, or  *)
(* an answer that there is nothing to store), and an answer is never       *)
(* forgotten.  NfseSync, NfeSc and NfceSc are shown to implement it.       *)
(***************************************************************************)
EXTENDS Integers

CONSTANTS Controles,    \* one per (client, CNPJ/CPF, environment)
          MaxNsu        \* bound of the NSUs considered

VARIABLES criados,      \* the controls that exist
          inicio,       \* [Controles -> first NSU the control has to cover]
          cursor,       \* [Controles -> the NSU the control rests on]
          respondidos   \* [Controles -> the NSUs that had their answer]

vars == <<criados, inicio, cursor, respondidos>>

Coberto(c, k) == \A n \in inicio[c]..k : n \in respondidos[c]

Init ==
  /\ criados = {}
  /\ inicio = [c \in Controles |-> 1]
  /\ cursor = [c \in Controles |-> 0]
  /\ respondidos = [c \in Controles |-> {}]

\* A control is created on some NSU and answers for what comes after it.
Criar(c, k) ==
  /\ c \notin criados
  /\ criados' = criados \union {c}
  /\ inicio' = [inicio EXCEPT ![c] = k + 1]
  /\ cursor' = [cursor EXCEPT ![c] = k]
  /\ UNCHANGED respondidos

\* Answers arrive, in any order, for NSUs at or beyond any cursor.
Responder(c, S) ==
  /\ c \in criados
  /\ respondidos' = [respondidos EXCEPT ![c] = @ \union S]
  /\ UNCHANGED <<criados, inicio, cursor>>

\* The cursor moves to an NSU with nothing unanswered up to it.
Mover(c, k) ==
  /\ c \in criados
  /\ Coberto(c, k)
  /\ cursor' = [cursor EXCEPT ![c] = k]
  /\ UNCHANGED <<criados, inicio, respondidos>>

Next ==
  \E c \in Controles :
    \/ \E k \in 0..MaxNsu : Criar(c, k) \/ Mover(c, k)
    \/ \E S \in SUBSET (1..MaxNsu) : Responder(c, S)

Spec == Init /\ [][Next]_vars
=============================================================================
