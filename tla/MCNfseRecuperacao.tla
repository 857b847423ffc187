-------------------------- MODULE MCNfseRecuperacao --------------------------
(* Small instances of NfseRecuperacao for TLC.                              *)
EXTENDS NfseRecuperacao, TLC

CONSTANTS c1, c2, k1, k2

UmaNota(n, c) == [numero |-> n, emissor |-> c]

\* Each control has a client of its own; the first one issues note 1, and both receive an event.
Dono  == (c1 :> k1) @@ (c2 :> k2)
Filas == (c1 :> <<UmaNota(1, c1), UmaNota(Evento, Nenhum)>>) @@ (c2 :> <<UmaNota(Evento, Nenhum)>>)

\* Operators ask about the first client and the gap of note 1.
Primeiro  == {{c1}}
UmaLacuna == {<<[ini |-> 1, fim |-> 1]>>}

\* Another instance, where NumerosRiscados fails: two establishments of one client, with sequences of their own:
\* notes 1 and 2 of the first, an event and a note of the second.
UmDono      == (c1 :> k1) @@ (c2 :> k1)
DuasFiliais == (c1 :> <<UmaNota(1, c1), UmaNota(2, c1)>>) @@ (c2 :> <<UmaNota(Evento, Nenhum), UmaNota(3, c2)>>)

\* Operators ask about the gap of the two notes.
DuasLacunas == {<<[ini |-> 1, fim |-> 2]>>}
=============================================================================
