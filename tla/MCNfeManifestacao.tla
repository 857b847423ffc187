-------------------------- MODULE MCNfeManifestacao --------------------------
(* Instances of NfeManifestacao for TLC. *)
EXTENDS NfeManifestacao

CONSTANTS o, w, r1, r2, r3

Ciencia     == [id |-> r1, tipo |-> "ciencia", reenvio |-> FALSE, retificar |-> FALSE]
Reenvio     == [id |-> r2, tipo |-> "ciencia", reenvio |-> TRUE, retificar |-> FALSE]
Confirmacao == [id |-> r3, tipo |-> "confirmacao", reenvio |-> FALSE, retificar |-> FALSE]

SoCiencia     == {Ciencia}
ComReenvio    == {Ciencia, Reenvio}
ComConclusiva == {Ciencia, Confirmacao}

Ambas == {[ciencia |-> TRUE, xml |-> TRUE]}
=============================================================================
