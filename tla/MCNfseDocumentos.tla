-------------------------- MODULE MCNfseDocumentos --------------------------
(* Instances of NfseDocumentos for TLC. *)
EXTENDS NfseDocumentos, TLC

CONSTANTS a, b, ca, cb, k1, k2

UmaCada == [c \in {a, b} |-> IF c = a THEN ca ELSE cb]
DeA_ParaB == [k \in {k1, k2} |-> IF k = k1 THEN ("emissao" :> a @@ "tomada" :> b) ELSE ("emissao" :> b @@ "tomada" :> a)]
Nota(k) == [tipo |-> "nota", chave |-> k]
Canc(k) == [tipo |-> "cancelamento", chave |-> k]
Seq1 == [c \in {a, b} |-> IF c = a THEN (1 :> Nota(k1) @@ 2 :> Canc(k1) @@ 3 :> Nota(k2))
                          ELSE (1 :> Nota(k2) @@ 2 :> Nota(k1) @@ 3 :> Canc(k1))]
DoZero == [c \in {a, b} |-> 0]
=============================================================================
