----------------------------- MODULE MCNfseSync -----------------------------
(* Small instances of NfseSync for TLC. *)
EXTENDS NfseSync

CONSTANTS c1, c2, w1, w2, api, k1

\* Every control belongs to one client, every worker lives in the API process.
UmCliente  == [c \in Controles |-> k1]
UmProcesso == [w \in Workers |-> api]
=============================================================================
