------------------------------ MODULE MCNfeSc ------------------------------
(* Small instances of NfeSc for TLC.  Datas must leave one that nobody     *)
(* remembers: two more than the processes.                                 *)
EXTENDS NfeSc, TLC

\* Dates and processes are interchangeable (used for safety only).
Simetria == Permutations(Datas) \union Permutations(Processos)
=============================================================================
