----------------------------- MODULE MCNfceSc -----------------------------
(* Instances of NfceSc for TLC: the intervals an operator may ask to      *)
(* review, and the symmetry of the processes for the safety run.           *)
EXTENDS NfceSc, TLC

TudoEFim == {[inicial |-> 0, final |-> MaxNsu], [inicial |-> MaxNsu, final |-> MaxNsu]}
Comeco   == {[inicial |-> 1, final |-> MaxNsu - 1]}

Simetria == Permutations(Processos)
=============================================================================
