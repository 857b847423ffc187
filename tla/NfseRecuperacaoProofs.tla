------------------------ MODULE NfseRecuperacaoProofs ------------------------
(***************************************************************************)
(* The night's recovery skips no NSU; an audit of gaps looks everywhere the *)
(* missing numbers may be, and ends early only when it has found them; and *)
(* every variable has its type: for any number of controls, clients,       *)
(* requests and NSUs, any size of a round and any gaps asked about.        *)
(***************************************************************************)
EXTENDS NfseRecuperacao, SequenceTheorems, FiniteSetTheorems, WellFoundedInduction, TLAPS

\* The NSUs of each control whose note its client keeps or that the night has gone through.
Cobertos == [c \in Controles |-> {n \in Nsus : n \in revistos[c] \/ Tem(c, n)}]

\* What follows holds of a coverage K, now or in the next state.
Coberturas == [Controles -> SUBSET Nsus]
Ate(K, c, k) == 1..k \subseteq K[c]

ArquivoOK(K, a) == \A c \in Controles : Ate(K, c, a.nextNsu[c] - 1)

\* What is left of a range from ini on.
Restante(ini, fim) == IF ini > fim THEN <<>> ELSE <<EmOrdem(ini, fim)>>

\* A planned range begins right after NSUs that are covered, and ends at the NSU planned.
PlanoOK(K, p) ==
  /\ p.alvos = {}
  /\ \E ini \in 1..p.nsuFinal : p.faixas = Restante(ini, p.nsuFinal) /\ Ate(K, p.controle, ini - 1)

DetalheOK(K, d) == d.falhou \/ Ate(K, d.controle, d.nsuFinal)

\* Without a failure, everything before what is left of the range is covered.
EmCurso(K, r) ==
  LET p == Head(r.plano) IN
  /\ r.plano # <<>> /\ r.restam = {}
  /\ \E ini \in 1..p.nsuFinal + 1 :
       r.faixas = Restante(ini, p.nsuFinal) /\ (r.falhou \/ Ate(K, p.controle, ini - 1))

NoiteOK(K, r) ==
  /\ r \in Local
  /\ ArquivoOK(K, r.estado)
  /\ \A i \in DOMAIN r.plano : PlanoOK(K, r.plano[i])
  /\ \A d \in r.detalhes : DetalheOK(K, d)
  /\ r.pc = "nsu" => EmCurso(K, r)

\* The plans of the operators' audits are typed below (TInv): nothing the night relies on reads them.
Tipada ==
  /\ ultimoNsuConsultado \in [Controles -> 0..MaxNsu]
  /\ guardado = [k \in Clientes |-> [n \in Nsus |-> guardado[k][n]]]
  /\ arquivo \in Arquivos
  /\ revistos \in [Controles -> SUBSET Nsus]
  /\ exec = [e \in Execucoes |-> exec[e]]

IInv == Tipada /\ ArquivoOK(Cobertos, arquivo) /\ NoiteOK(Cobertos, exec[Noturna])
-----------------------------------------------------------------------------
(* Where the missing numbers are looked for, for any notes stored, any     *)
(* gaps and any widths of the windows (NfseFaixas)                         *)

LEMMA Limites ==
  ASSUME NEW a \in Int, NEW b \in Int
  PROVE  /\ MaiorDe(a, b) \in {a, b} /\ MaiorDe(a, b) >= a /\ MaiorDe(a, b) >= b
         /\ MenorDe(a, b) \in {a, b} /\ MenorDe(a, b) <= a /\ MenorDe(a, b) <= b
BY DEF MaiorDe, MenorDe

\* The elements of a finite set, by keys that differ: all of them, each once, in order.
LEMMA OrdemPorChave ==
  ASSUME NEW S, IsFiniteSet(S), NEW k, \A x \in S : k[x] \in Int, \A x, y \in S : k[x] = k[y] => x = y
  PROVE  /\ Ordenados(S, k) \in Seq(S) /\ Len(Ordenados(S, k)) = Cardinality(S)
         /\ \A i, j \in 1..Cardinality(S) : i < j => k[Ordenados(S, k)[i]] < k[Ordenados(S, k)[j]]
         /\ \A x \in S : \E i \in 1..Cardinality(S) : Ordenados(S, k)[i] = x
<1> DEFINE ate(x) == {y \in S : k[y] <= k[x]}
<1> PICK n \in Nat : n = Cardinality(S)
  BY FS_CardinalityType
<1>1. ASSUME NEW x \in S PROVE IsFiniteSet(ate(x)) /\ Cardinality(ate(x)) \in 1..n
  <2>1. ate(x) \in SUBSET S /\ x \in ate(x)
    OBVIOUS
  <2> HIDE DEF ate
  <2>2. IsFiniteSet(ate(x)) /\ Cardinality(ate(x)) <= n
    BY <2>1, FS_Subset
  <2>3. Cardinality(ate(x)) \in Nat /\ Cardinality(ate(x)) # 0
    BY <2>1, <2>2, FS_CardinalityType, FS_EmptySet
  <2> QED
    BY <2>2, <2>3
<1>2. ASSUME NEW x \in S, NEW y \in S, k[x] < k[y] PROVE Cardinality(ate(x)) < Cardinality(ate(y))
  <2>1. ate(x) \in SUBSET ate(y) /\ y \in ate(y) /\ y \notin ate(x)
    BY <1>2
  <2>2. IsFiniteSet(ate(y)) /\ Cardinality(ate(x)) \in 1..n /\ Cardinality(ate(y)) \in 1..n
    BY <1>1
  <2> HIDE DEF ate
  <2>3. Cardinality(ate(x)) <= Cardinality(ate(y)) /\ Cardinality(ate(x)) # Cardinality(ate(y))
    BY <2>1, <2>2, FS_Subset
  <2> QED
    BY <2>2, <2>3
<1> PICK rk : rk = [x \in S |-> Cardinality(ate(x))]
  OBVIOUS
<1>3. rk \in [S -> 1..n] /\ \A x \in S : rk[x] = Cardinality(ate(x))
  BY <1>1
<1>4. ASSUME NEW x \in S, NEW y \in S, rk[x] = rk[y] PROVE x = y
  <2>1. k[x] \in Int /\ k[y] \in Int
    OBVIOUS
  <2>2. rk[x] \in Int /\ rk[y] \in Int /\ (k[x] < k[y] => rk[x] < rk[y]) /\ (k[y] < k[x] => rk[y] < rk[x])
    <3> HIDE DEF ate
    <3> QED
      BY <1>2, <1>3
  <2>3. k[x] = k[y]
    BY <1>4, <2>1, <2>2
  <2> QED
    BY <2>3
<1>5. \A i \in 1..n : \E x \in S : Cardinality(ate(x)) = i
  <2>1. rk \in Injection(S, 1..n)
    BY <1>3, <1>4 DEF Injection, IsInjective
  <2>2. IsFiniteSet(1..n) /\ Cardinality(1..n) = n
    BY FS_Interval
  <2>3. rk \in Surjection(S, 1..n)
    BY <2>1, <2>2, FS_Injection
  <2>4. \A i \in 1..n : \E x \in S : rk[x] = i
    BY <2>3 DEF Surjection
  <2> HIDE DEF ate
  <2> QED
    BY <1>3, <2>4
<1> PICK s : s = Ordenados(S, k)
  OBVIOUS
<1>6. s = [i \in 1..n |-> CHOOSE x \in S : Cardinality(ate(x)) = i]
  BY DEF Ordenados
<1>7. ASSUME NEW i \in 1..n PROVE s[i] \in S /\ Cardinality(ate(s[i])) = i
  <2> HIDE DEF ate
  <2>1. s[i] = CHOOSE x \in S : Cardinality(ate(x)) = i
    BY <1>6
  <2> QED
    BY <1>5, <2>1
<1>8. s \in [1..n -> S]
  <2> HIDE DEF ate
  <2> QED
    BY <1>6, <1>7
<1>9. s \in Seq(S) /\ Len(s) = n
  BY <1>8
<1>10. ASSUME NEW i \in 1..n, NEW j \in 1..n, i < j PROVE k[s[i]] < k[s[j]]
  <2> PICK x \in S, y \in S : x = s[i] /\ y = s[j]
    BY <1>7
  <2>1. Cardinality(ate(x)) = i /\ Cardinality(ate(y)) = j
    BY <1>7
  <2>2. k[x] \in Int /\ k[y] \in Int /\ (k[y] < k[x] => j < i)
    <3> HIDE DEF ate
    <3> QED
      BY <1>2, <2>1
  <2>3. k[x] # k[y]
    <3> HIDE DEF ate
    <3> QED
      BY <1>10, <2>1
  <2> QED
    BY <1>10, <2>2, <2>3
<1>11. ASSUME NEW x \in S PROVE \E i \in 1..n : s[i] = x
  <2> PICK i \in 1..n : i = Cardinality(ate(x))
    BY <1>1
  <2>1. s[i] \in S /\ Cardinality(ate(s[i])) = Cardinality(ate(x))
    BY <1>7
  <2> HIDE DEF ate
  <2>2. rk[s[i]] = rk[x]
    BY <1>3, <2>1
  <2> QED
    BY <1>4, <2>1, <2>2
<1> QED
  BY <1>9, <1>10, <1>11

LEMMA MenorNatural ==
  ASSUME NEW S, S \subseteq Nat, S # {}
  PROVE  \E x \in S : \A y \in S : x <= y
<1>1. PICK R : R = OpToRel(<, Nat)
  OBVIOUS
<1>2. IsWellFoundedOn(R, Nat)
  BY <1>1, NatLessThanWellFounded
<1>3. PICK x \in S : \A y \in S : ~(<<y, x>> \in R)
  BY <1>2, WFMin
<1>4. \A a, b \in Nat : a < b => <<a, b>> \in R
  BY <1>1 DEF OpToRel
<1>5. \A y \in S : ~(y < x) /\ x \in Nat /\ y \in Nat
  BY <1>3, <1>4
<1> QED
  BY <1>5

\* A finite set of numbers stops somewhere above each of its elements ...
LEMMA FimDoIntervalo ==
  ASSUME NEW S, S \subseteq Int, IsFiniteSet(S), NEW x \in S
  PROVE  \E b \in S : x <= b /\ x..b \subseteq S /\ b + 1 \notin S
<1> DEFINE D == {d \in Nat : x + d + 1 \notin S}
<1> PICK n \in Nat : n = Cardinality(S)
  BY FS_CardinalityType
<1>1. x \in Int
  OBVIOUS
<1>2. D # {}
  <2> SUFFICES ASSUME D = {} PROVE FALSE
    OBVIOUS
  <2>1. \A d \in Nat : x + d + 1 \in S
    OBVIOUS
  <2>2. \A y \in x..x + n : y = x \/ (y - x - 1 \in Nat /\ y = x + (y - x - 1) + 1)
    BY <1>1
  <2>3. x..x + n \in SUBSET S
    BY <2>1, <2>2
  <2>4. Cardinality(x..x + n) = n + 1
    BY <1>1, FS_Interval
  <2>5. Cardinality(x..x + n) <= n
    BY <2>3, FS_Subset
  <2> QED
    BY <2>4, <2>5
<1>3. PICK d \in D : \A e \in D : d <= e
  <2>1. D \subseteq Nat
    OBVIOUS
  <2> HIDE DEF D
  <2> QED
    BY <1>2, <2>1, MenorNatural
<1>4. \A e \in Nat : e < d => x + e + 1 \in S
  BY <1>3
<1>5. \A y \in x..x + d : y = x \/ (y - x - 1 \in Nat /\ y - x - 1 < d /\ y = x + (y - x - 1) + 1)
  BY <1>1
<1>6. x..x + d \subseteq S
  BY <1>4, <1>5
<1>7. x + d \in x..x + d /\ x <= x + d /\ (x + d) + 1 \notin S
  BY <1>1
<1> QED
  BY <1>6, <1>7

\* ... and begins somewhere below.
LEMMA InicioDoIntervalo ==
  ASSUME NEW S, S \subseteq Int, IsFiniteSet(S), NEW x \in S
  PROVE  \E a \in S : a <= x /\ a..x \subseteq S /\ a - 1 \notin S
<1> DEFINE D == {d \in Nat : x - d - 1 \notin S}
<1> PICK n \in Nat : n = Cardinality(S)
  BY FS_CardinalityType
<1>1. x \in Int
  OBVIOUS
<1>2. D # {}
  <2> SUFFICES ASSUME D = {} PROVE FALSE
    OBVIOUS
  <2>1. \A d \in Nat : x - d - 1 \in S
    OBVIOUS
  <2>2. \A y \in x - n..x : y = x \/ (x - y - 1 \in Nat /\ y = x - (x - y - 1) - 1)
    BY <1>1
  <2>3. x - n..x \in SUBSET S
    BY <2>1, <2>2
  <2>4. Cardinality(x - n..x) = n + 1
    <3>1. PICK a \in Int : a = x - n
      BY <1>1
    <3>2. Cardinality(a..x) = x - a + 1
      BY <1>1, <3>1, FS_Interval
    <3> QED
      BY <1>1, <3>1, <3>2
  <2>5. Cardinality(x - n..x) <= n
    BY <2>3, FS_Subset
  <2> QED
    BY <2>4, <2>5
<1>3. PICK d \in D : \A e \in D : d <= e
  <2>1. D \subseteq Nat
    OBVIOUS
  <2> HIDE DEF D
  <2> QED
    BY <1>2, <2>1, MenorNatural
<1>4. \A e \in Nat : e < d => x - e - 1 \in S
  BY <1>3
<1>5. \A y \in x - d..x : y = x \/ (x - y - 1 \in Nat /\ x - y - 1 < d /\ y = x - (x - y - 1) - 1)
  BY <1>1
<1>6. x - d..x \subseteq S
  BY <1>4, <1>5
<1>7. x - d \in x - d..x /\ x - d <= x /\ (x - d) - 1 \notin S
  BY <1>1
<1> QED
  BY <1>6, <1>7

\* The intervals are those of the set: in order, apart, and all of it.
LEMMA IntervalosDoConjunto ==
  ASSUME NEW S, S \subseteq Int, IsFiniteSet(S)
  PROVE  /\ Intervalos(S) \in Seq({f \in [ini : S, fim : S] : f.ini <= f.fim /\ f.ini..f.fim \subseteq S})
         /\ \A i, j \in DOMAIN Intervalos(S) : i < j => Intervalos(S)[i].fim + 1 < Intervalos(S)[j].ini
         /\ \A x \in S : \E i \in DOMAIN Intervalos(S) : x \in Intervalos(S)[i].ini..Intervalos(S)[i].fim
<1> DEFINE todos == {f \in [ini : S, fim : S] :
                       f.ini <= f.fim /\ f.ini..f.fim \subseteq S /\ f.ini - 1 \notin S /\ f.fim + 1 \notin S}
           T == {f \in [ini : S, fim : S] : f.ini <= f.fim /\ f.ini..f.fim \subseteq S}
<1>0. PICK k : k = [f \in todos |-> f.ini]
  OBVIOUS
<1>1. \A f \in todos : /\ f \in T /\ k[f] = f.ini /\ f.ini \in Int /\ f.fim \in Int
                       /\ f.ini \in S /\ f.fim \in S
                       /\ f.ini <= f.fim /\ f.ini..f.fim \subseteq S /\ f.ini - 1 \notin S /\ f.fim + 1 \notin S
  BY <1>0
<1>2. ASSUME NEW f \in todos, NEW g \in todos, f.ini = g.ini PROVE f = g
  <2>1. f.fim \in Int /\ g.fim \in Int /\ g.ini \in Int
    BY <1>1
  <2>2. ~(f.fim < g.fim)
    <3> SUFFICES ASSUME f.fim < g.fim PROVE FALSE
      OBVIOUS
    <3>1. f.fim + 1 \in g.ini..g.fim
      BY <1>1, <1>2, <2>1
    <3> QED
      BY <1>1, <3>1
  <2>3. ~(g.fim < f.fim)
    <3> SUFFICES ASSUME g.fim < f.fim PROVE FALSE
      OBVIOUS
    <3>1. g.fim + 1 \in f.ini..f.fim
      BY <1>1, <1>2, <2>1
    <3> QED
      BY <1>1, <3>1
  <2>4. f.fim = g.fim
    BY <2>1, <2>2, <2>3
  <2>5. f \in [ini : S, fim : S] /\ g \in [ini : S, fim : S]
    OBVIOUS
  <2> HIDE DEF todos, T
  <2> QED
    BY <1>2, <2>4, <2>5
<1>3. ASSUME NEW f \in todos, NEW g \in todos, f.ini < g.ini PROVE f.fim + 1 < g.ini
  <2>1. f.fim \in Int /\ g.ini \in Int /\ f.ini \in Int
    BY <1>1
  <2> SUFFICES ASSUME g.ini <= f.fim + 1 PROVE FALSE
    BY <2>1
  <2>2. g.ini - 1 \in f.ini..f.fim
    BY <1>3, <2>1
  <2> HIDE DEF todos, T
  <2> QED
    BY <1>1, <2>2
<1>4. ASSUME NEW x \in S PROVE \E f \in todos : x \in f.ini..f.fim
  <2>1. PICK a \in S : a <= x /\ a..x \subseteq S /\ a - 1 \notin S
    BY InicioDoIntervalo
  <2>2. PICK b \in S : x <= b /\ x..b \subseteq S /\ b + 1 \notin S
    BY FimDoIntervalo
  <2>3. a \in Int /\ b \in Int /\ x \in Int
    OBVIOUS
  <2>4. a..b \subseteq S /\ a <= b /\ x \in a..b
    <3>1. \A y \in a..b : y \in a..x \/ y \in x..b
      BY <2>3
    <3> QED
      BY <2>1, <2>2, <2>3, <3>1
  <2>5. PICK f \in [ini : S, fim : S] : f.ini = a /\ f.fim = b
    <3>1. [ini |-> a, fim |-> b] \in [ini : S, fim : S]
      OBVIOUS
    <3> QED
      BY <3>1
  <2>6. f \in todos
    BY <2>1, <2>2, <2>4, <2>5
  <2> QED
    BY <2>4, <2>5, <2>6
<1> HIDE DEF todos, T
<1>5. IsFiniteSet(todos)
  <2>1. k \in [todos -> S]
    BY <1>0, <1>1
  <2>2. k \in Injection(todos, S)
    BY <1>1, <1>2, <2>1 DEF Injection, IsInjective
  <2> QED
    BY <2>2, FS_Injection
<1> PICK s : s = Ordenados(todos, k)
  OBVIOUS
<1> PICK n : n = Cardinality(todos)
  OBVIOUS
<1>6. /\ s \in Seq(todos) /\ Len(s) = n
      /\ \A i, j \in 1..n : i < j => k[s[i]] < k[s[j]]
      /\ \A f \in todos : \E i \in 1..n : s[i] = f
  <2>1. \A x \in todos : k[x] \in Int
    BY <1>1
  <2>2. \A x, y \in todos : k[x] = k[y] => x = y
    BY <1>1, <1>2
  <2>3. /\ Ordenados(todos, k) \in Seq(todos) /\ Len(Ordenados(todos, k)) = Cardinality(todos)
        /\ \A i, j \in 1..Cardinality(todos) : i < j => k[Ordenados(todos, k)[i]] < k[Ordenados(todos, k)[j]]
        /\ \A x \in todos : \E i \in 1..Cardinality(todos) : Ordenados(todos, k)[i] = x
    BY <1>5, <2>1, <2>2, OrdemPorChave
  <2>4. s \in Seq(todos) /\ Len(s) = n
    BY <2>3
  <2>5. \A i, j \in 1..n : i < j => k[s[i]] < k[s[j]]
    BY <2>3
  <2>6. \A f \in todos : \E i \in 1..n : s[i] = f
    BY <2>3
  <2> QED
    BY <2>4, <2>5, <2>6
<1>7. s = Intervalos(S)
  BY <1>0 DEF Intervalos, todos
<1>8. DOMAIN s = 1..n /\ \A i \in 1..n : s[i] \in todos
  BY <1>6
<1>9. s \in Seq(T)
  <2>1. todos \subseteq T
    BY <1>1
  <2> QED
    BY <1>6, <2>1, SeqMonotonic
<1>10. \A i, j \in DOMAIN s : i < j => s[i].fim + 1 < s[j].ini
  <2> SUFFICES ASSUME NEW i \in 1..n, NEW j \in 1..n, i < j PROVE s[i].fim + 1 < s[j].ini
    BY <1>8
  <2>1. PICK f \in todos, g \in todos : f = s[i] /\ g = s[j]
    BY <1>8
  <2>2. f.ini < g.ini
    BY <1>1, <1>6, <2>1
  <2> QED
    BY <1>3, <2>1, <2>2
<1>11. \A x \in S : \E i \in DOMAIN s : x \in s[i].ini..s[i].fim
  BY <1>4, <1>6, <1>8
<1> QED
  BY <1>7, <1>9, <1>10, <1>11 DEF T

\* The function by which FlattenSeq is defined is there for every sequence of sequences ...
LEMMA AchatarExiste ==
  ASSUME NEW T, NEW ss \in Seq(Seq(T))
  PROVE  \E f : f = [i \in 1..Len(ss) |-> IF i = 1 THEN ss[i] ELSE f[i - 1] \o ss[i]]
<1> PICK n \in Nat : n = Len(ss) /\ DOMAIN ss = 1..n
  OBVIOUS
<1> DEFINE Prefixo(m) == \E f \in [1..m -> Seq(T)] : \A i \in 1..m : f[i] = IF i = 1 THEN ss[i] ELSE f[i - 1] \o ss[i]
           Maus == {m \in 0..n : ~Prefixo(m)}
<1>1. \A i \in 1..n : ss[i] \in Seq(T)
  OBVIOUS
<1>2. Prefixo(0)
  <2>1. \A i \in 1..0 : FALSE
    OBVIOUS
  <2>2. PICK f : f = [i \in 1..0 |-> <<>>]
    OBVIOUS
  <2>3. f \in [1..0 -> Seq(T)]
    BY <2>2
  <2> QED
    BY <2>1, <2>3
<1>3. ASSUME NEW m \in 1..n, Prefixo(m - 1) PROVE Prefixo(m)
  <2>1. PICK f \in [1..m - 1 -> Seq(T)] : \A i \in 1..m - 1 : f[i] = IF i = 1 THEN ss[i] ELSE f[i - 1] \o ss[i]
    BY <1>3
  <2>2. PICK x : x = IF m = 1 THEN ss[m] ELSE f[m - 1] \o ss[m]
    OBVIOUS
  <2>3. x \in Seq(T)
    <3>1. CASE m = 1
      BY <1>1, <2>2, <3>1
    <3>2. CASE m # 1
      <4>1. f[m - 1] \in Seq(T) /\ ss[m] \in Seq(T)
        BY <1>1, <3>2
      <4> QED
        BY <2>2, <3>2, <4>1, ConcatProperties
    <3> QED
      BY <3>1, <3>2
  <2>4. PICK g : g = [i \in 1..m |-> IF i = m THEN x ELSE f[i]]
    OBVIOUS
  <2>5. \A i \in 1..m : i = m \/ i \in 1..m - 1
    OBVIOUS
  <2>6. g \in [1..m -> Seq(T)]
    BY <2>3, <2>4, <2>5
  <2>7. ASSUME NEW i \in 1..m PROVE g[i] = IF i = 1 THEN ss[i] ELSE g[i - 1] \o ss[i]
    <3>1. i # 1 => i - 1 \in 1..m - 1 /\ i - 1 # m /\ i - 1 \in 1..m
      OBVIOUS
    <3>2. i # 1 => g[i - 1] = f[i - 1]
      BY <2>4, <3>1
    <3>3. CASE i = m
      BY <2>2, <2>4, <3>2, <3>3
    <3>4. CASE i # m
      <4>1. i \in 1..m - 1 /\ g[i] = f[i]
        BY <2>4, <3>4
      <4> QED
        BY <2>1, <3>2, <4>1
    <3> QED
      BY <3>3, <3>4
  <2> QED
    BY <2>6, <2>7
<1> HIDE DEF Prefixo
<1>4. Maus = {}
  <2> SUFFICES ASSUME Maus # {} PROVE FALSE
    OBVIOUS
  <2>1. Maus \subseteq Nat
    OBVIOUS
  <2> PICK m \in Maus : \A k \in Maus : m <= k
    BY <2>1, MenorNatural
  <2>2. m \in 0..n /\ ~Prefixo(m) /\ m # 0
    BY <1>2
  <2>3. m - 1 \in 0..n /\ m - 1 \notin Maus /\ m \in 1..n
    BY <2>2
  <2>4. Prefixo(m - 1)
    BY <2>3
  <2> QED
    BY <1>3, <2>2, <2>3, <2>4
<1>5. Prefixo(n)
  BY <1>4
<1>6. PICK f \in [1..n -> Seq(T)] : \A i \in 1..n : f[i] = IF i = 1 THEN ss[i] ELSE f[i - 1] \o ss[i]
  BY <1>5 DEF Prefixo
<1>7. f = [i \in 1..n |-> IF i = 1 THEN ss[i] ELSE f[i - 1] \o ss[i]]
  BY <1>6
<1> QED
  BY <1>7

\* ... so the sequences are put one after the other.
LEMMA SequenciaAchatada ==
  ASSUME NEW T, NEW ss \in Seq(Seq(T))
  PROVE  /\ FlattenSeq(ss) \in Seq(T)
         /\ \A i \in DOMAIN ss : \A j \in DOMAIN ss[i] : \E k \in DOMAIN FlattenSeq(ss) : FlattenSeq(ss)[k] = ss[i][j]
         /\ \A k \in DOMAIN FlattenSeq(ss) : \E i \in DOMAIN ss : \E j \in DOMAIN ss[i] : FlattenSeq(ss)[k] = ss[i][j]
<1> PICK n \in Nat : n = Len(ss) /\ DOMAIN ss = 1..n
  OBVIOUS
<1> DEFINE G(f) == f = [i \in 1..Len(ss) |-> IF i = 1 THEN ss[i] ELSE f[i - 1] \o ss[i]]
<1>0. PICK g : g = CHOOSE f : G(f)
  OBVIOUS
<1>1. G(g)
  <2>1. \E f : G(f)
    BY AchatarExiste
  <2> HIDE DEF G
  <2> QED
    BY <1>0, <2>1
<1>2. n # 0 => FlattenSeq(ss) = g[n]
  BY <1>0 DEF FlattenSeq
<1> HIDE DEF G
<1>3. CASE n = 0
  <2>1. ss = <<>> /\ FlattenSeq(ss) = ss
    BY <1>3 DEF FlattenSeq
  <2>2. <<>> \in Seq(T) /\ DOMAIN <<>> = {}
    OBVIOUS
  <2> QED
    BY <2>1, <2>2
<1>4. CASE n # 0
  <2> DEFINE Certo(m) ==
        /\ g[m] \in Seq(T)
        /\ \A i \in 1..m : \A j \in 1..Len(ss[i]) : \E k \in 1..Len(g[m]) : g[m][k] = ss[i][j]
        /\ \A k \in 1..Len(g[m]) : \E i \in 1..m : \E j \in 1..Len(ss[i]) : g[m][k] = ss[i][j]
      Maus == {m \in 1..n : ~Certo(m)}
  <2>1. \A i \in 1..n : ss[i] \in Seq(T) /\ DOMAIN ss[i] = 1..Len(ss[i]) /\ Len(ss[i]) \in Nat
    OBVIOUS
  <2>2. Certo(1)
    <3>1. g[1] = ss[1]
      BY <1>1, <1>4 DEF G
    <3>2. \A i \in 1..1 : i = 1
      OBVIOUS
    <3> QED
      BY <1>4, <2>1, <3>1, <3>2
  <2>3. ASSUME NEW m \in 2..n, Certo(m - 1) PROVE Certo(m)
    <3>1. g[m] = g[m - 1] \o ss[m]
      <4>1. m \in 1..Len(ss) /\ m # 1
        OBVIOUS
      <4> QED
        BY <1>1, <4>1 DEF G
    <3>5. PICK a \in Seq(T), b \in Seq(T) : a = g[m - 1] /\ b = ss[m]
      BY <2>1, <2>3
    <3>6. PICK c : c = g[m]
      OBVIOUS
    <3>2. /\ c \in Seq(T) /\ Len(c) = Len(a) + Len(b) /\ Len(a) \in Nat /\ Len(b) \in Nat
          /\ \A k \in 1..Len(a) + Len(b) : c[k] = IF k <= Len(a) THEN a[k] ELSE b[k - Len(a)]
      <4>1. c = a \o b
        BY <3>1, <3>5, <3>6
      <4> QED
        BY <4>1, ConcatProperties
    <3>3. ASSUME NEW i \in 1..m, NEW j \in 1..Len(ss[i]) PROVE \E k \in 1..Len(c) : c[k] = ss[i][j]
      <4>1. CASE i = m
        <5>1. j \in Nat /\ j >= 1 /\ j <= Len(b)
          BY <3>2, <3>5, <4>1
        <5>2. j + Len(a) \in 1..Len(c) /\ c[j + Len(a)] = b[j]
          <6>1. j + Len(a) \in 1..Len(a) + Len(b) /\ ~(j + Len(a) <= Len(a)) /\ j + Len(a) - Len(a) = j
            BY <3>2, <5>1
          <6> QED
            BY <3>2, <6>1
        <5> QED
          BY <3>5, <4>1, <5>2
      <4>2. CASE i # m
        <5>1. i \in 1..m - 1
          BY <4>2
        <5>2. PICK k \in 1..Len(a) : a[k] = ss[i][j]
          BY <2>3, <3>5, <5>1
        <5>3. k \in 1..Len(c) /\ c[k] = a[k]
          BY <3>2
        <5> QED
          BY <5>2, <5>3
      <4> QED
        BY <4>1, <4>2
    <3>4. ASSUME NEW k \in 1..Len(c) PROVE \E i \in 1..m : \E j \in 1..Len(ss[i]) : c[k] = ss[i][j]
      <4>1. CASE k <= Len(a)
        <5>1. k \in 1..Len(a) /\ c[k] = a[k]
          BY <3>2, <4>1
        <5>2. PICK i \in 1..m - 1 : \E j \in 1..Len(ss[i]) : a[k] = ss[i][j]
          BY <2>3, <3>5, <5>1
        <5>3. i \in 1..m
          OBVIOUS
        <5> QED
          BY <5>1, <5>2, <5>3
      <4>2. CASE ~(k <= Len(a))
        <5>1. k - Len(a) \in 1..Len(b) /\ c[k] = b[k - Len(a)]
          BY <3>2, <4>2
        <5> QED
          BY <3>5, <5>1
      <4> QED
        BY <4>1, <4>2
    <3> QED
      BY <3>2, <3>3, <3>4, <3>6
  <2> HIDE DEF Certo
  <2>4. Maus = {}
    <3> SUFFICES ASSUME Maus # {} PROVE FALSE
      OBVIOUS
    <3>1. Maus \subseteq Nat
      OBVIOUS
    <3> PICK m \in Maus : \A k \in Maus : m <= k
      BY <3>1, MenorNatural
    <3>2. m \in 1..n /\ ~Certo(m) /\ m # 1
      BY <2>2
    <3>3. m - 1 \in 1..n /\ m - 1 \notin Maus /\ m \in 2..n
      BY <3>2
    <3>4. Certo(m - 1)
      BY <3>3
    <3> QED
      BY <2>3, <3>2, <3>3, <3>4
  <2>5. Certo(n)
    BY <1>4, <2>4
  <2>8. PICK c : c = g[n]
    OBVIOUS
  <2>6. /\ c \in Seq(T) /\ DOMAIN c = 1..Len(c)
        /\ \A i \in 1..n : \A j \in 1..Len(ss[i]) : \E k \in 1..Len(c) : c[k] = ss[i][j]
        /\ \A k \in 1..Len(c) : \E i \in 1..n : \E j \in 1..Len(ss[i]) : c[k] = ss[i][j]
    BY <2>5, <2>8 DEF Certo
  <2>7. FlattenSeq(ss) = c
    BY <1>2, <1>4, <2>8
  <2>9. ASSUME NEW i \in DOMAIN ss, NEW j \in DOMAIN ss[i] PROVE \E k \in DOMAIN c : c[k] = ss[i][j]
    <3>1. i \in 1..n /\ j \in 1..Len(ss[i])
      BY <2>1
    <3>2. PICK k \in 1..Len(c) : c[k] = ss[i][j]
      BY <2>6, <3>1
    <3> QED
      BY <2>6, <3>2
  <2>10. ASSUME NEW k \in DOMAIN c PROVE \E i \in DOMAIN ss : \E j \in DOMAIN ss[i] : c[k] = ss[i][j]
    <3>1. k \in 1..Len(c)
      BY <2>6
    <3>2. PICK i \in 1..n : \E j \in 1..Len(ss[i]) : c[k] = ss[i][j]
      BY <2>6, <3>1
    <3>3. i \in DOMAIN ss /\ DOMAIN ss[i] = 1..Len(ss[i])
      BY <2>1
    <3> QED
      BY <3>2, <3>3
  <2>11. c \in Seq(T)
    BY <2>6
  <2> QED
    BY <2>7, <2>9, <2>10, <2>11
<1> QED
  BY <1>3, <1>4

\* The ranges of NSUs from 1 to m, the notes stored under such NSUs and the gaps that are asked about.
FaixasAte(m) == {f \in [ini : 1..m, fim : 1..m, prioritarios : Seq(Int)] : f.ini <= f.fim}
ItensAte(m)  == [nsu : 1..m, numero : Nat]
LacunasBoas  == {l \in [ini : Nat \ {0}, fim : Nat] : l.ini <= l.fim}

LEMMA LimitadoInteiro ==
  ASSUME NEW a \in Int, NEW b \in Int, NEW c \in Int
  PROVE  Limitado(a, b, c) \in Int
BY DEF Limitado, MaiorDe, MenorDe

LEMMA FaixaCriada ==
  ASSUME NEW m \in Nat, NEW ini \in Int, NEW fim \in Int, ini >= 1, fim <= m, NEW p, ini <= fim => p \in Seq(Int)
  PROVE  CreatePlannedPastNsuRange(ini, fim, p) \in Seq(FaixasAte(m))
<1>1. CASE fim < ini
  BY <1>1 DEF CreatePlannedPastNsuRange
<1>2. CASE ini <= fim
  <2>1. [ini |-> ini, fim |-> fim, prioritarios |-> p] \in FaixasAte(m)
    BY <1>2 DEF FaixasAte
  <2>2. CreatePlannedPastNsuRange(ini, fim, p) = <<[ini |-> ini, fim |-> fim, prioritarios |-> p]>>
    BY <1>2 DEF CreatePlannedPastNsuRange
  <2> QED
    BY <2>1, <2>2
<1> QED
  BY <1>1, <1>2

LEMMA PrioridadesDoFim ==
  ASSUME NEW ini \in Int, NEW fim \in Int
  PROVE  PrioritizeRangeFromEnd(ini, fim) \in Seq(Int)
<1>1. PICK k \in Nat : k = MaiorDe(0, fim - ini + 1)
  <2>1. MaiorDe(0, fim - ini + 1) \in {0, fim - ini + 1} /\ MaiorDe(0, fim - ini + 1) >= 0
    BY Limites
  <2> QED
    BY <2>1
<1>2. PrioritizeRangeFromEnd(ini, fim) = [i \in 1..k |-> fim + 1 - i]
  BY <1>1 DEF PrioritizeRangeFromEnd
<1>3. PrioritizeRangeFromEnd(ini, fim) \in [1..k -> Int]
  BY <1>2
<1> QED
  BY <1>3

\* An integer for each missing number: the neighbours' numbers differ.
LEMMA PrioridadesEstimadas ==
  ASSUME NEW lacuna \in LacunasBoas, NEW lower \in [nsu : Int, numero : Nat], NEW upper \in [nsu : Int, numero : Nat],
         lower.numero < upper.numero, NEW ini \in Int, NEW fim \in Int
  PROVE  EstimateGapPriorityNsus(lacuna, lower, upper, ini, fim) \in Seq(Int)
<1> DEFINE distancia == upper.numero - lower.numero
           estimado(numero) ==
             lower.nsu + ((numero - lower.numero) * (upper.nsu - lower.nsu) + distancia \div 2) \div distancia
<1>1. lacuna.ini \in Int /\ lower.numero \in Int /\ upper.nsu \in Int /\ lower.nsu \in Int
  BY DEF LacunasBoas
<1>2. distancia \in Nat \ {0}
  OBVIOUS
<1> HIDE DEF distancia
<1>3. ASSUME NEW numero \in Int PROVE estimado(numero) \in Int
  <2>1. PICK a \in Int, b \in Int : a = numero - lower.numero /\ b = upper.nsu - lower.nsu
    BY <1>1
  <2>2. a * b \in Int /\ distancia \div 2 \in Int
    BY <1>2
  <2>3. (a * b + distancia \div 2) \div distancia \in Int
    BY <1>2, <2>2
  <2> QED
    BY <1>1, <2>1, <2>3
<1>4. EstimateGapPriorityNsus(lacuna, lower, upper, ini, fim) =
        [i \in 1..Quantidade(lacuna) |-> Limitado(estimado(lacuna.ini + i - 1), ini, fim)]
  BY DEF EstimateGapPriorityNsus, distancia
<1> HIDE DEF estimado
<1>5. PICK n \in Nat : n = Quantidade(lacuna)
  BY DEF Quantidade, LacunasBoas
<1>6. ASSUME NEW i \in 1..n PROVE Limitado(estimado(lacuna.ini + i - 1), ini, fim) \in Int
  <2>1. estimado(lacuna.ini + i - 1) \in Int
    BY <1>1, <1>3
  <2> QED
    BY <2>1, LimitadoInteiro
<1>7. EstimateGapPriorityNsus(lacuna, lower, upper, ini, fim) \in [1..n -> Int]
  BY <1>4, <1>5, <1>6
<1> QED
  BY <1>7

\* Between two neighbours, nothing outside of them is planned.
LEMMA FaixaEntreVizinhos ==
  ASSUME NEW m \in Nat, NEW lacuna \in LacunasBoas, NEW lower \in ItensAte(m), NEW upper \in ItensAte(m),
         lower.numero < lacuna.ini, lacuna.fim < upper.numero
  PROVE  FaixaEntre(lacuna, lower, upper) \in Seq(FaixasAte(m))
<1>1. /\ lower.nsu \in 1..m /\ upper.nsu \in 1..m /\ lower.numero \in Nat /\ upper.numero \in Nat
      /\ lacuna.ini \in Nat /\ lacuna.fim \in Nat /\ lower.numero < upper.numero
      /\ lower \in [nsu : Int, numero : Nat] /\ upper \in [nsu : Int, numero : Nat]
  BY DEF ItensAte, LacunasBoas
<1> DEFINE nsus    == upper.nsu - lower.nsu
           numeros == upper.numero - lower.numero
           folga   == Limitado(Quantidade(lacuna) * 8, FolgaMin, FolgaMax)
           perto   == nsus <= LimiteDistancia
           inicio  == lower.nsu + ((lacuna.ini - lower.numero) * nsus) \div numeros
           termino == lower.nsu + ((lacuna.fim - lower.numero) * nsus + numeros - 1) \div numeros
           ini     == IF perto THEN lower.nsu + 1 ELSE MaiorDe(lower.nsu + 1, inicio - folga)
           fim     == IF perto THEN upper.nsu - 1 ELSE MenorDe(upper.nsu - 1, termino + folga)
<1>2. nsus \in Int /\ numeros \in Nat \ {0}
  BY <1>1
<1>3. folga \in Int
  <2>1. Quantidade(lacuna) * 8 \in Int
    BY <1>1 DEF Quantidade
  <2>2. FolgaMin \in Int /\ FolgaMax \in Int
    BY FaixasAssumption
  <2> QED
    BY <2>1, <2>2, LimitadoInteiro
<1>4. inicio \in Int /\ termino \in Int
  <2> PICK a \in Int, b \in Int : a = lacuna.ini - lower.numero /\ b = lacuna.fim - lower.numero
    BY <1>1
  <2> PICK c \in Int, d \in Nat \ {0} : c = nsus /\ d = numeros
    BY <1>2
  <2>1. a * c \in Int /\ b * c \in Int
    OBVIOUS
  <2>2. b * c + d - 1 \in Int
    BY <2>1
  <2>3. (a * c) \div d \in Int /\ (b * c + d - 1) \div d \in Int
    BY <2>1, <2>2
  <2> QED
    BY <1>1, <2>3
<1> HIDE DEF folga, inicio, termino, perto
<1>5. ini \in Int /\ fim \in Int /\ ini >= 1 /\ fim <= m
  BY <1>1, <1>3, <1>4, Limites
<1>6. FaixaEntre(lacuna, lower, upper) =
        CreatePlannedPastNsuRange(ini, fim, EstimateGapPriorityNsus(lacuna, lower, upper, ini, fim))
  BY DEF FaixaEntre, folga, inicio, termino, perto
<1> HIDE DEF ini, fim
<1>7. EstimateGapPriorityNsus(lacuna, lower, upper, ini, fim) \in Seq(Int)
  BY <1>1, <1>5, PrioridadesEstimadas
<1> QED
  BY <1>5, <1>6, <1>7, FaixaCriada

\* What a gap makes of the NSUs up to the cursor and of the stored notes: a range of them, or none.
LEMMA FaixaInferida ==
  ASSUME NEW m \in Nat, NEW cursor \in 0..m, NEW lacuna \in LacunasBoas, NEW itens, itens \subseteq ItensAte(m)
  PROVE  InferGapAuditRange(cursor, lacuna, itens) \in Seq(FaixasAte(m))
<1> DEFINE janela == Limitado(Quantidade(lacuna) * 20, JanelaMin, JanelaMax)
           antes  == Antes(itens, lacuna)
           depois == Depois(itens, lacuna)
           lower  == CHOOSE i \in antes : TRUE
           upper  == CHOOSE i \in depois : TRUE
           doFim(ini, fim) == CreatePlannedPastNsuRange(ini, fim, PrioritizeRangeFromEnd(ini, fim))
<1>1. janela \in Int
  <2>1. Quantidade(lacuna) * 20 \in Int
    BY DEF Quantidade, LacunasBoas
  <2>2. JanelaMin \in Int /\ JanelaMax \in Int
    BY FaixasAssumption
  <2> QED
    BY <2>1, <2>2, LimitadoInteiro
<1>2. antes # {} => lower \in ItensAte(m) /\ lower.numero < lacuna.ini /\ lower.nsu \in 1..m
  <2> SUFFICES ASSUME antes # {} PROVE lower \in ItensAte(m) /\ lower.numero < lacuna.ini /\ lower.nsu \in 1..m
    OBVIOUS
  <2>1. lower \in antes
    <3> HIDE DEF antes
    <3> QED
      OBVIOUS
  <2> HIDE DEF lower
  <2>2. lower \in itens /\ lower.numero < lacuna.ini
    BY <2>1 DEF Antes
  <2> QED
    BY <2>2 DEF ItensAte
<1>3. depois # {} => upper \in ItensAte(m) /\ upper.numero > lacuna.fim /\ upper.nsu \in 1..m
  <2> SUFFICES ASSUME depois # {} PROVE upper \in ItensAte(m) /\ upper.numero > lacuna.fim /\ upper.nsu \in 1..m
    OBVIOUS
  <2>1. upper \in depois
    <3> HIDE DEF depois
    <3> QED
      OBVIOUS
  <2> HIDE DEF upper
  <2>2. upper \in itens /\ upper.numero > lacuna.fim
    BY <2>1 DEF Depois
  <2> QED
    BY <2>2 DEF ItensAte
<1> HIDE DEF janela, antes, depois, lower, upper
<1>4. ASSUME NEW ini \in Int, NEW fim \in Int, ini >= 1, fim <= m PROVE doFim(ini, fim) \in Seq(FaixasAte(m))
  BY <1>4, PrioridadesDoFim, FaixaCriada
<1>5. CASE antes # {} /\ depois # {} /\ upper.nsu > lower.nsu
  <2>1. InferGapAuditRange(cursor, lacuna, itens) = FaixaEntre(lacuna, lower, upper)
    BY <1>5 DEF InferGapAuditRange, janela, antes, depois, lower, upper
  <2>2. lacuna.fim < upper.numero
    BY <1>3, <1>5 DEF LacunasBoas, ItensAte
  <2> QED
    BY <1>2, <1>3, <1>5, <2>1, <2>2, FaixaEntreVizinhos
<1>6. CASE ~(antes # {} /\ depois # {} /\ upper.nsu > lower.nsu) /\ antes # {}
  <2>1. InferGapAuditRange(cursor, lacuna, itens) =
          CreatePlannedPastNsuRange(lower.nsu + 1, MenorDe(cursor, lower.nsu + janela), <<>>)
    BY <1>6 DEF InferGapAuditRange, janela, antes, depois, lower, upper
  <2> PICK fim : fim = MenorDe(cursor, lower.nsu + janela)
    OBVIOUS
  <2>2. fim \in Int /\ fim <= m /\ lower.nsu + 1 \in Int /\ lower.nsu + 1 >= 1
    BY <1>1, <1>2, <1>6, Limites
  <2>3. <<>> \in Seq(Int)
    OBVIOUS
  <2> QED
    BY <2>1, <2>2, <2>3, FaixaCriada
<1>7. CASE antes = {} /\ depois # {}
  <2>1. InferGapAuditRange(cursor, lacuna, itens) = doFim(MaiorDe(1, upper.nsu - janela), upper.nsu - 1)
    BY <1>7 DEF InferGapAuditRange, janela, antes, depois, lower, upper
  <2> PICK ini : ini = MaiorDe(1, upper.nsu - janela)
    OBVIOUS
  <2>2. ini \in Int /\ ini >= 1 /\ upper.nsu - 1 \in Int /\ upper.nsu - 1 <= m
    BY <1>1, <1>3, <1>7, Limites
  <2> HIDE DEF doFim
  <2> QED
    BY <1>4, <2>1, <2>2
<1>8. CASE antes = {} /\ depois = {} /\ cursor < 1
  <2>1. InferGapAuditRange(cursor, lacuna, itens) = <<>>
    BY <1>8 DEF InferGapAuditRange, janela, antes, depois, lower, upper
  <2> QED
    BY <2>1
<1>9. CASE antes = {} /\ depois = {} /\ ~(cursor < 1)
  <2>1. InferGapAuditRange(cursor, lacuna, itens) = doFim(MaiorDe(1, cursor - janela + 1), cursor)
    BY <1>9 DEF InferGapAuditRange, janela, antes, depois, lower, upper
  <2> PICK ini : ini = MaiorDe(1, cursor - janela + 1)
    OBVIOUS
  <2>2. ini \in Int /\ ini >= 1 /\ cursor \in Int /\ cursor <= m
    BY <1>1, Limites
  <2> HIDE DEF doFim
  <2> QED
    BY <1>4, <2>1, <2>2
<1> QED
  BY <1>5, <1>6, <1>7, <1>8, <1>9

Numeros(s, x) == \E i \in DOMAIN s : x \in s[i].ini..s[i].fim

\* removeStoredNfseNumbersFromGaps: what is still looked for are the numbers asked about that no note
\* has, in well-formed gaps.
THEOREM SoOsAusentes ==
  ASSUME NEW lacunas \in Seq(LacunasBoas), NEW numeros
  PROVE  /\ RemoveStoredNfseNumbersFromGaps(lacunas, numeros) \in Seq(LacunasBoas)
         /\ \A x : Numeros(RemoveStoredNfseNumbersFromGaps(lacunas, numeros), x) <=>
                     Numeros(lacunas, x) /\ x \notin numeros
<1> PICK n \in Nat : n = Len(lacunas) /\ DOMAIN lacunas = 1..n
  OBVIOUS
<1> DEFINE S(i) == (lacunas[i].ini..lacunas[i].fim) \ numeros
<1>0. PICK f : f = [i \in DOMAIN lacunas |-> Intervalos(S(i))]
  OBVIOUS
<1>1. ASSUME NEW i \in 1..n
      PROVE  /\ f[i] \in Seq(LacunasBoas)
             /\ \A j \in DOMAIN f[i] : f[i][j].ini..f[i][j].fim \subseteq S(i)
             /\ \A x \in S(i) : Numeros(f[i], x)
  <2>1. lacunas[i].ini \in Nat \ {0} /\ lacunas[i].fim \in Nat
    BY DEF LacunasBoas
  <2>2. S(i) \subseteq Nat \ {0}
    BY <2>1
  <2>3. IsFiniteSet(S(i))
    <3>0. PICK a \in Int, b \in Int : a = lacunas[i].ini /\ b = lacunas[i].fim
      BY <2>1
    <3>1. IsFiniteSet(a..b)
      BY FS_Interval
    <3>2. S(i) \in SUBSET (a..b)
      BY <3>0
    <3> QED
      BY <3>1, <3>2, FS_Subset
  <2>4. PICK X : X = S(i)
    OBVIOUS
  <2>5. f[i] = Intervalos(X)
    BY <1>0, <2>4
  <2> DEFINE T == {g \in [ini : X, fim : X] : g.ini <= g.fim /\ g.ini..g.fim \subseteq X}
  <2> HIDE DEF S
  <2>6. /\ f[i] \in Seq(T)
        /\ \A x \in X : Numeros(f[i], x)
    <3>1. X \subseteq Int /\ IsFiniteSet(X)
      BY <2>2, <2>3, <2>4
    <3> QED
      BY <2>5, <3>1, IntervalosDoConjunto DEF Numeros
  <2>7. T \subseteq LacunasBoas
    BY <2>2, <2>4 DEF LacunasBoas
  <2>8. \A j \in DOMAIN f[i] : f[i][j] \in T
    BY <2>6
  <2> QED
    BY <2>4, <2>6, <2>7, <2>8, SeqMonotonic
<1>2. f \in Seq(Seq(LacunasBoas)) /\ DOMAIN f = 1..n
  <2>1. f \in [1..n -> Seq(LacunasBoas)]
    BY <1>0, <1>1
  <2> QED
    BY <2>1
<1>3. PICK r : r = FlattenSeq(f)
  OBVIOUS
<1>4. /\ r \in Seq(LacunasBoas)
      /\ \A i \in DOMAIN f : \A j \in DOMAIN f[i] : \E k \in DOMAIN r : r[k] = f[i][j]
      /\ \A k \in DOMAIN r : \E i \in DOMAIN f : \E j \in DOMAIN f[i] : r[k] = f[i][j]
  <2>1. /\ FlattenSeq(f) \in Seq(LacunasBoas)
        /\ \A i \in DOMAIN f : \A j \in DOMAIN f[i] : \E k \in DOMAIN FlattenSeq(f) : FlattenSeq(f)[k] = f[i][j]
        /\ \A k \in DOMAIN FlattenSeq(f) : \E i \in DOMAIN f : \E j \in DOMAIN f[i] : FlattenSeq(f)[k] = f[i][j]
    <3> HIDE DEF S
    <3> QED
      BY <1>2, SequenciaAchatada
  <2> QED
    BY <1>3, <2>1
<1>5. r = RemoveStoredNfseNumbersFromGaps(lacunas, numeros)
  BY <1>0, <1>3 DEF RemoveStoredNfseNumbersFromGaps
<1>6. ASSUME NEW x, Numeros(r, x) PROVE Numeros(lacunas, x) /\ x \notin numeros
  <2>1. PICK k \in DOMAIN r : x \in r[k].ini..r[k].fim
    BY <1>6 DEF Numeros
  <2>2. PICK i \in 1..n : \E j \in DOMAIN f[i] : r[k] = f[i][j]
    BY <1>2, <1>4
  <2>3. x \in S(i)
    BY <1>1, <2>1, <2>2
  <2> QED
    BY <2>3 DEF Numeros
<1>7. ASSUME NEW x, Numeros(lacunas, x), x \notin numeros PROVE Numeros(r, x)
  <2>1. PICK i \in 1..n : x \in S(i)
    BY <1>7 DEF Numeros
  <2>2. PICK j \in DOMAIN f[i] : x \in f[i][j].ini..f[i][j].fim
    BY <1>1, <2>1 DEF Numeros
  <2>3. PICK k \in DOMAIN r : r[k] = f[i][j]
    BY <1>2, <1>4
  <2> QED
    BY <2>2, <2>3 DEF Numeros
<1> QED
  BY <1>4, <1>5, <1>6, <1>7

\* Sorting by first NSU and then by position leaves no two ranges with one key.
LEMMA ChaveDaFaixa ==
  ASSUME NEW L \in Nat, NEW i \in 1..L, NEW j \in 1..L, NEW a \in Int, NEW b \in Int, a * L + i = b * L + j
  PROVE  i = j
<1>1. ASSUME NEW c \in Int, NEW d \in Int, c < d PROVE c * L + L <= d * L
  <2>1. PICK e \in Nat : d = c + 1 + e
    <3>1. d - c - 1 \in Nat /\ d = c + 1 + (d - c - 1)
      BY <1>1
    <3> QED
      BY <3>1
  <2>2. d * L = c * L + L + e * L
    BY <2>1
  <2>3. e * L \in Nat /\ c * L \in Int
    OBVIOUS
  <2> QED
    BY <2>2, <2>3
<1>2. a * L \in Int /\ b * L \in Int /\ (a < b => a * L + L <= b * L) /\ (b < a => b * L + L <= a * L)
  BY <1>1
<1>3. a = b
  BY <1>2
<1>4. PICK c \in Int : c = a * L
  BY <1>2
<1>5. c + i = c + j
  BY <1>3, <1>4
<1> QED
  BY <1>5

\* mergePlannedPastNsuRanges: the same NSUs, in ranges in order that do not touch.
LEMMA FaixasUnidas ==
  ASSUME NEW m \in Nat, NEW faixas \in Seq(FaixasAte(m))
  PROVE  /\ MergePlannedPastNsuRanges(faixas) \in Seq(FaixasAte(m))
         /\ \A i, j \in DOMAIN MergePlannedPastNsuRanges(faixas) :
              i < j => MergePlannedPastNsuRanges(faixas)[i].fim + 1 < MergePlannedPastNsuRanges(faixas)[j].ini
         /\ \A x : Numeros(MergePlannedPastNsuRanges(faixas), x) <=> Numeros(faixas, x)
<1> DEFINE U == UNION {faixas[i].ini..faixas[i].fim : i \in DOMAIN faixas}
           partes(j) == {i \in DOMAIN faixas : faixas[i].ini \in j.ini..j.fim}
           ordem(j)  == Ordenados(partes(j), [i \in partes(j) |-> faixas[i].ini * Len(faixas) + i])
           T == {f \in [ini : U, fim : U] : f.ini <= f.fim /\ f.ini..f.fim \subseteq U}
           prio(j) == FlattenSeq([p \in DOMAIN ordem(j) |-> faixas[ordem(j)[p]].prioritarios])
<1>0. PICK juntas : juntas = Intervalos(U)
  OBVIOUS
<1>1. /\ Len(faixas) \in Nat /\ DOMAIN faixas = 1..Len(faixas)
      /\ \A i \in DOMAIN faixas : /\ faixas[i].ini \in 1..m /\ faixas[i].fim \in 1..m
                                  /\ faixas[i].prioritarios \in Seq(Int)
  BY DEF FaixasAte
<1>2. U \subseteq 1..m /\ U \subseteq Int /\ IsFiniteSet(U)
  <2>1. U \subseteq 1..m
    BY <1>1
  <2>2. IsFiniteSet(1..m)
    BY FS_Interval
  <2> HIDE DEF U
  <2>3. U \in SUBSET (1..m) /\ U \subseteq Int
    BY <2>1
  <2> QED
    BY <2>2, <2>3, FS_Subset
<1>3. \A x : x \in U <=> Numeros(faixas, x)
  BY DEF Numeros
<1>4. ASSUME NEW j PROVE prio(j) \in Seq(Int)
  <2>1. PICK P \in SUBSET (1..Len(faixas)) : P = partes(j)
    BY <1>1
  <2>2. IsFiniteSet(P)
    <3>1. IsFiniteSet(1..Len(faixas))
      BY <1>1, FS_Interval
    <3> QED
      BY <3>1, FS_Subset
  <2>3. PICK k : k = [i \in P |-> faixas[i].ini * Len(faixas) + i]
    OBVIOUS
  <2>4. ASSUME NEW i \in P PROVE k[i] \in Int
    <3>0. i \in DOMAIN faixas /\ Len(faixas) \in Int
      BY <1>1
    <3>1. PICK a \in 1..m, b \in Int : a = faixas[i].ini /\ b = Len(faixas)
      BY <1>1, <3>0
    <3>2. k[i] = a * b + i /\ i \in Int
      BY <2>3, <3>1
    <3>3. a * b \in Int
      OBVIOUS
    <3> QED
      BY <3>2, <3>3
  <2>5. ASSUME NEW i \in P, NEW l \in P, k[i] = k[l] PROVE i = l
    <3>1. PICK a \in Int, b \in Int : a = faixas[i].ini /\ b = faixas[l].ini
      BY <1>1
    <3>2. a * Len(faixas) + i = b * Len(faixas) + l
      BY <2>3, <2>5, <3>1
    <3>3. i \in 1..Len(faixas) /\ l \in 1..Len(faixas)
      OBVIOUS
    <3> QED
      BY <1>1, <3>2, <3>3, ChaveDaFaixa
  <2>6. Ordenados(P, k) \in Seq(P)
    BY <2>2, <2>4, <2>5, OrdemPorChave
  <2>7. ordem(j) = Ordenados(P, k)
    BY <2>1, <2>3
  <2>8. PICK s \in Seq(P) : s = ordem(j)
    BY <2>6, <2>7
  <2>9. PICK q \in Nat : DOMAIN s = 1..q
    OBVIOUS
  <2>10. PICK g : g = [p \in DOMAIN s |-> faixas[s[p]].prioritarios]
    OBVIOUS
  <2>11. g \in [1..q -> Seq(Int)]
    <3>1. ASSUME NEW p \in 1..q PROVE s[p] \in DOMAIN faixas
      <4>1. s[p] \in P
        BY <2>9
      <4> QED
        BY <1>1, <4>1
    <3> QED
      BY <1>1, <2>9, <2>10, <3>1
  <2>12. g \in Seq(Seq(Int))
    BY <2>11
  <2>13. prio(j) = FlattenSeq(g)
    BY <2>8, <2>10
  <2> QED
    BY <2>12, <2>13, SequenciaAchatada
<1> HIDE DEF U, partes, ordem
<1>5. /\ juntas \in Seq(T)
      /\ \A i, j \in DOMAIN juntas : i < j => juntas[i].fim + 1 < juntas[j].ini
      /\ \A x \in U : Numeros(juntas, x)
  BY <1>0, <1>2, IntervalosDoConjunto DEF Numeros
<1> HIDE DEF prio
<1>6. PICK r : r = [k \in DOMAIN juntas |->
                     [ini |-> juntas[k].ini, fim |-> juntas[k].fim, prioritarios |-> prio(juntas[k])]]
  OBVIOUS
<1>7. r = MergePlannedPastNsuRanges(faixas)
  BY <1>0, <1>6 DEF MergePlannedPastNsuRanges, U, partes, ordem, prio
<1>8. PICK q \in Nat : DOMAIN juntas = 1..q
  BY <1>5
<1>9. \A k \in 1..q : juntas[k] \in T
  BY <1>5, <1>8
<1>10. ASSUME NEW k \in 1..q
       PROVE  /\ r[k].ini = juntas[k].ini /\ r[k].fim = juntas[k].fim
              /\ r[k] \in FaixasAte(m) /\ r[k].ini..r[k].fim \subseteq U
  <2>1. juntas[k].ini \in 1..m /\ juntas[k].fim \in 1..m /\ juntas[k].ini <= juntas[k].fim
    BY <1>2, <1>9
  <2>2. r[k] = [ini |-> juntas[k].ini, fim |-> juntas[k].fim, prioritarios |-> prio(juntas[k])]
    BY <1>6, <1>8
  <2>3. prio(juntas[k]) \in Seq(Int)
    BY <1>4
  <2>4. r[k] \in FaixasAte(m)
    BY <2>1, <2>2, <2>3 DEF FaixasAte
  <2>5. juntas[k].ini..juntas[k].fim \subseteq U
    BY <1>9
  <2> QED
    BY <2>2, <2>4, <2>5
<1>11. r \in Seq(FaixasAte(m)) /\ DOMAIN r = 1..q
  <2>1. r \in [1..q -> FaixasAte(m)]
    BY <1>6, <1>8, <1>10
  <2> QED
    BY <2>1
<1>12. \A i, j \in DOMAIN r : i < j => r[i].fim + 1 < r[j].ini
  BY <1>5, <1>8, <1>10, <1>11
<1>13. \A x : Numeros(r, x) <=> x \in U
  <2>1. ASSUME NEW x, Numeros(r, x) PROVE x \in U
    BY <1>10, <1>11, <2>1 DEF Numeros
  <2>2. ASSUME NEW x \in U PROVE Numeros(r, x)
    <3>1. PICK k \in 1..q : x \in juntas[k].ini..juntas[k].fim
      BY <1>5, <1>8 DEF Numeros
    <3> QED
      BY <1>10, <1>11, <3>1 DEF Numeros
  <2> QED
    BY <2>1, <2>2
<1> QED
  BY <1>3, <1>7, <1>11, <1>12, <1>13

\* buildGapAuditRangesForControl: whatever the gaps, the ranges lie between NSU 1 and the last one that
\* was consulted or stored, in order, and do not touch: no NSU is asked for twice.
THEOREM FaixasPlanejadas ==
  ASSUME NEW m \in Nat, NEW cursor \in 0..m, NEW lacunas \in Seq(LacunasBoas), NEW itens, itens \subseteq ItensAte(m)
  PROVE  /\ BuildGapAuditRanges(cursor, lacunas, itens) \in Seq(FaixasAte(m))
         /\ \A i, j \in DOMAIN BuildGapAuditRanges(cursor, lacunas, itens) :
              i < j => BuildGapAuditRanges(cursor, lacunas, itens)[i].fim + 1
                         < BuildGapAuditRanges(cursor, lacunas, itens)[j].ini
<1> PICK n \in Nat : n = Len(lacunas) /\ DOMAIN lacunas = 1..n
  OBVIOUS
<1>1. PICK f : f = [i \in DOMAIN lacunas |-> InferGapAuditRange(cursor, lacunas[i], itens)]
  OBVIOUS
<1>2. f \in [1..n -> Seq(FaixasAte(m))]
  <2>1. \A i \in 1..n : InferGapAuditRange(cursor, lacunas[i], itens) \in Seq(FaixasAte(m))
    BY FaixaInferida
  <2> QED
    BY <1>1, <2>1
<1>3. f \in Seq(Seq(FaixasAte(m)))
  BY <1>2
<1>4. PICK s \in Seq(FaixasAte(m)) : s = FlattenSeq(f)
  BY <1>3, SequenciaAchatada
<1>5. BuildGapAuditRanges(cursor, lacunas, itens) = MergePlannedPastNsuRanges(s)
  BY <1>1, <1>4 DEF BuildGapAuditRanges
<1> QED
  BY <1>5, FaixasUnidas

\* iteratePastNsuScanOrder: whatever NSUs are likelier, each one of the range is visited, once.
THEOREM VarreduraCompleta ==
  ASSUME NEW m \in Nat, NEW faixa \in FaixasAte(m)
  PROVE  LET s == IteratePastNsuScanOrder(faixa) IN
         /\ s \in Seq(faixa.ini..faixa.fim) /\ Len(s) = faixa.fim - faixa.ini + 1
         /\ \A i, j \in DOMAIN s : i # j => s[i] # s[j]
         /\ \A n \in faixa.ini..faixa.fim : \E i \in DOMAIN s : s[i] = n
<1> PICK ini \in 1..m, fim \in 1..m : ini = faixa.ini /\ fim = faixa.fim
  BY DEF FaixasAte
<1>0. PICK p \in Seq(Int) : p = faixa.prioritarios
  BY DEF FaixasAte
<1>1. ini <= fim /\ fim - ini + 1 \in Nat
  BY DEF FaixasAte
<1> DEFINE nsus == ini..fim
           k == [n \in nsus |-> IF n \in ToSet(p) THEN CHOOSE i \in DOMAIN p : p[i] = n /\ \A j \in 1..i - 1 : p[j] # n
                                ELSE Len(p) + n]
<1>2. PICK s : s = IteratePastNsuScanOrder(faixa)
  OBVIOUS
<1>3. s = IF p = <<>> THEN EmOrdem(ini, fim) ELSE Ordenados(nsus, k)
  BY <1>0, <1>2 DEF IteratePastNsuScanOrder
<1>4. CASE p = <<>>
  <2>1. s = [i \in 1..fim - ini + 1 |-> ini + i - 1]
    BY <1>3, <1>4 DEF EmOrdem
  <2>2. s \in [1..fim - ini + 1 -> nsus]
    BY <2>1
  <2>3. s \in Seq(nsus) /\ Len(s) = fim - ini + 1 /\ DOMAIN s = 1..fim - ini + 1
    BY <1>1, <2>2
  <2>4. \A i, j \in DOMAIN s : i # j => s[i] # s[j]
    BY <2>1, <2>3
  <2>5. ASSUME NEW n \in nsus PROVE \E i \in DOMAIN s : s[i] = n
    <3>0. ini \in Int /\ fim \in Int /\ n \in Int /\ ini <= n /\ n <= fim
      OBVIOUS
    <3>1. PICK i \in Int : i = n - ini + 1
      BY <3>0
    <3>2. 1 <= i /\ i <= fim - ini + 1 /\ ini + i - 1 = n
      BY <3>0, <3>1
    <3> QED
      BY <1>1, <2>1, <2>3, <3>2
  <2> QED
    BY <1>2, <2>3, <2>4, <2>5
<1>5. CASE p # <<>>
  <2>1. ASSUME NEW n \in nsus
        PROVE  \/ k[n] \in 1..Len(p) /\ p[k[n]] = n
               \/ k[n] = Len(p) + n
    <3>1. CASE n \in ToSet(p)
      <4> DEFINE V == {i \in DOMAIN p : p[i] = n}
      <4>1. V # {} /\ V \subseteq Nat
        BY <3>1 DEF ToSet
      <4>2. PICK i \in V : \A j \in V : i <= j
        BY <4>1, MenorNatural
      <4>3. \A j \in 1..i - 1 : j \in DOMAIN p /\ ~(i <= j)
        OBVIOUS
      <4>4. p[i] = n /\ \A j \in 1..i - 1 : p[j] # n
        BY <4>2, <4>3
      <4>5. k[n] = CHOOSE l \in DOMAIN p : p[l] = n /\ \A j \in 1..l - 1 : p[j] # n
        BY <3>1
      <4> HIDE DEF k
      <4>6. k[n] \in DOMAIN p /\ p[k[n]] = n
        BY <4>4, <4>5
      <4> QED
        BY <4>6
    <3>2. CASE n \notin ToSet(p)
      BY <3>2
    <3> QED
      BY <3>1, <3>2
  <2>2. \A n \in nsus : n \in Nat \ {0}
    OBVIOUS
  <2>3. Len(p) \in Nat
    OBVIOUS
  <2> HIDE DEF k
  <2>4. \A n \in nsus : k[n] \in Int
    BY <2>1, <2>2, <2>3
  <2>5. ASSUME NEW n \in nsus, NEW l \in nsus, k[n] = k[l] PROVE n = l
    <3>0. PICK c \in Nat : c = Len(p)
      BY <2>3
    <3>1. PICK d : d = k[n] /\ d = k[l]
      BY <2>5
    <3>2. (d \in 1..c /\ p[d] = n) \/ d = c + n
      BY <2>1, <3>0, <3>1
    <3>3. (d \in 1..c /\ p[d] = l) \/ d = c + l
      BY <2>1, <3>0, <3>1
    <3>4. n \in Nat \ {0} /\ l \in Nat \ {0}
      BY <2>2
    <3> QED
      BY <3>2, <3>3, <3>4
  <2>6. IsFiniteSet(nsus) /\ Cardinality(nsus) = fim - ini + 1
    <3>1. ini \in Int /\ fim \in Int /\ ~(ini > fim)
      BY <1>1
    <3>2. IsFiniteSet(ini..fim) /\ Cardinality(ini..fim) = IF ini > fim THEN 0 ELSE fim - ini + 1
      BY <3>1, FS_Interval
    <3> QED
      BY <3>1, <3>2
  <2>7. s = Ordenados(nsus, k)
    BY <1>3, <1>5
  <2> HIDE DEF nsus
  <2>8. /\ s \in Seq(nsus) /\ Len(s) = fim - ini + 1
        /\ \A i, j \in 1..fim - ini + 1 : i < j => k[s[i]] < k[s[j]]
        /\ \A n \in nsus : \E i \in 1..fim - ini + 1 : s[i] = n
    <3>1. /\ Ordenados(nsus, k) \in Seq(nsus) /\ Len(Ordenados(nsus, k)) = Cardinality(nsus)
          /\ \A i, j \in 1..Cardinality(nsus) : i < j => k[Ordenados(nsus, k)[i]] < k[Ordenados(nsus, k)[j]]
          /\ \A x \in nsus : \E i \in 1..Cardinality(nsus) : Ordenados(nsus, k)[i] = x
      <4>1. IsFiniteSet(nsus) /\ (\A x \in nsus : k[x] \in Int) /\ \A x, y \in nsus : k[x] = k[y] => x = y
        BY <2>4, <2>5, <2>6
      <4> QED
        BY <4>1, OrdemPorChave
    <3> QED
      BY <2>6, <2>7, <3>1
  <2>9. DOMAIN s = 1..fim - ini + 1
    BY <2>8
  <2>10. \A i, j \in DOMAIN s : i # j => s[i] # s[j]
    <3> SUFFICES ASSUME NEW i \in DOMAIN s, NEW j \in DOMAIN s, i < j PROVE s[i] # s[j]
      BY <1>1, <2>9
    <3>1. k[s[i]] < k[s[j]] /\ s[i] \in nsus
      BY <2>8, <2>9
    <3> QED
      BY <2>4, <3>1
  <2> QED
    BY <1>2, <2>8, <2>9, <2>10 DEF nsus
<1> QED
  BY <1>4, <1>5

-----------------------------------------------------------------------------
(* The ranges and the plans                                                *)

LEMMA OrdemDaFaixa ==
  ASSUME NEW ini \in Nat \ {0}, NEW fim \in 0..MaxNsu, ini <= fim
  PROVE  /\ EmOrdem(ini, fim) \in Seq(Nsus)
         /\ Len(EmOrdem(ini, fim)) = fim - ini + 1
         /\ \A i \in 1..fim - ini + 1 : EmOrdem(ini, fim)[i] = ini + i - 1
<1> MaxNsu \in Nat
  BY NumerosAssumption
<1>1. \A i \in 1..fim - ini + 1 : EmOrdem(ini, fim)[i] = ini + i - 1
  BY DEF EmOrdem
<1>2. EmOrdem(ini, fim) \in [1..fim - ini + 1 -> Nsus]
  BY DEF EmOrdem, Nsus
<1>3. fim - ini + 1 \in Nat
  OBVIOUS
<1>4. EmOrdem(ini, fim) \in Seq(Nsus)
  BY <1>2, <1>3
<1>5. Len(EmOrdem(ini, fim)) = fim - ini + 1
  BY <1>2, <1>3, <1>4
<1> QED
  BY <1>1, <1>4, <1>5

LEMMA RestoDaOrdem ==
  ASSUME NEW ini \in Nat \ {0}, NEW fim \in 0..MaxNsu, ini < fim
  PROVE  Tail(EmOrdem(ini, fim)) = EmOrdem(ini + 1, fim)
<1> DEFINE s == EmOrdem(ini, fim)
           t == EmOrdem(ini + 1, fim)
<1>1. /\ s \in Seq(Nsus) /\ Len(s) = fim - ini + 1
      /\ \A i \in 1..fim - ini + 1 : s[i] = ini + i - 1
  <2> ini <= fim
    OBVIOUS
  <2> HIDE DEF s
  <2> QED
    BY OrdemDaFaixa DEF s
<1>2. /\ t \in Seq(Nsus) /\ Len(t) = fim - ini
      /\ \A i \in 1..fim - ini : t[i] = ini + i
  <2>1. /\ t \in Seq(Nsus) /\ Len(t) = fim - (ini + 1) + 1
        /\ \A i \in 1..fim - (ini + 1) + 1 : t[i] = ini + 1 + i - 1
    <3> HIDE DEF t
    <3> ini + 1 \in Nat \ {0} /\ ini + 1 <= fim
      OBVIOUS
    <3> QED
      BY OrdemDaFaixa DEF t
  <2> HIDE DEF t
  <2> QED
    BY <2>1
<1> HIDE DEF s, t
<1>3. s # <<>>
  BY <1>1
<1>4. /\ Tail(s) \in Seq(Nsus) /\ Len(Tail(s)) = Len(s) - 1
      /\ \A i \in 1..Len(Tail(s)) : Tail(s)[i] = s[i + 1]
  BY <1>1, <1>3, HeadTailProperties
<1>5. Len(Tail(s)) = Len(t) /\ \A i \in 1..Len(Tail(s)) : Tail(s)[i] = t[i]
  BY <1>1, <1>2, <1>4
<1>6. Tail(s) = t
  BY <1>2, <1>4, <1>5, SeqEqual
<1> QED
  BY <1>6 DEF s, t

\* What an NSU that was gone through leaves of the range.
LEMMA RestoDaFaixa ==
  ASSUME NEW ini \in Nat \ {0}, NEW fim \in 0..MaxNsu, ini <= fim
  PROVE  /\ Restante(ini, fim) \in Seq(Seq(Nsus)) \ {<<>>}
         /\ Head(Head(Restante(ini, fim))) = ini
         /\ Tail(Restante(ini, fim)) = <<>>
         /\ Resto(Restante(ini, fim)) = Restante(ini + 1, fim)
<1> DEFINE s == EmOrdem(ini, fim)
<1>1. /\ s \in Seq(Nsus) /\ Len(s) = fim - ini + 1
      /\ \A i \in 1..fim - ini + 1 : s[i] = ini + i - 1
  <2> ini <= fim
    OBVIOUS
  <2> HIDE DEF s
  <2> QED
    BY OrdemDaFaixa DEF s
<1>2. Restante(ini, fim) = <<s>>
  BY DEF Restante
<1>3. ini < fim => Tail(s) = EmOrdem(ini + 1, fim)
  BY RestoDaOrdem
<1> HIDE DEF s
<1>4. <<s>> \in Seq(Seq(Nsus)) /\ <<s>> # <<>> /\ Head(<<s>>) = s /\ Tail(<<s>>) = <<>>
  BY <1>1
<1>5. Head(s) = ini
  BY <1>1
<1>6. Resto(<<s>>) = Restante(ini + 1, fim)
  <2>1. CASE ini = fim
    <3>1. Len(s) = 1
      BY <1>1, <2>1
    <3> QED
      BY <1>4, <2>1, <3>1 DEF Resto, Restante
  <2>2. CASE ini < fim
    <3>1. Len(s) # 1
      BY <1>1, <2>2
    <3>2. Resto(<<s>>) = <<Tail(s)>> \o <<>>
      BY <1>4, <3>1 DEF Resto
    <3>3. <<Tail(s)>> \o <<>> = <<Tail(s)>>
      <4>1. s # <<>>
        BY <1>1
      <4>2. Tail(s) \in Seq(Nsus)
        BY <1>1, <4>1, HeadTailProperties
      <4>3. <<Tail(s)>> \in Seq(Seq(Nsus))
        BY <4>2
      <4> QED
        BY <4>3, ConcatEmptySeq
    <3>4. Restante(ini + 1, fim) = <<EmOrdem(ini + 1, fim)>>
      BY <2>2 DEF Restante
    <3> QED
      BY <1>3, <2>2, <3>2, <3>3, <3>4
  <2> QED
    BY <2>1, <2>2
<1> QED
  BY <1>2, <1>4, <1>5, <1>6

LEMMA FimDaFaixa ==
  ASSUME NEW ini \in Nat \ {0}, NEW fim \in 0..MaxNsu
  PROVE  Restante(ini, fim) = <<>> <=> ini > fim
<1>1. CASE ini <= fim
  BY <1>1, RestoDaFaixa
<1>2. CASE ini > fim
  BY <1>2 DEF Restante
<1> QED
  BY <1>1, <1>2

LEMMA FaixaTipada ==
  ASSUME NEW ini \in Nat \ {0}, NEW fim \in 0..MaxNsu
  PROVE  Restante(ini, fim) \in Seq(Seq(Nsus))
<1>1. CASE ini <= fim
  BY <1>1, RestoDaFaixa
<1>2. CASE ini > fim
  BY <1>2 DEF Restante
<1> QED
  BY <1>1, <1>2

-----------------------------------------------------------------------------
(* The coverage only grows, and takes nothing away from the night          *)

LEMMA CobreMais ==
  ASSUME NEW K, NEW L, \A c \in Controles : K[c] \subseteq L[c],
         NEW c \in Controles, NEW k, Ate(K, c, k)
  PROVE  Ate(L, c, k)
BY DEF Ate

LEMMA ArquivoMantido ==
  ASSUME NEW K, NEW L, \A c \in Controles : K[c] \subseteq L[c], NEW a, ArquivoOK(K, a)
  PROVE  ArquivoOK(L, a)
BY CobreMais DEF ArquivoOK

LEMMA NoiteMantida ==
  ASSUME NEW K, NEW L, \A c \in Controles : K[c] \subseteq L[c], NEW r, NoiteOK(K, r)
  PROVE  NoiteOK(L, r)
<1>1. r \in Local
  BY DEF NoiteOK
<1>2. \A i \in DOMAIN r.plano : r.plano[i] \in Planos
  <2>1. r.plano \in Seq(Planos)
    BY <1>1 DEF Local
  <2> QED
    BY <2>1
<1>3. ArquivoOK(L, r.estado)
  BY ArquivoMantido DEF NoiteOK
<1>4. \A i \in DOMAIN r.plano : PlanoOK(L, r.plano[i])
  <2> SUFFICES ASSUME NEW i \in DOMAIN r.plano PROVE PlanoOK(L, r.plano[i])
    OBVIOUS
  <2> PICK p \in Planos : p = r.plano[i]
    BY <1>2
  <2>1. PlanoOK(K, p) /\ p.controle \in Controles
    BY DEF NoiteOK, Planos
  <2>2. PlanoOK(L, p)
    BY <2>1, CobreMais DEF PlanoOK
  <2> QED
    BY <2>2
<1>5. \A d \in r.detalhes : DetalheOK(L, d)
  <2> SUFFICES ASSUME NEW d \in r.detalhes PROVE DetalheOK(L, d)
    OBVIOUS
  <2>1. d.controle \in Controles
    BY <1>1 DEF Local
  <2> QED
    BY <2>1, CobreMais DEF NoiteOK, DetalheOK
<1>6. r.pc = "nsu" => EmCurso(L, r)
  <2> SUFFICES ASSUME r.pc = "nsu" PROVE EmCurso(L, r)
    OBVIOUS
  <2>1. EmCurso(K, r)
    BY DEF NoiteOK
  <2> PICK p \in Planos : p = Head(r.plano)
    <3>1. r.plano # <<>> /\ r.plano \in Seq(Planos)
      BY <1>1, <2>1 DEF EmCurso, Local
    <3> QED
      BY <3>1, HeadTailProperties
  <2>2. p.controle \in Controles
    BY DEF Planos
  <2>3. PICK ini \in 1..p.nsuFinal + 1 :
          r.faixas = Restante(ini, p.nsuFinal) /\ (r.falhou \/ Ate(K, p.controle, ini - 1))
    BY <2>1 DEF EmCurso
  <2>4. r.falhou \/ Ate(L, p.controle, ini - 1)
    BY <2>2, <2>3, CobreMais
  <2> QED
    BY <2>1, <2>3, <2>4 DEF EmCurso
<1> QED
  BY <1>1, <1>3, <1>4, <1>5, <1>6 DEF NoiteOK

-----------------------------------------------------------------------------
(* What each outcome makes of the night's local state                      *)

\* The control at work, and where the range stands.
LEMMA EmTrabalho ==
  ASSUME NEW K, NEW r, NoiteOK(K, r), r.plano # <<>>
  PROVE  /\ r \in Local
         /\ Head(r.plano) \in Planos /\ PlanoOK(K, Head(r.plano))
         /\ Tail(r.plano) \in Seq(Planos)
         /\ \A i \in DOMAIN Tail(r.plano) : PlanoOK(K, Tail(r.plano)[i])
<1>1. r \in Local /\ r.plano \in Seq(Planos)
  BY DEF NoiteOK, Local
<1>2. PICK s \in Seq(Planos) : s = r.plano
  BY <1>1
<1>3. \A i \in DOMAIN s : PlanoOK(K, s[i])
  BY <1>2 DEF NoiteOK
<1>4. s # <<>> /\ Len(s) \in Nat /\ DOMAIN s = 1..Len(s)
  BY <1>2
<1>5. Head(s) = s[1] /\ 1 \in DOMAIN s /\ Head(s) \in Planos
  BY <1>4
<1>6. /\ Tail(s) \in Seq(Planos) /\ Len(Tail(s)) = Len(s) - 1
      /\ \A i \in 1..Len(Tail(s)) : Tail(s)[i] = s[i + 1]
  BY <1>4, HeadTailProperties
<1>7. \A i \in DOMAIN Tail(s) : i + 1 \in DOMAIN s /\ Tail(s)[i] = s[i + 1]
  BY <1>4, <1>6
<1>8. \A i \in DOMAIN Tail(s) : PlanoOK(K, Tail(s)[i])
  BY <1>3, <1>7
<1>9. PlanoOK(K, Head(s))
  BY <1>3, <1>5
<1> QED
  BY <1>1, <1>2, <1>5, <1>6, <1>8, <1>9

\* A night that does not work on a range, from one that differs only in what it does next.
LEMMA NoiteParada ==
  ASSUME NEW K, NEW s \in Local, s.pc # "nsu", ArquivoOK(K, s.estado),
         \A i \in DOMAIN s.plano : PlanoOK(K, s.plano[i]),
         \A d \in s.detalhes : DetalheOK(K, d)
  PROVE  NoiteOK(K, s)
BY DEF NoiteOK

LEMMA IniciarNoite ==
  ASSUME NEW K, NEW r, NoiteOK(K, r), r.plano # <<>>
  PROVE  NoiteOK(K, [r EXCEPT !.pc = "nsu", !.faixas = Head(r.plano).faixas, !.restam = Head(r.plano).alvos])
<1>1. r \in Local /\ Head(r.plano) \in Planos /\ PlanoOK(K, Head(r.plano))
  BY EmTrabalho
<1>2. PICK p \in Planos : p = Head(r.plano)
  BY <1>1
<1>3. p.alvos = {} /\ p.nsuFinal \in 0..MaxNsu /\ p.faixas \in Seq(Seq(Nsus))
  BY <1>1, <1>2 DEF PlanoOK, Planos
<1>4. PICK ini \in 1..p.nsuFinal : p.faixas = Restante(ini, p.nsuFinal) /\ Ate(K, p.controle, ini - 1)
  BY <1>1, <1>2 DEF PlanoOK
<1>5. ini \in 1..p.nsuFinal + 1
  BY <1>3, <1>4, NumerosAssumption
<1>6. PICK s \in Local : s = [r EXCEPT !.pc = "nsu", !.faixas = p.faixas, !.restam = p.alvos]
  BY <1>1, <1>3 DEF Local
<1>7. /\ s.pc = "nsu" /\ s.estado = r.estado /\ s.plano = r.plano /\ s.detalhes = r.detalhes
      /\ s.faixas = p.faixas /\ s.restam = {}
  BY <1>1, <1>3, <1>6 DEF Local
<1>8. EmCurso(K, s)
  BY <1>2, <1>4, <1>5, <1>7 DEF EmCurso
<1>9. /\ ArquivoOK(K, s.estado)
      /\ \A i \in DOMAIN s.plano : PlanoOK(K, s.plano[i])
      /\ \A d \in s.detalhes : DetalheOK(K, d)
  BY <1>7 DEF NoiteOK
<1>10. NoiteOK(K, s)
  BY <1>8, <1>9 DEF NoiteOK
<1> QED
  BY <1>2, <1>6, <1>10

\* The range under way, as it stands.
LEMMA Posicao ==
  ASSUME NEW K, NEW r, NoiteOK(K, r), r.pc = "nsu"
  PROVE  /\ r \in Local /\ r.plano # <<>> /\ r.restam = {} /\ Head(r.plano) \in Planos
         /\ \E ini \in Nat \ {0} :
              /\ ini <= Head(r.plano).nsuFinal + 1 /\ r.faixas = Restante(ini, Head(r.plano).nsuFinal)
              /\ r.falhou \/ Ate(K, Head(r.plano).controle, ini - 1)
              /\ r.faixas = <<>> <=> ini = Head(r.plano).nsuFinal + 1
<1>1. EmCurso(K, r) /\ r \in Local
  BY DEF NoiteOK
<1>2. r.plano # <<>> /\ r.restam = {}
  BY <1>1 DEF EmCurso
<1>3. PICK p \in Planos : p = Head(r.plano)
  BY <1>2, EmTrabalho
<1>4. p.nsuFinal \in 0..MaxNsu /\ MaxNsu \in Nat
  BY NumerosAssumption DEF Planos
<1>5. PICK ini \in 1..p.nsuFinal + 1 :
        r.faixas = Restante(ini, p.nsuFinal) /\ (r.falhou \/ Ate(K, p.controle, ini - 1))
  BY <1>1, <1>3 DEF EmCurso
<1>6. ini \in Nat \ {0} /\ ini <= p.nsuFinal + 1
  BY <1>4, <1>5
<1>7. r.faixas = <<>> <=> ini = p.nsuFinal + 1
  <2>1. Restante(ini, p.nsuFinal) = <<>> <=> ini > p.nsuFinal
    BY <1>4, <1>6, FimDaFaixa
  <2> QED
    BY <1>4, <1>5, <1>6, <2>1
<1> QED
  BY <1>1, <1>2, <1>3, <1>5, <1>6, <1>7

\* The range goes on from ini.
LEMMA Prosseguir ==
  ASSUME NEW K, NEW r, NoiteOK(K, r), r.pc = "nsu", NEW ini \in Nat \ {0}, NEW falhou \in BOOLEAN,
         ini <= Head(r.plano).nsuFinal + 1, falhou \/ Ate(K, Head(r.plano).controle, ini - 1)
  PROVE  NoiteOK(K, [r EXCEPT !.faixas = Restante(ini, Head(r.plano).nsuFinal), !.falhou = falhou])
<1>1. r \in Local /\ r.plano # <<>> /\ r.restam = {}
  BY Posicao
<1>2. PICK p \in Planos : p = Head(r.plano)
  BY Posicao
<1>3. p.nsuFinal \in 0..MaxNsu /\ MaxNsu \in Nat
  BY NumerosAssumption DEF Planos
<1>4. Restante(ini, p.nsuFinal) \in Seq(Seq(Nsus))
  BY <1>3, FaixaTipada
<1>5. PICK s \in Local : s = [r EXCEPT !.faixas = Restante(ini, p.nsuFinal), !.falhou = falhou]
  BY <1>1, <1>4 DEF Local
<1>6. /\ s.pc = "nsu" /\ s.estado = r.estado /\ s.plano = r.plano /\ s.detalhes = r.detalhes
      /\ s.faixas = Restante(ini, p.nsuFinal) /\ s.restam = {} /\ s.falhou = falhou
  BY <1>1, <1>5 DEF Local
<1>7. ini \in 1..p.nsuFinal + 1
  BY <1>2, <1>3
<1>8. EmCurso(K, s)
  <2>1. s.falhou \/ Ate(K, p.controle, ini - 1)
    BY <1>2, <1>6
  <2> QED
    BY <1>1, <1>2, <1>6, <1>7, <2>1 DEF EmCurso
<1>9. /\ ArquivoOK(K, s.estado)
      /\ \A i \in DOMAIN s.plano : PlanoOK(K, s.plano[i])
      /\ \A d \in s.detalhes : DetalheOK(K, d)
  BY <1>6 DEF NoiteOK
<1>10. NoiteOK(K, s)
  BY <1>8, <1>9 DEF NoiteOK
<1> QED
  BY <1>2, <1>5, <1>10

\* The NSU at hand is gone through, with an answer or with a failure.
LEMMA AvancarNoite ==
  ASSUME NEW K, NEW r, NoiteOK(K, r), r.pc = "nsu", r.faixas # <<>>, NEW falhou \in BOOLEAN,
         r.falhou => falhou, falhou \/ Head(Head(r.faixas)) \in K[Head(r.plano).controle]
  PROVE  NoiteOK(K, [r EXCEPT !.faixas = Resto(@), !.falhou = falhou])
<1>1. PICK p \in Planos : p = Head(r.plano)
  BY Posicao
<1>2. p.nsuFinal \in 0..MaxNsu /\ MaxNsu \in Nat
  BY NumerosAssumption DEF Planos
<1>3. PICK ini \in Nat \ {0} :
        /\ ini <= p.nsuFinal + 1 /\ r.faixas = Restante(ini, p.nsuFinal)
        /\ r.falhou \/ Ate(K, p.controle, ini - 1)
        /\ r.faixas = <<>> <=> ini = p.nsuFinal + 1
  BY <1>1, Posicao
<1>4. ini <= p.nsuFinal
  BY <1>2, <1>3
<1>5. Head(Head(r.faixas)) = ini /\ Resto(r.faixas) = Restante(ini + 1, p.nsuFinal)
  BY <1>2, <1>3, <1>4, RestoDaFaixa
<1>6. PICK k \in Nat \ {0} : k = ini + 1
  BY <1>3
<1>7. falhou \/ Ate(K, p.controle, k - 1)
  <2>1. CASE falhou
    BY <2>1
  <2>2. CASE ~falhou
    <3>1. 1..ini - 1 \subseteq K[p.controle] /\ ini \in K[p.controle]
      BY <1>1, <1>3, <1>5, <2>2 DEF Ate
    <3>2. 1..k - 1 \subseteq (1..ini - 1) \union {ini}
      BY <1>3, <1>6
    <3> QED
      BY <3>1, <3>2 DEF Ate
  <2> QED
    BY <2>1, <2>2
<1>8. k <= p.nsuFinal + 1
  BY <1>2, <1>4, <1>6
<1>9. NoiteOK(K, [r EXCEPT !.faixas = Restante(k, p.nsuFinal), !.falhou = falhou])
  BY <1>1, <1>7, <1>8, Prosseguir
<1> QED
  BY <1>5, <1>6, <1>9

\* The rest of the range is given up.
LEMMA DesistirNoite ==
  ASSUME NEW K, NEW r, NoiteOK(K, r), r.pc = "nsu", r.faixas # <<>>
  PROVE  NoiteOK(K, [r EXCEPT !.faixas = Tail(@), !.falhou = TRUE])
<1>1. PICK p \in Planos : p = Head(r.plano)
  BY Posicao
<1>2. p.nsuFinal \in 0..MaxNsu /\ MaxNsu \in Nat
  BY NumerosAssumption DEF Planos
<1>3. PICK ini \in Nat \ {0} :
        /\ ini <= p.nsuFinal + 1 /\ r.faixas = Restante(ini, p.nsuFinal)
        /\ r.faixas = <<>> <=> ini = p.nsuFinal + 1
  BY <1>1, Posicao
<1>4. ini <= p.nsuFinal
  BY <1>2, <1>3
<1>5. Tail(r.faixas) = <<>>
  BY <1>2, <1>3, <1>4, RestoDaFaixa
<1>6. PICK k \in Nat \ {0} : k = p.nsuFinal + 1
  BY <1>2
<1>7. Restante(k, p.nsuFinal) = <<>>
  BY <1>2, <1>6, FimDaFaixa
<1>8. NoiteOK(K, [r EXCEPT !.faixas = Restante(k, p.nsuFinal), !.falhou = TRUE])
  <2>1. k <= p.nsuFinal + 1
    BY <1>2, <1>6
  <2> QED
    BY <1>1, <2>1, Prosseguir
<1> QED
  BY <1>5, <1>7, <1>8

\* The control is done: without a failure, everything up to the last NSU planned is covered.
LEMMA TerminarNoite ==
  ASSUME NEW K, NEW r, NoiteOK(K, r), r.plano # <<>>, NEW falhou \in BOOLEAN, NEW limite \in BOOLEAN,
         NEW plano \in {<<>>, Tail(r.plano)},
         falhou \/ Ate(K, Head(r.plano).controle, Head(r.plano).nsuFinal)
  PROVE  NoiteOK(K, [r EXCEPT !.pc = "controle", !.plano = plano, !.faixas = <<>>, !.falhou = FALSE,
                       !.limite = limite,
                       !.detalhes = @ \union {[controle |-> Head(r.plano).controle,
                                               nsuFinal |-> Head(r.plano).nsuFinal, falhou |-> falhou]}])
<1>1. PICK p \in Planos : p = Head(r.plano)
  BY EmTrabalho
<1>2. r \in Local /\ p.controle \in Controles /\ p.nsuFinal \in 0..MaxNsu
  BY <1>1, EmTrabalho DEF Planos
<1>3. plano \in Seq(Planos) /\ \A i \in DOMAIN plano : PlanoOK(K, plano[i])
  <2>1. CASE plano = <<>>
    BY <2>1
  <2>2. CASE plano = Tail(r.plano)
    BY <2>2, EmTrabalho
  <2> QED
    BY <2>1, <2>2
<1>4. PICK d \in [controle : Controles, nsuFinal : 0..MaxNsu, falhou : BOOLEAN] :
        d = [controle |-> p.controle, nsuFinal |-> p.nsuFinal, falhou |-> falhou]
  BY <1>2
<1>5. DetalheOK(K, d)
  BY <1>1, <1>4 DEF DetalheOK
<1>6. PICK D \in SUBSET [controle : Controles, nsuFinal : 0..MaxNsu, falhou : BOOLEAN] :
        D = r.detalhes \union {d}
  <2>1. r.detalhes \in SUBSET [controle : Controles, nsuFinal : 0..MaxNsu, falhou : BOOLEAN]
    BY <1>2 DEF Local
  <2> QED
    BY <2>1
<1>7. \A x \in D : DetalheOK(K, x)
  <2>1. \A x \in r.detalhes : DetalheOK(K, x)
    BY DEF NoiteOK
  <2> QED
    BY <1>5, <1>6, <2>1
<1>8. PICK s \in Local : s = [r EXCEPT !.pc = "controle", !.plano = plano, !.faixas = <<>>, !.falhou = FALSE,
                                !.limite = limite, !.detalhes = D]
  <2>1. <<>> \in Seq(Seq(Nsus))
    OBVIOUS
  <2> QED
    BY <1>2, <1>3, <2>1 DEF Local
<1>9. s.pc = "controle" /\ s.estado = r.estado /\ s.plano = plano /\ s.detalhes = D
  BY <1>2, <1>8 DEF Local
<1>10. NoiteOK(K, s)
  <2>1. ArquivoOK(K, s.estado)
    BY <1>9 DEF NoiteOK
  <2> QED
    BY <1>3, <1>7, <1>9, <2>1, NoiteParada
<1> QED
  BY <1>1, <1>4, <1>6, <1>8, <1>10

LEMMA NoiteInterrompida ==
  ASSUME NEW K, NEW r, NoiteOK(K, r), r.pc # "nsu"
  PROVE  NoiteOK(K, [r EXCEPT !.plano = <<>>, !.limite = TRUE])
<1>1. r \in Local
  BY DEF NoiteOK
<1>2. <<>> \in Seq(Planos)
  OBVIOUS
<1>3. PICK s \in Local : s = [r EXCEPT !.plano = <<>>, !.limite = TRUE]
  BY <1>1, <1>2 DEF Local
<1>4. s.pc # "nsu" /\ s.estado = r.estado /\ s.plano = <<>> /\ s.detalhes = r.detalhes
  BY <1>1, <1>3 DEF Local
<1>5. /\ ArquivoOK(K, s.estado) /\ \A d \in s.detalhes : DetalheOK(K, d)
      /\ \A i \in DOMAIN s.plano : PlanoOK(K, s.plano[i])
  BY <1>4 DEF NoiteOK
<1>6. NoiteOK(K, s)
  BY <1>4, <1>5, NoiteParada
<1> QED
  BY <1>3, <1>6

LEMMA VazioOK == Vazio \in Arquivos /\ \A K : ArquivoOK(K, Vazio)
<1>1. 0 \in 0..MaxNsu + 1
  BY NumerosAssumption
<1>2. 0 \in Posicoes
  BY FS_CardinalityType, DadosAssumption DEF Posicoes
<1>3. Vazio \in Arquivos
  BY <1>1, <1>2 DEF Vazio, Arquivos
<1>4. \A c \in Controles : Vazio.nextNsu[c] - 1 = -1
  BY DEF Vazio
<1>5. 1..(-1) = {}
  OBVIOUS
<1> QED
  BY <1>3, <1>4, <1>5 DEF ArquivoOK, Ate

LEMMA OciosaOK == Ociosa \in Local /\ \A K : NoiteOK(K, Ociosa)
<1>1. Vazio \in Arquivos /\ <<>> \in Seq(Planos) /\ <<>> \in Seq(Seq(Nsus))
  BY VazioOK
<1>2. Ociosa \in Local
  BY <1>1 DEF Ociosa, Local
<1>3. Ociosa.pc # "nsu" /\ Ociosa.estado = Vazio /\ Ociosa.plano = <<>> /\ Ociosa.detalhes = {}
  BY DEF Ociosa
<1> QED
  BY <1>2, <1>3, VazioOK DEF NoiteOK

-----------------------------------------------------------------------------
(* The beginning and the end of a night                                    *)

LEMMA FaixaDaNoite ==
  ASSUME NEW ini, NEW fim
  PROVE  IteratePastNsuScanOrder([ini |-> ini, fim |-> fim, prioritarios |-> <<>>]) = EmOrdem(ini, fim)
BY DEF IteratePastNsuScanOrder

\* The range planned for a control starts right after what the file says was gone through.
LEMMA PlanoDaNoite ==
  ASSUME ultimoNsuConsultado \in [Controles -> 0..MaxNsu],
         NEW K, NEW a \in Arquivos, ArquivoOK(K, a), NEW c \in Elegiveis(a)
  PROVE  PlanoNoturno(a, c) \in Planos /\ PlanoOK(K, PlanoNoturno(a, c))
<1>1. /\ c \in Controles /\ NextNsu(a, c) <= ultimoNsuConsultado[c]
      /\ ultimoNsuConsultado[c] \in 0..MaxNsu /\ MaxNsu \in Nat /\ NsusPorControle \in Nat \ {0}
  BY NumerosAssumption DEF Elegiveis
<1>2. a.nextNsu[c] \in 0..MaxNsu + 1
  BY <1>1 DEF Arquivos
<1>3. PICK x \in Nat : x = a.nextNsu[c]
  BY <1>1, <1>2
<1>4. PICK ini \in Nat \ {0} : ini = NextNsu(a, c)
  BY <1>3, Limites DEF NextNsu, MaiorDe
<1>5. ini = 1 \/ ini = x
  BY <1>3, <1>4 DEF NextNsu, MaiorDe
<1>6. PICK u \in 0..MaxNsu : u = ultimoNsuConsultado[c]
  BY <1>1
<1>7. PICK fim \in 0..MaxNsu : fim = FimDoLote(c, ini) /\ ini <= fim
  <2>1. PICK m \in Nat \ {0} : m = NsusPorControle
    BY <1>1
  <2>2. FimDoLote(c, ini) = IF u <= ini + m - 1 THEN u ELSE ini + m - 1
    BY <1>6, <2>1 DEF FimDoLote, MenorDe
  <2>3. ini <= u
    BY <1>1, <1>4, <1>6
  <2> QED
    BY <1>1, <2>2, <2>3
<1>8. PICK p : p = PlanoNoturno(a, c)
  OBVIOUS
<1>9. p = [controle |-> c, cursor |-> u, alvos |-> {}, nsuFinal |-> fim, faixas |-> <<EmOrdem(ini, fim)>>]
  <2>1. IteratePastNsuScanOrder([ini |-> ini, fim |-> fim, prioritarios |-> <<>>]) = EmOrdem(ini, fim)
    BY FaixaDaNoite
  <2> QED
    BY <1>4, <1>6, <1>7, <1>8, <2>1 DEF PlanoNoturno
<1>10. Restante(ini, fim) = <<EmOrdem(ini, fim)>> /\ Restante(ini, fim) \in Seq(Seq(Nsus))
  <2>1. ~(ini > fim)
    BY <1>1, <1>7
  <2>2. Restante(ini, fim) \in Seq(Seq(Nsus))
    BY FaixaTipada
  <2> QED
    BY <2>1, <2>2 DEF Restante
<1>11. p \in Planos
  BY <1>1, <1>9, <1>10 DEF Planos
<1>12. Ate(K, c, ini - 1)
  <2>1. CASE ini = 1
    BY <2>1 DEF Ate
  <2>2. CASE ini = x
    BY <1>1, <1>3, <2>2 DEF ArquivoOK
  <2> QED
    BY <1>5, <2>1, <2>2
<1>13. PlanoOK(K, p)
  <2>1. /\ p.alvos = {} /\ p.controle = c /\ p.nsuFinal = fim /\ p.faixas = Restante(ini, fim)
    BY <1>9, <1>10
  <2>2. ini \in 1..fim
    BY <1>1, <1>7
  <2> QED
    BY <1>12, <2>1, <2>2 DEF PlanoOK
<1> QED
  BY <1>8, <1>11, <1>13

LEMMA EscolhaDaNoite ==
  ASSUME NEW a, NEW ordem \in SetToSeqs(Elegiveis(a)), NEW n \in Int, n <= Len(ordem)
  PROVE  SubSeq(ordem, 1, n) \in Seq(Elegiveis(a))
<1>1. IsFiniteSet(Elegiveis(a))
  BY FS_Subset, DadosAssumption DEF Elegiveis
<1>2. PICK k \in Nat : k = Cardinality(Elegiveis(a))
  BY <1>1, FS_CardinalityType
<1>3. ordem \in [1..k -> Elegiveis(a)]
  BY <1>2 DEF SetToSeqs
<1>4. ordem \in Seq(Elegiveis(a)) /\ Len(ordem) = k
  BY <1>3
<1>5. \A i \in 1..n : ordem[i] \in Elegiveis(a)
  BY <1>3, <1>4
<1> QED
  BY <1>5, SubSeqProperties

LEMMA NoitePlanejada ==
  ASSUME ultimoNsuConsultado \in [Controles -> 0..MaxNsu],
         NEW K, NEW a \in Arquivos, ArquivoOK(K, a), NEW escolhidos \in Seq(Elegiveis(a))
  PROVE  NoiteOK(K, [Ociosa EXCEPT !.pc = "controle", !.estado = a,
                       !.plano = [i \in DOMAIN escolhidos |-> PlanoNoturno(a, escolhidos[i])]])
<1>1. PICK f : f = [i \in DOMAIN escolhidos |-> PlanoNoturno(a, escolhidos[i])]
  OBVIOUS
<1>2. \A i \in DOMAIN escolhidos : escolhidos[i] \in Elegiveis(a)
  OBVIOUS
<1>3. \A i \in DOMAIN escolhidos : f[i] \in Planos /\ PlanoOK(K, f[i])
  BY <1>1, <1>2, PlanoDaNoite
<1>4. DOMAIN f = DOMAIN escolhidos
  BY <1>1
<1>5. f \in Seq(Planos)
  <2>1. PICK k \in Nat : k = Len(escolhidos) /\ DOMAIN escolhidos = 1..k
    OBVIOUS
  <2>2. f \in [1..k -> Planos]
    BY <1>1, <1>3, <2>1
  <2> QED
    BY <2>2
<1>6. Ociosa \in Local
  BY OciosaOK
<1>7. PICK s \in Local : s = [Ociosa EXCEPT !.pc = "controle", !.estado = a, !.plano = f]
  BY <1>5, <1>6 DEF Local
<1>8. s.pc # "nsu" /\ s.estado = a /\ s.plano = f /\ s.detalhes = {}
  BY <1>7 DEF Ociosa
<1>9. NoiteOK(K, s)
  BY <1>3, <1>4, <1>8, NoiteParada
<1> QED
  BY <1>1, <1>7, <1>9

\* There are no more ranks than controls.
LEMMA OrdemCompacta ==
  ASSUME NEW f
  PROVE  Compacta(f) \in [Controles -> Posicoes]
<1>1. PICK g : g = [d \in Controles |-> f[d]]
  OBVIOUS
<1>2. PICK T : T = {f[d] : d \in Controles}
  OBVIOUS
<1>3. g \in Surjection(Controles, T)
  BY <1>1, <1>2 DEF Surjection
<1>4. IsFiniteSet(T) /\ Cardinality(T) <= Cardinality(Controles)
  BY <1>3, FS_Surjection, DadosAssumption
<1>5. ASSUME NEW c \in Controles PROVE Cardinality(T \cap (1..f[c])) \in Posicoes
  <2>1. PICK U : U = T \cap (1..f[c])
    OBVIOUS
  <2>2. U \in SUBSET T
    BY <2>1
  <2>3. IsFiniteSet(U) /\ Cardinality(U) <= Cardinality(T)
    BY <1>4, <2>2, FS_Subset
  <2>4. Cardinality(U) \in Nat /\ Cardinality(T) \in Nat /\ Cardinality(Controles) \in Nat
    BY <1>4, <2>3, FS_CardinalityType, DadosAssumption
  <2> QED
    BY <1>4, <2>1, <2>3, <2>4 DEF Posicoes
<1> QED
  BY <1>2, <1>5 DEF Compacta

\* Where the controls go on from, those of D after their ranges.
Proximos(D, estado) ==
  [c \in Controles |-> IF \E d \in D : d.controle = c THEN Continuar(CHOOSE d \in D : d.controle = c)
                       ELSE estado.nextNsu[c]]

\* What a night that went through its plan saves is still covered.
LEMMA ArquivoSalvo ==
  ASSUME NEW K, NEW r, NoiteOK(K, r), NEW D, D \subseteq r.detalhes, \A d \in D : ~d.falhou, NEW f
  PROVE  /\ [nextNsu |-> Proximos(D, r.estado), ordem |-> Compacta(f)] \in Arquivos
         /\ ArquivoOK(K, [nextNsu |-> Proximos(D, r.estado), ordem |-> Compacta(f)])
<1> PICK x : x = Proximos(D, r.estado)
  OBVIOUS
<1>1. r \in Local /\ ArquivoOK(K, r.estado) /\ \A d \in r.detalhes : DetalheOK(K, d)
  BY DEF NoiteOK
<1>2. r.estado.nextNsu \in [Controles -> 0..MaxNsu + 1]
  BY <1>1 DEF Local, Arquivos
<1>3. ASSUME NEW c \in Controles PROVE x[c] \in 0..MaxNsu + 1 /\ Ate(K, c, x[c] - 1)
  <2>1. CASE \E d \in D : d.controle = c
    <3>1. PICK d \in D : d.controle = c /\ d = CHOOSE e \in D : e.controle = c
      BY <2>1
    <3>2. x[c] = d.nsuFinal + 1
      BY <2>1, <3>1 DEF Continuar, Proximos
    <3>3. d \in [controle : Controles, nsuFinal : 0..MaxNsu, falhou : BOOLEAN]
      BY <1>1, <3>1 DEF Local
    <3>4. PICK n \in 0..MaxNsu : n = d.nsuFinal
      BY <3>3
    <3>5. Ate(K, c, n)
      BY <1>1, <3>1, <3>4 DEF DetalheOK
    <3>6. n \in Nat /\ MaxNsu \in Nat /\ x[c] = n + 1
      BY <3>2, <3>4, NumerosAssumption
    <3>7. x[c] - 1 = n /\ x[c] \in 0..MaxNsu + 1
      BY <3>4, <3>6
    <3> QED
      BY <3>5, <3>7
  <2>2. CASE ~\E d \in D : d.controle = c
    <3>1. x[c] = r.estado.nextNsu[c]
      BY <2>2 DEF Proximos
    <3> QED
      BY <1>1, <1>2, <3>1 DEF ArquivoOK
  <2> QED
    BY <2>1, <2>2
<1>4. x \in [Controles -> 0..MaxNsu + 1]
  BY <1>3 DEF Proximos
<1>5. \A c \in Controles : Ate(K, c, x[c] - 1)
  BY <1>3
<1>6. PICK y \in [Controles -> Posicoes] : y = Compacta(f)
  BY OrdemCompacta
<1>7. [nextNsu |-> x, ordem |-> y] \in Arquivos /\ ArquivoOK(K, [nextNsu |-> x, ordem |-> y])
  BY <1>4, <1>5 DEF Arquivos, ArquivoOK
<1> QED
  BY <1>6, <1>7

-----------------------------------------------------------------------------
(* What every step does to the tables and the other executions             *)

Guardados == guardado = [k \in Clientes |-> [n \in Nsus |-> guardado[k][n]]]

\* A note that is kept stays, and so does what the night went through.
NadaSePerde ==
  /\ ultimoNsuConsultado' \in [Controles -> 0..MaxNsu]
  /\ Guardados'
  /\ \A k \in Clientes, n \in Nsus : guardado[k][n] # Nenhum => guardado'[k][n] # Nenhum
  /\ revistos' \in [Controles -> SUBSET Nsus]
  /\ \A c \in Controles : revistos[c] \subseteq revistos'[c]

LEMMA Guardar ==
  ASSUME Guardados, NEW c, NEW docs, guardado' = ComDocumentosDe(c, docs)
  PROVE  /\ Guardados'
         /\ \A k \in Clientes, n \in Nsus : guardado[k][n] # Nenhum => guardado'[k][n] # Nenhum
<1>1. PICK g : g = [n \in Nsus |-> IF /\ n \in docs /\ guardado[ClienteDe[c]][n] = Nenhum
                                      /\ Notas[c][n].numero # Evento
                                   THEN c ELSE guardado[ClienteDe[c]][n]]
  OBVIOUS
<1>2. guardado' = [guardado EXCEPT ![ClienteDe[c]] = g]
  BY <1>1 DEF ComDocumentosDe
<1>3. DOMAIN guardado = Clientes
  BY DEF Guardados
<1>4. \A k \in Clientes : guardado'[k] = IF k = ClienteDe[c] THEN g ELSE guardado[k]
  BY <1>2, <1>3
<1>5. DOMAIN guardado' = Clientes /\ guardado' = [k \in Clientes |-> guardado'[k]]
  BY <1>2, <1>3
<1>6. \A k \in Clientes : guardado[k] = [n \in Nsus |-> guardado[k][n]]
  BY DEF Guardados
<1>7. g = [n \in Nsus |-> g[n]]
  BY <1>1
<1>8. \A k \in Clientes : guardado'[k] = [n \in Nsus |-> guardado'[k][n]]
  <2> SUFFICES ASSUME NEW k \in Clientes PROVE guardado'[k] = [n \in Nsus |-> guardado'[k][n]]
    OBVIOUS
  <2>1. CASE k = ClienteDe[c]
    BY <1>4, <1>7, <2>1
  <2>2. CASE k # ClienteDe[c]
    BY <1>4, <1>6, <2>2
  <2> QED
    BY <2>1, <2>2
<1>9. Guardados'
  BY <1>5, <1>8 DEF Guardados
<1>10. ASSUME NEW k \in Clientes, NEW n \in Nsus, guardado[k][n] # Nenhum PROVE guardado'[k][n] # Nenhum
  <2>1. CASE k = ClienteDe[c]
    BY <1>1, <1>4, <1>10, <2>1
  <2>2. CASE k # ClienteDe[c]
    BY <1>4, <1>10, <2>2
  <2> QED
    BY <2>1, <2>2
<1> QED
  BY <1>9, <1>10

\* A row that the synchronisation takes over stays a row.
LEMMA Receber ==
  ASSUME Guardados, NEW c \in Controles, NEW m \in Nsus, guardado' = ComNotaDe(c, m)
  PROVE  /\ Guardados'
         /\ \A k \in Clientes, n \in Nsus : guardado[k][n] # Nenhum => guardado'[k][n] # Nenhum
<1>1. c # Nenhum
  BY DadosAssumption
<1>2. DOMAIN guardado = Clientes /\ \A k \in Clientes : guardado[k] = [n \in Nsus |-> guardado[k][n]]
  BY DEF Guardados
<1>3. CASE guardado' = guardado
  BY <1>3 DEF Guardados
<1>4. CASE guardado' = [guardado EXCEPT ![ClienteDe[c]][m] = c]
  <2>1. PICK g : g = [guardado[ClienteDe[c]] EXCEPT ![m] = c]
    OBVIOUS
  <2>2. guardado' = [guardado EXCEPT ![ClienteDe[c]] = g]
    BY <1>4, <2>1
  <2>3. \A k \in Clientes : guardado'[k] = IF k = ClienteDe[c] THEN g ELSE guardado[k]
    BY <1>2, <2>2
  <2>4. DOMAIN guardado' = Clientes /\ guardado' = [k \in Clientes |-> guardado'[k]]
    BY <1>2, <2>2
  <2>5. ASSUME NEW k \in Clientes
        PROVE  /\ guardado'[k] = [n \in Nsus |-> guardado'[k][n]]
               /\ \A n \in Nsus : guardado[k][n] # Nenhum => guardado'[k][n] # Nenhum
    <3>1. CASE k = ClienteDe[c]
      <4>1. guardado'[k] = [guardado[k] EXCEPT ![m] = c]
        BY <2>1, <2>3, <3>1
      <4> QED
        BY <1>1, <1>2, <4>1
    <3>2. CASE k # ClienteDe[c]
      BY <1>2, <2>3, <3>2
    <3> QED
      BY <3>1, <3>2
  <2>6. Guardados'
    BY <2>4, <2>5 DEF Guardados
  <2> QED
    BY <2>5, <2>6
<1> QED
  BY <1>3, <1>4 DEF ComNotaDe

LEMMA SemMudarTabelas ==
  ASSUME Tipada, UNCHANGED <<tabelas, revistos>>
  PROVE  NadaSePerde
<1>1. Guardados'
  BY DEF Tipada, Guardados, tabelas
<1> QED
  BY <1>1 DEF Tipada, NadaSePerde, tabelas

LEMMA CoberturaCresce ==
  ASSUME Tipada, NadaSePerde
  PROVE  \A c \in Controles : Cobertos[c] \subseteq Cobertos'[c]
<1> SUFFICES ASSUME NEW c \in Controles, NEW n \in Cobertos[c] PROVE n \in Cobertos'[c]
  OBVIOUS
<1>1. ClienteDe[c] \in Clientes
  BY DadosAssumption
<1>2. n \in Nsus /\ (n \in revistos[c] \/ guardado[ClienteDe[c]][n] # Nenhum)
  BY DEF Cobertos, Tem, GuardadoEm
<1>3. n \in revistos'[c] \/ guardado'[ClienteDe[c]][n] # Nenhum
  BY <1>1, <1>2 DEF NadaSePerde
<1> QED
  BY <1>2, <1>3 DEF Cobertos, Tem, GuardadoEm

\* The step of one execution leaves the others as they are.
LEMMA UmaMuda ==
  ASSUME Tipada, NEW e \in Execucoes, NEW local, Muda(e, local)
  PROVE  /\ exec' = [d \in Execucoes |-> exec'[d]]
         /\ exec'[e] = local
         /\ \A d \in Execucoes : d # e => exec'[d] = exec[d]
<1>1. DOMAIN exec = Execucoes
  BY DEF Tipada
<1>2. exec' = [exec EXCEPT ![e] = local]
  BY DEF Muda
<1> QED
  BY <1>1, <1>2

LEMMA Reune ==
  ASSUME IInv, NadaSePerde, exec' = [e \in Execucoes |-> exec'[e]],
         \/ arquivo' = arquivo
         \/ arquivo' \in Arquivos /\ ArquivoOK(Cobertos', arquivo'),
         \/ exec'[Noturna] = exec[Noturna]
         \/ NoiteOK(Cobertos', exec'[Noturna])
  PROVE  IInv'
<1>1. \A c \in Controles : Cobertos[c] \subseteq Cobertos'[c]
  BY CoberturaCresce DEF IInv
<1>2. arquivo' \in Arquivos /\ ArquivoOK(Cobertos', arquivo')
  <2>1. CASE arquivo' = arquivo
    <3>1. arquivo \in Arquivos /\ ArquivoOK(Cobertos, arquivo)
      BY DEF IInv, Tipada
    <3>2. ArquivoOK(Cobertos', arquivo)
      BY <1>1, <3>1, ArquivoMantido
    <3> QED
      BY <2>1, <3>1, <3>2
  <2>2. CASE arquivo' \in Arquivos /\ ArquivoOK(Cobertos', arquivo')
    BY <2>2
  <2> QED
    BY <2>1, <2>2
<1>3. NoiteOK(Cobertos', exec'[Noturna])
  <2>1. CASE exec'[Noturna] = exec[Noturna]
    <3>1. NoiteOK(Cobertos, exec[Noturna])
      BY DEF IInv
    <3>2. NoiteOK(Cobertos', exec[Noturna])
      BY <1>1, <3>1, NoiteMantida
    <3> QED
      BY <2>1, <3>2
  <2>2. CASE NoiteOK(Cobertos', exec'[Noturna])
    BY <2>2
  <2> QED
    BY <2>1, <2>2
<1>4. Tipada'
  BY <1>2 DEF NadaSePerde, Guardados, Tipada
<1> QED
  BY <1>2, <1>3, <1>4 DEF IInv

\* What is true of the night before a step is true of it with the coverage after the step.
LEMMA NoiteDepois ==
  ASSUME IInv, NadaSePerde
  PROVE  NoiteOK(Cobertos', exec[Noturna])
<1>1. \A c \in Controles : Cobertos[c] \subseteq Cobertos'[c]
  BY CoberturaCresce DEF IInv
<1> QED
  BY <1>1, NoiteMantida DEF IInv

-----------------------------------------------------------------------------
(* The actions of the night                                                *)

\* A step of the night that writes no table, into a local state that is right for them.
LEMMA PassoDaNoite ==
  ASSUME IInv, UNCHANGED <<tabelas, revistos>>, UNCHANGED arquivo, NEW local, Muda(Noturna, local),
         NoiteOK(Cobertos, local)
  PROVE  IInv'
<1>1. NadaSePerde
  BY SemMudarTabelas DEF IInv
<1>2. exec' = [d \in Execucoes |-> exec'[d]] /\ exec'[Noturna] = local
  BY UmaMuda DEF IInv, Execucoes
<1>3. \A c \in Controles : Cobertos[c] \subseteq Cobertos'[c]
  BY <1>1, CoberturaCresce DEF IInv
<1>4. NoiteOK(Cobertos', local)
  BY <1>3, NoiteMantida
<1> QED
  BY <1>1, <1>2, <1>4, Reune

LEMMA InicioDaNoite ==
  ASSUME IInv, IniciarNoturna \/ EsperaEsgotada
  PROVE  IInv'
<1>1. NoiteOK(Cobertos, Ociosa) /\ Ociosa \in Local
  BY OciosaOK
<1>2. CASE IniciarNoturna
  <2>1. PICK s \in Local : s = [Ociosa EXCEPT !.pc = "aguardar"]
    BY <1>1 DEF Local
  <2>2. s.pc # "nsu" /\ s.estado = Ociosa.estado /\ s.plano = Ociosa.plano /\ s.detalhes = Ociosa.detalhes
    BY <1>1, <2>1 DEF Local
  <2>3. NoiteOK(Cobertos, s)
    BY <1>1, <2>2, NoiteParada DEF NoiteOK
  <2> QED
    BY <1>2, <2>1, <2>3, PassoDaNoite DEF IniciarNoturna
<1>3. CASE EsperaEsgotada
  BY <1>1, <1>3, PassoDaNoite DEF EsperaEsgotada
<1> QED
  BY <1>2, <1>3

LEMMA Preparacao ==
  ASSUME IInv, NEW a \in Arquivos, ArquivoOK(Cobertos, a), PrepararNoturna(a)
  PROVE  IInv'
<1>1. PICK ordem \in SetToSeqs(Elegiveis(a)) :
        LET escolhidos == SubSeq(ordem, 1, MenorDe(ControlesPorRodada, Len(ordem))) IN
        Muda(Noturna,
             IF escolhidos = <<>> THEN Ociosa
             ELSE [Ociosa EXCEPT !.pc = "controle", !.estado = a,
                     !.plano = [i \in DOMAIN escolhidos |-> PlanoNoturno(a, escolhidos[i])]])
  BY DEF PrepararNoturna
<1>2. PICK escolhidos : escolhidos = SubSeq(ordem, 1, MenorDe(ControlesPorRodada, Len(ordem)))
  OBVIOUS
<1>3. escolhidos \in Seq(Elegiveis(a))
  <2>1. Len(ordem) \in Nat
    <3>1. IsFiniteSet(Elegiveis(a))
      BY FS_Subset, DadosAssumption DEF Elegiveis
    <3>2. PICK k \in Nat : k = Cardinality(Elegiveis(a))
      BY <3>1, FS_CardinalityType
    <3>3. ordem \in [1..k -> Elegiveis(a)]
      BY <3>2 DEF SetToSeqs
    <3>4. ordem \in Seq(Elegiveis(a)) /\ Len(ordem) = k
      BY <3>3
    <3> QED
      BY <3>4
  <2>2. PICK n \in Int : n = MenorDe(ControlesPorRodada, Len(ordem)) /\ n <= Len(ordem)
    BY <2>1, NumerosAssumption DEF MenorDe
  <2> QED
    BY <1>2, <2>2, EscolhaDaNoite
<1>4. PICK local : /\ Muda(Noturna, local)
                   /\ local = IF escolhidos = <<>> THEN Ociosa
                              ELSE [Ociosa EXCEPT !.pc = "controle", !.estado = a,
                                     !.plano = [i \in DOMAIN escolhidos |-> PlanoNoturno(a, escolhidos[i])]]
  BY <1>1, <1>2
<1>5. NoiteOK(Cobertos, local)
  <2>1. CASE escolhidos = <<>>
    BY <1>4, <2>1, OciosaOK
  <2>2. CASE escolhidos # <<>>
    <3>1. ultimoNsuConsultado \in [Controles -> 0..MaxNsu]
      BY DEF IInv, Tipada
    <3> QED
      BY <1>3, <1>4, <2>2, <3>1, NoitePlanejada
  <2> QED
    BY <2>1, <2>2
<1>6. UNCHANGED <<tabelas, revistos>> /\ UNCHANGED arquivo
  BY DEF PrepararNoturna
<1> QED
  BY <1>4, <1>5, <1>6, PassoDaNoite

LEMMA Leitura ==
  ASSUME IInv, LerArquivo \/ ArquivoIlegivel
  PROVE  IInv'
<1>1. arquivo \in Arquivos /\ ArquivoOK(Cobertos, arquivo)
  BY DEF IInv, Tipada
<1>2. Vazio \in Arquivos /\ ArquivoOK(Cobertos, Vazio)
  BY VazioOK
<1>3. CASE LerArquivo
  BY <1>1, <1>3, Preparacao DEF LerArquivo
<1>4. CASE ArquivoIlegivel
  BY <1>2, <1>4, Preparacao DEF ArquivoIlegivel
<1> QED
  BY <1>3, <1>4

LEMMA SalvarIInv ==
  ASSUME IInv, Salvar
  PROVE  IInv'
<1> DEFINE r == exec[Noturna]
           D == IF r.limite THEN {} ELSE {d \in r.detalhes : ~d.falhou}
           f == [c \in Controles |-> IF c \in {d.controle : d \in r.detalhes} THEN Cardinality(Controles) + 1
                                     ELSE r.estado.ordem[c]]
<1>1. NadaSePerde
  BY SemMudarTabelas DEF IInv, Salvar
<1>2. NoiteOK(Cobertos', r)
  BY <1>1, NoiteDepois
<1>3. D \subseteq r.detalhes /\ \A d \in D : ~d.falhou
  OBVIOUS
<1>4. arquivo' = [nextNsu |-> Proximos(D, r.estado), ordem |-> Compacta(f)]
  BY DEF Salvar, Proximos
<1> HIDE DEF r, D, f
<1>5. arquivo' \in Arquivos /\ ArquivoOK(Cobertos', arquivo')
  BY <1>2, <1>3, <1>4, ArquivoSalvo
<1>6. exec' = [d \in Execucoes |-> exec'[d]] /\ exec'[Noturna] = Ociosa
  BY UmaMuda DEF IInv, Salvar, Execucoes
<1>7. NoiteOK(Cobertos', exec'[Noturna])
  BY <1>6, OciosaOK
<1> QED
  BY <1>1, <1>5, <1>6, <1>7, Reune

-----------------------------------------------------------------------------
(* ... and its work on the controls                                        *)

LEMMA ConcluirNoite ==
  ASSUME NEW K, NoiteOK(K, exec[Noturna]), exec[Noturna].plano # <<>>, NEW falhou \in BOOLEAN,
         NEW plano \in {<<>>, Tail(exec[Noturna].plano)},
         falhou \/ Ate(K, Atual(Noturna).controle, Atual(Noturna).nsuFinal)
  PROVE  /\ NoiteOK(K, Concluido(Noturna, plano, falhou))
         /\ NoiteOK(K, [Concluido(Noturna, plano, falhou) EXCEPT !.limite = TRUE])
<1>1. PICK r : r = exec[Noturna]
  OBVIOUS
<1>2. r \in Local
  BY <1>1 DEF NoiteOK
<1>3. PICK p : p = Head(r.plano)
  OBVIOUS
<1>4. PICK D : D = r.detalhes \union {[controle |-> p.controle, nsuFinal |-> p.nsuFinal, falhou |-> falhou]}
  OBVIOUS
<1>5. Concluido(Noturna, plano, falhou) =
        [r EXCEPT !.pc = "controle", !.plano = plano, !.faixas = <<>>, !.falhou = FALSE, !.detalhes = D]
  BY <1>1, <1>3, <1>4 DEF Concluido, Atual
<1>6. ASSUME NEW limite \in BOOLEAN
      PROVE  NoiteOK(K, [r EXCEPT !.pc = "controle", !.plano = plano, !.faixas = <<>>, !.falhou = FALSE,
                           !.limite = limite, !.detalhes = D])
  <2>1. falhou \/ Ate(K, Head(r.plano).controle, Head(r.plano).nsuFinal)
    BY <1>1 DEF Atual
  <2> QED
    BY <1>1, <1>3, <1>4, <2>1, TerminarNoite
<1>7. [r EXCEPT !.pc = "controle", !.plano = plano, !.faixas = <<>>, !.falhou = FALSE, !.detalhes = D] =
      [r EXCEPT !.pc = "controle", !.plano = plano, !.faixas = <<>>, !.falhou = FALSE, !.limite = r.limite,
         !.detalhes = D]
  BY <1>2 DEF Local
<1>8. [[r EXCEPT !.pc = "controle", !.plano = plano, !.faixas = <<>>, !.falhou = FALSE, !.detalhes = D]
         EXCEPT !.limite = TRUE] =
      [r EXCEPT !.pc = "controle", !.plano = plano, !.faixas = <<>>, !.falhou = FALSE, !.limite = TRUE,
         !.detalhes = D]
  BY <1>2 DEF Local
<1>9. r.limite \in BOOLEAN
  BY <1>2 DEF Local
<1> QED
  BY <1>5, <1>6, <1>7, <1>8, <1>9

LEMMA ControleDaNoite ==
  ASSUME IInv,
         \/ InterromperPorCooldown(Noturna) \/ SemFaixa(Noturna) \/ SemCertificado(Noturna)
         \/ IniciarControle(Noturna)
  PROVE  IInv'
<1>1. NoiteOK(Cobertos, exec[Noturna])
  BY DEF IInv
<1>2. CASE InterromperPorCooldown(Noturna)
  <2>1. NoiteOK(Cobertos, [exec[Noturna] EXCEPT !.plano = <<>>, !.limite = TRUE])
    BY <1>1, <1>2, NoiteInterrompida DEF InterromperPorCooldown
  <2> QED
    BY <1>2, <2>1, PassoDaNoite DEF InterromperPorCooldown
<1>3. CASE SemFaixa(Noturna)
  <2>1. exec[Noturna].plano # <<>> /\ Head(exec[Noturna].plano).faixas = <<>>
    BY <1>3 DEF SemFaixa, Atual
  <2>2. PICK p \in Planos : p = Head(exec[Noturna].plano) /\ PlanoOK(Cobertos, p)
    BY <1>1, <2>1, EmTrabalho
  <2>3. PICK ini \in 1..p.nsuFinal : p.faixas = Restante(ini, p.nsuFinal)
    BY <2>2 DEF PlanoOK
  <2>4. p.nsuFinal \in 0..MaxNsu /\ ini \in Nat \ {0} /\ ~(ini > p.nsuFinal)
    BY <2>2, <2>3, NumerosAssumption DEF Planos
  <2>5. p.faixas # <<>>
    BY <2>3, <2>4, FimDaFaixa
  <2> QED
    BY <2>1, <2>2, <2>5
<1>4. CASE SemCertificado(Noturna)
  <2>1. exec[Noturna].plano # <<>>
    BY <1>4 DEF SemCertificado
  <2>2. NoiteOK(Cobertos, Concluido(Noturna, Tail(exec[Noturna].plano), TRUE))
    BY <1>1, <2>1, ConcluirNoite
  <2> QED
    BY <1>4, <2>2, PassoDaNoite DEF SemCertificado, Concluir
<1>5. CASE IniciarControle(Noturna)
  <2>1. exec[Noturna].plano # <<>>
    BY <1>5 DEF IniciarControle
  <2>2. NoiteOK(Cobertos, [exec[Noturna] EXCEPT !.pc = "nsu", !.faixas = Head(exec[Noturna].plano).faixas,
                                                !.restam = Head(exec[Noturna].plano).alvos])
    BY <1>1, <2>1, IniciarNoite
  <2> QED
    BY <1>5, <2>2, PassoDaNoite DEF IniciarControle, Atual
<1> QED
  BY <1>2, <1>3, <1>4, <1>5

\* A night has no targets: it goes through the whole range.
LEMMA SemAlvos ==
  ASSUME IInv, exec[Noturna].pc = "nsu"
  PROVE  ~Encontrados(Noturna)
<1>1. NoiteOK(Cobertos, exec[Noturna])
  BY DEF IInv
<1>2. exec[Noturna].plano # <<>>
  BY <1>1, Posicao
<1>3. Head(exec[Noturna].plano).alvos = {}
  BY <1>1, <1>2, EmTrabalho DEF PlanoOK
<1> QED
  BY <1>3 DEF Encontrados, Atual

LEMMA FimDaNoite ==
  ASSUME IInv, Dispensar(Noturna) \/ FimDasFaixas(Noturna)
  PROVE  IInv'
<1>1. NoiteOK(Cobertos, exec[Noturna])
  BY DEF IInv
<1>2. FimDasFaixas(Noturna)
  BY SemAlvos DEF Dispensar
<1>3. exec[Noturna].pc = "nsu" /\ exec[Noturna].faixas = <<>>
  BY <1>2 DEF FimDasFaixas
<1>4. PICK p \in Planos : p = Head(exec[Noturna].plano)
  BY <1>1, <1>3, Posicao
<1>5. PICK ini \in Nat \ {0} :
        /\ exec[Noturna].falhou \/ Ate(Cobertos, p.controle, ini - 1)
        /\ exec[Noturna].faixas = <<>> <=> ini = p.nsuFinal + 1
  BY <1>1, <1>3, <1>4, Posicao
<1>6. ini - 1 = p.nsuFinal
  <2>1. p.nsuFinal \in Nat
    BY <1>4, NumerosAssumption DEF Planos
  <2> QED
    BY <1>3, <1>5, <2>1
<1>7. exec[Noturna].falhou \/ Ate(Cobertos, Atual(Noturna).controle, Atual(Noturna).nsuFinal)
  BY <1>4, <1>5, <1>6 DEF Atual
<1>8. exec[Noturna].plano # <<>> /\ exec[Noturna].falhou \in BOOLEAN
  BY <1>1, <1>3, Posicao DEF Local
<1>9. NoiteOK(Cobertos, Concluido(Noturna, Tail(exec[Noturna].plano), exec[Noturna].falhou))
  BY <1>1, <1>7, <1>8, ConcluirNoite
<1> QED
  BY <1>2, <1>9, PassoDaNoite DEF FimDasFaixas, Concluir

\* The NSU at hand belongs to the control at work, and is one there is.
LEMMA NsuDaNoite ==
  ASSUME IInv, Visita(Noturna)
  PROVE  Atual(Noturna).controle \in Controles /\ Nsu(Noturna) \in Nsus
<1>1. NoiteOK(Cobertos, exec[Noturna]) /\ exec[Noturna].pc = "nsu" /\ exec[Noturna].faixas # <<>>
  BY DEF IInv, Visita
<1>2. PICK p \in Planos : p = Head(exec[Noturna].plano)
  BY <1>1, Posicao
<1>3. p.nsuFinal \in 0..MaxNsu /\ MaxNsu \in Nat /\ p.controle \in Controles
  BY NumerosAssumption DEF Planos
<1>4. PICK ini \in Nat \ {0} :
        /\ ini <= p.nsuFinal + 1 /\ exec[Noturna].faixas = Restante(ini, p.nsuFinal)
        /\ exec[Noturna].faixas = <<>> <=> ini = p.nsuFinal + 1
  BY <1>1, <1>2, Posicao
<1>5. ini <= p.nsuFinal
  BY <1>1, <1>3, <1>4
<1>6. Head(Head(exec[Noturna].faixas)) = ini
  BY <1>3, <1>4, <1>5, RestoDaFaixa
<1>7. ini \in Nsus
  BY <1>3, <1>5 DEF Nsus
<1> QED
  BY <1>2, <1>3, <1>6, <1>7 DEF Atual, Nsu

\* The NSU at hand is gone through: it is covered now, or the round has failed.
LEMMA NsuPassado ==
  ASSUME IInv, Visita(Noturna), NadaSePerde, UNCHANGED arquivo, NEW falhou \in BOOLEAN, NEW local,
         Muda(Noturna, local), exec[Noturna].falhou => falhou,
         local = [exec[Noturna] EXCEPT !.faixas = Resto(@), !.falhou = falhou],
         falhou \/ Nsu(Noturna) \in Cobertos'[Atual(Noturna).controle]
  PROVE  IInv'
<1>1. NoiteOK(Cobertos', exec[Noturna])
  BY NoiteDepois
<1>2. exec[Noturna].pc = "nsu" /\ exec[Noturna].faixas # <<>>
  BY DEF Visita
<1>3. falhou \/ Head(Head(exec[Noturna].faixas)) \in Cobertos'[Head(exec[Noturna].plano).controle]
  BY DEF Nsu, Atual
<1>4. PICK K : K = Cobertos'
  OBVIOUS
<1>5. NoiteOK(K, [exec[Noturna] EXCEPT !.faixas = Resto(@), !.falhou = falhou])
  BY <1>1, <1>2, <1>3, <1>4, AvancarNoite
<1>6. exec' = [d \in Execucoes |-> exec'[d]] /\ exec'[Noturna] = local
  BY UmaMuda DEF IInv, Execucoes
<1>7. NoiteOK(Cobertos', exec'[Noturna])
  BY <1>4, <1>5, <1>6
<1> QED
  BY <1>6, <1>7, Reune

LEMMA MesmaNoite ==
  ASSUME NEW r \in Local, r.restam = {}, NEW faixas, NEW X
  PROVE  /\ [r EXCEPT !.faixas = faixas, !.restam = Resolver(@, X)] = [r EXCEPT !.faixas = faixas, !.falhou = r.falhou]
         /\ [r EXCEPT !.faixas = faixas] = [r EXCEPT !.faixas = faixas, !.falhou = r.falhou]
BY DEF Resolver, Local

\* The night in the middle of a range.
LEMMA NoMeio ==
  ASSUME IInv, Visita(Noturna)
  PROVE  exec[Noturna] \in Local /\ exec[Noturna].restam = {} /\ exec[Noturna].falhou \in BOOLEAN
<1>1. NoiteOK(Cobertos, exec[Noturna]) /\ exec[Noturna].pc = "nsu"
  BY DEF IInv, Visita
<1>2. exec[Noturna] \in Local /\ exec[Noturna].restam = {}
  BY <1>1, Posicao
<1> QED
  BY <1>2 DEF Local

LEMMA JaBaixadoIInv ==
  ASSUME IInv, JaBaixado(Noturna)
  PROVE  IInv'
<1>1. Visita(Noturna) /\ Tem(Atual(Noturna).controle, Nsu(Noturna))
  BY DEF JaBaixado
<1>2. NadaSePerde
  BY SemMudarTabelas DEF IInv, JaBaixado
<1>3. Nsu(Noturna) \in Cobertos[Atual(Noturna).controle]
  BY <1>1, NsuDaNoite DEF Cobertos
<1>4. Nsu(Noturna) \in Cobertos'[Atual(Noturna).controle]
  BY <1>1, <1>2, <1>3, NsuDaNoite, CoberturaCresce DEF IInv
<1>5. PICK X : Muda(Noturna, [exec[Noturna] EXCEPT !.faixas = Resto(@), !.restam = Resolver(@, X)])
  BY DEF JaBaixado
<1>6. Muda(Noturna, [exec[Noturna] EXCEPT !.faixas = Resto(@), !.falhou = exec[Noturna].falhou])
  BY <1>1, <1>5, NoMeio, MesmaNoite
<1>7. UNCHANGED arquivo /\ exec[Noturna].falhou \in BOOLEAN
  BY <1>1, NoMeio DEF JaBaixado
<1> QED
  BY <1>1, <1>2, <1>4, <1>6, <1>7, NsuPassado

\* The ADN answered: the NSU was gone through.
LEMMA RevistoAgora ==
  ASSUME IInv, Visita(Noturna), Revisto(Noturna)
  PROVE  /\ revistos' \in [Controles -> SUBSET Nsus]
         /\ \A c \in Controles : revistos[c] \subseteq revistos'[c]
         /\ Nsu(Noturna) \in Cobertos'[Atual(Noturna).controle]
<1>1. PICK c \in Controles, n \in Nsus : c = Atual(Noturna).controle /\ n = Nsu(Noturna)
  BY NsuDaNoite
<1>2. revistos \in [Controles -> SUBSET Nsus]
  BY DEF IInv, Tipada
<1>3. revistos' = [revistos EXCEPT ![c] = @ \union {n}]
  BY <1>1 DEF Revisto
<1>4. revistos' \in [Controles -> SUBSET Nsus] /\ \A d \in Controles : revistos[d] \subseteq revistos'[d]
  BY <1>2, <1>3
<1>5. n \in revistos'[c]
  BY <1>2, <1>3
<1>6. n \in Cobertos'[c]
  BY <1>5 DEF Cobertos
<1> QED
  BY <1>1, <1>4, <1>6

LEMMA SemDocumentoIInv ==
  ASSUME IInv, SemDocumento(Noturna)
  PROVE  IInv'
<1>1. Visita(Noturna) /\ Revisto(Noturna) /\ UNCHANGED tabelas /\ UNCHANGED arquivo
  BY DEF SemDocumento, Consulta
<1>2. NadaSePerde
  <2>1. Guardados'
    BY <1>1 DEF IInv, Tipada, Guardados, tabelas
  <2> QED
    BY <1>1, <2>1, RevistoAgora DEF NadaSePerde, IInv, Tipada, tabelas
<1>3. Muda(Noturna, [exec[Noturna] EXCEPT !.faixas = Resto(@), !.falhou = exec[Noturna].falhou])
  BY <1>1, NoMeio, MesmaNoite DEF SemDocumento
<1>4. exec[Noturna].falhou \in BOOLEAN /\ Nsu(Noturna) \in Cobertos'[Atual(Noturna).controle]
  BY <1>1, NoMeio, RevistoAgora
<1> QED
  BY <1>1, <1>2, <1>3, <1>4, NsuPassado

LEMMA ComDocumentosIInv ==
  ASSUME IInv, ComDocumentos(Noturna)
  PROVE  IInv'
<1>1. Visita(Noturna) /\ Revisto(Noturna) /\ UNCHANGED <<ultimoNsuConsultado, arquivo>>
  BY DEF ComDocumentos, Consulta
<1>2. PICK docs, X : /\ guardado' = ComDocumentosDe(Atual(Noturna).controle, docs)
                     /\ Muda(Noturna, [exec[Noturna] EXCEPT !.faixas = Resto(@), !.restam = Resolver(@, X)])
  BY DEF ComDocumentos
<1>3. NadaSePerde
  <2>1. Guardados
    BY DEF IInv, Tipada, Guardados
  <2>2. /\ Guardados'
        /\ \A k \in Clientes, n \in Nsus : guardado[k][n] # Nenhum => guardado'[k][n] # Nenhum
    BY <1>2, <2>1, Guardar
  <2> QED
    BY <1>1, <2>2, RevistoAgora DEF NadaSePerde, IInv, Tipada
<1>4. Muda(Noturna, [exec[Noturna] EXCEPT !.faixas = Resto(@), !.falhou = exec[Noturna].falhou])
  BY <1>1, <1>2, NoMeio, MesmaNoite
<1>5. exec[Noturna].falhou \in BOOLEAN /\ Nsu(Noturna) \in Cobertos'[Atual(Noturna).controle]
  BY <1>1, NoMeio, RevistoAgora
<1> QED
  BY <1>1, <1>3, <1>4, <1>5, NsuPassado

LEMMA FalhaTemporariaIInv ==
  ASSUME IInv, FalhaTemporaria(Noturna)
  PROVE  IInv'
<1>1. Visita(Noturna) /\ UNCHANGED arquivo
  BY DEF FalhaTemporaria, Consulta
<1>2. NadaSePerde
  BY SemMudarTabelas DEF IInv, FalhaTemporaria
<1>3. Muda(Noturna, [exec[Noturna] EXCEPT !.faixas = Resto(@), !.falhou = TRUE])
  BY DEF FalhaTemporaria
<1> QED
  BY <1>1, <1>2, <1>3, NsuPassado

LEMMA FalhaDaNoite ==
  ASSUME IInv, FalhaDecifrar(Noturna) \/ LimiteExcedido(Noturna)
  PROVE  IInv'
<1>1. NoiteOK(Cobertos, exec[Noturna]) /\ exec[Noturna].pc = "nsu" /\ exec[Noturna].faixas # <<>>
  BY DEF IInv, FalhaDecifrar, LimiteExcedido, Consulta, Visita
<1>2. CASE FalhaDecifrar(Noturna)
  <2>1. NoiteOK(Cobertos, AposFalhaDecifrar(Noturna))
    BY <1>1, DesistirNoite DEF AposFalhaDecifrar
  <2> QED
    BY <1>2, <2>1, PassoDaNoite DEF FalhaDecifrar
<1>3. CASE LimiteExcedido(Noturna)
  <2>1. exec[Noturna].plano # <<>>
    BY <1>1, Posicao
  <2>2. NoiteOK(Cobertos, [Concluido(Noturna, <<>>, TRUE) EXCEPT !.limite = TRUE])
    BY <1>1, <2>1, ConcluirNoite
  <2> QED
    BY <1>3, <2>2, PassoDaNoite DEF LimiteExcedido
<1> QED
  BY <1>2, <1>3

\* An execution that ends with an exception, its own documents kept.
LEMMA FimPorExcecao ==
  ASSUME IInv, NEW e \in Execucoes, FalhaAoGravar(e) \/ Excecao(e)
  PROVE  IInv'
<1>1. Muda(e, Ociosa) /\ UNCHANGED arquivo
  BY DEF FalhaAoGravar, Excecao
<1>2. NadaSePerde
  <2>1. CASE Excecao(e)
    BY <2>1, SemMudarTabelas DEF IInv, Excecao
  <2>2. CASE FalhaAoGravar(e)
    <3>1. PICK docs : guardado' = ComDocumentosDe(Atual(e).controle, docs)
      BY <2>2 DEF FalhaAoGravar
    <3>2. Guardados
      BY DEF IInv, Tipada, Guardados
    <3>3. /\ Guardados'
          /\ \A k \in Clientes, n \in Nsus : guardado[k][n] # Nenhum => guardado'[k][n] # Nenhum
      BY <3>1, <3>2, Guardar
    <3>4. UNCHANGED <<ultimoNsuConsultado, revistos>>
      BY <2>2 DEF FalhaAoGravar
    <3> QED
      BY <3>3, <3>4 DEF NadaSePerde, IInv, Tipada
  <2> QED
    BY <2>1, <2>2
<1>3. /\ exec' = [d \in Execucoes |-> exec'[d]] /\ exec'[e] = Ociosa
      /\ \A d \in Execucoes : d # e => exec'[d] = exec[d]
  BY <1>1, UmaMuda DEF IInv
<1>4. exec'[Noturna] = exec[Noturna] \/ NoiteOK(Cobertos', exec'[Noturna])
  <2>1. NoiteOK(Cobertos', Ociosa)
    BY OciosaOK
  <2> QED
    BY <1>3, <2>1 DEF Execucoes
<1> QED
  BY <1>1, <1>2, <1>3, <1>4, Reune

-----------------------------------------------------------------------------
(* The operators' recoveries, the synchronisation and the process          *)

\* An operator's recovery stores notes and touches nothing else the night reads.
LEMMA OutraExecucao ==
  ASSUME IInv, NEW m \in Manuais, NEW local, Muda(m, local), NadaSePerde, UNCHANGED arquivo
  PROVE  IInv'
<1>1. m \in Execucoes /\ Noturna \in Execucoes /\ m # Noturna
  BY DadosAssumption DEF Execucoes
<1>2. exec' = [d \in Execucoes |-> exec'[d]] /\ exec'[Noturna] = exec[Noturna]
  BY <1>1, UmaMuda DEF IInv
<1> QED
  BY <1>2, Reune

LEMMA ManualIInv ==
  ASSUME IInv, NEW m \in Manuais, Reprocessamento(m)
  PROVE  IInv'
<1>1. m \in Execucoes /\ m # Noturna
  BY DadosAssumption DEF Execucoes
<1>2. CASE FalhaAoGravar(m) \/ Excecao(m)
  BY <1>1, <1>2, FimPorExcecao
<1>3. CASE ComDocumentos(m)
  <2>1. PICK docs, X : /\ guardado' = ComDocumentosDe(Atual(m).controle, docs)
                       /\ Muda(m, [exec[m] EXCEPT !.faixas = Resto(@), !.restam = Resolver(@, X)])
    BY <1>3 DEF ComDocumentos
  <2>2. Guardados
    BY DEF IInv, Tipada, Guardados
  <2>3. /\ Guardados'
        /\ \A k \in Clientes, n \in Nsus : guardado[k][n] # Nenhum => guardado'[k][n] # Nenhum
    BY <2>1, <2>2, Guardar
  <2>4. UNCHANGED <<ultimoNsuConsultado, revistos, arquivo>>
    BY <1>1, <1>3 DEF ComDocumentos, Revisto
  <2>5. NadaSePerde
    BY <2>3, <2>4 DEF NadaSePerde, IInv, Tipada
  <2> QED
    BY <2>1, <2>4, <2>5, OutraExecucao
<1>4. CASE SemDocumento(m)
  <2>1. UNCHANGED <<tabelas, revistos>> /\ UNCHANGED arquivo
    BY <1>1, <1>4 DEF SemDocumento, Revisto
  <2>2. NadaSePerde
    BY <2>1, SemMudarTabelas DEF IInv
  <2>3. PICK local : Muda(m, local)
    BY <1>4 DEF SemDocumento
  <2> QED
    BY <2>1, <2>2, <2>3, OutraExecucao
<1>5. CASE \/ InterromperPorCooldown(m) \/ SemFaixa(m) \/ SemCertificado(m) \/ IniciarControle(m)
           \/ Dispensar(m) \/ FimDasFaixas(m) \/ JaBaixado(m)
           \/ FalhaTemporaria(m) \/ FalhaDecifrar(m) \/ LimiteExcedido(m)
  <2>1. UNCHANGED <<tabelas, revistos>> /\ UNCHANGED arquivo
    BY <1>5 DEF InterromperPorCooldown, SemFaixa, SemCertificado, IniciarControle, Dispensar, FimDasFaixas,
                JaBaixado, FalhaTemporaria, FalhaDecifrar, LimiteExcedido
  <2>2. NadaSePerde
    BY <2>1, SemMudarTabelas DEF IInv
  <2>3. PICK local : Muda(m, local)
    BY <1>5 DEF InterromperPorCooldown, SemFaixa, SemCertificado, IniciarControle, Dispensar, FimDasFaixas,
                JaBaixado, FalhaTemporaria, FalhaDecifrar, LimiteExcedido, Concluir
  <2> QED
    BY <2>1, <2>2, <2>3, OutraExecucao
<1> QED
  BY <1>2, <1>3, <1>4, <1>5 DEF Reprocessamento

LEMMA NoturnaIInv ==
  ASSUME IInv, Reprocessamento(Noturna)
  PROVE  IInv'
<1>1. Noturna \in Execucoes
  BY DEF Execucoes
<1> QED
  BY <1>1, ControleDaNoite, FimDaNoite, JaBaixadoIInv, SemDocumentoIInv, ComDocumentosIInv,
     FalhaTemporariaIInv, FalhaDaNoite, FimPorExcecao DEF Reprocessamento

LEMMA OperarIInv ==
  ASSUME IInv, Operar
  PROVE  IInv'
<1>1. ASSUME NEW m \in Manuais, NEW S \in Alvos,
             Reprocessar(m, S) \/ \E lacunas \in Lacunas : AuditarLacunas(m, S, lacunas)
      PROVE  IInv'
  <2>1. UNCHANGED <<tabelas, revistos>> /\ UNCHANGED arquivo
    BY <1>1 DEF Reprocessar, AuditarLacunas
  <2>2. PICK local : Muda(m, local)
    BY <1>1 DEF Reprocessar, AuditarLacunas
  <2>3. NadaSePerde
    BY <2>1, SemMudarTabelas DEF IInv
  <2> QED
    BY <2>1, <2>2, <2>3, OutraExecucao
<1>2. ASSUME NEW c \in Controles, PausarOuRetomar(c) PROVE IInv'
  <2>1. UNCHANGED <<ultimoNsuConsultado, guardado, arquivo, exec, revistos>>
    BY <1>2 DEF PausarOuRetomar
  <2>2. NadaSePerde
    <3>1. Guardados'
      BY <2>1 DEF IInv, Tipada, Guardados
    <3> QED
      BY <2>1, <3>1 DEF IInv, Tipada, NadaSePerde
  <2>3. exec' = [e \in Execucoes |-> exec'[e]]
    BY <2>1 DEF IInv, Tipada
  <2> QED
    BY <2>1, <2>2, <2>3, Reune
<1>3. CASE Reiniciar
  <2>1. UNCHANGED <<tabelas, revistos>> /\ UNCHANGED arquivo /\ exec' = [e \in Execucoes |-> Ociosa]
    BY <1>3 DEF Reiniciar
  <2>2. NadaSePerde
    BY <2>1, SemMudarTabelas DEF IInv
  <2>3. exec' = [e \in Execucoes |-> exec'[e]] /\ exec'[Noturna] = Ociosa
    BY <2>1 DEF Execucoes
  <2>4. NoiteOK(Cobertos', exec'[Noturna])
    BY <2>3, OciosaOK
  <2> QED
    BY <2>1, <2>2, <2>3, <2>4, Reune
<1> QED
  BY <1>1, <1>2, <1>3 DEF Operar

LEMMA SincronizacaoIInv ==
  ASSUME IInv, Sincronizacao
  PROVE  IInv'
<1>1. CASE IniciarCiclo \/ EncerrarCiclo
  <2>1. UNCHANGED <<tabelas, revistos>> /\ UNCHANGED arquivo /\ UNCHANGED exec
    BY <1>1 DEF IniciarCiclo, EncerrarCiclo
  <2>2. NadaSePerde
    BY <2>1, SemMudarTabelas DEF IInv
  <2>3. exec' = [e \in Execucoes |-> exec'[e]]
    BY <2>1 DEF IInv, Tipada
  <2> QED
    BY <2>1, <2>2, <2>3, Reune
<1>2. ASSUME NEW c \in Controles, Sincronizar(c) PROVE IInv'
  <2>1. UNCHANGED <<arquivo, exec, revistos>>
    BY <1>2 DEF Sincronizar
  <2>2. ultimoNsuConsultado' \in [Controles -> 0..MaxNsu]
    <3>1. ultimoNsuConsultado \in [Controles -> 0..MaxNsu] /\ MaxNsu \in Nat
      BY NumerosAssumption DEF IInv, Tipada
    <3>2. PICK u \in 0..MaxNsu : u = ultimoNsuConsultado[c]
      BY <3>1
    <3>3. PICK n : n = u + 1 /\ n <= Len(Notas[c]) /\ ultimoNsuConsultado' = [ultimoNsuConsultado EXCEPT ![c] = n]
      BY <1>2, <3>2 DEF Sincronizar
    <3>4. Len(Notas[c]) \in Nat /\ Len(Notas[c]) <= MaxNsu
      BY DadosAssumption
    <3>5. n \in 0..MaxNsu
      BY <3>1, <3>2, <3>3, <3>4
    <3> QED
      BY <3>1, <3>3, <3>5
  <2>3. /\ Guardados'
        /\ \A k \in Clientes, n \in Nsus : guardado[k][n] # Nenhum => guardado'[k][n] # Nenhum
    <3>1. Guardados
      BY DEF IInv, Tipada, Guardados
    <3>2. PICK n : n = ultimoNsuConsultado[c] + 1 /\ n <= Len(Notas[c]) /\ guardado' \in {guardado, ComNotaDe(c, n)}
      BY <1>2 DEF Sincronizar
    <3>3. CASE guardado' = guardado
      BY <3>1, <3>3 DEF Guardados
    <3>4. CASE guardado' = ComNotaDe(c, n)
      <4>1. PICK u \in 0..MaxNsu : u = ultimoNsuConsultado[c]
        BY DEF IInv, Tipada
      <4>2. Len(Notas[c]) \in Nat /\ Len(Notas[c]) <= MaxNsu /\ MaxNsu \in Nat
        BY DadosAssumption, NumerosAssumption
      <4>3. n \in Nsus
        BY <3>2, <4>1, <4>2 DEF Nsus
      <4> QED
        BY <3>1, <3>4, <4>3, Receber
    <3> QED
      BY <3>2, <3>3, <3>4
  <2>4. NadaSePerde
    BY <2>1, <2>2, <2>3 DEF NadaSePerde, IInv, Tipada
  <2>5. exec' = [e \in Execucoes |-> exec'[e]]
    BY <2>1 DEF IInv, Tipada
  <2> QED
    BY <2>1, <2>4, <2>5, Reune
<1> QED
  BY <1>1, <1>2 DEF Sincronizacao

-----------------------------------------------------------------------------
(* The theorem                                                             *)

LEMMA InitIInv == Init => IInv
<1> SUFFICES ASSUME Init PROVE IInv
  OBVIOUS
<1>1. Vazio \in Arquivos /\ ArquivoOK(Cobertos, Vazio) /\ NoiteOK(Cobertos, Ociosa)
  BY VazioOK, OciosaOK
<1>2. ultimoNsuConsultado \in [Controles -> 0..MaxNsu]
  BY NumerosAssumption DEF Init
<1>3. exec[Noturna] = Ociosa /\ exec = [e \in Execucoes |-> exec[e]]
  BY DEF Init, Execucoes
<1>4. revistos \in [Controles -> SUBSET Nsus] /\ arquivo = Vazio
  BY DEF Init
<1>5. guardado = [k \in Clientes |-> [n \in Nsus |-> guardado[k][n]]]
  BY DEF Init
<1> QED
  BY <1>1, <1>2, <1>3, <1>4, <1>5 DEF IInv, Tipada

LEMMA NextIInv == IInv /\ [Next]_vars => IInv'
<1> SUFFICES ASSUME IInv, [Next]_vars PROVE IInv'
  OBVIOUS
<1>1. CASE CicloNoturno
  BY <1>1, InicioDaNoite, Leitura, SalvarIInv DEF CicloNoturno
<1>2. ASSUME NEW e \in Execucoes, Reprocessamento(e) PROVE IInv'
  BY <1>2, ManualIInv, NoturnaIInv DEF Execucoes
<1>3. CASE Operar
  BY <1>3, OperarIInv
<1>4. CASE Sincronizacao
  BY <1>4, SincronizacaoIInv
<1>5. CASE UNCHANGED vars
  <2>1. UNCHANGED <<tabelas, revistos>> /\ UNCHANGED arquivo /\ UNCHANGED exec
    BY <1>5 DEF vars
  <2>2. NadaSePerde
    BY <2>1, SemMudarTabelas DEF IInv
  <2>3. exec' = [e \in Execucoes |-> exec'[e]]
    BY <2>1 DEF IInv, Tipada
  <2> QED
    BY <2>1, <2>2, <2>3, Reune
<1> QED
  BY <1>1, <1>2, <1>3, <1>4, <1>5 DEF Next

LEMMA SpecIInv == Spec => []IInv
BY InitIInv, NextIInv, PTL DEF Spec

\* Every NSU behind the night's cursor is one whose note the client keeps or that a recovery went
\* through with an answer, whatever failed, stopped, was stored by others or was restarted.
THEOREM RevistoSempreCoberto == Spec => []RevistoCoberto
<1>1. IInv => RevistoCoberto
  <2> SUFFICES ASSUME IInv, NEW c \in Controles, NEW n \in 1..arquivo.nextNsu[c] - 1
               PROVE  n \in revistos[c] \/ Tem(c, n)
    BY DEF RevistoCoberto
  <2>1. n \in Cobertos[c]
    BY DEF IInv, ArquivoOK, Ate
  <2> QED
    BY <2>1 DEF Cobertos
<1>2. QED
  BY <1>1, SpecIInv, PTL

-----------------------------------------------------------------------------
(* What the operators' recoveries have in hand, and the notes stored       *)

\* What an audit has planned: ranges that are never empty, and positive numbers.
Varreduras == Seq(Seq(Nsus) \ {<<>>})

PlanosBons == [controle : Controles, cursor : 0..MaxNsu, faixas : Varreduras, nsuFinal : 0..MaxNsu,
               alvos : SUBSET (Nat \ {0})]

\* An operator's recovery, as it stands.
Bem(r) ==
  /\ r \in Local /\ r.plano \in Seq(PlanosBons) /\ r.faixas \in Varreduras
  /\ r.pc = "nsu" => r.plano # <<>>

\* Under an NSU a client keeps a note that one of its controls received there.
GuardadoOK ==
  /\ guardado \in [Clientes -> [Nsus -> Controles \union {Nenhum}]]
  /\ \A k \in Clientes, n \in Nsus : guardado[k][n] # Nenhum =>
       /\ ClienteDe[guardado[k][n]] = k /\ n \in DOMAIN Notas[guardado[k][n]]
       /\ Notas[guardado[k][n]][n].numero # Evento

\* The other variables, and what the operators' recoveries have in hand.
TInv ==
  /\ ativo \in [Controles -> BOOLEAN] /\ autoSyncRunning \in BOOLEAN /\ intervencoes \in 0..MaxIntervencoes
  /\ GuardadoOK
  /\ \A m \in Manuais : Bem(exec[m])

\* A step stores notes of control c.
Grava(c) ==
  /\ guardado' \in [Clientes -> [Nsus -> Controles \union {Nenhum}]]
  /\ \A k \in Clientes, n \in Nsus :
       \/ guardado'[k][n] = guardado[k][n]
       \/ k = ClienteDe[c] /\ n \in DOMAIN Notas[c] /\ Notas[c][n].numero # Evento /\ guardado'[k][n] = c

\* The notes the ADN keeps for a control.
LEMMA FilaDe ==
  ASSUME NEW c \in Controles
  PROVE  /\ DOMAIN Notas[c] = 1..Len(Notas[c]) /\ 1..Len(Notas[c]) \subseteq Nsus
         /\ \A n \in DOMAIN Notas[c] : Notas[c][n].numero \in Nat
<1>1. Notas[c] \in Seq([numero : Nat, emissor : Controles \union {Nenhum}])
  BY DadosAssumption
<1>2. Len(Notas[c]) \in Nat /\ Len(Notas[c]) <= MaxNsu /\ MaxNsu \in Nat /\ DOMAIN Notas[c] = 1..Len(Notas[c])
  BY <1>1, DadosAssumption, NumerosAssumption
<1>3. 1..Len(Notas[c]) \subseteq Nsus
  BY <1>2 DEF Nsus
<1>4. ASSUME NEW n \in DOMAIN Notas[c] PROVE Notas[c][n].numero \in Nat
  <2>1. Notas[c][n] \in [numero : Nat, emissor : Controles \union {Nenhum}]
    BY <1>1, <1>2, ElementOfSeq
  <2> QED
    BY <2>1
<1> QED
  BY <1>2, <1>3, <1>4

\* Storing documents keeps what was there, and leaves a note under the NSU of each that is one.
LEMMA GravaDocumentos ==
  ASSUME GuardadoOK, NEW c \in Controles, NEW docs, docs \subseteq DOMAIN Notas[c],
         guardado' = ComDocumentosDe(c, docs)
  PROVE  /\ Grava(c)
         /\ \A k \in Clientes, n \in Nsus : guardado[k][n] # Nenhum => guardado'[k][n] = guardado[k][n]
         /\ \A n \in docs : Notas[c][n].numero # Evento => guardado'[ClienteDe[c]][n] # Nenhum
<1> DEFINE velho == guardado[ClienteDe[c]]
<1>1. PICK g : g = [n \in Nsus |-> IF n \in docs /\ velho[n] = Nenhum /\ Notas[c][n].numero # Evento
                                   THEN c ELSE velho[n]]
  OBVIOUS
<1>2. guardado' = [guardado EXCEPT ![ClienteDe[c]] = g]
  BY <1>1 DEF ComDocumentosDe
<1>3. ClienteDe[c] \in Clientes /\ c # Nenhum
  BY DadosAssumption
<1>4. guardado \in [Clientes -> [Nsus -> Controles \union {Nenhum}]]
  BY DEF GuardadoOK
<1>5. velho \in [Nsus -> Controles \union {Nenhum}]
  BY <1>3, <1>4
<1>6. g \in [Nsus -> Controles \union {Nenhum}]
  BY <1>1, <1>5
<1>7. guardado' \in [Clientes -> [Nsus -> Controles \union {Nenhum}]]
  BY <1>2, <1>4, <1>6
<1>8. \A k \in Clientes : guardado'[k] = IF k = ClienteDe[c] THEN g ELSE guardado[k]
  BY <1>2, <1>4
<1>9. ASSUME NEW k \in Clientes, NEW n \in Nsus
      PROVE  /\ \/ guardado'[k][n] = guardado[k][n]
                \/ k = ClienteDe[c] /\ n \in DOMAIN Notas[c] /\ Notas[c][n].numero # Evento /\ guardado'[k][n] = c
             /\ guardado[k][n] # Nenhum => guardado'[k][n] = guardado[k][n]
  <2>1. CASE k # ClienteDe[c]
    BY <1>8, <2>1
  <2>2. CASE k = ClienteDe[c]
    <3>1. guardado'[k][n] = g[n] /\ guardado[k][n] = velho[n]
      BY <1>8, <2>2
    <3>2. g[n] = IF n \in docs /\ velho[n] = Nenhum /\ Notas[c][n].numero # Evento THEN c ELSE velho[n]
      BY <1>1
    <3> HIDE DEF velho
    <3> QED
      BY <2>2, <3>1, <3>2
  <2> QED
    BY <2>1, <2>2
<1>10. ASSUME NEW n \in docs, Notas[c][n].numero # Evento PROVE guardado'[ClienteDe[c]][n] # Nenhum
  <2>1. n \in Nsus
    BY FilaDe
  <2>2. g[n] = IF velho[n] = Nenhum THEN c ELSE velho[n]
    BY <1>1, <1>10, <2>1
  <2>3. guardado'[ClienteDe[c]][n] = g[n]
    BY <1>3, <1>8
  <2> HIDE DEF velho
  <2> QED
    BY <1>3, <2>2, <2>3
<1> QED
  BY <1>7, <1>9, <1>10 DEF Grava

\* The synchronisation stores the document of one NSU.
LEMMA GravaNota ==
  ASSUME GuardadoOK, NEW c \in Controles, NEW m \in DOMAIN Notas[c], guardado' = ComNotaDe(c, m)
  PROVE  Grava(c)
<1>1. guardado \in [Clientes -> [Nsus -> Controles \union {Nenhum}]]
  BY DEF GuardadoOK
<1>2. m \in Nsus /\ ClienteDe[c] \in Clientes
  BY FilaDe, DadosAssumption
<1>3. CASE guardado' = guardado
  BY <1>1, <1>3 DEF Grava
<1>4. CASE Notas[c][m].numero # Evento /\ guardado' = [guardado EXCEPT ![ClienteDe[c]][m] = c]
  <2>1. PICK g : g = [guardado[ClienteDe[c]] EXCEPT ![m] = c]
    OBVIOUS
  <2>2. g \in [Nsus -> Controles \union {Nenhum}]
    BY <1>1, <1>2, <2>1
  <2>3. guardado' = [guardado EXCEPT ![ClienteDe[c]] = g]
    BY <1>4, <2>1
  <2>4. guardado' \in [Clientes -> [Nsus -> Controles \union {Nenhum}]]
    BY <1>1, <2>2, <2>3
  <2>5. \A k \in Clientes : guardado'[k] = IF k = ClienteDe[c] THEN g ELSE guardado[k]
    BY <1>1, <2>3
  <2>6. \A n \in Nsus : g[n] = IF n = m THEN c ELSE guardado[ClienteDe[c]][n]
    BY <1>1, <1>2, <2>1
  <2>7. ASSUME NEW k \in Clientes, NEW n \in Nsus
        PROVE  \/ guardado'[k][n] = guardado[k][n]
               \/ k = ClienteDe[c] /\ n \in DOMAIN Notas[c] /\ Notas[c][n].numero # Evento /\ guardado'[k][n] = c
    BY <1>4, <2>5, <2>6
  <2> QED
    BY <2>4, <2>7 DEF Grava
<1> QED
  BY <1>3, <1>4 DEF ComNotaDe

\* What is stored is a note its control received.
LEMMA GravaGuarda ==
  ASSUME GuardadoOK, NEW c \in Controles, Grava(c)
  PROVE  GuardadoOK'
<1> SUFFICES ASSUME NEW k \in Clientes, NEW n \in Nsus, guardado'[k][n] # Nenhum
             PROVE  /\ ClienteDe[guardado'[k][n]] = k /\ n \in DOMAIN Notas[guardado'[k][n]]
                    /\ Notas[guardado'[k][n]][n].numero # Evento
  BY DEF GuardadoOK, Grava
<1>1. CASE guardado'[k][n] = guardado[k][n]
  BY <1>1 DEF GuardadoOK
<1>2. CASE k = ClienteDe[c] /\ n \in DOMAIN Notas[c] /\ Notas[c][n].numero # Evento /\ guardado'[k][n] = c
  BY <1>2
<1> QED
  BY <1>1, <1>2 DEF Grava

-----------------------------------------------------------------------------
(* The plans of the operators' recoveries                                  *)

\* The stored notes an audit starts from have NSUs in their range.
LEMMA ItensTipados ==
  ASSUME GuardadoOK, NEW c \in Controles
  PROVE  Itens(c) \subseteq ItensAte(MaxNsu)
<1> SUFFICES ASSUME NEW i \in Itens(c) PROVE i \in ItensAte(MaxNsu)
  OBVIOUS
<1>1. PICK n \in Nsus : Tem(c, n) /\ i = [nsu |-> n, numero |-> Notas[GuardadoEm(c, n)][n].numero]
  BY DEF Itens
<1>2. ClienteDe[c] \in Clientes
  BY DadosAssumption
<1>3. PICK d : d = GuardadoEm(c, n)
  OBVIOUS
<1>4. d \in Controles /\ n \in DOMAIN Notas[d]
  BY <1>1, <1>2, <1>3 DEF GuardadoOK, GuardadoEm, Tem
<1>5. Notas[d][n].numero \in Nat
  BY <1>4, FilaDe
<1> QED
  BY <1>1, <1>3, <1>5 DEF ItensAte, Nsus

\* The plan of a recovery from the first NSU.
LEMMA PlanoTipado ==
  ASSUME ultimoNsuConsultado \in [Controles -> 0..MaxNsu], NEW c \in Controles
  PROVE  PlanoCompleto(c) \in PlanosBons
<1>1. PICK fim \in 0..MaxNsu : fim = ultimoNsuConsultado[c]
  OBVIOUS
<1>2. MaxNsu \in Nat
  BY NumerosAssumption
<1>3. PICK f : f = IF fim >= 1 THEN <<EmOrdem(1, fim)>> ELSE <<>>
  OBVIOUS
<1>4. f \in Varreduras
  <2>1. CASE fim >= 1
    <3>1. PICK s : s = EmOrdem(1, fim)
      OBVIOUS
    <3>2. EmOrdem(1, fim) \in Seq(Nsus) /\ Len(EmOrdem(1, fim)) = fim - 1 + 1
      BY <1>2, <2>1, OrdemDaFaixa
    <3>3. s \in Seq(Nsus) /\ Len(s) = fim - 1 + 1
      BY <3>1, <3>2
    <3>4. s \in Seq(Nsus) \ {<<>>}
      BY <1>2, <2>1, <3>3
    <3>5. f = <<s>>
      BY <1>3, <2>1, <3>1
    <3> QED
      BY <3>4, <3>5 DEF Varreduras
  <2>2. CASE ~(fim >= 1)
    BY <1>3, <2>2 DEF Varreduras
  <2> QED
    BY <2>1, <2>2
<1>5. PlanoCompleto(c) = [controle |-> c, cursor |-> fim, alvos |-> {}, nsuFinal |-> fim, faixas |-> f]
  BY <1>1, <1>3 DEF PlanoCompleto
<1> QED
  BY <1>4, <1>5 DEF PlanosBons

\* What an audit plans for a control, from the ranges where the missing numbers are looked for.
LEMMA AuditoriaTipada ==
  ASSUME GuardadoOK, ultimoNsuConsultado \in [Controles -> 0..MaxNsu], NEW c \in Controles, NEW lacunas \in Lacunas
  PROVE  PlanoDeLacunas(c, lacunas) \in PlanosBons
<1> PICK m \in Nat : m = MaxNsu /\ Nsus = 1..m
  BY NumerosAssumption DEF Nsus
<1>1. PICK cursor \in 0..MaxNsu : cursor = ultimoNsuConsultado[c]
  OBVIOUS
<1>2. PICK itens : itens = Itens(c)
  OBVIOUS
<1>3. itens \subseteq ItensAte(MaxNsu)
  BY <1>2, ItensTipados
<1>4. lacunas \in Seq(LacunasBoas)
  <2>1. lacunas \in Seq([ini : Nat \ {0}, fim : Nat])
    BY LacunasAssumption
  <2>2. \A i \in DOMAIN lacunas : lacunas[i].ini <= lacunas[i].fim
    BY LacunasAssumption
  <2>3. PICK n \in Nat : n = Len(lacunas) /\ DOMAIN lacunas = 1..n
    BY <2>1
  <2>4. ASSUME NEW i \in 1..n PROVE lacunas[i] \in LacunasBoas
    <3>1. lacunas[i] \in [ini : Nat \ {0}, fim : Nat]
      BY <2>1, <2>3, ElementOfSeq
    <3> QED
      BY <2>2, <2>3, <3>1 DEF LacunasBoas
  <2>5. lacunas = [i \in 1..n |-> lacunas[i]]
    BY <2>1, <2>3
  <2>6. lacunas \in [1..n -> LacunasBoas]
    BY <2>4, <2>5
  <2> QED
    BY <2>6
<1>5. PICK faltam : faltam = RemoveStoredNfseNumbersFromGaps(lacunas, {i.numero : i \in itens})
  OBVIOUS
<1>6. faltam \in Seq(LacunasBoas)
  BY <1>4, <1>5, SoOsAusentes
<1>7. PICK faixas : faixas = BuildGapAuditRanges(cursor, faltam, itens)
  OBVIOUS
<1>8. faixas \in Seq(FaixasAte(MaxNsu))
  <2>1. MaxNsu \in Nat
    BY NumerosAssumption
  <2> QED
    BY <1>3, <1>6, <1>7, <2>1, FaixasPlanejadas
<1>9. PICK n \in Nat : n = Len(faixas) /\ DOMAIN faixas = 1..n
  BY <1>8
<1>10. PICK varredura : varredura = [i \in DOMAIN faixas |-> IteratePastNsuScanOrder(faixas[i])]
  OBVIOUS
<1>11. ASSUME NEW i \in 1..n PROVE varredura[i] \in Seq(Nsus) \ {<<>>}
  <2>1. PICK f \in FaixasAte(MaxNsu) : f = faixas[i]
    BY <1>8, <1>9, ElementOfSeq
  <2>2. PICK s : s = IteratePastNsuScanOrder(f)
    OBVIOUS
  <2>3. s \in Seq(f.ini..f.fim) /\ Len(s) = f.fim - f.ini + 1
    <3>1. MaxNsu \in Nat
      BY NumerosAssumption
    <3> QED
      BY <2>2, <3>1, VarreduraCompleta
  <2>4. f.ini \in 1..MaxNsu /\ f.fim \in 1..MaxNsu /\ f.ini <= f.fim
    BY DEF FaixasAte
  <2>5. f.ini..f.fim \subseteq Nsus /\ f.fim - f.ini + 1 >= 1
    BY <2>4
  <2>6. s \in Seq(Nsus)
    <3>1. PICK T : T = f.ini..f.fim
      OBVIOUS
    <3>2. s \in Seq(T) /\ T \subseteq Nsus
      BY <2>3, <2>5, <3>1
    <3> QED
      BY <3>2, SeqMonotonic
  <2>7. s # <<>>
    BY <2>3, <2>5
  <2> QED
    BY <1>9, <1>10, <2>1, <2>2, <2>6, <2>7
<1>12. varredura \in Varreduras
  <2>1. varredura \in [1..n -> Seq(Nsus) \ {<<>>}]
    BY <1>9, <1>10, <1>11
  <2> QED
    BY <2>1 DEF Varreduras
<1>13. PICK final : final = IF faixas = <<>> THEN 0 ELSE Last(faixas).fim
  OBVIOUS
<1>14. final \in 0..MaxNsu
  <2>1. CASE faixas = <<>>
    BY <1>13, <2>1
  <2>2. CASE faixas # <<>>
    <3>1. n \in 1..n
      BY <1>8, <1>9, <2>2
    <3>2. PICK f \in FaixasAte(MaxNsu) : f = faixas[n]
      BY <1>8, <1>9, <3>1, ElementOfSeq
    <3>3. f.fim \in 1..MaxNsu
      BY DEF FaixasAte
    <3>4. final = f.fim
      BY <1>9, <1>13, <2>2, <3>2 DEF Last
    <3> QED
      BY <3>3, <3>4
  <2> QED
    BY <2>1, <2>2
<1>15. PICK alvos : alvos = UNION {faltam[i].ini..faltam[i].fim : i \in DOMAIN faltam}
  OBVIOUS
<1>16. alvos \subseteq Nat \ {0}
  <2> SUFFICES ASSUME NEW x \in alvos PROVE x \in Nat \ {0}
    OBVIOUS
  <2>1. PICK i \in DOMAIN faltam : x \in faltam[i].ini..faltam[i].fim
    BY <1>15
  <2>2. faltam[i] \in LacunasBoas
    BY <1>6
  <2> QED
    BY <2>1, <2>2 DEF LacunasBoas
<1>17. PlanoDeLacunas(c, lacunas) =
         [controle |-> c, cursor |-> cursor, alvos |-> alvos, nsuFinal |-> final, faixas |-> varredura]
  BY <1>1, <1>2, <1>5, <1>7, <1>10, <1>13, <1>15 DEF PlanoDeLacunas
<1> QED
  BY <1>12, <1>14, <1>16, <1>17 DEF PlanosBons

\* The order in which the controls are planned.
LEMMA OrdemDeControles ==
  ASSUME NEW S, S \subseteq Controles, NEW ordem \in SetToSeqs(S)
  PROVE  ordem \in Seq(S)
<1>1. IsFiniteSet(S)
  BY FS_Subset, DadosAssumption
<1>2. PICK k \in Nat : k = Cardinality(S)
  BY <1>1, FS_CardinalityType
<1>3. ordem \in [1..k -> S]
  BY <1>2 DEF SetToSeqs
<1> QED
  BY <1>3

-----------------------------------------------------------------------------
(* What each outcome makes of an operator's recovery                       *)

\* Well-formed plans and ranges are plans and ranges.
LEMMA SeqDeBons ==
  /\ PlanosBons \subseteq Planos /\ Varreduras \subseteq Seq(Seq(Nsus))
  /\ \A f \in Seq(PlanosBons) : f \in Seq(Planos)
  /\ <<>> \in Seq(PlanosBons) /\ <<>> \in Varreduras
<1>1. Varreduras \subseteq Seq(Seq(Nsus))
  <2>1. Seq(Nsus) \ {<<>>} \subseteq Seq(Nsus)
    OBVIOUS
  <2> QED
    BY <2>1, SeqMonotonic DEF Varreduras
<1>2. PlanosBons \subseteq Planos
  <2> SUFFICES ASSUME NEW p \in PlanosBons PROVE p \in Planos
    OBVIOUS
  <2>1. SUBSET (Nat \ {0}) \subseteq SUBSET Nat
    OBVIOUS
  <2> QED
    BY <1>1, <2>1 DEF PlanosBons, Planos
<1>3. <<>> \in Seq(PlanosBons) /\ <<>> \in Varreduras
  BY DEF Varreduras
<1> QED
  BY <1>1, <1>2, <1>3, SeqMonotonic

\* A recovery that has just been planned, or that has ended.
LEMMA OciosaBem ==
  /\ Bem(Ociosa)
  /\ \A f \in Seq(PlanosBons) : Bem([Ociosa EXCEPT !.pc = "controle", !.plano = f])
<1>1. Ociosa \in Local
  BY OciosaOK
<1>2. Ociosa.pc = "ociosa" /\ Ociosa.plano = <<>> /\ Ociosa.faixas = <<>>
  BY DEF Ociosa
<1>3. Bem(Ociosa)
  BY <1>1, <1>2, SeqDeBons DEF Bem
<1>4. ASSUME NEW f \in Seq(PlanosBons) PROVE Bem([Ociosa EXCEPT !.pc = "controle", !.plano = f])
  <2>1. PICK s : s = [Ociosa EXCEPT !.pc = "controle", !.plano = f]
    OBVIOUS
  <2>2. f \in Seq(Planos)
    BY SeqDeBons
  <2>3. s \in Local
    BY <1>1, <2>1, <2>2 DEF Local
  <2>4. s.pc = "controle" /\ s.plano = f /\ s.faixas = <<>>
    BY <2>1 DEF Ociosa
  <2>5. Bem(s)
    BY <2>3, <2>4, SeqDeBons DEF Bem
  <2> QED
    BY <2>1, <2>5
<1> QED
  BY <1>3, <1>4

\* The part of the plan an execution works on, and what is left after it.
LEMMA ParteEmCurso ==
  ASSUME NEW r, Bem(r), r.plano # <<>>
  PROVE  Head(r.plano) \in PlanosBons /\ Tail(r.plano) \in Seq(PlanosBons)
<1>1. PICK s : s = r.plano
  OBVIOUS
<1>2. s \in Seq(PlanosBons) /\ s # <<>>
  BY <1>1 DEF Bem
<1>3. Head(s) \in PlanosBons /\ Tail(s) \in Seq(PlanosBons)
  BY <1>2
<1> QED
  BY <1>1, <1>3

\* What is left of the ranges after an NSU, or after a range.
LEMMA RestoBem ==
  ASSUME NEW f \in Varreduras, f # <<>>
  PROVE  /\ Head(Head(f)) \in Nsus
         /\ Resto(f) \in Varreduras /\ Tail(f) \in Varreduras
<1>1. Head(f) \in Seq(Nsus) \ {<<>>} /\ Tail(f) \in Seq(Seq(Nsus) \ {<<>>})
  BY DEF Varreduras
<1>2. PICK s \in Seq(Nsus) \ {<<>>}, t \in Seq(Seq(Nsus) \ {<<>>}) : s = Head(f) /\ t = Tail(f)
  BY <1>1
<1>3. Head(s) \in Nsus /\ Tail(s) \in Seq(Nsus)
  OBVIOUS
<1>4. Len(s) # 1 => Tail(s) # <<>>
  <2>1. s \in Seq(Nsus) /\ s # <<>>
    OBVIOUS
  <2>2. Len(Tail(s)) = Len(s) - 1 /\ Len(s) \in Nat
    BY <2>1, HeadTailProperties
  <2>3. PICK u : u = Tail(s)
    OBVIOUS
  <2>4. Len(u) = Len(s) - 1
    BY <2>2, <2>3
  <2>5. u = <<>> => Len(u) = 0
    OBVIOUS
  <2>6. Len(s) # 1 => u # <<>>
    BY <2>2, <2>4, <2>5
  <2> QED
    BY <2>3, <2>6
<1>5. CASE Len(s) = 1
  BY <1>2, <1>3, <1>5 DEF Resto, Varreduras
<1>6. CASE Len(s) # 1
  <2>1. PICK u \in Seq(Nsus) \ {<<>>} : u = Tail(s)
    BY <1>3, <1>4, <1>6
  <2>2. <<u>> \o t \in Seq(Seq(Nsus) \ {<<>>})
    OBVIOUS
  <2> QED
    BY <1>2, <1>3, <1>6, <2>1, <2>2 DEF Resto, Varreduras
<1> QED
  BY <1>5, <1>6

\* The next NSU.
LEMMA EmCursoBem ==
  ASSUME NEW r, Bem(r), NEW f \in Varreduras
  PROVE  /\ Bem([r EXCEPT !.faixas = f])
         /\ \A X \in SUBSET Nat : Bem([r EXCEPT !.faixas = f, !.restam = X])
         /\ \A b \in BOOLEAN : Bem([r EXCEPT !.faixas = f, !.falhou = b])
<1>1. r \in Local /\ r.plano \in Seq(PlanosBons) /\ (r.pc = "nsu" => r.plano # <<>>) /\ f \in Seq(Seq(Nsus))
  BY SeqDeBons DEF Bem
<1>2. ASSUME NEW s \in Local, s.faixas = f, s.plano = r.plano, s.pc = r.pc PROVE Bem(s)
  BY <1>1, <1>2 DEF Bem
<1>3. Bem([r EXCEPT !.faixas = f])
  <2>1. PICK s : s = [r EXCEPT !.faixas = f]
    OBVIOUS
  <2>2. s \in Local /\ s.faixas = f /\ s.plano = r.plano /\ s.pc = r.pc
    BY <1>1, <2>1 DEF Local
  <2> QED
    BY <1>2, <2>1, <2>2
<1>4. ASSUME NEW X \in SUBSET Nat PROVE Bem([r EXCEPT !.faixas = f, !.restam = X])
  <2>1. PICK s : s = [r EXCEPT !.faixas = f, !.restam = X]
    OBVIOUS
  <2>2. s \in Local /\ s.faixas = f /\ s.plano = r.plano /\ s.pc = r.pc
    BY <1>1, <2>1 DEF Local
  <2> QED
    BY <1>2, <2>1, <2>2
<1>5. ASSUME NEW b \in BOOLEAN PROVE Bem([r EXCEPT !.faixas = f, !.falhou = b])
  <2>1. PICK s : s = [r EXCEPT !.faixas = f, !.falhou = b]
    OBVIOUS
  <2>2. s \in Local /\ s.faixas = f /\ s.plano = r.plano /\ s.pc = r.pc
    BY <1>1, <2>1 DEF Local
  <2> QED
    BY <1>2, <2>1, <2>2
<1> QED
  BY <1>3, <1>4, <1>5

\* The first NSU of a control.
LEMMA IniciarBem ==
  ASSUME NEW r, Bem(r), r.plano # <<>>
  PROVE  Bem([r EXCEPT !.pc = "nsu", !.faixas = Head(r.plano).faixas, !.restam = Head(r.plano).alvos])
<1>1. PICK p \in PlanosBons : p = Head(r.plano)
  BY ParteEmCurso
<1>2. p.faixas \in Varreduras /\ p.faixas \in Seq(Seq(Nsus)) /\ p.alvos \in SUBSET Nat
  BY SeqDeBons DEF PlanosBons
<1>3. PICK s : s = [r EXCEPT !.pc = "nsu", !.faixas = p.faixas, !.restam = p.alvos]
  OBVIOUS
<1>4. r \in Local
  BY DEF Bem
<1>5. s \in Local /\ s.faixas = p.faixas /\ s.plano = r.plano
  BY <1>2, <1>3, <1>4 DEF Local
<1>6. Bem(s)
  BY <1>2, <1>5 DEF Bem
<1> QED
  BY <1>1, <1>3, <1>6

\* An operator's recovery that is done with a control.
LEMMA ConcluirBem ==
  ASSUME NEW m \in Manuais, Bem(exec[m]), exec[m].plano # <<>>, NEW falhou,
         NEW plano, plano = <<>> \/ plano = Tail(exec[m].plano)
  PROVE  Bem(Concluido(m, plano, falhou))
<1>1. m # Noturna
  BY DadosAssumption
<1>2. plano \in Seq(PlanosBons) /\ plano \in Seq(Planos)
  BY ParteEmCurso, SeqDeBons
<1>3. CASE plano = <<>>
  BY <1>1, <1>3, OciosaBem DEF Concluido
<1>4. CASE plano # <<>>
  <2>1. PICK r : r = exec[m]
    OBVIOUS
  <2>2. r \in Local
    BY <2>1 DEF Bem
  <2>3. PICK s : s = [r EXCEPT !.pc = "controle", !.plano = plano, !.faixas = <<>>, !.restam = {}]
    OBVIOUS
  <2>4. s \in Local /\ s.pc = "controle" /\ s.plano = plano /\ s.faixas = <<>>
    <3>0. PICK v \in Varreduras : v = <<>>
      BY SeqDeBons
    <3>1. PICK X \in SUBSET Nat : X = {}
      OBVIOUS
    <3>2. PICK u : u = [r EXCEPT !.pc = "controle", !.plano = plano, !.faixas = v, !.restam = X]
      OBVIOUS
    <3>3. u \in Local /\ u.pc = "controle" /\ u.plano = plano /\ u.faixas = v
      BY <1>2, <2>2, <3>2, SeqDeBons DEF Local
    <3> QED
      BY <2>3, <3>0, <3>1, <3>2, <3>3
  <2>5. Bem(s)
    BY <1>2, <2>4, SeqDeBons DEF Bem
  <2>6. Concluido(m, plano, falhou) = s
    BY <1>1, <1>4, <2>1, <2>3 DEF Concluido
  <2> QED
    BY <2>5, <2>6
<1> QED
  BY <1>3, <1>4

-----------------------------------------------------------------------------
(* What every step does to the notes stored and to the recoveries          *)

\* The NSU an execution is about to go through is one.
LEMMA NsuEmMaos ==
  ASSUME IInv, TInv, NEW e \in Execucoes, Visita(e)
  PROVE  Atual(e).controle \in Controles /\ Nsu(e) \in Nsus
<1>1. CASE e = Noturna
  BY <1>1, NsuDaNoite
<1>2. CASE e \in Manuais
  <2>1. Bem(exec[e]) /\ exec[e].pc = "nsu" /\ exec[e].faixas # <<>>
    BY <1>2 DEF TInv, Visita
  <2>2. exec[e].plano # <<>> /\ exec[e].faixas \in Varreduras
    BY <2>1 DEF Bem
  <2>3. PICK p \in PlanosBons : p = Head(exec[e].plano)
    BY <2>1, <2>2, ParteEmCurso
  <2>4. Head(Head(exec[e].faixas)) \in Nsus
    BY <2>1, <2>2, RestoBem
  <2>5. p.controle \in Controles
    BY DEF PlanosBons
  <2> QED
    BY <2>3, <2>4, <2>5 DEF Atual, Nsu
<1> QED
  BY <1>1, <1>2 DEF Execucoes

\* The documents of an answer are documents of the control.
LEMMA LoteNaFila ==
  ASSUME NEW c \in Controles, NEW n \in Nsus, NEW lote \in Lotes(c, n)
  PROVE  lote \subseteq DOMAIN Notas[c]
<1>1. PICK l \in Nat : l = Len(Notas[c])
  BY DadosAssumption
<1>2. n \in Nat \ {0}
  BY NumerosAssumption DEF Nsus
<1>3. PICK m \in n..l : lote \in {n..m, {m}}
  BY <1>1 DEF Lotes
<1>4. lote \subseteq 1..l
  BY <1>2, <1>3
<1> QED
  BY <1>1, <1>4, FilaDe

\* Whatever a recovery stores are notes of one control.
LEMMA RecuperacaoGrava ==
  ASSUME IInv, TInv, NEW e \in Execucoes, Reprocessamento(e)
  PROVE  guardado' = guardado \/ \E c \in Controles : Grava(c)
<1>0. GuardadoOK
  BY DEF TInv
<1>1. ASSUME ComDocumentos(e) \/ FalhaAoGravar(e) PROVE \E c \in Controles : Grava(c)
  <2>1. Visita(e)
    BY <1>1 DEF ComDocumentos, FalhaAoGravar, Consulta
  <2>2. PICK c \in Controles, n \in Nsus : c = Atual(e).controle /\ n = Nsu(e)
    BY <2>1, NsuEmMaos
  <2>3. \E lote \in Lotes(c, n) : \E docs \in SUBSET lote : guardado' = ComDocumentosDe(c, docs)
    <3>1. CASE ComDocumentos(e)
      BY <2>2, <3>1 DEF ComDocumentos, DocumentosDe
    <3>2. CASE FalhaAoGravar(e)
      <4>1. PICK lote \in Lotes(c, n) : \E docs \in SUBSET DocumentosDe(e, lote) : guardado' = ComDocumentosDe(c, docs)
        BY <2>2, <3>2 DEF FalhaAoGravar
      <4> QED
        BY <4>1 DEF DocumentosDe
    <3> QED
      BY <1>1, <3>1, <3>2
  <2>4. PICK docs : docs \subseteq DOMAIN Notas[c] /\ guardado' = ComDocumentosDe(c, docs)
    BY <2>3, LoteNaFila
  <2>5. Grava(c)
    BY <1>0, <2>4, GravaDocumentos
  <2> QED
    BY <2>5
<1>2. guardado' = guardado \/ ComDocumentos(e) \/ FalhaAoGravar(e)
  BY DEF Reprocessamento, InterromperPorCooldown, SemFaixa, SemCertificado, IniciarControle, Dispensar, FimDasFaixas,
         JaBaixado, SemDocumento, FalhaTemporaria, FalhaDecifrar, LimiteExcedido, Excecao, tabelas
<1> QED
  BY <1>1, <1>2

\* ... and so are those the synchronisation stores.
LEMMA SincronizacaoGrava ==
  ASSUME IInv, TInv, Sincronizacao
  PROVE  guardado' = guardado \/ \E c \in Controles : Grava(c)
<1>1. ASSUME NEW c \in Controles, Sincronizar(c), guardado' # guardado PROVE Grava(c)
  <2>1. PICK n : n = ultimoNsuConsultado[c] + 1 /\ n <= Len(Notas[c]) /\ guardado' = ComNotaDe(c, n)
    BY <1>1 DEF Sincronizar
  <2>2. PICK u \in 0..MaxNsu : u = ultimoNsuConsultado[c]
    BY DEF IInv, Tipada
  <2>3. Len(Notas[c]) \in Nat /\ MaxNsu \in Nat
    BY DadosAssumption, NumerosAssumption
  <2>4. n \in 1..Len(Notas[c])
    BY <2>1, <2>2, <2>3
  <2>5. n \in DOMAIN Notas[c]
    BY <2>4, FilaDe
  <2> QED
    BY <2>1, <2>5, GravaNota DEF TInv
<1> QED
  BY <1>1 DEF Sincronizacao, IniciarCiclo, EncerrarCiclo, tabelas

\* The other steps store nothing.
LEMMA PassoGrava ==
  ASSUME IInv, TInv, [Next]_vars
  PROVE  guardado' = guardado \/ \E c \in Controles : Grava(c)
<1>1. CASE CicloNoturno
  BY <1>1 DEF CicloNoturno, IniciarNoturna, EsperaEsgotada, LerArquivo, ArquivoIlegivel, PrepararNoturna, Salvar, tabelas
<1>2. CASE Operar
  BY <1>2 DEF Operar, Reprocessar, AuditarLacunas, PausarOuRetomar, Reiniciar, tabelas
<1>3. CASE UNCHANGED vars
  BY <1>3 DEF vars, tabelas
<1> QED
  BY <1>1, <1>2, <1>3, RecuperacaoGrava, SincronizacaoGrava DEF Next

\* A client keeps notes that its controls received.
LEMMA GuardadoDepois ==
  ASSUME IInv, TInv, [Next]_vars
  PROVE  GuardadoOK'
<1>1. GuardadoOK
  BY DEF TInv
<1>2. CASE guardado' = guardado
  BY <1>1, <1>2 DEF GuardadoOK
<1> QED
  BY <1>1, <1>2, GravaGuarda, PassoGrava

\* A step of an operator's recovery leaves it well-formed.
LEMMA ManualBem ==
  ASSUME IInv, TInv, NEW m \in Manuais, Reprocessamento(m)
  PROVE  \E local : Muda(m, local) /\ Bem(local)
<1>1. PICK r : r = exec[m]
  OBVIOUS
<1>2. Bem(r) /\ m # Noturna /\ m \in Execucoes
  BY <1>1, DadosAssumption DEF TInv, Execucoes
<1>3. CASE \/ InterromperPorCooldown(m) \/ FalhaAoGravar(m) \/ Excecao(m)
  BY <1>2, <1>3, OciosaBem DEF InterromperPorCooldown, FalhaAoGravar, Excecao
<1>4. r.plano # <<>> => \A falhou : \A plano \in {<<>>, Tail(r.plano)} : Bem(Concluido(m, plano, falhou))
  BY <1>1, <1>2, ConcluirBem
<1>5. r.pc = "nsu" => r.plano # <<>>
  BY <1>2 DEF Bem
<1>6. CASE SemFaixa(m) \/ SemCertificado(m) \/ Dispensar(m) \/ FimDasFaixas(m)
  <2>1. r.plano # <<>>
    BY <1>1, <1>5, <1>6 DEF SemFaixa, SemCertificado, Dispensar, FimDasFaixas
  <2>2. \E falhou : Concluir(m, Tail(r.plano), falhou)
    BY <1>1, <1>6 DEF SemFaixa, SemCertificado, Dispensar, FimDasFaixas
  <2> QED
    BY <1>4, <2>1, <2>2 DEF Concluir
<1>7. CASE IniciarControle(m)
  BY <1>1, <1>2, <1>7, IniciarBem DEF IniciarControle, Atual
<1>8. ASSUME Visita(m)
      PROVE  r.plano # <<>> /\ r.faixas \in Varreduras /\ r.restam \in SUBSET Nat
             /\ Resto(r.faixas) \in Varreduras /\ Tail(r.faixas) \in Varreduras
  <2>1. r.pc = "nsu" /\ r.faixas # <<>>
    BY <1>1, <1>8 DEF Visita
  <2>2. r.faixas \in Varreduras /\ r \in Local
    BY <1>2 DEF Bem
  <2>3. r.restam \in SUBSET Nat
    BY <2>2 DEF Local
  <2> QED
    BY <1>5, <2>1, <2>2, <2>3, RestoBem
<1>9. CASE JaBaixado(m) \/ ComDocumentos(m)
  <2>1. Visita(m)
    BY <1>9 DEF JaBaixado, ComDocumentos, Consulta
  <2>2. PICK X : Muda(m, [r EXCEPT !.faixas = Resto(r.faixas), !.restam = r.restam \ X])
    BY <1>1, <1>9 DEF JaBaixado, ComDocumentos, Resolver
  <2>3. r.restam \ X \in SUBSET Nat
    BY <1>8, <2>1
  <2> QED
    BY <1>2, <1>8, <2>1, <2>2, <2>3, EmCursoBem
<1>10. CASE SemDocumento(m)
  <2>1. Visita(m)
    BY <1>10 DEF SemDocumento, Consulta
  <2>2. Muda(m, [r EXCEPT !.faixas = Resto(r.faixas)])
    BY <1>1, <1>10 DEF SemDocumento
  <2> QED
    BY <1>2, <1>8, <2>1, <2>2, EmCursoBem
<1>11. CASE FalhaTemporaria(m) \/ FalhaDecifrar(m)
  <2>1. Visita(m)
    BY <1>11 DEF FalhaTemporaria, FalhaDecifrar, Consulta
  <2>2. PICK b \in BOOLEAN : b = (m = Noturna)
    OBVIOUS
  <2>3. \/ Muda(m, [r EXCEPT !.faixas = Resto(r.faixas), !.falhou = b])
        \/ Muda(m, [r EXCEPT !.faixas = Tail(r.faixas), !.falhou = b])
    BY <1>1, <1>11, <2>2 DEF FalhaTemporaria, FalhaDecifrar, AposFalhaDecifrar
  <2> QED
    BY <1>2, <1>8, <2>1, <2>3, EmCursoBem
<1>12. CASE LimiteExcedido(m)
  <2>1. Concluido(m, <<>>, TRUE) = Ociosa
    BY <1>2 DEF Concluido
  <2>2. PICK b \in BOOLEAN : b = (m = Noturna)
    OBVIOUS
  <2>3. b = FALSE
    BY <1>2, <2>2
  <2>4. Ociosa \in Local /\ Ociosa.limite = FALSE
    BY OciosaOK DEF Ociosa
  <2>5. [Ociosa EXCEPT !.limite = b] = Ociosa
    BY <2>3, <2>4 DEF Local
  <2> QED
    BY <1>12, <2>1, <2>2, <2>5, OciosaBem DEF LimiteExcedido
<1> QED
  BY <1>3, <1>6, <1>7, <1>9, <1>10, <1>11, <1>12 DEF Reprocessamento

\* The others are left as they were.
LEMMA OutrasBem ==
  ASSUME IInv, TInv, NEW e \in Execucoes, NEW local, Muda(e, local), e = Noturna \/ Bem(local)
  PROVE  \A m \in Manuais : Bem(exec'[m])
<1> SUFFICES ASSUME NEW m \in Manuais PROVE Bem(exec'[m])
  OBVIOUS
<1>1. m \in Execucoes /\ m # Noturna /\ Bem(exec[m])
  BY DadosAssumption DEF Execucoes, TInv
<1>2. Tipada
  BY DEF IInv
<1>3. exec'[e] = local /\ (e # m => exec'[m] = exec[m])
  BY <1>1, <1>2, UmaMuda
<1> QED
  BY <1>1, <1>3

\* A request plans well-formed work.
LEMMA PedidoBem ==
  ASSUME IInv, TInv, NEW m \in Manuais, NEW S \in Alvos,
         Reprocessar(m, S) \/ \E lacunas \in Lacunas : AuditarLacunas(m, S, lacunas)
  PROVE  \E local : Muda(m, local) /\ Bem(local)
<1>1. S \subseteq Controles /\ GuardadoOK /\ ultimoNsuConsultado \in [Controles -> 0..MaxNsu]
  BY DadosAssumption DEF TInv, IInv, Tipada
<1>2. ASSUME NEW ordem \in Seq(Controles), NEW f, f = [i \in DOMAIN ordem |-> f[i]], \A i \in DOMAIN ordem : f[i] \in PlanosBons
      PROVE  Bem([Ociosa EXCEPT !.pc = "controle", !.plano = f])
  <2>1. PICK k \in Nat : k = Len(ordem) /\ DOMAIN ordem = 1..k
    OBVIOUS
  <2>2. f \in [1..k -> PlanosBons]
    BY <1>2, <2>1
  <2>3. f \in Seq(PlanosBons)
    BY <2>2
  <2> QED
    BY <2>3, OciosaBem
<1>3. CASE Reprocessar(m, S)
  <2>1. PICK ordem \in SetToSeqs(S) :
          Muda(m, [Ociosa EXCEPT !.pc = "controle", !.plano = [i \in DOMAIN ordem |-> PlanoCompleto(ordem[i])]])
    BY <1>3 DEF Reprocessar
  <2>2. ordem \in Seq(Controles)
    BY <1>1, OrdemDeControles, SeqMonotonic
  <2>3. PICK f : f = [i \in DOMAIN ordem |-> PlanoCompleto(ordem[i])]
    OBVIOUS
  <2>4. \A i \in DOMAIN ordem : ordem[i] \in Controles
    BY <2>2
  <2>5. f = [i \in DOMAIN ordem |-> f[i]] /\ \A i \in DOMAIN ordem : f[i] \in PlanosBons
    BY <1>1, <2>3, <2>4, PlanoTipado
  <2>6. Bem([Ociosa EXCEPT !.pc = "controle", !.plano = f])
    BY <1>2, <2>2, <2>5
  <2> QED
    BY <2>1, <2>3, <2>6
<1>4. ASSUME NEW lacunas \in Lacunas, AuditarLacunas(m, S, lacunas) PROVE \E local : Muda(m, local) /\ Bem(local)
  <2>1. PICK T : T = {c \in S : PlanoDeLacunas(c, lacunas).alvos # {}}
    OBVIOUS
  <2>2. PICK ordem \in SetToSeqs(T) :
          Muda(m, [Ociosa EXCEPT !.pc = "controle", !.plano = [i \in DOMAIN ordem |-> PlanoDeLacunas(ordem[i], lacunas)]])
    BY <1>4, <2>1 DEF AuditarLacunas
  <2>3. T \subseteq Controles
    BY <1>1, <2>1
  <2>4. ordem \in Seq(Controles)
    BY <2>3, OrdemDeControles, SeqMonotonic
  <2>5. PICK f : f = [i \in DOMAIN ordem |-> PlanoDeLacunas(ordem[i], lacunas)]
    OBVIOUS
  <2>6. \A i \in DOMAIN ordem : ordem[i] \in Controles
    BY <2>4
  <2>7. f = [i \in DOMAIN ordem |-> f[i]] /\ \A i \in DOMAIN ordem : f[i] \in PlanosBons
    BY <1>1, <2>5, <2>6, AuditoriaTipada
  <2>8. Bem([Ociosa EXCEPT !.pc = "controle", !.plano = f])
    BY <1>2, <2>4, <2>7
  <2> QED
    BY <2>2, <2>5, <2>8
<1> QED
  BY <1>3, <1>4

\* No recovery is under way and nothing is stored.
LEMMA InitTInv == Init => TInv
<1> SUFFICES ASSUME Init PROVE TInv
  OBVIOUS
<1>1. guardado = [k \in Clientes |-> [n \in Nsus |-> Nenhum]]
  BY DEF Init
<1>2. guardado \in [Clientes -> [Nsus -> Controles \union {Nenhum}]]
  BY <1>1
<1>3. GuardadoOK
  BY <1>1, <1>2 DEF GuardadoOK
<1>4. \A m \in Manuais : Bem(exec[m])
  BY OciosaBem DEF Init, Execucoes
<1>5. ativo \in [Controles -> BOOLEAN] /\ autoSyncRunning \in BOOLEAN
  BY DEF Init
<1>6. intervencoes \in 0..MaxIntervencoes
  BY NumerosAssumption DEF Init
<1> QED
  BY <1>3, <1>4, <1>5, <1>6 DEF TInv

\* Every step keeps the types.
LEMMA NextTInv == IInv /\ TInv /\ [Next]_vars => TInv'
<1> SUFFICES ASSUME IInv, TInv, [Next]_vars PROVE TInv'
  OBVIOUS
<1>0. MaxIntervencoes \in Nat
  BY NumerosAssumption
<1>1. GuardadoOK'
  BY GuardadoDepois
<1>2. CASE CicloNoturno
  <2>1. UNCHANGED tabelas /\ UNCHANGED <<autoSyncRunning, intervencoes>>
    BY <1>2 DEF CicloNoturno, IniciarNoturna, EsperaEsgotada, LerArquivo, ArquivoIlegivel, PrepararNoturna, Salvar
  <2>2. PICK local : Muda(Noturna, local)
    BY <1>2 DEF CicloNoturno, IniciarNoturna, EsperaEsgotada, LerArquivo, ArquivoIlegivel, PrepararNoturna, Salvar
  <2>3. \A m \in Manuais : Bem(exec'[m])
    BY <2>2, OutrasBem DEF Execucoes
  <2> QED
    BY <1>1, <2>1, <2>3 DEF TInv, tabelas
<1>3. ASSUME NEW e \in Execucoes, Reprocessamento(e) PROVE TInv'
  <2>1. UNCHANGED <<ativo, autoSyncRunning, intervencoes>>
    BY <1>3 DEF Reprocessamento, InterromperPorCooldown, SemFaixa, SemCertificado, IniciarControle, Dispensar,
                FimDasFaixas, JaBaixado, SemDocumento, ComDocumentos, FalhaAoGravar, FalhaTemporaria, FalhaDecifrar,
                LimiteExcedido, Excecao, tabelas
  <2>2. \A m \in Manuais : Bem(exec'[m])
    <3>1. CASE e = Noturna
      <4>1. PICK local : Muda(e, local)
        BY <1>3 DEF Reprocessamento, InterromperPorCooldown, SemFaixa, SemCertificado, IniciarControle, Dispensar,
                    FimDasFaixas, JaBaixado, SemDocumento, ComDocumentos, FalhaTemporaria, FalhaDecifrar, LimiteExcedido,
                    FalhaAoGravar, Excecao, Concluir
      <4> QED
        BY <3>1, <4>1, OutrasBem
    <3>2. CASE e \in Manuais
      BY <1>3, <3>2, ManualBem, OutrasBem
    <3> QED
      BY <3>1, <3>2 DEF Execucoes
  <2> QED
    BY <1>1, <2>1, <2>2 DEF TInv
<1>4. ASSUME NEW m \in Manuais, NEW S \in Alvos,
             Reprocessar(m, S) \/ \E lacunas \in Lacunas : AuditarLacunas(m, S, lacunas)
      PROVE  TInv'
  <2>1. UNCHANGED tabelas /\ UNCHANGED autoSyncRunning /\ Intervir
    BY <1>4 DEF Reprocessar, AuditarLacunas
  <2>2. m \in Execucoes
    BY DEF Execucoes
  <2>3. \A d \in Manuais : Bem(exec'[d])
    BY <1>4, <2>2, PedidoBem, OutrasBem
  <2>4. intervencoes' \in 0..MaxIntervencoes
    BY <1>0, <2>1 DEF Intervir, TInv
  <2> QED
    BY <1>1, <2>1, <2>3, <2>4 DEF TInv, tabelas
<1>5. ASSUME NEW c \in Controles, PausarOuRetomar(c) PROVE TInv'
  <2>1. UNCHANGED <<guardado, autoSyncRunning, exec>> /\ Intervir /\ ativo' = [ativo EXCEPT ![c] = ~@]
    BY <1>5 DEF PausarOuRetomar
  <2>2. intervencoes' \in 0..MaxIntervencoes
    BY <1>0, <2>1 DEF Intervir, TInv
  <2>3. ativo' \in [Controles -> BOOLEAN]
    BY <2>1 DEF TInv
  <2> QED
    BY <1>1, <2>1, <2>2, <2>3 DEF TInv
<1>6. CASE Reiniciar
  <2>1. UNCHANGED tabelas /\ autoSyncRunning' = FALSE /\ Intervir /\ exec' = [e \in Execucoes |-> Ociosa]
    BY <1>6 DEF Reiniciar
  <2>2. intervencoes' \in 0..MaxIntervencoes
    BY <1>0, <2>1 DEF Intervir, TInv
  <2>3. \A m \in Manuais : Bem(exec'[m])
    BY <2>1, OciosaBem DEF Execucoes
  <2> QED
    BY <1>1, <2>1, <2>2, <2>3 DEF TInv, tabelas
<1>7. CASE Sincronizacao
  <2>1. UNCHANGED <<ativo, exec, intervencoes>> /\ autoSyncRunning' \in BOOLEAN
    BY <1>7 DEF Sincronizacao, IniciarCiclo, EncerrarCiclo, Sincronizar, tabelas, TInv
  <2> QED
    BY <1>1, <2>1 DEF TInv
<1>8. CASE UNCHANGED vars
  <2>1. UNCHANGED <<ativo, guardado, autoSyncRunning, exec, intervencoes>>
    BY <1>8 DEF vars, tabelas
  <2> QED
    BY <1>1, <2>1 DEF TInv
<1> QED
  BY <1>2, <1>3, <1>4, <1>5, <1>6, <1>7, <1>8 DEF Next, Operar

\* They always hold.
LEMMA SpecTInv == Spec => []TInv
BY InitTInv, NextTInv, SpecIInv, PTL DEF Spec

\* Every variable has its type in every reachable state: whatever the gaps asked about and the notes stored,
\* what an audit infers, merges and orders are ranges of NSUs.
THEOREM TipoCorreto == Spec => []TypeOK
<1>1. IInv /\ TInv => TypeOK
  <2> SUFFICES ASSUME IInv, TInv PROVE TypeOK
    OBVIOUS
  <2>1. exec = [e \in Execucoes |-> exec[e]]
    BY DEF IInv, Tipada
  <2>2. \A e \in Execucoes : exec[e] \in Local
    BY DEF IInv, NoiteOK, TInv, Bem, Execucoes
  <2>3. exec \in [Execucoes -> Local]
    BY <2>1, <2>2
  <2> QED
    BY <2>3 DEF TypeOK, IInv, Tipada, TInv, GuardadoOK
<1> QED
  BY <1>1, SpecIInv, SpecTInv, PTL

-----------------------------------------------------------------------------
(* The numbers an audit no longer looks for are kept, as long as the notes *)
(* of a client do not conflict                                             *)

\* The numbers of the notes a client keeps, by control.
Achados == [c \in Controles |-> {Notas[GuardadoEm(c, n)][n].numero : n \in {k \in Nsus : Tem(c, k)}}]

\* While an audit works on a control, each number it no longer looks for is one of those A.
Procura(A, r) == r.pc = "nsu" => Head(r.plano).alvos \ r.restam \subseteq A[Head(r.plano).controle]

\* It holds of every operator's recovery.
PInv == \A m \in Manuais : Procura(Achados, exec[m])

\* Two controls of one client receive no two notes of different numbers under one NSU.
NsusSemConflito ==
  \A c, d \in Controles : ClienteDe[c] = ClienteDe[d] =>
    \A n \in DOMAIN Notas[c] \cap DOMAIN Notas[d] :
      \/ Notas[c][n].numero = Notas[d][n].numero
      \/ Evento \in {Notas[c][n].numero, Notas[d][n].numero}

\* A number found stays found: who replaces a note brings one of the same number.
LEMMA AchadosFicam ==
  ASSUME NsusSemConflito, GuardadoOK, NEW c \in Controles, Grava(c)
  PROVE  \A k \in Controles : Achados[k] \subseteq Achados'[k]
<1> SUFFICES ASSUME NEW k \in Controles, NEW x \in Achados[k] PROVE x \in Achados'[k]
  OBVIOUS
<1>1. PICK cl \in Clientes : cl = ClienteDe[k]
  BY DadosAssumption
<1>2. PICK n \in Nsus : guardado[cl][n] # Nenhum /\ x = Notas[guardado[cl][n]][n].numero
  BY <1>1 DEF Achados, Tem, GuardadoEm
<1>3. PICK d : d = guardado[cl][n]
  OBVIOUS
<1>4. d \in Controles /\ ClienteDe[d] = cl /\ n \in DOMAIN Notas[d] /\ Notas[d][n].numero # Evento
  BY <1>2, <1>3 DEF GuardadoOK
<1>5. PICK e : e = guardado'[cl][n]
  OBVIOUS
<1>6. e \in Controles /\ x = Notas[e][n].numero
  <2>1. CASE e = d
    BY <1>2, <1>3, <1>4, <2>1
  <2>2. CASE cl = ClienteDe[c] /\ n \in DOMAIN Notas[c] /\ Notas[c][n].numero # Evento /\ e = c
    BY <1>2, <1>3, <1>4, <2>2 DEF NsusSemConflito
  <2> QED
    BY <1>3, <1>5, <2>1, <2>2 DEF Grava
<1>7. e # Nenhum
  BY <1>6, DadosAssumption
<1>8. Tem(k, n)' /\ x = Notas[GuardadoEm(k, n)'][n].numero
  BY <1>1, <1>5, <1>6, <1>7 DEF Tem, GuardadoEm
<1> QED
  BY <1>8 DEF Achados

\* What an audit relies on stays true while the numbers found only grow.
LEMMA ProcuraFica ==
  ASSUME NEW r, Bem(r), NEW A, NEW B, \A k \in Controles : A[k] \subseteq B[k], Procura(A, r)
  PROVE  Procura(B, r)
<1> SUFFICES ASSUME r.pc = "nsu" PROVE Head(r.plano).alvos \ r.restam \subseteq B[Head(r.plano).controle]
  BY DEF Procura
<1>1. PICK p \in PlanosBons : p = Head(r.plano)
  BY ParteEmCurso DEF Bem
<1>2. p.controle \in Controles
  BY DEF PlanosBons
<1> QED
  BY <1>1, <1>2 DEF Procura

\* What a document that goes by counts for is kept afterwards.
LEMMA NumerosGuardados ==
  ASSUME NsusSemConflito, GuardadoOK, NEW c \in Controles, NEW docs, docs \subseteq DOMAIN Notas[c],
         guardado' = ComDocumentosDe(c, docs)
  PROVE  \A d \in docs : Notas[c][d].numero # Evento => Notas[c][d].numero \in Achados'[c]
<1> SUFFICES ASSUME NEW d \in docs, Notas[c][d].numero # Evento PROVE Notas[c][d].numero \in Achados'[c]
  OBVIOUS
<1>1. Grava(c) /\ guardado'[ClienteDe[c]][d] # Nenhum
  BY GravaDocumentos
<1>2. PICK cl \in Clientes : cl = ClienteDe[c]
  BY DadosAssumption
<1>3. d \in Nsus /\ d \in DOMAIN Notas[c]
  BY FilaDe
<1>4. PICK e : e = guardado'[cl][d]
  OBVIOUS
<1>5. e \in Controles /\ ClienteDe[e] = cl /\ d \in DOMAIN Notas[e] /\ Notas[e][d].numero # Evento
  <2>1. GuardadoOK'
    BY <1>1, GravaGuarda
  <2>2. e # Nenhum
    BY <1>1, <1>2, <1>4
  <2> QED
    BY <1>3, <1>4, <2>1, <2>2 DEF GuardadoOK
<1>6. Notas[e][d].numero = Notas[c][d].numero
  BY <1>2, <1>3, <1>5 DEF NsusSemConflito
<1>7. Tem(c, d)' /\ GuardadoEm(c, d)' = e
  BY <1>1, <1>2, <1>4 DEF Tem, GuardadoEm
<1> QED
  BY <1>3, <1>6, <1>7 DEF Achados

\* The execution that takes a step.
LEMMA ManualProcura ==
  ASSUME NsusSemConflito, IInv, TInv, PInv, NEW m \in Manuais, Reprocessamento(m),
         \A k \in Controles : Achados[k] \subseteq Achados'[k]
  PROVE  \E local : Muda(m, local) /\ Procura(Achados', local)
<1>1. PICK r : r = exec[m]
  OBVIOUS
<1>2. Bem(r) /\ m # Noturna /\ m \in Execucoes /\ r \in Local
  BY <1>1, DadosAssumption DEF TInv, Execucoes, Bem
<1>3. PICK A : A = Achados'
  OBVIOUS
<1>4. Procura(A, r)
  BY <1>1, <1>2, <1>3, ProcuraFica DEF PInv
<1>5. Procura(A, Ociosa)
  BY DEF Procura, Ociosa
<1>6. CASE InterromperPorCooldown(m) \/ FalhaAoGravar(m) \/ Excecao(m)
  BY <1>2, <1>3, <1>5, <1>6 DEF InterromperPorCooldown, FalhaAoGravar, Excecao
<1>7. ASSUME NEW plano, NEW falhou PROVE Procura(A, Concluido(m, plano, falhou))
  <2>1. CASE plano = <<>>
    BY <1>2, <1>5, <2>1 DEF Concluido
  <2>2. CASE plano # <<>>
    <3>1. PICK s : s = [r EXCEPT !.pc = "controle", !.plano = plano, !.faixas = <<>>, !.restam = {}]
      OBVIOUS
    <3>2. s.pc = "controle"
      BY <1>2, <3>1 DEF Local
    <3>3. Concluido(m, plano, falhou) = s
      BY <1>1, <1>2, <2>2, <3>1 DEF Concluido
    <3> QED
      BY <3>2, <3>3 DEF Procura
  <2> QED
    BY <2>1, <2>2
<1>8. CASE SemFaixa(m) \/ SemCertificado(m) \/ Dispensar(m) \/ FimDasFaixas(m)
  BY <1>3, <1>7, <1>8 DEF SemFaixa, SemCertificado, Dispensar, FimDasFaixas, Concluir
<1>9. CASE IniciarControle(m)
  <2>1. PICK s : s = [r EXCEPT !.pc = "nsu", !.faixas = Head(r.plano).faixas, !.restam = Head(r.plano).alvos]
    OBVIOUS
  <2>2. Muda(m, s)
    BY <1>1, <1>9, <2>1 DEF IniciarControle, Atual
  <2>3. s.plano = r.plano /\ s.restam = Head(r.plano).alvos
    BY <1>2, <2>1 DEF Local
  <2>4. Procura(A, s)
    BY <2>3 DEF Procura
  <2> QED
    BY <1>3, <2>2, <2>4
<1>10. ASSUME Visita(m)
       PROVE  /\ r.pc = "nsu" /\ Atual(m) = Head(r.plano) /\ Atual(m) \in PlanosBons
              /\ Atual(m).controle \in Controles /\ Nsu(m) \in Nsus
              /\ Atual(m).alvos \ r.restam \subseteq A[Atual(m).controle] /\ Evento \notin Atual(m).alvos
  <2>1. r.pc = "nsu"
    BY <1>1, <1>10 DEF Visita
  <2>2. PICK p \in PlanosBons : p = Atual(m)
    BY <1>1, <1>2, <2>1, ParteEmCurso DEF Bem, Atual
  <2>3. p.controle \in Controles /\ Evento \notin p.alvos
    BY DEF PlanosBons, Evento
  <2>4. Nsu(m) \in Nsus
    BY <1>2, <1>10, NsuEmMaos
  <2>5. p = Head(r.plano)
    BY <1>1, <2>2 DEF Atual
  <2>6. p.alvos \ r.restam \subseteq A[p.controle]
    BY <1>4, <2>1, <2>5 DEF Procura
  <2> QED
    BY <2>1, <2>2, <2>3, <2>4, <2>5, <2>6
\* The numbers X are found, the others were before.
<1>11. ASSUME NEW X, NEW f, Visita(m), X \cap Atual(m).alvos \subseteq A[Atual(m).controle]
       PROVE  Procura(A, [r EXCEPT !.faixas = f, !.restam = r.restam \ X])
  <2>1. PICK s : s = [r EXCEPT !.faixas = f, !.restam = r.restam \ X]
    OBVIOUS
  <2>2. s.plano = r.plano /\ s.restam = r.restam \ X
    BY <1>2, <2>1 DEF Local
  <2>3. PICK p : p = Atual(m) /\ p = Head(r.plano)
    BY <1>10, <1>11
  <2>4. p.alvos \ r.restam \subseteq A[p.controle] /\ X \cap p.alvos \subseteq A[p.controle]
    BY <1>10, <1>11, <2>3
  <2>5. p.alvos \ s.restam \subseteq A[p.controle]
    BY <2>2, <2>4
  <2>6. Procura(A, s)
    BY <2>2, <2>3, <2>5 DEF Procura
  <2> QED
    BY <2>1, <2>6
<1>12. CASE JaBaixado(m)
  <2>1. PICK c \in Controles, n \in Nsus : c = Atual(m).controle /\ n = Nsu(m)
    BY <1>10, <1>12 DEF JaBaixado
  <2>2. Visita(m) /\ Tem(c, n) /\ UNCHANGED guardado
    BY <1>12, <2>1 DEF JaBaixado, tabelas
  <2>3. PICK X : X = {Notas[GuardadoEm(c, n)][n].numero}
    OBVIOUS
  <2>4. Muda(m, [r EXCEPT !.faixas = Resto(r.faixas), !.restam = r.restam \ X])
    BY <1>1, <1>12, <2>1, <2>3 DEF JaBaixado, Resolver
  <2>5. X \subseteq Achados[c]
    BY <2>2, <2>3 DEF Achados
  <2>6. X \subseteq A[c]
    BY <1>3, <2>5
  <2> QED
    BY <1>3, <1>11, <2>1, <2>2, <2>4, <2>6
<1>13. CASE ComDocumentos(m)
  <2>1. Visita(m)
    BY <1>13 DEF ComDocumentos, Consulta
  <2>2. PICK c \in Controles, n \in Nsus : c = Atual(m).controle /\ n = Nsu(m)
    BY <1>10, <2>1
  <2>3. PICK lote \in Lotes(c, n) :
          /\ guardado' = ComDocumentosDe(c, DocumentosDe(m, lote))
          /\ Muda(m, [exec[m] EXCEPT !.faixas = Resto(@),
                       !.restam = Resolver(@, {Notas[c][d].numero : d \in DocumentosDe(m, lote)})])
    BY <1>13, <2>2 DEF ComDocumentos
  <2>10. PICK docs : docs = DocumentosDe(m, lote) /\ docs \subseteq lote
    BY DEF DocumentosDe
  <2>4. /\ guardado' = ComDocumentosDe(c, docs)
        /\ Muda(m, [r EXCEPT !.faixas = Resto(r.faixas), !.restam = r.restam \ {Notas[c][d].numero : d \in docs}])
    BY <1>1, <2>3, <2>10 DEF Resolver
  <2>5. docs \subseteq DOMAIN Notas[c]
    BY <2>3, <2>10, LoteNaFila
  <2>6. \A d \in docs : Notas[c][d].numero # Evento => Notas[c][d].numero \in A[c]
    BY <1>3, <2>4, <2>5, NumerosGuardados DEF TInv
  <2>7. PICK X : X = {Notas[c][d].numero : d \in docs}
    OBVIOUS
  <2>8. Evento \notin Atual(m).alvos
    BY <1>10, <2>1
  <2>9. X \cap Atual(m).alvos \subseteq A[c]
    BY <2>6, <2>7, <2>8
  <2> QED
    BY <1>3, <1>11, <2>1, <2>2, <2>4, <2>7, <2>9
<1>14. ASSUME NEW s, s.pc = r.pc, s.plano = r.plano, s.restam = r.restam PROVE Procura(A, s)
  BY <1>4, <1>14 DEF Procura
<1>15. CASE SemDocumento(m) \/ FalhaTemporaria(m) \/ FalhaDecifrar(m)
  <2>1. PICK b, f : \/ Muda(m, [r EXCEPT !.faixas = f])
                    \/ Muda(m, [r EXCEPT !.faixas = f, !.falhou = b])
    BY <1>1, <1>15 DEF SemDocumento, FalhaTemporaria, FalhaDecifrar, AposFalhaDecifrar
  <2>2. PICK s, t : s = [r EXCEPT !.faixas = f] /\ t = [r EXCEPT !.faixas = f, !.falhou = b]
    OBVIOUS
  <2>3. s.pc = r.pc /\ s.plano = r.plano /\ s.restam = r.restam
    BY <1>2, <2>2 DEF Local
  <2>4. t.pc = r.pc /\ t.plano = r.plano /\ t.restam = r.restam
    BY <1>2, <2>2 DEF Local
  <2>5. Procura(A, s) /\ Procura(A, t)
    BY <1>14, <2>3, <2>4
  <2> QED
    BY <1>3, <2>1, <2>2, <2>5
<1>16. CASE LimiteExcedido(m)
  <2>1. Concluido(m, <<>>, TRUE) = Ociosa
    BY <1>2 DEF Concluido
  <2>2. PICK b : b = (m = Noturna)
    OBVIOUS
  <2>3. Muda(m, [Ociosa EXCEPT !.limite = b])
    BY <1>16, <2>1, <2>2 DEF LimiteExcedido
  <2>4. Procura(A, [Ociosa EXCEPT !.limite = b])
    BY DEF Procura, Ociosa
  <2> QED
    BY <1>3, <2>3, <2>4
<1> QED
  BY <1>6, <1>8, <1>9, <1>12, <1>13, <1>15, <1>16 DEF Reprocessamento

\* No step loses a number.
LEMMA AchadosNoPasso ==
  ASSUME NsusSemConflito, IInv, TInv, [Next]_vars
  PROVE  \A k \in Controles : Achados[k] \subseteq Achados'[k]
<1>1. CASE guardado' = guardado
  <2>1. Achados' = Achados
    BY <1>1 DEF Achados, Tem, GuardadoEm
  <2> QED
    BY <2>1
<1>2. CASE \E c \in Controles : Grava(c)
  BY <1>2, AchadosFicam DEF TInv
<1> QED
  BY <1>1, <1>2, PassoGrava

\* A step of one execution leaves the search of the others as it was.
LEMMA OutrasProcuram ==
  ASSUME NsusSemConflito, IInv, TInv, PInv, [Next]_vars, NEW e \in Execucoes, NEW local, Muda(e, local),
         e = Noturna \/ Procura(Achados', local)
  PROVE  PInv'
<1> SUFFICES ASSUME NEW m \in Manuais PROVE Procura(Achados', exec'[m])
  BY DEF PInv, Procura
<1>1. m \in Execucoes /\ m # Noturna /\ Bem(exec[m]) /\ Procura(Achados, exec[m])
  BY DadosAssumption DEF Execucoes, TInv, PInv
<1>2. PICK A : A = Achados'
  OBVIOUS
<1>3. PICK r : r = exec[m]
  OBVIOUS
<1>4. Procura(A, r)
  BY <1>1, <1>2, <1>3, AchadosNoPasso, ProcuraFica
<1>5. exec'[e] = local /\ (e # m => exec'[m] = exec[m])
  BY <1>1, UmaMuda DEF IInv
<1> QED
  BY <1>1, <1>2, <1>3, <1>4, <1>5

\* So does a step of none.
LEMMA NinguemProcura ==
  ASSUME NsusSemConflito, IInv, TInv, PInv, [Next]_vars, exec' = exec
  PROVE  PInv'
<1> SUFFICES ASSUME NEW m \in Manuais PROVE Procura(Achados', exec'[m])
  BY DEF PInv, Procura
<1>1. PICK A : A = Achados'
  OBVIOUS
<1>2. PICK r : r = exec[m]
  OBVIOUS
<1>3. Bem(r) /\ Procura(Achados, r)
  BY <1>2 DEF TInv, PInv
<1>4. Procura(A, r)
  BY <1>1, <1>3, AchadosNoPasso, ProcuraFica
<1> QED
  BY <1>1, <1>2, <1>4

\* No search is under way at first.
LEMMA InitPInv == Init => PInv
BY DEF Init, PInv, Procura, Ociosa, Execucoes

\* Every step keeps what an audit relies on.
LEMMA NextPInv ==
  ASSUME NsusSemConflito
  PROVE  IInv /\ TInv /\ PInv /\ [Next]_vars => PInv'
<1> SUFFICES ASSUME IInv, TInv, PInv, [Next]_vars PROVE PInv'
  OBVIOUS
<1>1. CASE CicloNoturno
  <2>1. PICK local : Muda(Noturna, local)
    BY <1>1 DEF CicloNoturno, IniciarNoturna, EsperaEsgotada, LerArquivo, ArquivoIlegivel, PrepararNoturna, Salvar
  <2> QED
    BY <2>1, OutrasProcuram DEF Execucoes
<1>2. ASSUME NEW e \in Execucoes, Reprocessamento(e) PROVE PInv'
  <2>1. CASE e = Noturna
    <3>1. PICK local : Muda(e, local)
      BY <1>2 DEF Reprocessamento, InterromperPorCooldown, SemFaixa, SemCertificado, IniciarControle, Dispensar,
                  FimDasFaixas, JaBaixado, SemDocumento, ComDocumentos, FalhaTemporaria, FalhaDecifrar, LimiteExcedido,
                  FalhaAoGravar, Excecao, Concluir
    <3> QED
      BY <2>1, <3>1, OutrasProcuram
  <2>2. CASE e \in Manuais
    <3>1. PICK local : Muda(e, local) /\ Procura(Achados', local)
      BY <1>2, <2>2, AchadosNoPasso, ManualProcura
    <3> QED
      BY <3>1, OutrasProcuram
  <2> QED
    BY <2>1, <2>2 DEF Execucoes
<1>3. ASSUME NEW m \in Manuais, NEW S \in Alvos,
             Reprocessar(m, S) \/ \E lacunas \in Lacunas : AuditarLacunas(m, S, lacunas)
      PROVE  PInv'
  <2>1. PICK plano : Muda(m, [Ociosa EXCEPT !.pc = "controle", !.plano = plano])
    BY <1>3 DEF Reprocessar, AuditarLacunas
  <2>2. Procura(Achados', [Ociosa EXCEPT !.pc = "controle", !.plano = plano])
    BY DEF Procura, Ociosa
  <2>3. m \in Execucoes
    BY DEF Execucoes
  <2> QED
    BY <2>1, <2>2, <2>3, OutrasProcuram
<1>4. ASSUME NEW c \in Controles, PausarOuRetomar(c) PROVE PInv'
  BY <1>4, NinguemProcura DEF PausarOuRetomar
<1>5. CASE Reiniciar
  <2>1. \A m \in Manuais : exec'[m] = Ociosa
    BY <1>5 DEF Reiniciar, Execucoes
  <2> QED
    BY <2>1 DEF PInv, Procura, Ociosa
<1>6. CASE Sincronizacao
  BY <1>6, NinguemProcura DEF Sincronizacao, IniciarCiclo, EncerrarCiclo, Sincronizar
<1>7. CASE UNCHANGED vars
  BY <1>7, NinguemProcura DEF vars
<1> QED
  BY <1>1, <1>2, <1>3, <1>4, <1>5, <1>6, <1>7 DEF Next, Operar

\* When an audit leaves NSUs out, the client keeps a note of each missing number, however the synchronisation,
\* the nightly recovery and the other audits interleave with it, as long as no two controls of one client
\* receive two notes of different numbers under one NSU.
THEOREM AuditoriaSempreCompleta ==
  ASSUME NsusSemConflito
  PROVE  Spec => AuditoriaCompleta
<1>1. Spec => []PInv
  BY InitPInv, NextPInv, SpecIInv, SpecTInv, PTL DEF Spec
<1>2. ASSUME TInv, PInv, NEW e \in Execucoes, Dispensar(e), IInv
      PROVE  \A x \in Atual(e).alvos :
               \E n \in Nsus : Tem(Atual(e).controle, n) /\ Notas[GuardadoEm(Atual(e).controle, n)][n].numero = x
  <2>1. exec[e].pc = "nsu" /\ Atual(e).alvos # {} /\ exec[e].restam = {}
    BY <1>2 DEF Dispensar, Encontrados
  <2>2. CASE e = Noturna
    BY <1>2, <2>1, <2>2, SemAlvos DEF Dispensar
  <2>3. CASE e \in Manuais
    <3>1. PICK r : r = exec[e]
      OBVIOUS
    <3>2. Bem(r) /\ Procura(Achados, r) /\ r.pc = "nsu" /\ r.restam = {}
      BY <1>2, <2>1, <2>3, <3>1 DEF TInv, PInv
    <3>3. PICK p \in PlanosBons : p = Head(r.plano)
      BY <3>2, ParteEmCurso DEF Bem
    <3>4. p.controle \in Controles /\ p = Atual(e)
      BY <3>1, <3>3 DEF PlanosBons, Atual
    <3>5. p.alvos \subseteq Achados[p.controle]
      BY <3>2, <3>3 DEF Procura
    <3>6. \A x \in Achados[p.controle] : \E n \in Nsus : Tem(p.controle, n) /\ Notas[GuardadoEm(p.controle, n)][n].numero = x
      BY <3>4 DEF Achados
    <3> QED
      BY <3>4, <3>5, <3>6
  <2> QED
    BY <2>2, <2>3 DEF Execucoes
<1>3. IInv /\ TInv /\ PInv =>
        \A e \in Execucoes : Dispensar(e) =>
          LET c == Atual(e).controle IN
          \A x \in Atual(e).alvos : \E n \in Nsus : Tem(c, n) /\ Notas[GuardadoEm(c, n)][n].numero = x
  BY <1>2
<1>4. IInv /\ TInv /\ PInv =>
        [\A e \in Execucoes : Dispensar(e) =>
          LET c == Atual(e).controle IN
          \A x \in Atual(e).alvos : \E n \in Nsus : Tem(c, n) /\ Notas[GuardadoEm(c, n)][n].numero = x]_vars
  BY <1>3
<1> QED
  BY <1>1, <1>4, SpecIInv, SpecTInv, PTL DEF AuditoriaCompleta

-----------------------------------------------------------------------------
(* What an audit takes off those it looks for is kept                      *)

\* An audit looks for missing numbers only.
RestamAlvos == \A m \in Manuais : exec[m].pc = "nsu" => exec[m].restam \subseteq Head(exec[m].plano).alvos

\* An execution at work on NSUs began with its control, or goes on with it.
Segue(r, s) ==
  s.pc = "nsu" =>
    \/ r.pc = "controle" /\ s.restam = Head(s.plano).alvos
    \/ r.pc = "nsu" /\ s.plano = r.plano /\ s.restam \subseteq r.restam

\* A step of an operator's recovery.
LEMMA ManualSegue ==
  ASSUME IInv, TInv, NEW m \in Manuais, Reprocessamento(m)
  PROVE  \E local : Muda(m, local) /\ Segue(exec[m], local)
<1>1. PICK r : r = exec[m]
  OBVIOUS
<1>2. m # Noturna /\ r \in Local
  BY <1>1, DadosAssumption DEF TInv, Bem
<1>3. Segue(r, Ociosa)
  BY DEF Segue, Ociosa
<1>4. CASE InterromperPorCooldown(m) \/ FalhaAoGravar(m) \/ Excecao(m)
  BY <1>1, <1>2, <1>3, <1>4 DEF InterromperPorCooldown, FalhaAoGravar, Excecao
<1>5. ASSUME NEW plano, NEW falhou PROVE Segue(r, Concluido(m, plano, falhou))
  <2>1. CASE plano = <<>>
    BY <1>2, <1>3, <2>1 DEF Concluido
  <2>2. CASE plano # <<>>
    <3>1. PICK s : s = [r EXCEPT !.pc = "controle", !.plano = plano, !.faixas = <<>>, !.restam = {}]
      OBVIOUS
    <3>2. s.pc = "controle"
      BY <1>2, <3>1 DEF Local
    <3>3. Concluido(m, plano, falhou) = s
      BY <1>1, <1>2, <2>2, <3>1 DEF Concluido
    <3> QED
      BY <3>2, <3>3 DEF Segue
  <2> QED
    BY <2>1, <2>2
<1>6. CASE SemFaixa(m) \/ SemCertificado(m) \/ Dispensar(m) \/ FimDasFaixas(m)
  BY <1>1, <1>5, <1>6 DEF SemFaixa, SemCertificado, Dispensar, FimDasFaixas, Concluir
<1>7. CASE IniciarControle(m)
  <2>1. PICK s : s = [r EXCEPT !.pc = "nsu", !.faixas = Head(r.plano).faixas, !.restam = Head(r.plano).alvos]
    OBVIOUS
  <2>2. Muda(m, s) /\ r.pc = "controle"
    BY <1>1, <1>7, <2>1 DEF IniciarControle, Atual
  <2>3. s.plano = r.plano /\ s.restam = Head(r.plano).alvos
    BY <1>2, <2>1 DEF Local
  <2> QED
    BY <1>1, <2>2, <2>3 DEF Segue
<1>8. CASE JaBaixado(m) \/ ComDocumentos(m)
  <2>1. PICK X : Muda(m, [r EXCEPT !.faixas = Resto(r.faixas), !.restam = r.restam \ X])
    BY <1>1, <1>8 DEF JaBaixado, ComDocumentos, Resolver
  <2>2. r.pc = "nsu"
    BY <1>1, <1>8 DEF JaBaixado, ComDocumentos, Consulta, Visita
  <2>3. PICK s : s = [r EXCEPT !.faixas = Resto(r.faixas), !.restam = r.restam \ X]
    OBVIOUS
  <2>4. s.plano = r.plano /\ s.restam \subseteq r.restam
    BY <1>2, <2>3 DEF Local
  <2> QED
    BY <1>1, <2>1, <2>2, <2>3, <2>4 DEF Segue
<1>9. CASE SemDocumento(m) \/ FalhaTemporaria(m) \/ FalhaDecifrar(m)
  <2>1. PICK b, f : \/ Muda(m, [r EXCEPT !.faixas = f])
                    \/ Muda(m, [r EXCEPT !.faixas = f, !.falhou = b])
    BY <1>1, <1>9 DEF SemDocumento, FalhaTemporaria, FalhaDecifrar, AposFalhaDecifrar
  <2>2. r.pc = "nsu"
    BY <1>1, <1>9 DEF SemDocumento, FalhaTemporaria, FalhaDecifrar, Consulta, Visita
  <2>3. PICK s, t : s = [r EXCEPT !.faixas = f] /\ t = [r EXCEPT !.faixas = f, !.falhou = b]
    OBVIOUS
  <2>4. s.plano = r.plano /\ s.restam = r.restam /\ t.plano = r.plano /\ t.restam = r.restam
    BY <1>2, <2>3 DEF Local
  <2>5. Segue(r, s) /\ Segue(r, t)
    BY <2>2, <2>4 DEF Segue
  <2> QED
    BY <1>1, <2>1, <2>3, <2>5
<1>10. CASE LimiteExcedido(m)
  <2>1. Concluido(m, <<>>, TRUE) = Ociosa
    BY <1>2 DEF Concluido
  <2>2. PICK b : b = (m = Noturna)
    OBVIOUS
  <2>3. Muda(m, [Ociosa EXCEPT !.limite = b])
    BY <1>10, <2>1, <2>2 DEF LimiteExcedido
  <2>4. Segue(r, [Ociosa EXCEPT !.limite = b])
    BY DEF Segue, Ociosa
  <2> QED
    BY <1>1, <2>3, <2>4
<1> QED
  BY <1>4, <1>6, <1>7, <1>8, <1>9, <1>10 DEF Reprocessamento

\* ... and any step.
LEMMA PassoSegue ==
  ASSUME IInv, TInv, [Next]_vars, NEW m \in Manuais
  PROVE  Segue(exec[m], exec'[m])
<1>0. m \in Execucoes /\ m # Noturna /\ Tipada
  BY DadosAssumption DEF Execucoes, IInv
<1>1. CASE exec'[m] = exec[m]
  <2>1. PICK r \in Local : r = exec[m]
    BY DEF TInv, Bem
  <2>2. r.pc = "nsu" => r.plano = r.plano /\ r.restam \subseteq r.restam
    OBVIOUS
  <2> QED
    BY <1>1, <2>1, <2>2 DEF Segue
<1>2. ASSUME NEW e \in Execucoes, NEW local, Muda(e, local), e = m => Segue(exec[m], local)
      PROVE  Segue(exec[m], exec'[m])
  <2>1. exec'[e] = local /\ (e # m => exec'[m] = exec[m])
    BY <1>0, <1>2, UmaMuda
  <2> QED
    BY <1>1, <1>2, <2>1
<1>3. CASE CicloNoturno
  <2>1. PICK local : Muda(Noturna, local)
    BY <1>3 DEF CicloNoturno, IniciarNoturna, EsperaEsgotada, LerArquivo, ArquivoIlegivel, PrepararNoturna, Salvar
  <2>2. Noturna \in Execucoes
    BY DEF Execucoes
  <2> QED
    BY <1>0, <1>2, <2>1, <2>2
<1>4. ASSUME NEW e \in Execucoes, Reprocessamento(e) PROVE Segue(exec[m], exec'[m])
  <2>1. CASE e = m
    BY <1>2, <1>4, <2>1, ManualSegue
  <2>2. CASE e # m
    <3>1. PICK local : Muda(e, local)
      BY <1>4 DEF Reprocessamento, InterromperPorCooldown, SemFaixa, SemCertificado, IniciarControle, Dispensar,
                  FimDasFaixas, JaBaixado, SemDocumento, ComDocumentos, FalhaTemporaria, FalhaDecifrar, LimiteExcedido,
                  FalhaAoGravar, Excecao, Concluir
    <3> QED
      BY <1>2, <2>2, <3>1
  <2> QED
    BY <2>1, <2>2
<1>5. ASSUME NEW d \in Manuais, NEW S \in Alvos,
             Reprocessar(d, S) \/ \E lacunas \in Lacunas : AuditarLacunas(d, S, lacunas)
      PROVE  Segue(exec[m], exec'[m])
  <2>1. PICK plano : Muda(d, [Ociosa EXCEPT !.pc = "controle", !.plano = plano])
    BY <1>5 DEF Reprocessar, AuditarLacunas
  <2>2. Segue(exec[m], [Ociosa EXCEPT !.pc = "controle", !.plano = plano])
    BY DEF Segue, Ociosa
  <2>3. d \in Execucoes
    BY DEF Execucoes
  <2> QED
    BY <1>2, <2>1, <2>2, <2>3
<1>6. CASE Reiniciar
  <2>1. exec'[m] = Ociosa
    BY <1>0, <1>6 DEF Reiniciar
  <2> QED
    BY <2>1 DEF Segue, Ociosa
<1>7. CASE Sincronizacao \/ (\E c \in Controles : PausarOuRetomar(c)) \/ UNCHANGED vars
  BY <1>1, <1>7 DEF Sincronizacao, IniciarCiclo, EncerrarCiclo, Sincronizar, PausarOuRetomar, vars
<1> QED
  BY <1>3, <1>4, <1>5, <1>6, <1>7 DEF Next, Operar

\* Every step keeps the numbers looked for among the missing ones.
LEMMA NextRestam ==
  IInv /\ TInv /\ RestamAlvos /\ [Next]_vars => RestamAlvos'
<1> SUFFICES ASSUME IInv, TInv, RestamAlvos, [Next]_vars, NEW m \in Manuais, exec'[m].pc = "nsu"
             PROVE  exec'[m].restam \subseteq Head(exec'[m].plano).alvos
  BY DEF RestamAlvos
<1>1. PICK r, s : r = exec[m] /\ s = exec'[m]
  OBVIOUS
<1>2. Segue(r, s)
  BY <1>1, PassoSegue
<1>3. r.pc = "nsu" => r.restam \subseteq Head(r.plano).alvos
  BY <1>1 DEF RestamAlvos
<1>4. s.restam \subseteq Head(s.plano).alvos
  BY <1>1, <1>2, <1>3 DEF Segue
<1> QED
  BY <1>1, <1>4

\* A number an audit takes off those it looks for is the number of a note the client keeps from then on, under the
\* same condition: a document that is skipped because its NSU is taken is the note kept there, not another establishment's.
THEOREM RiscadosGuardados ==
  ASSUME NsusSemConflito
  PROVE  Spec => NumerosRiscados
<1>1. Spec => []PInv
  BY InitPInv, NextPInv, SpecIInv, SpecTInv, PTL DEF Spec
<1>2. Spec => []RestamAlvos
  <2>1. Init => RestamAlvos
    BY DEF Init, RestamAlvos, Ociosa, Execucoes
  <2> QED
    BY <2>1, NextRestam, SpecIInv, SpecTInv, PTL DEF Spec
<1>3. ASSUME IInv, TInv, RestamAlvos, PInv', [Next]_vars,
             NEW e \in Execucoes, exec[e].pc = "nsu", exec'[e].pc = "nsu", NEW x \in exec[e].restam \ exec'[e].restam
      PROVE  \E n \in Nsus : (Tem(Atual(e).controle, n) /\ Notas[GuardadoEm(Atual(e).controle, n)][n].numero = x)'
  <2>1. PICK r, s : r = exec[e] /\ s = exec'[e]
    OBVIOUS
  <2>2. e \in Manuais
    <3>1. CASE e = Noturna
      BY <1>3, <3>1, Posicao DEF IInv
    <3> QED
      BY <3>1 DEF Execucoes
  <2>3. Bem(r) /\ Segue(r, s) /\ r.pc = "nsu" /\ s.pc = "nsu"
    BY <1>3, <2>1, <2>2, PassoSegue DEF TInv
  <2>4. s.plano = r.plano
    BY <2>3 DEF Segue
  <2>5. PICK p \in PlanosBons : p = Head(r.plano)
    BY <2>3, ParteEmCurso DEF Bem
  <2>6. p.controle \in Controles
    BY DEF PlanosBons
  <2>7. x \in p.alvos \ s.restam
    BY <1>3, <2>1, <2>2, <2>5 DEF RestamAlvos
  <2>8. PICK A : A = Achados'
    OBVIOUS
  <2>9. Procura(A, s)
    BY <1>3, <2>1, <2>2, <2>8 DEF PInv, Procura
  <2>10. x \in A[p.controle]
    BY <2>3, <2>4, <2>5, <2>7, <2>9 DEF Procura
  <2>11. Atual(e)'.controle = p.controle
    BY <2>1, <2>4, <2>5 DEF Atual
  <2>12. PICK n \in Nsus : (Tem(p.controle, n) /\ Notas[GuardadoEm(p.controle, n)][n].numero = x)'
    BY <2>6, <2>8, <2>10 DEF Achados
  <2> QED
    BY <2>11, <2>12 DEF Tem, GuardadoEm
<1>4. IInv /\ TInv /\ RestamAlvos /\ PInv' /\ [Next]_vars =>
        [\A e \in Execucoes : exec[e].pc = "nsu" /\ exec'[e].pc = "nsu" =>
          LET c == Atual(e).controle IN
          \A x \in exec[e].restam \ exec'[e].restam :
            \E n \in Nsus : (Tem(c, n) /\ Notas[GuardadoEm(c, n)][n].numero = x)']_vars
  BY <1>3
<1> QED
  BY <1>1, <1>2, <1>4, SpecIInv, SpecTInv, PTL DEF Spec, NumerosRiscados
=============================================================================
