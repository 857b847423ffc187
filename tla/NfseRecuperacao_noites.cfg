SPECIFICATION FairSpec
CONSTANTS
  Controles = {c1, c2}
  Clientes = {k1, k2}
  ClienteDe <- Dono
  Manuais = {m1}
  Nenhum = Nenhum
  MaxNsu = 2
  Notas <- Filas
  ControlesPorRodada = 1
  NsusPorControle = 1
  Alvos <- Primeiro
  Lacunas <- UmaLacuna
  MaxIntervencoes = 1
  LimiteDistancia = 1
  JanelaMin = 1
  JanelaMax = 2
  FolgaMin = 0
  FolgaMax = 1
  c1 = c1
  c2 = c2
  k1 = k1
  k2 = k2
INVARIANTS
  TypeOK
  RevistoCoberto
PROPERTIES
  AuditoriaCompleta
  AtrasadoRevisto
