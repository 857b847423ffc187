SPECIFICATION FairSpec
CONSTANTS
  Processos = {p1}
  Requisicoes = {r1}
  Nula = Nula
  Filtros = {f1}
  Intervalos <- Comeco
  MaxNsu = 2
  BatchSize = 2
PROPERTY
  Retomada
CHECK_DEADLOCK FALSE
