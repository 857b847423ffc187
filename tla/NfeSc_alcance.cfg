SPECIFICATION FairSpec
CONSTANTS
  Controles = {c1}
  Processos = {p1}
  Datas = {d1, d2, d3}
  Nula = Nula
  Filtros = {f1}
  MaxNsu = 2
  BatchSize = 1
  MaxIntervencoes = 3
  DentroDoLease = FALSE
PROPERTIES
  Retomada
  DocumentoAlcancado
CHECK_DEADLOCK FALSE
