SPECIFICATION Spec
CONSTANTS
  Controles = {c1}
  Processos = {p1, p2}
  Datas = {d1, d2, d3, d4}
  Nula = Nula
  Filtros = {f1}
  MaxNsu = 2
  BatchSize = 2
  MaxIntervencoes = 2
  DentroDoLease = FALSE
SYMMETRY Simetria
INVARIANTS
  TypeOK
  CursorRastreado
  UmTitular
PROPERTIES
  ConsumoCorreto
CHECK_DEADLOCK FALSE
