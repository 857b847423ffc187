SPECIFICATION Spec
CONSTANTS
  Controles = {c1}
  Processos = {p1, p2}
  Datas = {d1, d2, d3, d4}
  Nula = Nula
  Filtros = {f1}
  MaxNsu = 2
  BatchSize = 1
  MaxIntervencoes = 3
  DentroDoLease = TRUE
SYMMETRY Simetria
INVARIANTS
  ContagemUnica
PROPERTIES
  CursorNaoRegride
CHECK_DEADLOCK FALSE
