SPECIFICATION Spec
CONSTANTS
  Processos = {p1, p2}
  Requisicoes = {r1}
  Nula = Nula
  Filtros = {f1}
  Intervalos <- TudoEFim
  MaxNsu = 2
  BatchSize = 1
SYMMETRY Simetria
INVARIANTS
  TypeOK
  TitularUnico
  IntervaloRevisto
PROPERTIES
  ContagemUnica
  CursorNaoRegride
  ConsumoCorreto
CHECK_DEADLOCK FALSE
