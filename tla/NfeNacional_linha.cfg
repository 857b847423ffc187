SPECIFICATION Spec
CONSTANTS
  Execucoes = {e1, e2}
  MaxNsu = 2
  NoPeriodo = {1}
  Lote = 2
  NsusPorVez = 1
  MaxAntigos = 1
  TiposDe <- TimerEPedido
  Nenhum = Nenhum
  e1 = e1
  e2 = e2
INVARIANTS
  TypeOK
  CursorCoberto
  RecuperacaoSemLacuna
  PausaRespeitada
