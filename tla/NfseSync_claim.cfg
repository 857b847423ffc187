SPECIFICATION Spec
CONSTANTS
  Controles = {c1}
  Clientes = {k1}
  ClienteDe <- UmCliente
  Workers = {w1, w2}
  Processos = {api}
  ProcessoDe <- UmProcesso
  Nenhum = Nenhum
  MaxNsu = 2
  Take = 2
  MaxPassos = 2
  StopOnFirst = TRUE
  ClaimTtl = 2
  RetryDelay = 1
  RetryJitter = 0
  RateCooldown = 2
  DailyInterval = 1
  SuccessCooldown = 1
  ActivationJitter = 1
  Falhas = {"http4xx", "temporario", "http429", "decifrar"}
  MaxIntervencoes = 1
  DentroDoTtl = TRUE
  c1 = c1
  c2 = c2
  w1 = w1
  w2 = w2
  api = api
  k1 = k1
INVARIANTS
  TypeOK
  CursorCoberto
  Exclusividade
  BackoffRespeitado
PROPERTIES
  ConsumoCorreto
