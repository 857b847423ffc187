SPECIFICATION FairSpec
CONSTANTS
  Controles = {c1, c2}
  Clientes = {k1}
  ClienteDe <- UmCliente
  Workers = {w1}
  Processos = {api}
  ProcessoDe <- UmProcesso
  Nenhum = Nenhum
  MaxNsu = 1
  Take = 2
  MaxPassos = 2
  StopOnFirst = FALSE
  ClaimTtl = 1
  RetryDelay = 1
  RetryJitter = 0
  RateCooldown = 1
  DailyInterval = 1
  SuccessCooldown = 1
  ActivationJitter = 0
  Falhas = {"temporario", "http429"}
  MaxIntervencoes = 1
  DentroDoTtl = FALSE
  c1 = c1
  c2 = c2
  w1 = w1
  w2 = w2
  api = api
  k1 = k1
PROPERTIES
  PublicadoAlcancado
