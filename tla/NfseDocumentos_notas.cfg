SPECIFICATION FairSpec
CONSTANTS
  Controles = {a, b}
  Clientes = {ca, cb}
  ClienteDe <- UmaCada
  Chaves = {k1, k2}
  Parte <- DeA_ParaB
  Sequencia <- Seq1
  Inicio <- DoZero
  Nenhum = Nenhum
  MaxNsu = 3
  MaxIds = 4
  Tentativas = 1
  a = a
  b = b
  ca = ca
  cb = cb
  k1 = k1
  k2 = k2
INVARIANTS
  TypeOK
  NotaGuardada
  CancelamentoVale
  EventoGuardado
  AmbosVeem
PROPERTIES
  CustodiaPreservada SequenciaTermina
CHECK_DEADLOCK FALSE
