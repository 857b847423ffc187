SPECIFICATION Spec
CONSTANTS
  Operadores = {o}
  Trabalhadores = {w}
  Distribuicao = Distribuicao
  Pedidos <- ComConclusiva
  Conclusivas = {"confirmacao"}
  Configuracoes <- Ambas
  Formas = {"procEvento"}
  MaxTentativas = 2
  Nenhum = Nenhum
  o = o
  w = w
  r1 = r1
  r2 = r2
  r3 = r3
INVARIANTS
  TypeOK
  ResultadoVerdadeiro
  EmVooUnica
  EnvioAutorizado
