SPECIFICATION FairSpec
CONSTANTS
  Operadores = {o}
  Trabalhadores = {}
  Distribuicao = Distribuicao
  Pedidos <- ComReenvio
  Conclusivas = {}
  Configuracoes <- Ambas
  Formas = {"procEvento", "semSequencia", "resEvento"}
  MaxTentativas = 2
  Nenhum = Nenhum
  o = o
  w = w
  r1 = r1
  r2 = r2
  r3 = r3
PROPERTIES
  ReconciliacaoLibera
