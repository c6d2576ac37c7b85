SPECIFICATION FairSpec
CONSTANTS
  Links <- MCLinks
  Itens <- MCItens
  Coletas <- MCColetas
  Mensal <- MCMensal
  MaxRef = 2
  Janela = 2
  MaxFalhas = 1
  MaxFalhasCarga = 1
  MaxIlegiveis = 1
INVARIANTS
  TypeOK
  CargasInteiras
PROPERTIES
  OuroFiel
  MesBaixado
