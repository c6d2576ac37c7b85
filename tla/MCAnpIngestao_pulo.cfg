SPECIFICATION Spec
CONSTANTS
  Links <- MCLinks
  Itens <- MCItens
  Coletas <- MCColetas
  Mensal <- MCMensal
  MaxRef = 2
  Janela = 2
  MaxFalhas = 1
  MaxFalhasCarga = 0
  MaxIlegiveis = 0
PROPERTY PuloHonesto
