SPECIFICATION Spec
CONSTANTS
  Arquivos <- MCArquivos
  Chave <- MCChave
  Itens <- MCItens
  Mes <- MCMes
  Invalidos = {3}
  MaxArquivosLote = 2
  MaxRuns = 2
  MaxFalhas = 2
  MaxReprocessos = 1
  MaxLimpezas = 1
  OperadorEspera = FALSE
INVARIANTS
  TypeOK
  UmLugarSo
  OrigemDaLinha
  ChavesUnicas
PROPERTIES
  FilaSpec
\* The bounds stop the system: no file left to arrive, nobody to intervene.
CHECK_DEADLOCK FALSE
