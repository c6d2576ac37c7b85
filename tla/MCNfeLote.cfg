SPECIFICATION FairSpec
CONSTANTS
  Arquivos <- MCArquivos
  Chave <- MCChave
  Itens <- MCItens
  Mes <- MCMes
  Invalidos = {}
  MaxArquivosLote = 2
  MaxRuns = 3
  MaxFalhas = 2
  MaxReprocessos = 1
  MaxLimpezas = 0
  OperadorEspera = TRUE
INVARIANTS
  SoArquivaIngerido
  SilverFiel
  OuroEmDia
PROPERTIES
  RunTermina
  ArquivoIngerido
\* The bounds stop the system: no file left to arrive, nobody to intervene.
CHECK_DEADLOCK FALSE
