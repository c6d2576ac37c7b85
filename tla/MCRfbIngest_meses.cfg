SPECIFICATION FairSpec
CONSTANTS
    Arquivos = {1, 2, 3}
    Grandes = {"estabelecimentos"}
    Dominios = {"cnaes"}
    Entidade <- MCEntidade
    Chaves <- MCChaves
    Conteudo <- MCConteudo
    Amostra <- MCAmostra
    MaxMes = 2
    MaxRuns = 2
    MaxFalhas = 0
\* dag_rfb is triggered by hand: after the last run the system rests
CHECK_DEADLOCK FALSE
PROPERTIES MesNoGold
