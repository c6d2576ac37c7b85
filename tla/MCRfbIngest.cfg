SPECIFICATION FairSpec
CONSTANTS
    Arquivos = {1, 2, 3}
    Grandes = {"estabelecimentos"}
    Dominios = {"cnaes"}
    Entidade <- MCEntidade
    Chaves <- MCChaves
    Conteudo <- MCConteudo
    Amostra <- MCAmostra
    MaxMes = 1
    MaxRuns = 2
    MaxFalhas = 2
\* dag_rfb is triggered by hand: after the last run the system rests
CHECK_DEADLOCK FALSE
INVARIANTS TypeOK CamadasInteiras
PROPERTIES GoldFiel MesNoGold
