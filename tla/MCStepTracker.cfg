SPECIFICATION FairSpec
CONSTANTS
    Tarefas = {"extract", "load"}
    Acima <- MCAcima
    Retries = 1
    MaxSinais = 2
\* one DAG run: after the gate and the last callback nothing is left to do
CHECK_DEADLOCK FALSE
INVARIANTS TypeOK DesfechoFiel LinhaFiel
PROPERTIES LinhaFecha
