CONSTANTS
    Leis <- MCLeis
    Trechos <- MCTrechos
    Ordens <- MCOrdens
    Perguntas <- MCPerguntas
    Replicas <- MCReplicas
    NumCtx = 24
    Reserva = 4
    Margem = 20
    Teto = 9
    MinBloco = 3
    TopK = 3
    Cab = 1
    Rot = 1
    Sufixo = 1
SPECIFICATION Spec
INVARIANTS
    TypeOK
    RespostaFundada
    RescoreFiel
    ContextoFiel
