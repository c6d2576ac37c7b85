CONSTANTS
    Leis <- MCLeis
    Trechos <- MCTrechos
    Golden <- MCGolden
    Replica <- MCReplica
    NumCtx = 24
    Reserva = 4
    Margem = 20
    Teto = 9
    MinBloco = 3
    TopK = 2
    Cab = 1
    Rot = 1
    Sufixo = 1
    MinRef = 99
    Escala = 6
    Tol = 1
    MaxAcasos = 2
SPECIFICATION FairSpec
INVARIANTS
    TypeOK
    VerdeCoerente
    ContratoSolucionavel
PROPERTIES
    PuloFundado
    
