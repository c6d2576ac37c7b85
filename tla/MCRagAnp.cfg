CONSTANTS
    UF = "GO"
    JanelaRecente = 7
    LimiteDetalhe = 2
    Overfetch = 2
    DiasMes = 10
    MesesAno = 2
    Alfabeto <- MCAlfabeto
    Erro <- MCErro
    Golds <- MCGolds
    Modelos = {"small", "base"}
    Inicial = "small"
    Dim <- MCDim
    Distancia <- MCDistancia
    Golden <- MCGolden
    TopK = 1
    MinRouting = 90
    MinValue = 90
    MaxMao = 1
    MaxFalhas = 1
    MaxTrocas = 1
SPECIFICATION FairSpec
CHECK_DEADLOCK FALSE
INVARIANTS
    TypeOK
    SemDefasagem
    PortaoHonesto
PROPERTIES
    SincroniaExata
    RunTermina
