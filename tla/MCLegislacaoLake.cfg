SPECIFICATION FairSpec
CONSTANTS
  Versoes = {1, 2, 3}
  Ruins = {3}
  Releases <- MCReleases
  Provisoes <- MCProvisoes
  ArtDe <- MCArtDe
  Textos <- MCTextos
  ParseFalha <- MCParseFalha
  ChunkFalha <- MCChunkFalha
  MaxDeletePct = 40
  MaoMorre = FALSE
  MaxPublicacoes = 2
  MaxMortes = 1
  MaxManuais = 2
INVARIANTS
  TypeOK
  StoreFiel
PROPERTIES
  LeiServidaSpec
  ServeAtual
