------------------------ MODULE LegislacaoLake_proofs ------------------------
(***************************************************************************)
(* What the lake points to and what is served of the LC 214, for every set *)
(* of versions, every sequence of releases whose parsers go forward, and   *)
(* any number of publications, kills and scripts by hand.                  *)
(***************************************************************************)
EXTENDS LegislacaoLake, TLAPS

\* lc01: the manifest and the texts.
Manifesto ==
    /\ fonte \in Versoes
    /\ textos \subseteq Versoes \ Ruins
    /\ current \in Versoes \cup {0} /\ versions \subseteq Versoes
    /\ AtualLegivel

\* lc02 and lc03: each object is written from the one before it and the report
\* last, so that along one version the parsers do not go up.
Objetos ==
    /\ {disp, parse_report, artigos} \subseteq [Versoes -> Parsers \cup {0}]
    /\ {chunks, chunks_report} \subseteq [Versoes -> Lotes \cup {Vazio}]

Ordem(v) ==
    /\ chunks_report[v].parser <= artigos[v]
    /\ artigos[v] <= disp[v]
    /\ chunks[v].parser <= disp[v]
    /\ disp[v] <= Release.parser

Relatorio(v) ==
    /\ parse_report[v] # 0 => disp[v] # 0
    /\ chunks_report[v] # Vazio => chunks[v] # Vazio /\ artigos[v] # 0
    /\ ~MaoMorre /\ chunks_report[v].metodo = "tokenizer" => chunks[v].metodo = "tokenizer"

Prata ==
    /\ codigo \in DOMAIN Releases
    /\ Objetos
    /\ \A v \in Versoes : Ordem(v) /\ Relatorio(v)

\* lc04: the two projections.
Tabelas == {dispositivo, artigo} \subseteq Tabela /\ ServidoCoerente

Vetores == StoreInteiro /\ (~MaoMorre => SoTokenizer)

Airflows ==
    /\ ativo \in BOOLEAN /\ force \in BOOLEAN
    /\ ti \in [Tarefas -> {"none"} \cup Terminais]
    /\ publicacoes \in 0..MaxPublicacoes /\ mortes \in 0..MaxMortes
    /\ manuais \in 0..MaxManuais

IInv == Manifesto /\ Prata /\ Tabelas /\ Vetores /\ Airflows

-----------------------------------------------------------------------------
LEMMA Parametros ==
    /\ Parsers \subseteq Nat \ {0}
    /\ Vazio \notin Lotes /\ Vazio.parser = 0 /\ Vazio.metodo = "nenhum"
    /\ \A lote \in Lotes : /\ lote.parser \in Parsers /\ lote.metodo \in Metodos
                           /\ lote.chunker \in Chunkers
    /\ \A i \in DOMAIN Releases : Releases[i].parser \in Parsers /\ Releases[i].chunker \in Chunkers
    /\ 0 \notin Versoes
<1>1. Parsers \subseteq Nat \ {0} /\ 0 \notin Versoes
  BY LegislacaoAssumption DEF Parsers
<1>2. Vazio \notin Lotes /\ Vazio.parser = 0 /\ Vazio.metodo = "nenhum"
  BY DEF Vazio, Lotes, Metodos
<1>3. \A lote \in Lotes : lote.parser \in Parsers /\ lote.metodo \in Metodos /\ lote.chunker \in Chunkers
  BY DEF Lotes
<1>4. \A i \in DOMAIN Releases : Releases[i].parser \in Parsers /\ Releases[i].chunker \in Chunkers
  BY DEF Parsers, Chunkers
<1>5. QED
  BY <1>1, <1>2, <1>3, <1>4

\* The parsers recorded are numbers.
LEMMA Numeros ==
    ASSUME Prata, NEW v \in Versoes
    PROVE  /\ disp[v] \in Nat /\ artigos[v] \in Nat
           /\ chunks[v].parser \in Nat /\ chunks_report[v].parser \in Nat
           /\ Release.parser \in Nat \ {0} /\ Release.parser \in Parsers
           /\ disp[v] \in Parsers \cup {0} /\ artigos[v] \in Parsers \cup {0}
           /\ parse_report[v] \in Parsers \cup {0}
           /\ chunks[v] \in Lotes \cup {Vazio} /\ chunks_report[v] \in Lotes \cup {Vazio}
<1>1. /\ disp[v] \in Parsers \cup {0} /\ artigos[v] \in Parsers \cup {0}
      /\ parse_report[v] \in Parsers \cup {0}
      /\ chunks[v] \in Lotes \cup {Vazio} /\ chunks_report[v] \in Lotes \cup {Vazio}
  BY DEF Prata, Objetos
<1>2. Release.parser \in Parsers
  BY Parametros DEF Prata, Release
<1>3. {chunks[v].parser, chunks_report[v].parser} \subseteq Parsers \cup {0}
  BY <1>1, Parametros
<1>4. Parsers \cup {0} \subseteq Nat /\ Parsers \subseteq Nat \ {0}
  BY Parametros
<1>5. /\ disp[v] \in Nat /\ artigos[v] \in Nat
      /\ chunks[v].parser \in Nat /\ chunks_report[v].parser \in Nat
  BY <1>1, <1>3, <1>4
<1>6. Release.parser \in Nat \ {0}
  BY <1>2, <1>4
<1>7. QED
  BY <1>1, <1>2, <1>5, <1>6

LEMMA Inicio == Init => IInv
<1> SUFFICES ASSUME Init PROVE IInv
  OBVIOUS
<1>1. Manifesto
  BY DEF Init, Manifesto, AtualLegivel
<1>2. codigo = 1 /\ codigo \in DOMAIN Releases
  BY LegislacaoAssumption DEF Init
<1>3. Objetos
  BY DEF Init, Objetos
<1>4. ASSUME NEW v \in Versoes PROVE Ordem(v) /\ Relatorio(v)
  <2>1. /\ disp[v] = 0 /\ parse_report[v] = 0 /\ artigos[v] = 0
        /\ chunks[v] = Vazio /\ chunks_report[v] = Vazio
    BY DEF Init
  <2>2. Release.parser \in Nat
    BY <1>2, Parametros DEF Release
  <2>3. QED
    BY <2>1, <2>2, Parametros DEF Ordem, Relatorio
<1>5. Tabelas
  BY DEF Init, Tabelas, Tabela, ServidoCoerente
<1>6. Vetores
  BY DEF Init, Vetores, StoreInteiro, SoTokenizer
<1>7. Airflows
  <2>1. ti \in [Tarefas -> {"none"} \cup Terminais]
    BY DEF Init
  <2>2. ativo \in BOOLEAN /\ force \in BOOLEAN
    BY DEF Init
  <2>3. /\ publicacoes \in 0..MaxPublicacoes /\ mortes \in 0..MaxMortes
        /\ manuais \in 0..MaxManuais
    BY LegislacaoAssumption DEF Init
  <2>4. QED
    BY <2>1, <2>2, <2>3 DEF Airflows
<1>8. QED
  BY <1>1, <1>2, <1>3, <1>4, <1>5, <1>6, <1>7 DEF IInv, Prata

-----------------------------------------------------------------------------
(* The scripts: each keeps what it writes, and writes nothing else.          *)

Dados == Manifesto /\ Prata /\ Tabelas /\ Vetores

LEMMA NadaEscrito ==
    ASSUME Dados, UNCHANGED <<dados, codigo>>, fonte' \in Versoes
    PROVE  Dados'
<1>1. Manifesto'
  BY DEF Dados, dados, lake, manifest, Manifesto, AtualLegivel
<1>2. Prata'
  BY DEF Dados, dados, lake, parseVars, chunkVars, Prata, Objetos, Ordem, Relatorio, Release
<1>3. Tabelas' /\ Vetores'
  BY DEF Dados, dados, tabelas, Tabelas, ServidoCoerente, Vetores, StoreInteiro, SoTokenizer, IdsDe
<1>4. QED
  BY <1>1, <1>2, <1>3 DEF Dados

LEMMA Retornou ==
    ASSUME Dados, NEW t, NEW s, NEW n, NEW x, Retorna(t, s, n, x), UNCHANGED <<codigo, fonte>>
    PROVE  Dados'
<1>1. fonte' \in Versoes
  BY DEF Dados, Manifesto
<1>2. QED
  BY <1>1, NadaEscrito DEF Retorna

LEMMA ExtractPasso ==
    ASSUME Dados, NEW s, NEW n, ExtractSource(s, n), UNCHANGED <<codigo, fonte>>
    PROVE  Dados'
<1>1. CASE \E x : Retorna("extract", s, n, x)
  BY <1>1, Retornou
<1>2. CASE /\ fonte \notin Ruins /\ PutVersao(n) /\ Fim("extract", s, n, "success")
           /\ UNCHANGED <<parseVars, chunkVars, tabelas, store>>
  <2>1. Manifesto'
    <3>1. n \in Int
      BY <1>2 DEF Fim, Passos, Puts
    <3>2. QED
      BY <1>2, <3>1 DEF Dados, Manifesto, AtualLegivel, PutVersao
  <2>2. Prata'
    BY <1>2 DEF Dados, parseVars, chunkVars, Prata, Objetos, Ordem, Relatorio, Release
  <2>3. Tabelas' /\ Vetores'
    BY <1>2 DEF Dados, tabelas, Tabelas, ServidoCoerente, Vetores, StoreInteiro, SoTokenizer, IdsDe
  <2>4. QED
    BY <2>1, <2>2, <2>3 DEF Dados
<1>3. QED
  BY <1>1, <1>2 DEF ExtractSource

LEMMA ParsePasso ==
    ASSUME Dados, NEW s, NEW n, NEW f, ParseDispositivos(s, n, f), UNCHANGED <<codigo, fonte>>
    PROVE  Dados'
<1> DEFINE p == Release.parser
<1>1. CASE \E x : Retorna("parse", s, n, x)
  BY <1>1, Retornou
<1>2. CASE /\ current # 0
           /\ disp' = IF n >= 1 THEN [disp EXCEPT ![current] = p] ELSE disp
           /\ parse_report' = IF n >= 2 THEN [parse_report EXCEPT ![current] = p] ELSE parse_report
           /\ Fim("parse", s, n, "success")
           /\ UNCHANGED <<textos, manifest, chunkVars, tabelas, store>>
  <2>1. n \in Int /\ current \in Versoes
    BY <1>2 DEF Fim, Passos, Puts, Dados, Manifesto
  <2>2. Manifesto'
    BY <1>2 DEF Dados, manifest, Manifesto, AtualLegivel
  <2>3. p \in Parsers /\ p \in Nat \ {0}
    BY <2>1, Numeros DEF Dados
  <2>4. Objetos'
    BY <1>2, <2>1, <2>3 DEF Dados, Prata, Objetos, chunkVars
  <2>5. ASSUME NEW v \in Versoes PROVE Ordem(v)' /\ Relatorio(v)'
    <3>1. /\ disp'[v] = disp[v] \/ (disp'[v] = p /\ v = current)
          /\ parse_report'[v] = parse_report[v] \/ disp'[v] = p
      BY <1>2, <2>1 DEF Dados, Prata, Objetos
    <3>2. UNCHANGED <<chunks, artigos, chunks_report, codigo>>
      BY <1>2 DEF chunkVars
    <3>3. Ordem(v) /\ Relatorio(v)
      BY DEF Dados, Prata
    <3>4. disp[v] \in Nat /\ artigos[v] \in Nat /\ chunks[v].parser \in Nat
      BY Numeros DEF Dados
    <3>5. Ordem(v)'
      BY <2>3, <3>1, <3>2, <3>3, <3>4 DEF Ordem, Release
    <3>6. Relatorio(v)'
      BY <2>3, <3>1, <3>2, <3>3 DEF Relatorio
    <3>7. QED
      BY <3>5, <3>6
  <2>6. Prata'
    BY <2>4, <2>5 DEF Prata, Dados
  <2>7. Tabelas' /\ Vetores'
    BY <1>2 DEF Dados, tabelas, Tabelas, ServidoCoerente, Vetores, StoreInteiro, SoTokenizer, IdsDe
  <2>8. QED
    BY <2>2, <2>6, <2>7 DEF Dados
<1>3. QED
  BY <1>1, <1>2 DEF ParseDispositivos

\* By hand, a chunking by estimate is whole or its report is not there yet.
LEMMA ChunkPasso ==
    ASSUME Dados, NEW s, NEW n, NEW f, NEW metodo \in Metodos,
           BuildChunks(s, n, f, metodo), UNCHANGED <<codigo, fonte>>,
           metodo = "tokenizer" \/ MaoMorre \/ ~Morto("chunk", n)
    PROVE  Dados'
<1> DEFINE p == disp[current]
           lote == [parser |-> p, chunker |-> Release.chunker, metodo |-> metodo]
<1>1. CASE \E x : Retorna("chunk", s, n, x)
  BY <1>1, Retornou
<1>2. CASE /\ current # 0 /\ p # 0
           /\ PutChunks(n, lote)
           /\ Fim("chunk", s, n, "success")
           /\ UNCHANGED <<textos, manifest, parseVars, tabelas, store>>
  <2>1. n \in Int /\ current \in Versoes
    BY <1>2 DEF Fim, Passos, Puts, Dados, Manifesto
  <2>2. Manifesto'
    BY <1>2 DEF Dados, manifest, Manifesto, AtualLegivel
  <2>3. p \in Parsers /\ p \in Nat \ {0}
    BY <1>2, <2>1, Numeros DEF Dados
  <2>4. lote \in Lotes /\ lote # Vazio /\ lote.parser = p /\ lote.metodo = metodo
    <3>1. Release.chunker \in Chunkers
      BY Parametros DEF Release, Dados, Prata
    <3>2. lote \in Lotes
      BY <2>3, <3>1 DEF Lotes
    <3>3. QED
      BY <3>2, Parametros
  <2> HIDE DEF lote
  <2>5. /\ chunks' = IF n >= 1 THEN [chunks EXCEPT ![current] = lote] ELSE chunks
        /\ artigos' = IF n >= 2 THEN [artigos EXCEPT ![current] = p] ELSE artigos
        /\ chunks_report' = IF n >= 3 THEN [chunks_report EXCEPT ![current] = lote] ELSE chunks_report
    BY <1>2, <2>4 DEF PutChunks
  <2>6. Objetos'
    BY <1>2, <2>1, <2>3, <2>4, <2>5 DEF Dados, Prata, Objetos, parseVars
  <2>7. ASSUME NEW v \in Versoes PROVE Ordem(v)' /\ Relatorio(v)'
    <3>1. CASE v # current
      <4>1. /\ chunks'[v] = chunks[v] /\ artigos'[v] = artigos[v]
            /\ chunks_report'[v] = chunks_report[v]
            /\ disp'[v] = disp[v] /\ parse_report'[v] = parse_report[v]
        BY <1>2, <2>5, <3>1 DEF Dados, Prata, Objetos, parseVars
      <4>2. QED
        BY <4>1 DEF Dados, Prata, Ordem, Relatorio, Release
    <3>2. CASE v = current
      <4>1. /\ chunks'[v] = IF n >= 1 THEN lote ELSE chunks[v]
            /\ artigos'[v] = IF n >= 2 THEN p ELSE artigos[v]
            /\ chunks_report'[v] = IF n >= 3 THEN lote ELSE chunks_report[v]
            /\ disp'[v] = p /\ p = disp[v] /\ parse_report'[v] = parse_report[v]
        BY <1>2, <2>5, <3>2 DEF Dados, Prata, Objetos, parseVars
      <4>2. Ordem(v) /\ Relatorio(v)
        BY DEF Dados, Prata
      <4>3. /\ artigos[v] \in Nat /\ chunks_report[v].parser \in Nat
            /\ chunks[v].parser \in Nat
        BY Numeros DEF Dados
      <4>4. Ordem(v)'
        <5>0. chunks'[v].parser <= disp'[v]
          <6>1. chunks'[v].parser = p \/ chunks'[v].parser = chunks[v].parser
            BY <2>4, <4>1
          <6>2. QED
            BY <2>3, <4>1, <4>2, <4>3, <6>1 DEF Ordem
        <5>1. CASE n >= 3
          BY <2>1, <2>3, <2>4, <4>1, <4>2, <5>0, <5>1 DEF Ordem, Release
        <5>2. CASE n = 2
          BY <2>1, <2>3, <4>1, <4>2, <4>3, <5>0, <5>2 DEF Ordem, Release
        <5>3. CASE n < 2
          BY <2>1, <4>1, <4>2, <5>0, <5>3 DEF Ordem, Release
        <5>4. QED
          BY <2>1, <5>1, <5>2, <5>3
      <4>5. ~MaoMorre /\ chunks_report'[v].metodo = "tokenizer" => chunks'[v].metodo = "tokenizer"
        <5>1. CASE n >= 3
          BY <2>1, <4>1, <5>1
        <5>2. CASE ~(n >= 3) /\ metodo = "tokenizer"
          BY <2>1, <2>4, <4>1, <4>2, <5>2 DEF Relatorio
        <5>3. CASE ~(n >= 3) /\ ~MaoMorre /\ ~Morto("chunk", n)
          BY <2>1, <5>3 DEF Morto, Puts
        <5>4. QED
          BY <5>1, <5>2, <5>3
      <4>6. Relatorio(v)'
        BY <2>1, <2>3, <2>4, <4>1, <4>2, <4>5 DEF Relatorio
      <4>7. QED
        BY <4>4, <4>6
    <3>3. QED
      BY <3>1, <3>2
  <2>8. Prata'
    BY <2>6, <2>7 DEF Prata, Dados
  <2>9. Tabelas' /\ Vetores'
    BY <1>2 DEF Dados, tabelas, Tabelas, ServidoCoerente, Vetores, StoreInteiro, SoTokenizer, IdsDe
  <2>10. QED
    BY <2>2, <2>8, <2>9 DEF Dados
<1>3. QED
  BY <1>1, <1>2 DEF BuildChunks

\* When both reports agree with the provisions, so do the articles, which lie
\* between them in the order.
LEMMA LoadPasso ==
    ASSUME Dados, NEW s, NEW n, NEW allow, LoadPostgres(s, n, allow), UNCHANGED <<codigo, fonte>>
    PROVE  Dados'
<1> DEFINE novo(p) == [v |-> current, parser |-> parse_report[current], de |-> p]
<1>1. CASE \E x : Retorna("load", s, n, x)
  BY <1>1, Retornou
<1>2. CASE /\ current # 0 /\ parse_report[current] # 0 /\ chunks_report[current] # Vazio
           /\ SilverConsistente(current)
           /\ dispositivo' = IF n >= 1 THEN novo(disp[current]) ELSE dispositivo
           /\ artigo' = IF n >= 1 THEN novo(artigos[current]) ELSE artigo
           /\ UNCHANGED <<lake, store>>
  <2>1. current \in Versoes
    BY <1>2 DEF Dados, Manifesto
  <2>2. Ordem(current) /\ Relatorio(current)
    BY <2>1 DEF Dados, Prata
  <2>3. artigos[current] = disp[current] /\ disp[current] = parse_report[current]
    BY <1>2, <2>1, <2>2, Numeros DEF SilverConsistente, Ordem, Dados
  <2>4. parse_report[current] \in Parsers
    BY <1>2, <2>1, Numeros DEF Dados
  <2>5. novo(disp[current]) \in Tabela /\ novo(artigos[current]) = novo(disp[current])
    BY <2>1, <2>3, <2>4 DEF Tabela
  <2>6. novo(disp[current]).de = novo(disp[current]).parser
    BY <2>3
  <2> HIDE DEF novo
  <2>7. Tabelas'
    BY <1>2, <2>5, <2>6 DEF Dados, Tabelas, ServidoCoerente
  <2>8. Manifesto'
    BY <1>2 DEF Dados, lake, manifest, Manifesto, AtualLegivel
  <2>9. Prata'
    BY <1>2 DEF Dados, lake, parseVars, chunkVars, Prata, Objetos, Ordem, Relatorio, Release
  <2>10. Vetores'
    BY <1>2 DEF Dados, Vetores, StoreInteiro, SoTokenizer, IdsDe
  <2>11. QED
    BY <2>7, <2>8, <2>9, <2>10 DEF Dados
<1>3. QED
  BY <1>1, <1>2 DEF LoadPostgres

\* plan_sync, at the current version: what comes, what leaves and what stays.
Novos(full) ==
    IF Refaz(full) THEN Ids(current, chunks[current]) ELSE Ids(current, chunks[current]) \ IdsDe(store)

Velhos(full) ==
    IF Refaz(full) THEN IdsDe(store) ELSE IdsDe(store) \ Ids(current, chunks[current])

Linha(i, m) == [id |-> i, v |-> current, parser |-> chunks_report[current].parser, modelo |-> m]
Ficam(full)  == {Linha(r.id, r.modelo) : r \in {x \in store : x.id \notin Velhos(full)}}
Chegam(full) == {Linha(i, Release.modelo) : i \in Novos(full)}

\* What stays and what is new are together the chunks of the version, all
\* stamped with it and of the model deployed.
LEMMA PlanoInteiro ==
    ASSUME NEW full
    PROVE  /\ IdsDe(Ficam(full) \cup Chegam(full)) = Ids(current, chunks[current])
           /\ \A r \in Ficam(full) \cup Chegam(full) : r.v = current /\ r.modelo = Release.modelo
<1> DEFINE desejados == Ids(current, chunks[current])
           novos == Novos(full)
           velhos == Velhos(full)
           ficam == Ficam(full)
           chegam == Chegam(full)
<1>a. /\ novos = IF Refaz(full) THEN desejados ELSE desejados \ IdsDe(store)
      /\ velhos = IF Refaz(full) THEN IdsDe(store) ELSE IdsDe(store) \ desejados
  BY DEF Novos, Velhos
<1>b. /\ ficam = {[id |-> r.id, v |-> current, parser |-> chunks_report[current].parser,
                   modelo |-> r.modelo] : r \in {x \in store : x.id \notin velhos}}
      /\ chegam = {[id |-> i, v |-> current, parser |-> chunks_report[current].parser,
                    modelo |-> Release.modelo] : i \in novos}
  BY DEF Ficam, Chegam, Linha
<1> HIDE DEF desejados, novos, velhos, ficam, chegam
<1>1. \A r \in ficam : \E y \in store :
         y.id \notin velhos /\ r.id = y.id /\ r.v = current /\ r.modelo = y.modelo
  BY <1>b
<1>2. ASSUME NEW y \in store, y.id \notin velhos PROVE \E r \in ficam : r.id = y.id
  <2>1. [id |-> y.id, v |-> current, parser |-> chunks_report[current].parser,
         modelo |-> y.modelo] \in ficam
    BY <1>b, <1>2
  <2>2. QED
    BY <2>1
<1>3. \A r \in chegam : r.id \in novos /\ r.v = current /\ r.modelo = Release.modelo
  BY <1>b
<1>4. ASSUME NEW i \in novos PROVE \E r \in chegam : r.id = i
  <2>1. [id |-> i, v |-> current, parser |-> chunks_report[current].parser,
         modelo |-> Release.modelo] \in chegam
    BY <1>b
  <2>2. QED
    BY <2>1
<1>5. \A y \in store : y.id \in IdsDe(store)
  BY DEF IdsDe
<1>6. \A i \in IdsDe(store) : \E y \in store : y.id = i
  BY DEF IdsDe
<1>7. ~Refaz(full) => \A y \in store : y.modelo = Release.modelo
  BY DEF Refaz
<1>8. ASSUME NEW r \in ficam
      PROVE  r.id \in desejados /\ r.v = current /\ r.modelo = Release.modelo
  <2>1. PICK y \in store :
           y.id \notin velhos /\ r.id = y.id /\ r.v = current /\ r.modelo = y.modelo
    BY <1>1
  <2>2. y.id \in IdsDe(store) /\ y.id \notin velhos
    BY <1>5, <2>1
  <2>3. ~Refaz(full)
    BY <1>a, <2>2, Zenon
  <2>4. velhos = IdsDe(store) \ desejados
    BY <1>a, <2>3, Zenon
  <2>5. QED
    BY <1>7, <2>1, <2>2, <2>3, <2>4
<1>9. \A r \in chegam : r.id \in desejados
  BY <1>a, <1>3, Zenon
<1>10. ASSUME NEW i \in desejados PROVE \E r \in ficam \cup chegam : r.id = i
  <2>1. CASE i \in novos
    BY <1>4, <2>1
  <2>2. CASE i \notin novos
    <3>1. i \in IdsDe(store) /\ i \notin velhos
      BY <1>a, <2>2, Zenon
    <3>2. PICK y \in store : y.id = i
      BY <1>6, <3>1
    <3>3. QED
      BY <1>2, <3>1, <3>2
  <2>3. QED
    BY <2>1, <2>2
<1>11. \A r \in ficam \cup chegam : r.id \in desejados
  BY <1>8, <1>9
<1>12. IdsDe(ficam \cup chegam) = desejados
  <2>1. \A i \in desejados : \E r \in ficam \cup chegam : r.id = i
    BY <1>10
  <2> DEFINE linhas == ficam \cup chegam
  <2>2. (\A r \in linhas : r.id \in desejados) /\ \A i \in desejados : \E r \in linhas : r.id = i
    BY <1>11, <2>1
  <2> HIDE DEF linhas
  <2>3. IdsDe(linhas) = desejados
    BY <2>2 DEF IdsDe
  <2>4. QED
    BY <2>3 DEF linhas
<1>13. QED
  BY <1>3, <1>8, <1>12 DEF desejados, ficam, chegam

\* lc04_embed leaves the store as it was, or the whole chunking of the version.
GravaStore ==
    /\ current \in Versoes /\ chunks_report[current] # Vazio /\ chunks[current] \in Lotes
    /\ ComTokenizer(current)
    /\ IdsDe(store') = Ids(current, chunks[current])
    /\ \A r \in store' : r.v = current /\ r.modelo = Release.modelo

LEMMA EmbedGrava ==
    ASSUME Dados, NEW s, NEW n, NEW full, NEW allow, EmbedChunks(s, n, full, allow)
    PROVE  /\ UNCHANGED <<lake, tabelas>>
           /\ UNCHANGED store \/ GravaStore
<1>1. CASE \E x : Retorna("embed", s, n, x)
  BY <1>1 DEF Retorna, dados
<1>2. CASE /\ current # 0 /\ chunks_report[current] # Vazio /\ ComTokenizer(current)
           /\ store' = IF n >= 1 THEN Aplica(Ficam(full), Chegam(full)) ELSE store
           /\ UNCHANGED <<lake, tabelas>>
  <2>1. current \in Versoes
    BY <1>2 DEF Dados, Manifesto
  <2>2. chunks[current] \in Lotes
    BY <1>2, <2>1, Numeros DEF Dados, Prata, Relatorio
  <2>3. CASE store' = Ficam(full) \cup Chegam(full)
    BY <1>2, <2>1, <2>2, <2>3, PlanoInteiro DEF GravaStore
  <2>4. QED
    BY <1>2, <2>3 DEF Aplica
<1>3. QED
  BY <1>1, <1>2 DEF EmbedChunks, Ficam, Chegam, Novos, Velhos, Linha

LEMMA EmbedPasso ==
    ASSUME Dados, NEW s, NEW n, NEW full, NEW allow, EmbedChunks(s, n, full, allow),
           UNCHANGED <<codigo, fonte>>
    PROVE  Dados'
<1>1. UNCHANGED <<lake, tabelas>> /\ (UNCHANGED store \/ GravaStore)
  BY EmbedGrava
<1>2. Vetores'
  <2>1. CASE UNCHANGED store
    BY <2>1 DEF Dados, Vetores, StoreInteiro, SoTokenizer, IdsDe
  <2>2. CASE GravaStore
    <3>1. current \in Versoes /\ chunks[current] \in Lotes
      BY <2>2 DEF GravaStore
    <3>2. IdsDe(store)' = Ids(current, chunks[current])
      BY <2>2 DEF GravaStore, IdsDe
    <3>3. \A r \in store' : r.v = current /\ r.modelo = Releases[codigo].modelo
      BY <2>2 DEF GravaStore, Release
    <3>4. codigo \in DOMAIN Releases
      BY DEF Dados, Prata
    <3>5. StoreInteiro'
      BY <3>1, <3>2, <3>3, <3>4 DEF StoreInteiro
    <3>6. ASSUME NEW r \in store' PROVE r.id \in Ids(r.v, chunks[current])
      BY <3>2, <3>3, <3>6 DEF IdsDe
    <3>7. ~MaoMorre => chunks[current].metodo = "tokenizer"
      BY <2>2, <3>1 DEF GravaStore, Dados, Prata, Relatorio, ComTokenizer
    <3>8. ~MaoMorre => SoTokenizer'
      BY <3>1, <3>6, <3>7 DEF SoTokenizer
    <3>9. QED
      BY <3>5, <3>8 DEF Vetores
  <2>3. QED
    BY <1>1, <2>1, <2>2
<1>3. Manifesto'
  BY <1>1 DEF Dados, lake, manifest, Manifesto, AtualLegivel
<1>4. Prata'
  BY <1>1 DEF Dados, lake, parseVars, chunkVars, Prata, Objetos, Ordem, Relatorio, Release
<1>5. Tabelas'
  BY <1>1 DEF Dados, tabelas, Tabelas, ServidoCoerente
<1>6. QED
  BY <1>2, <1>3, <1>4, <1>5 DEF Dados

-----------------------------------------------------------------------------
LEMMA ScriptPasso ==
    ASSUME Dados, NEW t \in Tarefas, NEW s, NEW n, Script(t, s, n), UNCHANGED <<codigo, fonte>>
    PROVE  Dados'
<1>1. CASE t = "extract"
  BY <1>1, ExtractPasso DEF Script
<1>2. CASE t = "parse"
  BY <1>2, ParsePasso DEF Script
<1>3. CASE t = "chunk"
  <2>1. BuildChunks(s, n, force, "tokenizer") /\ "tokenizer" \in Metodos
    BY <1>3 DEF Script, Metodos
  <2>2. QED
    BY <2>1, ChunkPasso
<1>4. CASE t = "load"
  BY <1>4, LoadPasso DEF Script
<1>5. CASE t = "embed"
  BY <1>5, EmbedPasso DEF Script
<1>6. QED
  BY <1>1, <1>2, <1>3, <1>4, <1>5 DEF Tarefas

LEMMA ManualPasso ==
    ASSUME Dados, NEW t \in Tarefas, NEW s, NEW n, NEW flag, NEW metodo \in Metodos,
           Manual(t, s, n, flag, metodo), Morto(t, n) => MaoMorre, UNCHANGED <<codigo, fonte>>
    PROVE  Dados'
<1>1. CASE t = "extract"
  BY <1>1, ExtractPasso DEF Manual
<1>2. CASE t = "parse"
  BY <1>2, ParsePasso DEF Manual
<1>3. CASE t = "chunk"
  BY <1>3, ChunkPasso DEF Manual
<1>4. CASE t = "load"
  BY <1>4, LoadPasso DEF Manual
<1>5. CASE t = "embed"
  BY <1>5, EmbedPasso DEF Manual
<1>6. QED
  BY <1>1, <1>2, <1>3, <1>4, <1>5 DEF Tarefas

LEMMA Passo == IInv /\ [Next]_vars => IInv'
<1> SUFFICES ASSUME IInv, [Next]_vars PROVE IInv'
  OBVIOUS
<1>0. Dados /\ Airflows
  BY DEF IInv, Dados
<1> SUFFICES Dados' /\ Airflows'
  BY DEF IInv, Dados
<1>a. fonte \in Versoes
  BY <1>0 DEF Dados, Manifesto
<1>b. ASSUME NEW t \in Tarefas, NEW s \in {"none"} \cup Terminais, Marca(t, s)
      PROVE  ti' \in [Tarefas -> {"none"} \cup Terminais]
  BY <1>0, <1>b DEF Airflows, Marca
<1>c. ASSUME NEW t, NEW n, Morte(t, n) PROVE mortes' \in 0..MaxMortes
  BY <1>0, <1>c, LegislacaoAssumption DEF Airflows, Morte
<1>1. ASSUME NEW f \in BOOLEAN, AbrirRun(f) PROVE Dados' /\ Airflows'
  <2>1. Dados'
    BY <1>0, <1>1, <1>a, NadaEscrito DEF AbrirRun, mundo
  <2>2. QED
    BY <1>0, <1>1, <2>1 DEF AbrirRun, mundo, Airflows
<1>2. ASSUME NEW t \in Tarefas, Rodar(t) PROVE Dados' /\ Airflows'
  <2>1. PICK s \in Terminais, n \in Passos(t) : Script(t, s, n) /\ Marca(t, s) /\ Morte(t, n)
    BY <1>2 DEF Rodar
  <2>2. UNCHANGED <<fonte, codigo, publicacoes, ativo, force, manuais>>
    BY <1>2 DEF Rodar, mundo
  <2>3. Dados'
    BY <1>0, <2>1, <2>2, ScriptPasso
  <2>4. ti' \in [Tarefas -> {"none"} \cup Terminais] /\ mortes' \in 0..MaxMortes
    BY <2>1, <1>b, <1>c
  <2>5. QED
    BY <1>0, <2>2, <2>3, <2>4 DEF Airflows
<1>3. ASSUME NEW t \in Tarefas, Propagar(t) PROVE Dados' /\ Airflows'
  <2>1. UNCHANGED <<dados, fonte, codigo, publicacoes, ativo, force, mortes, manuais>>
    BY <1>3 DEF Propagar, mundo
  <2>2. ti' \in [Tarefas -> {"none"} \cup Terminais]
    BY <1>3, <1>b DEF Propagar, Terminais, Falhados
  <2>3. Dados'
    BY <1>0, <1>a, <2>1, NadaEscrito
  <2>4. QED
    BY <1>0, <2>1, <2>2, <2>3 DEF Airflows
<1>4. CASE FimRun
  <2>1. UNCHANGED <<dados, fonte, codigo, publicacoes, mortes, manuais>>
    BY <1>4 DEF FimRun, mundo
  <2>2. ti' \in [Tarefas -> {"none"} \cup Terminais] /\ ativo' \in BOOLEAN /\ force' \in BOOLEAN
    BY <1>4 DEF FimRun
  <2>3. Dados'
    BY <1>0, <1>a, <2>1, NadaEscrito
  <2>4. QED
    BY <1>0, <2>1, <2>2, <2>3 DEF Airflows
<1>5. ASSUME NEW t \in Tarefas, RodarAMao(t) PROVE Dados' /\ Airflows'
  <2>1. PICK s \in Terminais, n \in Passos(t), flag \in BOOLEAN, metodo \in Metodos :
          Manual(t, s, n, flag, metodo) /\ Morte(t, n) /\ (Morto(t, n) => MaoMorre)
    BY <1>5 DEF RodarAMao
  <2>2. UNCHANGED <<fonte, codigo, publicacoes, ativo, force, ti>>
    BY <1>5 DEF RodarAMao, mundo
  <2>3. manuais' \in 0..MaxManuais
    BY <1>0, <1>5, LegislacaoAssumption DEF RodarAMao, Airflows
  <2>4. Dados'
    BY <1>0, <2>1, <2>2, ManualPasso
  <2>5. mortes' \in 0..MaxMortes
    BY <2>1, <1>c
  <2>6. QED
    BY <1>0, <2>2, <2>3, <2>4, <2>5 DEF Airflows
<1>6. ASSUME NEW v \in Versoes, Publica(v) PROVE Dados' /\ Airflows'
  <2>1. UNCHANGED <<dados, codigo, ativo, force, ti, mortes, manuais>> /\ fonte' = v
    BY <1>6 DEF Publica
  <2>2. publicacoes' \in 0..MaxPublicacoes
    BY <1>0, <1>6, LegislacaoAssumption DEF Publica, Airflows
  <2>3. Dados'
    BY <1>0, <2>1, NadaEscrito
  <2>4. QED
    BY <1>0, <2>1, <2>2, <2>3 DEF Airflows
<1>7. CASE Implanta
  <2>1. UNCHANGED <<dados, fonte, publicacoes, ativo, force, ti, mortes, manuais>>
    BY <1>7 DEF Implanta
  <2>2. codigo \in DOMAIN Releases /\ codigo' \in DOMAIN Releases /\ codigo <= codigo'
    BY <1>0, <1>7, LegislacaoAssumption DEF Dados, Prata, Implanta
  <2>3. Release.parser <= Release.parser'
    BY <2>2, ParserAvanca DEF Release
  <2>4. Release.parser \in Nat /\ Release.parser' \in Nat
    BY <2>2, Parametros DEF Release
  <2>5. ASSUME NEW v \in Versoes PROVE Ordem(v)' /\ Relatorio(v)'
    <3>1. UNCHANGED <<disp, parse_report, chunks, artigos, chunks_report>>
      BY <2>1 DEF dados, lake, parseVars, chunkVars
    <3>2. disp[v] \in Nat /\ Ordem(v) /\ Relatorio(v)
      BY <1>0, Numeros DEF Dados, Prata
    <3>3. QED
      BY <2>3, <2>4, <3>1, <3>2 DEF Ordem, Relatorio
  <2>6. Prata'
    BY <1>0, <2>1, <2>2, <2>5 DEF Dados, Prata, Objetos, dados, lake, parseVars, chunkVars
  <2>7. Manifesto' /\ Tabelas' /\ Vetores'
    BY <1>0, <2>1 DEF Dados, dados, lake, manifest, tabelas, Manifesto, AtualLegivel, Tabelas,
                      ServidoCoerente, Vetores, StoreInteiro, SoTokenizer, IdsDe
  <2>8. QED
    BY <1>0, <2>1, <2>6, <2>7 DEF Dados, Airflows
<1>8. CASE UNCHANGED vars
  <2>1. Dados'
    BY <1>0, <1>8, <1>a, NadaEscrito DEF vars, mundo
  <2>2. QED
    BY <1>0, <1>8, <2>1 DEF vars, mundo, Airflows
<1>9. QED
  BY <1>1, <1>2, <1>3, <1>4, <1>5, <1>6, <1>7, <1>8 DEF Next, Airflow

LEMMA Invariante == Spec => []IInv
  BY Inicio, Passo, PTL DEF Spec

-----------------------------------------------------------------------------
(* The lake and its projections implement LeiServida *)

LEMMA EscreveTexto ==
    ASSUME IInv, NEW s, NEW n, ExtractSource(s, n), UNCHANGED fonte
    PROVE  Lei!Recebe \/ UNCHANGED Lei!lei
<1>1. CASE \E x : Retorna("extract", s, n, x)
  BY <1>1 DEF Retorna, dados, lake, manifest, parseVars, tabelas, NasTabelas, NosVetores, Lei!lei
<1>2. CASE /\ fonte \notin Ruins /\ PutVersao(n) /\ Fim("extract", s, n, "success")
           /\ UNCHANGED <<parseVars, chunkVars, tabelas, store>>
  <2>1. n \in Int
    BY <1>2 DEF Fim, Passos, Puts
  <2>2. UNCHANGED <<disp, NasTabelas, NosVetores>>
    BY <1>2 DEF parseVars, tabelas, NasTabelas, NosVetores
  <2>3. CASE n >= 1
    <3>1. /\ textos' = textos \cup {fonte}
          /\ \/ UNCHANGED <<current, versions>>
             \/ current' = fonte /\ versions' = versions \cup {fonte}
      BY <1>2, <2>1, <2>3 DEF PutVersao
    <3>2. Lei!Recebe
      BY <1>2, <2>2, <3>1 DEF Lei!Recebe
    <3>3. QED
      BY <3>2
  <2>4. CASE ~(n >= 1)
    <3>1. UNCHANGED <<textos, current, versions>>
      BY <1>2, <2>1, <2>4 DEF PutVersao
    <3>2. QED
      BY <2>2, <3>1 DEF Lei!lei
  <2>5. QED
    BY <2>3, <2>4
<1>3. QED
  BY <1>1, <1>2 DEF ExtractSource

LEMMA EscreveLeitura ==
    ASSUME IInv, NEW s, NEW n, NEW f, ParseDispositivos(s, n, f), UNCHANGED fonte
    PROVE  (\E p \in Parsers : Lei!Le(p)) \/ UNCHANGED Lei!lei
<1> DEFINE p == Release.parser
<1>1. CASE \E x : Retorna("parse", s, n, x)
  BY <1>1 DEF Retorna, dados, lake, manifest, parseVars, tabelas, NasTabelas, NosVetores, Lei!lei
<1>2. CASE /\ current # 0
           /\ disp' = IF n >= 1 THEN [disp EXCEPT ![current] = p] ELSE disp
           /\ Fim("parse", s, n, "success")
           /\ UNCHANGED <<textos, manifest, chunkVars, tabelas, store>>
  <2>1. n \in Int /\ current \in Versoes
    BY <1>2 DEF Fim, Passos, Puts, IInv, Manifesto
  <2>2. UNCHANGED <<fonte, textos, current, versions, NasTabelas, NosVetores>>
    BY <1>2 DEF manifest, tabelas, NasTabelas, NosVetores
  <2>3. p \in Parsers /\ disp[current] <= p
    BY <2>1, Numeros DEF IInv, Prata, Ordem
  <2>4. CASE n >= 1
    <3>1. disp' = [disp EXCEPT ![current] = p]
      BY <1>2, <2>4
    <3> HIDE DEF p
    <3>2. Lei!Le(p)
      BY <1>2, <2>2, <2>3, <3>1 DEF Lei!Le
    <3>3. QED
      BY <2>3, <3>2
  <2>5. CASE ~(n >= 1)
    <3>1. UNCHANGED disp
      BY <1>2, <2>5
    <3>2. QED
      BY <2>2, <3>1 DEF Lei!lei
  <2>6. QED
    BY <2>4, <2>5
<1>3. QED
  BY <1>1, <1>2 DEF ParseDispositivos

\* lc03 writes nothing that is served: its objects are the way to it.
LEMMA EscreveTrechos ==
    ASSUME NEW s, NEW n, NEW f, NEW metodo, BuildChunks(s, n, f, metodo), UNCHANGED fonte
    PROVE  UNCHANGED Lei!lei
<1>1. UNCHANGED <<textos, manifest, parseVars, tabelas, store>>
  BY DEF BuildChunks, Retorna, dados, lake
<1>2. QED
  BY <1>1 DEF manifest, parseVars, tabelas, NasTabelas, NosVetores, Lei!lei

\* The three parsers that the load compares agree only when the articles, which
\* it does not, agree with them.
LEMMA EscreveTabelas ==
    ASSUME IInv, NEW s, NEW n, NEW allow, LoadPostgres(s, n, allow), UNCHANGED fonte
    PROVE  Lei!Serve \/ UNCHANGED Lei!lei
<1> DEFINE novo(p) == [v |-> current, parser |-> parse_report[current], de |-> p]
<1>1. CASE \E x : Retorna("load", s, n, x)
  BY <1>1 DEF Retorna, dados, lake, manifest, parseVars, tabelas, NasTabelas, NosVetores, Lei!lei
<1>2. CASE /\ current # 0 /\ parse_report[current] # 0 /\ SilverConsistente(current)
           /\ dispositivo' = IF n >= 1 THEN novo(disp[current]) ELSE dispositivo
           /\ artigo' = IF n >= 1 THEN novo(artigos[current]) ELSE artigo
           /\ UNCHANGED <<lake, store>>
  <2>1. current \in Versoes
    BY <1>2 DEF IInv, Manifesto
  <2>2. Ordem(current)
    BY <2>1 DEF IInv, Prata
  <2>3. artigos[current] = disp[current] /\ disp[current] = parse_report[current]
    BY <1>2, <2>1, <2>2, Numeros DEF IInv, SilverConsistente, Ordem
  <2>4. UNCHANGED <<fonte, textos, current, versions, disp, NosVetores>>
    BY <1>2 DEF lake, manifest, parseVars, NosVetores
  <2>5. CASE UNCHANGED tabelas
    BY <2>4, <2>5 DEF tabelas, NasTabelas, Lei!lei
  <2>6. CASE dispositivo' = novo(disp[current]) /\ artigo' = novo(artigos[current])
    <3>1. novo(disp[current]) = [v |-> current, parser |-> disp[current], de |-> disp[current]]
          /\ novo(artigos[current]) = novo(disp[current])
      BY <2>3
    <3> HIDE DEF novo
    <3>2. NasTabelas' = {novo(disp[current])}
      BY <2>6, <3>1 DEF NasTabelas
    <3>3. disp[current] # 0
      BY <1>2, <2>3
    <3>4. Lei!Serve
      BY <1>2, <2>4, <3>1, <3>2, <3>3 DEF Lei!Serve
    <3>5. QED
      BY <3>4
  <2>7. QED
    BY <1>2, <2>5, <2>6 DEF tabelas
<1>3. QED
  BY <1>1, <1>2 DEF LoadPostgres

\* The chunking a report goes with was built from a reading of the text, and
\* readings go forward.
LEMMA EscreveVetores ==
    ASSUME IInv, NEW s, NEW n, NEW full, NEW allow, EmbedChunks(s, n, full, allow), UNCHANGED fonte
    PROVE  \/ UNCHANGED Lei!lei
           \/ \E lote \in Lotes, i \in DOMAIN Releases :
                 /\ current \in Versoes
                 /\ Lei!Indexa([leitura |-> lote.parser, ids |-> Ids(current, lote)],
                               Releases[i].modelo)
<1>0. Dados
  BY DEF IInv, Dados
<1>1. UNCHANGED <<lake, tabelas>> /\ (UNCHANGED store \/ GravaStore)
  BY <1>0, EmbedGrava
<1>2. UNCHANGED <<fonte, textos, current, versions, disp, NasTabelas>>
  BY <1>1 DEF lake, manifest, parseVars, tabelas, NasTabelas
<1>3. CASE UNCHANGED store
  BY <1>2, <1>3 DEF NosVetores, Lei!lei
<1>4. CASE GravaStore
  <2> DEFINE lote == chunks[current]
             t == [leitura |-> lote.parser, ids |-> Ids(current, lote)]
             m == Releases[codigo].modelo
  <2>1. current \in Versoes /\ lote \in Lotes /\ current # 0
    BY <1>4, Parametros DEF GravaStore
  <2>2. lote.parser \in Nat \ {0} /\ disp[current] \in Nat /\ lote.parser <= disp[current]
    <3>1. lote.parser \in Parsers
      BY <2>1, Parametros
    <3>2. disp[current] \in Nat /\ Ordem(current)
      BY <1>0, <2>1, Numeros DEF Dados, Prata
    <3>3. QED
      BY <3>1, <3>2, Parametros DEF Ordem
  <2>3. codigo \in DOMAIN Releases
    BY <1>0 DEF Dados, Prata
  <2>4. NosVetores' = {[id |-> i, v |-> current, modelo |-> m] : i \in Ids(current, lote)}
    <3>1. IdsDe(store') = Ids(current, lote) /\ \A r \in store' : r.v = current /\ r.modelo = m
      BY <1>4 DEF GravaStore, Release
    <3> HIDE DEF lote, m
    <3>2. NosVetores' = {[id |-> r.id, v |-> r.v, modelo |-> r.modelo] : r \in store'}
      BY DEF NosVetores
    <3>3. ASSUME NEW x \in NosVetores'
          PROVE  x \in {[id |-> i, v |-> current, modelo |-> m] : i \in Ids(current, lote)}
      <4>1. PICK r \in store' : x = [id |-> r.id, v |-> r.v, modelo |-> r.modelo]
        BY <3>2, <3>3
      <4>2. r.id \in Ids(current, lote) /\ r.v = current /\ r.modelo = m
        BY <3>1 DEF IdsDe
      <4>3. QED
        BY <4>1, <4>2
    <3>4. ASSUME NEW i \in Ids(current, lote)
          PROVE  [id |-> i, v |-> current, modelo |-> m] \in NosVetores'
      <4>1. PICK r \in store' : r.id = i
        BY <3>1, <3>4 DEF IdsDe
      <4>2. QED
        BY <3>1, <3>2, <4>1
    <3>5. QED
      BY <3>3, <3>4
  <2>5. t.ids = Ids(current, lote) /\ t.leitura = lote.parser
    OBVIOUS
  <2>6. t \in [v \in Versoes |-> {[leitura |-> l.parser, ids |-> Ids(v, l)] : l \in Lotes}][current]
    BY <2>1
  <2> HIDE DEF lote, t, m
  <2>7. t.leitura \in 1..disp[current]
    BY <2>2, <2>5
  <2>8. Lei!Indexa(t, m)
    BY <1>2, <2>1, <2>4, <2>5, <2>6, <2>7 DEF Lei!Indexa
  <2>9. QED
    BY <2>1, <2>3, <2>8 DEF t, m
<1>5. QED
  BY <1>1, <1>3, <1>4

\* A script, of the run or by hand, is one step of what is served or none.
ServeOuNada(t, s, n, f, metodo, full, allow) ==
    \/ t = "extract" /\ ExtractSource(s, n)
    \/ t = "parse" /\ ParseDispositivos(s, n, f)
    \/ t = "chunk" /\ BuildChunks(s, n, f, metodo)
    \/ t = "load" /\ LoadPostgres(s, n, allow)
    \/ t = "embed" /\ EmbedChunks(s, n, full, allow)

LEMMA LeiDoScript ==
    ASSUME IInv, NEW t, NEW s, NEW n, NEW f, NEW metodo, NEW full, NEW allow,
           ServeOuNada(t, s, n, f, metodo, full, allow), UNCHANGED fonte
    PROVE  Lei!Next \/ UNCHANGED Lei!lei
<1>1. CASE ExtractSource(s, n)
  BY <1>1, EscreveTexto DEF Lei!Next
<1>2. CASE ParseDispositivos(s, n, f)
  BY <1>2, EscreveLeitura DEF Lei!Next
<1>3. CASE BuildChunks(s, n, f, metodo)
  BY <1>3, EscreveTrechos
<1>4. CASE LoadPostgres(s, n, allow)
  BY <1>4, EscreveTabelas DEF Lei!Next
<1>5. CASE EmbedChunks(s, n, full, allow)
  <2>1. CASE UNCHANGED Lei!lei
    BY <2>1
  <2>2. ASSUME NEW lote \in Lotes, NEW i \in DOMAIN Releases, current \in Versoes,
               Lei!Indexa([leitura |-> lote.parser, ids |-> Ids(current, lote)], Releases[i].modelo)
        PROVE  Lei!Next
    <3> DEFINE x == [leitura |-> lote.parser, ids |-> Ids(current, lote)]
               de == [v \in Versoes |-> {[leitura |-> l.parser, ids |-> Ids(v, l)] : l \in Lotes}]
               m == Releases[i].modelo
    <3>1. x \in UNION {de[v] : v \in Versoes}
      BY <2>2
    <3>2. m \in {Releases[j].modelo : j \in DOMAIN Releases}
      OBVIOUS
    <3>3. Lei!Indexa(x, m)
      BY <2>2
    <3> HIDE DEF x, m
    <3>4. QED
      BY <3>1, <3>2, <3>3 DEF Lei!Next
  <2>3. QED
    BY <1>5, <2>1, <2>2, EscreveVetores
<1>6. QED
  BY <1>1, <1>2, <1>3, <1>4, <1>5 DEF ServeOuNada

LEMMA LeiPasso ==
    ASSUME IInv, [Next]_vars
    PROVE  [Lei!Next]_(Lei!lei)
<1>0. ASSUME UNCHANGED <<dados, fonte>> PROVE UNCHANGED Lei!lei
  BY <1>0 DEF dados, lake, manifest, parseVars, tabelas, NasTabelas, NosVetores, Lei!lei
<1>1. ASSUME NEW f \in BOOLEAN, AbrirRun(f) PROVE UNCHANGED Lei!lei
  BY <1>0, <1>1 DEF AbrirRun, mundo
<1>2. ASSUME NEW t \in Tarefas, Rodar(t) PROVE Lei!Next \/ UNCHANGED Lei!lei
  <2>1. PICK s \in Terminais, n \in Passos(t) : Script(t, s, n)
    BY <1>2 DEF Rodar
  <2>2. ServeOuNada(t, s, n, force, "tokenizer", FALSE, FALSE)
    BY <2>1 DEF Script, ServeOuNada, Tarefas
  <2>3. UNCHANGED fonte
    BY <1>2 DEF Rodar, mundo
  <2>4. QED
    BY <2>2, <2>3, LeiDoScript
<1>3. ASSUME NEW t \in Tarefas, Propagar(t) PROVE UNCHANGED Lei!lei
  BY <1>0, <1>3 DEF Propagar, mundo
<1>4. ASSUME FimRun PROVE UNCHANGED Lei!lei
  BY <1>0, <1>4 DEF FimRun, mundo
<1>5. ASSUME NEW t \in Tarefas, RodarAMao(t) PROVE Lei!Next \/ UNCHANGED Lei!lei
  <2>1. PICK s \in Terminais, n \in Passos(t), flag \in BOOLEAN, metodo \in Metodos :
          Manual(t, s, n, flag, metodo)
    BY <1>5 DEF RodarAMao
  <2>2. ServeOuNada(t, s, n, flag, metodo, flag, flag)
    BY <2>1 DEF Manual, ServeOuNada, Tarefas
  <2>3. UNCHANGED fonte
    BY <1>5 DEF RodarAMao, mundo
  <2>4. QED
    BY <2>2, <2>3, LeiDoScript
<1>6. ASSUME NEW v \in Versoes, Publica(v) PROVE Lei!Next
  <2>1. UNCHANGED <<textos, current, versions, disp, NasTabelas, NosVetores>> /\ fonte' = v
    BY <1>6 DEF Publica, dados, lake, manifest, parseVars, tabelas, NasTabelas, NosVetores
  <2>2. Lei!Publica(v)
    BY <2>1 DEF Lei!Publica
  <2>3. QED
    BY <2>2 DEF Lei!Next
<1>7. ASSUME Implanta PROVE UNCHANGED Lei!lei
  BY <1>0, <1>7 DEF Implanta
<1>8. ASSUME UNCHANGED vars PROVE UNCHANGED Lei!lei
  BY <1>0, <1>8 DEF vars, mundo
<1>9. QED
  BY <1>1, <1>2, <1>3, <1>4, <1>5, <1>6, <1>7, <1>8 DEF Next, Airflow

-----------------------------------------------------------------------------
\* The state keeps its shape and no report exists without the objects it
\* reports on, wherever a script is killed.
THEOREM Tipos == Spec => []TypeOK
<1>1. ASSUME IInv PROVE TypeOK
  <2>1. ASSUME NEW v \in Versoes
        PROVE  /\ disp[v] \in Parsers \cup {0} /\ parse_report[v] \in Parsers \cup {0}
               /\ {chunks[v], chunks_report[v]} \subseteq Lotes \cup {Vazio}
               /\ artigos[v] \in Parsers \cup {0}
               /\ parse_report[v] # 0 => disp[v] # 0
               /\ chunks_report[v] # Vazio => chunks[v] # Vazio /\ artigos[v] # 0
    BY <1>1, Numeros DEF IInv, Prata, Relatorio
  <2>2. {ativo, force} \subseteq BOOLEAN
    BY <1>1, Zenon DEF IInv, Airflows
  <2>3. QED
    BY <1>1, <2>1, <2>2 DEF IInv, Manifesto, Prata, Tabelas, Airflows, TypeOK
<1>2. QED
  BY Invariante, <1>1, PTL

\* The manifest never dangles, and what is served is one version as one parser
\* reads it, after a kill between any two objects, as long as no release takes
\* a parser back (lake.py:13; lc04_load.py: the consistency of the reports).
THEOREM LeiSempreInteira == Spec => []LeiInteira
<1>1. IInv => LeiInteira
  BY DEF IInv, Manifesto, Tabelas, LeiInteira
<1>2. QED
  BY Invariante, <1>1, PTL

\* The store is one whole chunking by one model, whatever plans were applied;
\* and never an estimated one, unless a chunking by hand may be killed.
THEOREM StoreSempreFiel ==
    ASSUME MaoMorre = FALSE
    PROVE  Spec => []StoreFiel
<1>1. IInv => StoreFiel
  BY DEF IInv, Vetores, StoreFiel
<1>2. QED
  BY Invariante, <1>1, PTL

\* Wherever a script is killed, by hand or in the run, and whatever is published
\* or deployed between two tasks, what is served changes only as a whole and to
\* the text then current, and no reading takes the place of a newer one.
THEOREM ImplementaLei == Spec => LeiServidaSpec
<1>1. Init => Lei!Init
  BY DEF Init, Lei!Init, Lei!Nada, SemLei, NasTabelas, NosVetores
<1>2. IInv /\ [Next]_vars => [Lei!Next]_(Lei!lei)
  BY LeiPasso
<1>3. QED
  BY <1>1, <1>2, Invariante, PTL DEF Spec, LeiServidaSpec, Lei!Spec

-----------------------------------------------------------------------------
(* What LeiServida itself promises *)

\* The shape that Recebido needs: readings are those of parsers.
LeituraValida ==
    /\ textos \subseteq Versoes /\ current \in Versoes \cup {0}
    /\ disp \in [Versoes -> Nat]

LEMMA RecebidoPasso ==
    ASSUME LeituraValida, LeituraValida', Lei!Recebido, [Lei!Next]_(Lei!lei)
    PROVE  Lei!Recebido'
<1>0. PICK t :
        /\ NasTabelas = {t} /\ t.parser = t.de
        /\ t = Lei!Nada \/ (t.v \in textos \cap versions /\ t.de \in 1..disp[t.v])
  BY DEF Lei!Recebido
<1>1. current # 0 => current \in textos \cap versions
  BY DEF Lei!Recebido
<1>2. \A r, q \in NosVetores :
        r.v \in textos \cap versions /\ q.v = r.v /\ q.modelo = r.modelo
  BY DEF Lei!Recebido
<1>3. ASSUME NEW u, NasTabelas' = {u}, u.parser = u.de,
             u = Lei!Nada \/ (u.v \in textos' \cap versions' /\ u.de \in 1..disp'[u.v]),
             current' # 0 => current' \in textos' \cap versions',
             \A r, q \in NosVetores' :
               r.v \in textos' \cap versions' /\ q.v = r.v /\ q.modelo = r.modelo
      PROVE  Lei!Recebido'
  BY <1>3 DEF Lei!Recebido, Lei!Nada
<1>4. CASE Lei!Recebe
  <2>1. /\ textos \subseteq textos' /\ versions \subseteq versions' /\ UNCHANGED <<disp, NasTabelas, NosVetores>>
        /\ current' # 0 => current' \in textos' \cap versions'
    BY <1>1, <1>4 DEF Lei!Recebe
  <2>2. QED
    BY <1>0, <1>2, <1>3, <2>1
<1>5. ASSUME NEW v \in Versoes, Lei!Publica(v) PROVE Lei!Recebido'
  BY <1>0, <1>1, <1>2, <1>3, <1>5 DEF Lei!Publica
<1>6. ASSUME NEW p \in Parsers, Lei!Le(p) PROVE Lei!Recebido'
  <2>1. UNCHANGED <<textos, current, versions, NasTabelas, NosVetores>>
    BY <1>6 DEF Lei!Le
  <2>2. t = Lei!Nada \/ t.de \in 1..disp'[t.v]
    BY <1>0, <1>6 DEF Lei!Le, LeituraValida
  <2>3. QED
    BY <1>0, <1>1, <1>2, <1>3, <2>1, <2>2
<1>7. CASE Lei!Serve
  <2> DEFINE u == [v |-> current, parser |-> disp[current], de |-> disp[current]]
  <2>1. UNCHANGED <<textos, current, versions, disp, NosVetores>> /\ NasTabelas' = {u}
    BY <1>7 DEF Lei!Serve
  <2>2. current \in Versoes /\ current # 0 /\ disp[current] \in Nat \ {0}
    BY <1>7 DEF Lei!Serve, LeituraValida
  <2>3. u.parser = u.de /\ u.v = current /\ u.de \in 1..disp[u.v]
    BY <2>2
  <2> HIDE DEF u
  <2>4. QED
    BY <1>1, <1>2, <1>3, <2>1, <2>2, <2>3
<1>8. ASSUME NEW x, NEW m, Lei!Indexa(x, m) PROVE Lei!Recebido'
  BY <1>0, <1>1, <1>2, <1>3, <1>8 DEF Lei!Indexa
<1>9. CASE UNCHANGED Lei!lei
  BY <1>0, <1>1, <1>2, <1>3, <1>9 DEF Lei!lei
<1>10. QED
  BY <1>4, <1>5, <1>6, <1>7, <1>8, <1>9 DEF Lei!Next

\* Nothing is served that did not land and was not made current, under a stamp
\* that is not that of the reading it came from, or half of one text and half of
\* another (lake.py:3-14, lc04_load.py:11).
THEOREM ServidoRecebido == Spec => []Lei!Recebido
<1>1. IInv => LeituraValida
  <2>1. ASSUME IInv PROVE disp \in [Versoes -> Nat]
    <3>1. disp \in [Versoes -> Parsers \cup {0}]
      BY <2>1 DEF IInv, Prata, Objetos
    <3>2. Parsers \cup {0} \subseteq Nat
      BY Parametros
    <3>3. QED
      BY <3>1, <3>2
  <2>2. QED
    BY <2>1 DEF IInv, Manifesto, LeituraValida
<1>2. Init => Lei!Recebido
  BY DEF Init, Lei!Recebido, Lei!Nada, SemLei, NasTabelas, NosVetores
<1>3. LeituraValida /\ LeituraValida' /\ Lei!Recebido /\ [Lei!Next]_(Lei!lei) => Lei!Recebido'
  BY RecebidoPasso
<1>4. QED
  BY <1>1, <1>2, <1>3, Invariante, ImplementaLei, PTL DEF Spec, LeiServidaSpec, Lei!Spec
=============================================================================
