--------------------------- MODULE LegislacaoLake ---------------------------
(***************************************************************************)
(* The legislation RAG (LC 214): the versioned lake written by the scripts  *)
(* pipelines/rag/lc214/lc01 to lc03, and the two projections of it that are *)
(* served, lc04_load (tables) and lc04_embed (vector store), in the order   *)
(* of airflow/dags/dag_rag_lc214.py.                                        *)
(*                                                                         *)
(* Each script decides by itself whether there is work to do, and replaces  *)
(* its objects in the lake one PUT at a time, the report or the manifest    *)
(* last.  Between any two tasks the source may publish another text of the  *)
(* law and a new release of the code may be deployed; a task may be killed  *)
(* between two PUTs; between two runs the operator may run a script by hand.*)
(***************************************************************************)
EXTENDS Integers, FiniteSets, Sequences

CONSTANTS
    Versoes,         \* texts of the law (sha256), numbered
    Ruins,           \* those that fail the source contract of lc01
    Releases,        \* code deployed, in order: parser, chunker and modelo
    Provisoes,       \* provisions parser p finds in version v
    ArtDe,           \* the article of each provision
    Textos,          \* texts of the chunks of <<v, parser, token method>>
    ParseFalha,      \* <<v, parser>> that break the invariants of lc02
    ChunkFalha,      \* <<v, parser, chunker, token method>> refused by lc03
    MaxDeletePct,    \* LC214_MAX_DELETE_PCT
    MaoMorre,        \* scripts run by hand may be killed too
    MaxPublicacoes, MaxMortes, MaxManuais     \* bounds

Metodos  == {"tokenizer", "estimate"}
Parsers  == {Releases[i].parser : i \in DOMAIN Releases}
Chunkers == {Releases[i].chunker : i \in DOMAIN Releases}

ASSUME LegislacaoAssumption ==
    /\ Versoes \subseteq Nat \ {0} /\ Versoes # {} /\ Ruins \subseteq Versoes
    /\ Len(Releases) \in Nat \ {0} /\ DOMAIN Releases = 1..Len(Releases)
    /\ \A i \in DOMAIN Releases : Releases[i].parser \in Nat \ {0}
    /\ DOMAIN Provisoes = Versoes \X Parsers
    /\ DOMAIN Textos = Versoes \X Parsers \X Metodos
    /\ \A x \in DOMAIN Provisoes : Provisoes[x] \subseteq DOMAIN ArtDe
    /\ MaxDeletePct \in Nat /\ MaoMorre \in BOOLEAN
    /\ MaxPublicacoes \in Nat /\ MaxMortes \in Nat /\ MaxManuais \in Nat

\* A release does not take back the parser of an earlier one.
ASSUME ParserAvanca ==
    \A i, j \in DOMAIN Releases : i <= j => Releases[i].parser <= Releases[j].parser

Vazio   == [parser |-> 0, chunker |-> 0, metodo |-> "nenhum"]     \* no such object
Lotes   == [parser : Parsers, chunker : Chunkers, metodo : Metodos]
SemLei  == [v |-> 0, parser |-> 0, de |-> 0]                      \* an empty table
Tarefas == {"extract", "parse", "chunk", "load", "embed"}
Falhados  == {"failed", "upstream_failed"}
Terminais == {"success", "skipped"} \cup Falhados

VARIABLES
    fonte,          \* the version the source serves now
    codigo,         \* the release deployed
    textos,         \* bronze/lc214/text, by version
    current, versions,   \* landing/lc214/manifest.json
    disp,           \* dispositivos.parquet: its parser version, 0 = absent
    parse_report,   \* parse_report.json: likewise
    chunks,         \* chunks.parquet: how it was built, or Vazio
    artigos,        \* artigos.parquet: parser of the provisions it was built from
    chunks_report,  \* chunks_report.json: what it says of chunks.parquet
    dispositivo, artigo,  \* ai.lc214_dispositivo, ai.lc214_artigo
    store,          \* ai.lc214_chunk
    ativo, force, ti,     \* the active DAG run, its param and its tasks
    publicacoes, mortes, manuais

manifest   == <<current, versions>>
parseVars  == <<disp, parse_report>>
chunkVars  == <<chunks, artigos, chunks_report>>
tabelas    == <<dispositivo, artigo>>
lake       == <<textos, manifest, parseVars, chunkVars>>
dados      == <<lake, tabelas, store>>
mundo      == <<fonte, codigo, publicacoes>>
vars == <<dados, mundo, ativo, force, ti, mortes, manuais>>

Release == Releases[codigo]

Init ==
    /\ fonte \in Versoes \ Ruins /\ codigo = 1
    /\ textos = {} /\ current = 0 /\ versions = {}
    /\ disp = [v \in Versoes |-> 0] /\ parse_report = [v \in Versoes |-> 0]
    /\ chunks = [v \in Versoes |-> Vazio] /\ chunks_report = [v \in Versoes |-> Vazio]
    /\ artigos = [v \in Versoes |-> 0]
    /\ dispositivo = SemLei /\ artigo = SemLei /\ store = {}
    /\ ativo = FALSE /\ force = FALSE /\ ti = [t \in Tarefas |-> "none"]
    /\ publicacoes = 0 /\ mortes = 0 /\ manuais = 0

-----------------------------------------------------------------------------
(* The scripts.  n counts the steps a process takes: its PUTs (or its commit)  *)
(* and, last, its exit.  It takes fewer when it is killed or when its source,   *)
(* lake or database fails.  s is the task state its exit code gives.           *)

Puts     == [extract |-> 2, parse |-> 2, chunk |-> 3, load |-> 1, embed |-> 1]
Passos(t)   == 0..Puts[t] + 1
Morto(t, n) == n <= Puts[t]

\* The exit code of the script, or an interrupted process.
Fim(t, s, n, saida) == n \in Passos(t) /\ s = IF Morto(t, n) THEN "failed" ELSE saida

\* An early return: 99 or an error, nothing written.
Retorna(t, s, n, saida) == Fim(t, s, n, saida) /\ UNCHANGED dados

SemMudanca == current = fonte /\ fonte \in textos

\* The text, then the manifest, which points to it.
PutVersao(n) ==
    /\ textos' = IF n >= 1 THEN textos \cup {fonte} ELSE textos
    /\ current' = IF n >= 2 THEN fonte ELSE current
    /\ versions' = IF n >= 2 THEN versions \cup {fonte} ELSE versions

ExtractSource(s, n) ==
    \/ SemMudanca /\ Retorna("extract", s, n, "skipped")
    \/ ~SemMudanca /\ fonte \in Ruins /\ Retorna("extract", s, n, "failed")
    \/ /\ ~SemMudanca /\ fonte \notin Ruins
       /\ PutVersao(n) /\ Fim("extract", s, n, "success")
       /\ UNCHANGED <<parseVars, chunkVars, tabelas, store>>

ParseEmDia == disp[current] # 0 /\ parse_report[current] = Release.parser

\* --force parses again what is up to date.
ParseDispositivos(s, n, f) ==
    LET p == Release.parser
        falha == <<current, p>> \in ParseFalha
        pula  == ~f /\ ParseEmDia
    IN  \/ current = 0 /\ Retorna("parse", s, n, "failed")
        \/ current # 0 /\ pula /\ Retorna("parse", s, n, "skipped")
        \/ current # 0 /\ ~pula /\ falha /\ Retorna("parse", s, n, "failed")
        \/ /\ current # 0 /\ ~pula /\ ~falha
           /\ disp' = IF n >= 1 THEN [disp EXCEPT ![current] = p] ELSE disp
           /\ parse_report' = IF n >= 2 THEN [parse_report EXCEPT ![current] = p] ELSE parse_report
           /\ Fim("parse", s, n, "success")
           /\ UNCHANGED <<textos, manifest, chunkVars, tabelas, store>>

\* mutant: the key of the silver folder, the law, taken for the whole input
MesmaLei(lote) == chunks_report[current] # Vazio

\* The folder is keyed by the law only: parser, chunker and method must match.
MesmoLote(lote) == chunks_report[current] = lote

\* mutant: the report in the middle
ReportNoMeio(n, lote) ==
    /\ chunks' = IF n >= 1 THEN [chunks EXCEPT ![current] = lote] ELSE chunks
    /\ chunks_report' = IF n >= 2 THEN [chunks_report EXCEPT ![current] = lote] ELSE chunks_report
    /\ artigos' = IF n >= 3 THEN [artigos EXCEPT ![current] = lote.parser] ELSE artigos

\* The report last: "the commit point"
PutChunks(n, lote) ==
    /\ chunks' = IF n >= 1 THEN [chunks EXCEPT ![current] = lote] ELSE chunks
    /\ artigos' = IF n >= 2 THEN [artigos EXCEPT ![current] = lote.parser] ELSE artigos
    /\ chunks_report' = IF n >= 3 THEN [chunks_report EXCEPT ![current] = lote] ELSE chunks_report

BuildChunks(s, n, f, metodo) ==
    LET p     == disp[current]
        lote  == [parser |-> p, chunker |-> Release.chunker, metodo |-> metodo]
        pula  == ~f /\ chunks[current] # Vazio /\ MesmoLote(lote)
        falha == <<current, p, Release.chunker, metodo>> \in ChunkFalha
    IN  IF current = 0 THEN Retorna("chunk", s, n, "failed")
        ELSE \/ p = 0 /\ Retorna("chunk", s, n, "failed")
             \/ p # 0 /\ pula /\ Retorna("chunk", s, n, "skipped")
             \/ p # 0 /\ ~pula /\ falha /\ Retorna("chunk", s, n, "failed")
             \/ /\ p # 0 /\ ~pula /\ ~falha
                /\ PutChunks(n, lote)
                /\ Fim("chunk", s, n, "success")
                /\ UNCHANGED <<textos, manifest, parseVars, tabelas, store>>

-----------------------------------------------------------------------------
(* lc04_load: the tables become the provisions and articles of the current    *)
(* version, in one transaction                                                *)

Chaves(t) == IF t = SemLei THEN {} ELSE Provisoes[<<t.v, t.de>>]
Arts(t)   == {ArtDe[x] : x \in Chaves(t)}

\* More than MaxDeletePct of the rows served would leave.
Esvazia(antes, depois) ==
    100 * Cardinality(antes \ depois) > MaxDeletePct * Cardinality(antes)

RelatoriosBatem(v) == parse_report[v] = chunks_report[v].parser      \* mutant: the reports only

SilverConsistente(v) ==
    parse_report[v] = chunks_report[v].parser /\ parse_report[v] = disp[v]

LoadPostgres(s, n, allow) ==
    LET v == current
        novo(p) == [v |-> v, parser |-> parse_report[v], de |-> p]
        falta  == v = 0 \/ (parse_report[v] = 0 \/ chunks_report[v] = Vazio)
        encolhe == \/ Esvazia(Chaves(dispositivo), Chaves(novo(disp[v])))
                   \/ Esvazia(Arts(artigo), Arts(novo(artigos[v])))
    IN  IF falta \/ (~SilverConsistente(v) \/ (~allow /\ encolhe))
        THEN Retorna("load", s, n, "failed")
        ELSE /\ dispositivo' = IF n >= 1 THEN novo(disp[v]) ELSE dispositivo
             /\ artigo' = IF n >= 1 THEN novo(artigos[v]) ELSE artigo
             /\ Fim("load", s, n, IF UNCHANGED tabelas THEN "skipped" ELSE "success")
             /\ UNCHANGED <<lake, store>>

-----------------------------------------------------------------------------
(* lc04_embed: the store becomes the chunks of the current version            *)

\* chunk_id: md5(chunker version | text)
Ids(v, lote) ==
    {<<lote.chunker, x>> : x \in Textos[<<v, lote.parser, lote.metodo>>]}

IdsDe(linhas) == {r.id : r \in linhas}

\* plan_sync: a new model embeds everything again, and so does --full-refresh
Refaz(full) == full \/ \E r \in store : r.modelo # Release.modelo

ComTokenizer(v) == chunks_report[v].metodo = "tokenizer"

\* chunks.parquet has as many rows as its report says
ChunksBatem(v) ==
    Cardinality(Ids(v, chunks[v])) = Cardinality(Ids(v, chunks_report[v]))

SemApagar(ficam, novas) == store \cup novas     \* mutant: stale rows stay

Aplica(ficam, novas) == ficam \cup novas

\* Kept rows get the new stamp, without a new vector.
EmbedChunks(s, n, full, allow) ==
    LET v == current
        desejados  == Ids(v, chunks[v])
        existentes == IdsDe(store)
        novos  == IF Refaz(full) THEN desejados ELSE desejados \ existentes
        velhos == IF Refaz(full) THEN existentes ELSE existentes \ desejados
        encolhe == 100 * (Cardinality(velhos) - Cardinality(novos))
                     > MaxDeletePct * Cardinality(existentes)
        recusa == ~ComTokenizer(v) \/ (~ChunksBatem(v) \/ (encolhe /\ ~allow))
        linha(i, m) == [id |-> i, v |-> v, parser |-> chunks_report[v].parser, modelo |-> m]
        ficam  == {linha(r.id, r.modelo) : r \in {x \in store : x.id \notin velhos}}
    IN  IF v = 0 \/ (chunks_report[v] = Vazio \/ recusa)
        THEN Retorna("embed", s, n, "failed")
        ELSE /\ store' = IF n >= 1 THEN Aplica(ficam, {linha(i, Release.modelo) : i \in novos})
                         ELSE store
             /\ Fim("embed", s, n, IF novos = {} /\ velhos = {} /\ UNCHANGED store
                                   THEN "skipped" ELSE "success")
             /\ UNCHANGED <<lake, tabelas>>

-----------------------------------------------------------------------------
(* dag_rag_lc214: retries = 0, trigger rule NONE_FAILED                       *)

Acima == [extract |-> {}, parse |-> {"extract"}, chunk |-> {"parse"},
          load |-> {"chunk"}, embed |-> {"chunk"}]

DepsOk(t) == \A u \in Acima[t] : ti[u] \in {"success", "skipped"}

Script(t, s, n) ==
    CASE t = "extract" -> ExtractSource(s, n)
      [] t = "parse"   -> ParseDispositivos(s, n, force)
      [] t = "chunk"   -> BuildChunks(s, n, force, "tokenizer")
      [] t = "load"    -> LoadPostgres(s, n, FALSE)
      [] t = "embed"   -> EmbedChunks(s, n, FALSE, FALSE)

Morte(t, n) ==
    IF Morto(t, n) THEN mortes < MaxMortes /\ mortes' = mortes + 1 ELSE UNCHANGED mortes

Marca(t, s) == ti' = [ti EXCEPT ![t] = s]

AbrirRun(f) ==
    /\ ~ativo
    /\ ativo' = TRUE /\ force' = f
    /\ UNCHANGED <<dados, mundo, ti, mortes, manuais>>

Rodar(t) ==
    /\ ativo /\ ti[t] = "none" /\ DepsOk(t)
    /\ \E s \in Terminais, n \in Passos(t) : Script(t, s, n) /\ Marca(t, s) /\ Morte(t, n)
    /\ UNCHANGED <<mundo, ativo, force, manuais>>

Propagar(t) ==
    /\ ativo /\ ti[t] = "none" /\ \E u \in Acima[t] : ti[u] \in Falhados
    /\ Marca(t, "upstream_failed")
    /\ UNCHANGED <<dados, mundo, ativo, force, mortes, manuais>>

FimRun ==
    /\ ativo /\ \A t \in Tarefas : ti[t] \in Terminais
    /\ ativo' = FALSE /\ force' = FALSE /\ ti' = [t \in Tarefas |-> "none"]
    /\ UNCHANGED <<dados, mundo, mortes, manuais>>

\* A script run by hand, with its flags: main() of lc01 to lc04.
Manual(t, s, n, flag, metodo) ==
    CASE t = "extract" -> ExtractSource(s, n)
      [] t = "parse"   -> ParseDispositivos(s, n, flag)
      [] t = "chunk"   -> BuildChunks(s, n, flag, metodo)
      [] t = "load"    -> LoadPostgres(s, n, flag)
      [] t = "embed"   -> EmbedChunks(s, n, flag, flag)

RodarAMao(t) ==
    /\ ~ativo /\ manuais < MaxManuais /\ manuais' = manuais + 1
    /\ \E s \in Terminais, n \in Passos(t), flag \in BOOLEAN, metodo \in Metodos :
         /\ Manual(t, s, n, flag, metodo) /\ Morte(t, n)
         /\ Morto(t, n) => MaoMorre
    /\ UNCHANGED <<mundo, ativo, force, ti>>

\* The Camara publishes an amendment, or the text before it again.
Publica(v) ==
    /\ publicacoes < MaxPublicacoes /\ v # fonte
    /\ fonte' = v /\ publicacoes' = publicacoes + 1
    /\ UNCHANGED <<dados, codigo, ativo, force, ti, mortes, manuais>>

Implanta ==
    /\ codigo < Len(Releases)
    /\ codigo' = codigo + 1
    /\ UNCHANGED <<dados, fonte, publicacoes, ativo, force, ti, mortes, manuais>>

Airflow ==
    \/ \E f \in BOOLEAN : AbrirRun(f)
    \/ \E t \in Tarefas : Rodar(t) \/ Propagar(t)
    \/ FimRun

Next ==
    \/ Airflow
    \/ \E t \in Tarefas : RodarAMao(t)
    \/ \E v \in Versoes : Publica(v)
    \/ Implanta

Spec == Init /\ [][Next]_vars

\* The weekly run is opened and its tasks are run; nothing else is promised.
FairSpec == Spec /\ WF_vars(Airflow)

-----------------------------------------------------------------------------
(* Properties *)

Tabela == {SemLei} \cup [v : Versoes, parser : Parsers, de : Parsers]

\* The shape of the state: the report of a parse or of a chunking never exists
\* without the objects it reports on.
TypeOK ==
    /\ fonte \in Versoes /\ codigo \in DOMAIN Releases
    /\ textos \subseteq Versoes \ Ruins
    /\ current \in Versoes \cup {0} /\ versions \subseteq Versoes
    /\ \A v \in Versoes :
         /\ disp[v] \in Parsers \cup {0} /\ parse_report[v] \in Parsers \cup {0}
         /\ {chunks[v], chunks_report[v]} \subseteq Lotes \cup {Vazio}
         /\ artigos[v] \in Parsers \cup {0}
         /\ parse_report[v] # 0 => disp[v] # 0
         /\ chunks_report[v] # Vazio => chunks[v] # Vazio /\ artigos[v] # 0
    /\ {dispositivo, artigo} \subseteq Tabela
    /\ {ativo, force} \subseteq BOOLEAN
    /\ ti \in [Tarefas -> {"none"} \cup Terminais]
    /\ publicacoes \in 0..MaxPublicacoes /\ mortes \in 0..MaxMortes
    /\ manuais \in 0..MaxManuais

\* "Never a dangling current": wherever lc01 is killed, the version the
\* manifest calls current is listed in it and its text is in the lake.
AtualLegivel == current # 0 => current \in versions /\ current \in textos

\* The two serving tables hold the provisions and the articles of one version,
\* as parsed by the parser they are stamped with, although lc02 and lc03 replace
\* four objects one by one and can be killed after each.
ServidoCoerente ==
    dispositivo # SemLei =>
        /\ artigo = dispositivo
        /\ dispositivo.de = dispositivo.parser

\* What the manifest calls current and what is served are each one version,
\* whole, after any kill between two of the objects they are made of.
LeiInteira == AtualLegivel /\ ServidoCoerente

\* The store is always one whole chunking of one version, embedded by one
\* model: no stale chunk, no vector of another model.
StoreInteiro ==
    store # {} =>
        \E v \in Versoes, lote \in Lotes, i \in DOMAIN Releases :
            /\ IdsDe(store) = Ids(v, lote)
            /\ \A r \in store : r.v = v /\ r.modelo = Releases[i].modelo

\* Chunks sized by the word estimate are never embedded, whatever was chunked
\* by hand in between.
SoTokenizer ==
    \A r \in store : \E lote \in Lotes :
        lote.metodo = "tokenizer" /\ r.id \in Ids(r.v, lote)

\* The vectors answer for one chunking, made with the tokenizer of the model.
StoreFiel == StoreInteiro /\ SoTokenizer

\* What LeiServida sees of the tables and of the store.
NasTabelas == {dispositivo, artigo}
NosVetores == {[id |-> r.id, v |-> r.v, modelo |-> r.modelo] : r \in store}

Lei == INSTANCE LeiServida WITH
    Leituras <- Parsers,
    Modelos  <- {Releases[i].modelo : i \in DOMAIN Releases},
    Trechos  <- [v \in Versoes |-> {[leitura |-> l.parser, ids |-> Ids(v, l)] : l \in Lotes}],
    acervo   <- textos,
    atual    <- current,
    listadas <- versions,
    leitura  <- disp,
    tabelas  <- NasTabelas,
    vetores  <- NosVetores

\* The lake and its projections implement LeiServida: a kill between two PUTs, a
\* script by hand or a release in the middle of a run is no step of what is
\* served, or a whole one; and no step serves a text that is not the current one
\* or puts a reading in the place of a newer one (lake.py:3-14, lc04_load.py:11).
LeiServidaSpec == Lei!Spec

\* What the code deployed makes of the text published.
Aceita ==
    /\ fonte \notin Ruins
    /\ <<fonte, Release.parser>> \notin ParseFalha
    /\ <<fonte, Release.parser, Release.chunker, "tokenizer">> \notin ChunkFalha

Servido ==
    LET lote == [parser |-> Release.parser, chunker |-> Release.chunker, metodo |-> "tokenizer"]
    IN  /\ dispositivo = [v |-> fonte, parser |-> Release.parser, de |-> Release.parser]
        /\ artigo = dispositivo
        /\ IdsDe(store) = Ids(fonte, lote)
        /\ \A r \in store : r.v = fonte /\ r.modelo = Release.modelo

\* The weekly run converges by itself: whatever was published, deployed, killed
\* or run by hand, the tables and the store end up with the text the source
\* serves, as the code deployed reads it, when that code accepts it.
ServeAtual == []<>(Servido \/ ~Aceita)
=============================================================================
