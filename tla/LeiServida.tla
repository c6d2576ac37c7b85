----------------------------- MODULE LeiServida -----------------------------
(***************************************************************************)
(* What the LC 214 lake and its two projections promise to whoever answers *)
(* questions of the law: texts land and are kept, the manifest points to   *)
(* one of them, readings of a text go forward, and what is served changes  *)
(* only as a whole, to what there is of the text then current.  No object, *)
(* no kill, no run and no script by hand is seen here.                     *)
(* The headers of pipelines/rag/lc214/lake.py, lc04_load.py and            *)
(* lc04_embed.py state it in parts.                                        *)
(***************************************************************************)
EXTENDS Integers

CONSTANTS
    Versoes,     \* texts of the law
    Ruins,       \* those that are never accepted
    Leituras,    \* numbers of the parsers
    Modelos,     \* embedding models
    Trechos      \* [text -> its chunkings, [leitura, ids]]

VARIABLES
    fonte,       \* the text the source serves
    acervo,      \* texts that landed
    atual,       \* the current one, 0 = none yet
    listadas,    \* those the manifest has pointed to
    leitura,     \* the newest reading of each text, 0 = none
    tabelas,     \* what the serving tables hold, [v, parser, de]
    vetores      \* rows [id, v, modelo] of the vector store

\* A table before the first load.
Nada == [v |-> 0, parser |-> 0, de |-> 0]

lei == <<fonte, acervo, atual, listadas, leitura, tabelas, vetores>>

Init ==
    /\ fonte \in Versoes \ Ruins
    /\ acervo = {} /\ atual = 0 /\ listadas = {}
    /\ leitura = [v \in Versoes |-> 0]
    /\ tabelas = {Nada} /\ vetores = {}

Publica(v) ==
    /\ fonte' = v
    /\ UNCHANGED <<acervo, atual, listadas, leitura, tabelas, vetores>>

\* The text published lands, and it may become the current one.
Recebe ==
    /\ fonte \notin Ruins /\ acervo' = acervo \cup {fonte}
    /\ \/ UNCHANGED <<atual, listadas>>
       \/ atual' = fonte /\ listadas' = listadas \cup {fonte}
    /\ UNCHANGED <<fonte, leitura, tabelas, vetores>>

\* No reading takes the place of a newer one.
Le(p) ==
    /\ atual # 0 /\ leitura[atual] <= p
    /\ leitura' = [leitura EXCEPT ![atual] = p]
    /\ UNCHANGED <<fonte, acervo, atual, listadas, tabelas, vetores>>

\* Both tables at once, content and stamp, from the newest reading.
Serve ==
    /\ atual # 0 /\ leitura[atual] # 0
    /\ tabelas' = {[v |-> atual, parser |-> leitura[atual], de |-> leitura[atual]]}
    /\ UNCHANGED <<fonte, acervo, atual, listadas, leitura, vetores>>

\* The whole store at once: every chunk of one chunking, by one model.
Indexa(t, m) ==
    /\ atual # 0 /\ t \in Trechos[atual] /\ t.leitura \in 1..leitura[atual]
    /\ vetores' = {[id |-> i, v |-> atual, modelo |-> m] : i \in t.ids}
    /\ UNCHANGED <<fonte, acervo, atual, listadas, leitura, tabelas>>

Next ==
    \/ Recebe
    \/ \E v \in Versoes : Publica(v)
    \/ \E p \in Leituras : Le(p)
    \/ Serve
    \/ \E t \in UNION {Trechos[v] : v \in Versoes}, m \in Modelos : Indexa(t, m)

Spec == Init /\ [][Next]_lei

-----------------------------------------------------------------------------
\* What is current, and what is served, is a text that landed and that the
\* manifest has pointed to; both tables hold the same, under the stamp of the
\* reading they were made from, and the vectors answer for no other text.
Recebido ==
    /\ atual # 0 => atual \in acervo \cap listadas
    /\ \E t \in tabelas :
         /\ tabelas = {t} /\ t.parser = t.de
         /\ t = Nada \/ (t.v \in acervo \cap listadas /\ t.de \in 1..leitura[t.v])
    /\ \A r, q \in vetores : r.v \in acervo \cap listadas /\ q.v = r.v /\ q.modelo = r.modelo
=============================================================================
