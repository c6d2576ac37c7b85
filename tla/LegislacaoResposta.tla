------------------------- MODULE LegislacaoResposta -------------------------
(***************************************************************************)
(* A question about the LC 214, from the citation parser to the answer:    *)
(* router.py (citations, resolution, route), retriever.py (blocks under a  *)
(* token budget) and lc06_generate.py (prompt, reply, the three barriers,  *)
(* re-scoring).  The law and its vectors are two tables that the pipeline  *)
(* replaces in two transactions, while a run of the golden set keeps the   *)
(* index of provisions it read at its start.                               *)
(***************************************************************************)
EXTENDS LegislacaoCitacao

CONSTANTS
    Leis,        \* versions of the law: a sequence of [id -> [ord, vivo, tok]]
    Trechos,     \* the chunks of each version: [name -> [art, ids, janela, tok]]
    Ordens,      \* orders of all chunk names by distance to a question
    Perguntas,   \* questions: [partes, sinais, resto, tok]
    Replicas     \* replies of the model: [json, fim, diz, cites, texto]

ASSUME LeisAssumption ==
    /\ Len(Leis) \in Nat \ {0} /\ Len(Trechos) = Len(Leis)
    /\ \A v \in 1..Len(Leis) : IsFiniteSet(DOMAIN Leis[v]) /\ IsFiniteSet(DOMAIN Trechos[v])
    /\ \A v \in 1..Len(Leis) : \A p \in DOMAIN Leis[v] :
          Len(p) \in Nat /\ Leis[v][p].tok \in Nat      \* ids are paths
    /\ \A v \in 1..Len(Leis) : \A c \in DOMAIN Trechos[v] : Trechos[v][c].tok \in Nat
    /\ Ordens \subseteq Seq(UNION {DOMAIN Trechos[v] : v \in 1..Len(Leis)})
    /\ \A q \in Perguntas : q.tok \in Nat /\ q.partes \in Seq(Parte)

VARIABLES
    lei, vet,      \* versions in ai.lc214_dispositivo and in ai.lc214_chunk
    fase,          \* livre, sql, buscar, montar, feita, falhou
    perg, indice,  \* the question; the ids the router resolves against
    plano,         \* the Plan of the router
    ordem,         \* the order of the chunks for this question
    fila,          \* articles still to be assembled
    blocos, sobra, caidos,   \* blocks, budget left, `dropped`
    laudo, regra,  \* the Answer, and the rule it was decided under
    resp           \* the reply as received (raw_response)

base == <<lei, vet>>
busca == <<plano, ordem, fila, blocos, sobra, caidos>>
vars == <<lei, vet, fase, perg, indice, plano, ordem, fila, blocos, sobra,
          caidos, laudo, regra, resp>>

-----------------------------------------------------------------------------
Nada == SemReplica("clarify")
SemPergunta == [partes |-> <<>>, sinais |-> {}, resto |-> 0, tok |-> 0]
SemResp == [json |-> FALSE, fim |-> "stop", diz |-> FALSE, cites |-> <<>>, texto |-> <<>>]
SemPlano == [rota |-> "clarify", ancoras |-> <<>>]

Init ==
    /\ lei = 1 /\ vet = 1 /\ fase = "livre"
    /\ perg = SemPergunta /\ indice = {} /\ plano = SemPlano
    /\ ordem = <<>> /\ fila = <<>> /\ blocos = <<>> /\ sobra = 0 /\ caidos = {}
    /\ laudo = Nada /\ regra = "model" /\ resp = SemResp

\* lc04_load and lc04_embed replace one table each, whatever reads them, and
\* neither waits for the other.
Publica ==
    /\ lei < Len(Leis) /\ lei' = lei + 1
    /\ UNCHANGED <<vet, fase, perg, indice, plano, ordem, fila, blocos, sobra,
                   caidos, laudo, regra, resp>>
Revetoriza ==
    /\ vet < Len(Leis) /\ vet' = vet + 1
    /\ UNCHANGED <<lei, fase, perg, indice, plano, ordem, fila, blocos, sobra,
                   caidos, laudo, regra, resp>>

\* answer(), up to its first query after the ids.  A golden run keeps the ids
\* of its start; a single question reads them.
Pergunta(q, rule, ids) ==
    /\ perg' = q /\ regra' = rule /\ indice' = ids
    /\ plano' = Rota(q, ids)
    /\ fase' = CASE plano'.rota = "sql" -> "sql"
                 [] plano'.rota = "clarify" -> "feita"
                 [] OTHER -> "buscar"
    /\ laudo' = Nada /\ resp' = SemResp
    /\ ordem' = <<>> /\ fila' = <<>> /\ blocos' = <<>> /\ caidos' = {}
    /\ sobra' = ContextBudget(q)
    /\ UNCHANGED base

Perguntar(q, rule) ==
    /\ fase \in {"livre", "falhou", "feita"}
    /\ Pergunta(q, rule, DOMAIN Leis[lei])

ProximaDoGolden(q) ==
    /\ fase = "feita" /\ Pergunta(q, regra, indice)

\* The sql route: the cited provisions and everything under them, no model.
ResponderSql ==
    /\ fase = "sql" /\ fase' = "feita"
    /\ laudo' = [SemReplica("nenhuma") EXCEPT !.estrutura =
                    {p \in DOMAIN Leis[lei] : \E n \in 1..Len(plano.ancoras) :
                        IsPrefix(plano.ancoras[n], p)}]
    /\ UNCHANGED <<base, perg, indice, busca, regra, resp>>

\* retrieve(): the top k, and the articles in order (anchors, then hits).
Buscar ==
    /\ fase = "buscar" /\ fase' = "montar"
    /\ ordem' \in Ordens
    /\ fila' = Artigos(plano.ancoras, Topo(Trechos[vet], ordem'))
    /\ UNCHANGED <<base, perg, indice, plano, blocos, sobra, caidos, laudo, regra, resp>>

\* One article of assemble(): search inside it, read its rows, build its block.
Montar ==
    /\ fase = "montar" /\ fila # <<>>
    /\ LET acc == Acrescenta(Leis[lei], Trechos[vet], plano.ancoras, ordem,
                             [blocos |-> blocos, sobra |-> sobra, caidos |-> caidos], Head(fila))
       IN  blocos' = acc.blocos /\ sobra' = acc.sobra /\ caidos' = acc.caidos
    /\ fila' = Tail(fila)
    /\ UNCHANGED <<base, fase, perg, indice, plano, ordem, laudo, regra, resp>>

\* The reply arrives: parsed, checked and decided with nothing in between.
Gerar(r) ==
    /\ fase = "montar" /\ fila = <<>> /\ blocos # <<>>
    /\ fase' = "feita" /\ resp' = r
    /\ laudo' = Julga(r, indice, Mostra(blocos), regra)
    /\ UNCHANGED <<base, perg, indice, busca, regra>>

\* Barrier 1: a route that found nothing to ground an answer on.
SemContexto ==
    /\ fase = "montar" /\ fila = <<>> /\ blocos = <<>>
    /\ fase' = "feita" /\ laudo' = SemReplica("no_context")
    /\ UNCHANGED <<base, perg, indice, busca, regra, resp>>

\* Ollama cannot be reached: the call raises and the run ends.
Indisponivel ==
    /\ fase = "montar" /\ fila = <<>> /\ blocos # <<>>
    /\ fase' = "falhou"
    /\ UNCHANGED <<base, perg, indice, busca, laudo, regra, resp>>

Rescorar(rule) ==
    /\ fase = "feita" /\ regra' = rule
    /\ laudo' = Rescore(laudo, rule)
    /\ UNCHANGED <<base, fase, perg, indice, busca, resp>>

Next ==
    \/ Publica \/ Revetoriza
    \/ \E q \in Perguntas : ProximaDoGolden(q) \/ \E rule \in Decisions : Perguntar(q, rule)
    \/ ResponderSql \/ Buscar \/ Montar \/ SemContexto \/ Indisponivel
    \/ \E r \in Replicas : Gerar(r)
    \/ \E rule \in Decisions : Rescorar(rule)

Spec == Init /\ [][Next]_vars

-----------------------------------------------------------------------------
(* Properties. *)

TypeOK ==
    /\ {lei, vet} \subseteq 1..Len(Leis)
    /\ fase \in {"livre", "sql", "buscar", "montar", "feita", "falhou"}
    /\ plano.rota \in {"sql", "clarify", "vector", "combined"}
    /\ ToSet(plano.ancoras) \subseteq indice
    /\ caidos \cap {blocos[n].art : n \in 1..Len(blocos)} = {}
    /\ laudo.recusa \in FinalRefusals \cup {"model", "no_valid_citation", "nenhuma"}

\* What is shown after a reply rests on a provision that the context showed,
\* and was in the law when its article was read, although the router resolves
\* citations with the ids of the start of the run (lc06_generate.py:17-18, 316,
\* 334); a cited provision that goes by SQL is shown unless a version lacks it.
RespostaFundada ==
    (fase = "feita" /\ laudo.recusa = "nenhuma") =>
        IF laudo.llm
        THEN /\ ValidOf(laudo) # {}
             /\ ValidOf(laudo) \subseteq Mostra(blocos) \cap indice
             /\ ValidOf(laudo) \subseteq UNION {DOMAIN Leis[v] : v \in 1..lei}
        ELSE \A n \in 1..Len(plano.ancoras) :
                plano.ancoras[n] \in laudo.estrutura
                    \/ \E v \in 1..lei : plano.ancoras[n] \notin DOMAIN Leis[v]

\* A recorded reply re-decided under any rules, one after another, says what
\* the live run would have said under the last one (lc06_generate.py:161, 573).
RescoreFiel ==
    (fase = "feita" /\ laudo.llm) =>
        laudo.recusa = Julga(resp, indice, Mostra(blocos), regra).recusa

\* The blocks overshoot the budget by no more than one cut notice and the
\* minimum every article of an anchor is given (retriever.py:14-17, 299-301).
ContextoNoOrcamento ==
    LET artigos == {plano.ancoras[n][1] : n \in 1..Len(plano.ancoras)}
    IN  fase \in {"montar", "feita"} =>
            Tokens(blocos)
                <= Max({ContextBudget(perg), 0}) + Sufixo
                     + Cardinality(artigos) * (MinBloco + Sufixo)

\* A cited provision that the law still has is in the context when the model
\* is asked, however little of the budget was left (retriever.py:301).
AncoraPresente ==
    laudo.llm =>
        \A n \in 1..Len(plano.ancoras) :
            plano.ancoras[n] \in Mostra(blocos)
                \/ \E v \in 1..lei : plano.ancoras[n] \notin DOMAIN Leis[v]

\* The budget gives way only as far as the anchors need, and they are there.
ContextoFiel == ContextoNoOrcamento /\ AncoraPresente
=============================================================================
