-------------------------- MODULE LegislacaoMedida --------------------------
(***************************************************************************)
(* The metrics of lc05_eval.py (retrieval) and lc06_generate.py (answers)  *)
(* over a label set, and their gates.  Pure operators.  The share of a     *)
(* case is multiplied by Escala; a mean is an integer of ten-thousandths,  *)
(* rounded as the code rounds it, for the gates compare rounded means.     *)
(***************************************************************************)
EXTENDS LegislacaoContrato, LegislacaoCitacao

CONSTANTS
    Leis, Trechos,   \* versions of the law and of its chunks
    Golden,      \* label sets, as committed one after another
    Escala,      \* a common multiple of the ranks and of the expected counts
    Tol,         \* LC214_EVAL_TOLERANCE_CASES, LC214_GEN_TOLERANCE_CASES
    Replica      \* what each LLM replies: [model -> [case id -> [group -> reply]]]

ASSUME MedidaAssumption ==
    /\ {Len(Leis), Len(Golden)} \subseteq Nat \ {0} /\ Len(Leis) = Len(Trechos)
    /\ Escala \in Nat /\ Tol \in Nat /\ \A r \in 1..TopK : Escala % r = 0
    /\ \A r \in 1..Len(Golden) :
          /\ Golden[r].lei \in 1..Len(Leis) /\ Golden[r].casos \in Seq(ToSet(Golden[r].casos))
          /\ \A c \in ToSet(Golden[r].casos) :
                /\ IsFiniteSet(c.espera) /\ (c.espera = {} \/ Escala % Cardinality(c.espera) = 0)
                /\ \A g \in DOMAIN c.perguntas :
                      c.perguntas[g].ordem \in Seq(UNION {DOMAIN Trechos[v] : v \in 1..Len(Trechos)})

\* chunk_article (lc03_chunks.py): a provision is in one chunk, or alone in each
\* of its windows, so the chunks that share one have the same provisions.
ASSUME TrechosAssumption ==
    \A v \in 1..Len(Leis) :
        /\ IsFiniteSet(DOMAIN Trechos[v])
        /\ \A n \in DOMAIN Trechos[v] : Trechos[v][n].ids \in Seq(DOMAIN Leis[v])
        /\ \A m, n \in DOMAIN Trechos[v] :
              LET a == ToSet(Trechos[v][m].ids)
                  b == ToSet(Trechos[v][n].ids)
              IN  a \cap b # {} => a = b

-----------------------------------------------------------------------------
(* lc05: the retrieval of every measured phrasing. *)

Medido(c) == c.rota \in {"vector", "combined"} /\ c.espera # {}
Agora(v, g) ==   \* the places of the cases
    {n \in 1..Len(v.casos) : LET c == v.casos[n] IN
        Medido(c) /\ c.escopo = "now" /\ g \in DOMAIN c.perguntas}

\* retrieve(): the router with the ids of the start of the run, then the
\* vectors and the rows of the moment.
Busca(plano, q, L, T) ==
    IF plano.rota \in {"vector", "combined"}
    THEN [plano |-> plano, hits |-> Topo(T, q.ordem),
          blocos |-> Assemble(L, T, plano.ancoras, q.ordem, ContextBudget(q)).blocos]
    ELSE [plano |-> plano, hits |-> <<>>, blocos |-> <<>>]

Retrieve(q, ids, L, T) == Busca(Rota(q, ids), q, L, T)

Acertos(c, hits) == {n \in 1..Len(hits) : ToSet(hits[n].ids) \cap c.espera # {}}

\* Faulty form, for the mutants: every hit counts, not only the first.
TodosOsRanks(c, hits) == MapThenSumSet(LAMBDA n : Escala \div n, Acertos(c, hits))
Rr(c, hits) == IF Acertos(c, hits) = {} THEN 0 ELSE Escala \div Min(Acertos(c, hits))

Solved(c, hits) ==
    IF c.modo = "any" THEN Acertos(c, hits) # {}
    ELSE c.espera \subseteq UNION {ToSet(hits[n].ids) : n \in 1..Len(hits)}

ContextRecall(c, blocos) ==
    (Escala * Cardinality(c.espera \cap Mostra(blocos))) \div Cardinality(c.espera)

Soma(f(_), s) == FoldLeft(LAMBDA t, x : t + f(x), 0, s)
Um(b) == IF b THEN 1 ELSE 0

\* evaluate: the outcomes of one phrasing group, and group_metrics of lc05
Outcomes(v, g, L, T) ==
    [n \in Agora(v, g) |->
        [caso |-> v.casos[n], r |-> Retrieve(v.casos[n].perguntas[g], DOMAIN L, L, T)]]

Casas == 10000   \* four decimals

\* round(s / d, 4): to the nearest, a tie to the even one.
Round4(s, d) ==
    LET q == (Casas * s) \div d
        r == (Casas * s) % d
    IN  IF 2 * r > d \/ (2 * r = d /\ q % 2 = 1) THEN q + 1 ELSE q

\* _mean: of no value, None, which no gate looks at.
Mean(s, d) == IF d = 0 THEN 0 ELSE Round4(s, d)

GroupMetrics(ctx) ==
    LET vec == {n \in DOMAIN ctx : ctx[n].caso.rota = "vector"}
        solved == {n \in vec : Solved(ctx[n].caso, ctx[n].r.hits)}
        rr     == FoldFunction(+, 0, [n \in vec |-> Rr(ctx[n].caso, ctx[n].r.hits)])
        lidas  == FoldFunction(+, 0, [n \in DOMAIN ctx |-> ContextRecall(ctx[n].caso, ctx[n].r.blocos)])
    IN  [n |-> Cardinality(vec), n_context |-> Cardinality(DOMAIN ctx),
         success |-> Mean(Cardinality(solved), Cardinality(vec)),
         mrr     |-> Mean(rr, Escala * Cardinality(vec)),
         context |-> Mean(lidas, Escala * Cardinality(DOMAIN ctx))]

Evaluate(v, L, T) == [g \in Grupos |-> GroupMetrics(Outcomes(v, g, L, T))]

\* now < ref - Tol / n, of rounded means.  The 1e-9 the code gives away is less
\* than what two of them can differ by.  n0 = 0: the baseline has None.
Abaixo(now, n, ref, n0) == n > 0 /\ n0 > 0 /\ now * n < ref * n - Tol * Casas

Gate(m, base) ==
    \A g \in Grupos :
        /\ ~Abaixo(m[g].success, m[g].n, base[g].success, base[g].n)
        /\ ~Abaixo(m[g].mrr, m[g].n, base[g].mrr, base[g].n)
        /\ ~Abaixo(m[g].context, m[g].n_context, base[g].context, base[g].n_context)

-----------------------------------------------------------------------------
(* lc06: the dev subset of the golden set, answered. *)

Generated(c) == c.rota \in {"vector", "combined"} /\ c.escopo = "now"
DevCases(v) == {c \in ToSet(v.casos) : c.dev /\ Generated(c)}

\* The phrasings of a run, in the order of the file.
Todo(v) ==
    FoldLeft(LAMBDA s, c : IF c \notin DevCases(v) THEN s
                           ELSE s \o <<<<c, "fiscal">>>>
                                  \o (IF "formal" \in DOMAIN c.perguntas THEN <<<<c, "formal">>>> ELSE <<>>),
             <<>>, v.casos)

\* answer() and outcome()
SameBranch(p, q) == IsPrefix(p, q) \/ IsPrefix(q, p)

Answer(r, replica, ids, rule) ==
    CASE r.plano.rota = "sql"     -> SemReplica("nenhuma")
      [] r.plano.rota = "clarify" -> SemReplica("clarify")
      [] r.plano.rota \in {"vector", "combined"} ->
            IF r.blocos = <<>> THEN SemReplica("no_context")
            ELSE Julga(replica, ids, Mostra(r.blocos), rule)

Outcome(c, g, a, ancoras) ==
    LET validas == IF a.llm THEN ValidOf(a) ELSE ancoras
    IN  [grupo |-> g, abstem |-> c.comp = "abstain", espera |-> c.espera # {},
         recusou |-> a.recusa # "nenhuma",
         citou |-> a.recusa = "nenhuma" /\ \E p \in c.espera, q \in validas : SameBranch(p, q)]

RunGolden(c, g, r, ids, modelo, rule) ==
    Outcome(c, g, Answer(r, Replica[modelo][c.id][g], ids, rule), ToSet(r.plano.ancoras))

\* group_metrics of lc06
GenMetrics(outs) ==
    [g \in Grupos |->
        LET grupo == SelectSeq(outs, LAMBDA o : o.grupo = g)
            resp  == SelectSeq(grupo, LAMBDA o : ~o.abstem /\ o.espera)
        IN  [n |-> Len(grupo), n_answerable |-> Len(resp),
             refusal_ok |-> Mean(Soma(LAMBDA o : Um(o.recusou = o.abstem), grupo), Len(grupo)),
             false_answers |-> Soma(LAMBDA o : Um(~o.recusou /\ o.abstem), grupo),
             cited |-> Mean(Soma(LAMBDA o : Um(o.citou), resp), Len(resp))]]

GenGate(m, base) ==
    \A g \in Grupos :
        /\ ~Abaixo(m[g].refusal_ok, m[g].n, base[g].refusal_ok, base[g].n)
        /\ ~Abaixo(m[g].cited, m[g].n_answerable, base[g].cited, base[g].n_answerable)
        /\ m[g].false_answers <= base[g].false_answers
-----------------------------------------------------------------------------
(* The tables of all that, for the runs. *)

Regras == {"model", "model_text"}
Versoes == 1..Len(Leis)
LeiDe(n) == IF n = 0 THEN <<>> ELSE Leis[n]          \* 0: an empty table
Todos == [r \in 1..Len(Golden) |-> Todo(Golden[r])]
DevIds == [r \in 1..Len(Golden) |-> {c.id : c \in DevCases(Golden[r])}]

Contratos ==
    [l \in 0..Len(Leis) |->
        [r \in 1..Len(Golden) |-> l > 0 /\ Check(Golden[r], Leis[l], Trechos[l], l)]]

\* By the provisions and the vectors served, which need not be of one version.
Medidas ==
    [l \in 0..Len(Leis) |->
        [v \in Versoes |->
            [r \in 1..Len(Golden) |-> Evaluate(Golden[r], LeiDe(l), Trechos[v])]]]

\* And by the ids of the start of the run, the LLM and the rule.
Respostas ==
    [i \in 0..Len(Leis), l \in 0..Len(Leis), v \in Versoes, r \in 1..Len(Golden),
     m \in DOMAIN Replica, d \in Regras |->
        [n \in 1..Len(Todos[r]) |->
            LET c == Todos[r][n][1]
                g == Todos[r][n][2]
            IN  RunGolden(c, g, Retrieve(c.perguntas[g], DOMAIN LeiDe(i), LeiDe(l), Trechos[v]),
                          DOMAIN LeiDe(i), m, d)]]
=============================================================================
