------------------------ MODULE LegislacaoAvaliacao ------------------------
(***************************************************************************)
(* The last four tasks of airflow/dags/dag_rag_lc214.py and what they are  *)
(* about: load_postgres and embed_chunks project the law of the lake,      *)
(* golden_contract (golden.py) judges the labels against it,               *)
(* evaluate_retrieval (lc05_eval.py) gates the retrieval and               *)
(* generate_answers (lc06_generate.py) answers the dev phrasings one by    *)
(* one, gates the answers and leaves a report, which makes later runs skip.*)
(*                                                                         *)
(* Between any two tasks, and while the answers are generated, the law, the*)
(* labels, the LLM behind its tag or the decision rule may change; the     *)
(* operator may measure a baseline, or run lc06 by hand.  How the lake and *)
(* its projections are written is LegislacaoLake's matter: here each is one*)
(* step, or fails.                                                         *)
(***************************************************************************)
EXTENDS LegislacaoMedida

CONSTANT MaxAcasos   \* bound on changes, kills, forced runs and hand runs, together

ASSUME AvaliacaoAssumption == MaxAcasos \in Nat

VARIABLES
    pdf, rotulo, llm, decisao,   \* the law published; golden_set.yml, digest and rule
    baseBusca, baseGera,         \* eval_baseline.yml, answer_baseline.yml
    atual, tab, loja,            \* manifest; ai.lc214_dispositivo; ai.lc214_chunk
    relatorios,                  \* answers/dev/ of each law
    ativo, force, ti,            \* the active DAG run, its param, its tasks
    ultimo, intacto,             \* result of the last run; nothing changed since it opened
    ger,                         \* the two processes of lc06: of the DAG and by hand
    acasos                       \* how many of the bounded steps happened

mundo == <<pdf, rotulo, llm, decisao>>
bases == <<baseBusca, baseGera>>
dados == <<atual, tab, loja>>
dag == <<ativo, force, ultimo>>
vars == <<mundo, bases, dados, relatorios, dag, ti, intacto, ger, acasos>>

Tarefas == {"dados", "carga", "vetores", "contrato", "aval", "gera"}
Procs == {"dag", "mao"}
SemBase == [medida |-> FALSE, dev |-> {}]
Livre == [fase |-> "livre"]

\* The baselines committed with the first labels, or none yet.
BaseInicial == [medida |-> TRUE, m |-> Medidas[1][1][1]]
GeraInicial ==
    [medida |-> TRUE, dev |-> DevIds[1],
     m |-> GenMetrics(Respostas[1, 1, 1, 1, CHOOSE m \in DOMAIN Replica : TRUE, "model_text"])]

Init ==
    /\ pdf = 1 /\ rotulo = 1 /\ llm \in DOMAIN Replica /\ decisao = "model_text"
    /\ baseBusca \in {SemBase, BaseInicial} /\ baseGera \in {SemBase, GeraInicial}
    /\ atual = 0 /\ tab = 0 /\ loja = 0 /\ relatorios = {}
    /\ ativo = FALSE /\ force = FALSE /\ ti = [t \in Tarefas |-> "none"]
    /\ ultimo = "nenhum" /\ intacto = FALSE
    /\ ger = [p \in Procs |-> Livre]
    /\ acasos = 0

-----------------------------------------------------------------------------
(* The DAG: retries 0, trigger rule NONE_FAILED; the health checks between *)
(* the projections and the evaluation never fail the run.                  *)

Antes == [dados |-> {}, carga |-> {"dados"}, vetores |-> {"dados"}, contrato |-> {"dados"},
          aval |-> {"carga", "vetores", "contrato"}, gera |-> {"aval"}]
Falhados == {"falhou", "acima"}
Terminais == {"ok", "em_dia", "sem_llm"} \cup Falhados

\* Faulty form, for the mutants: ALL_DONE.
TodosProntos(t) == \A u \in Antes[t] : ti[u] \in Terminais
DepsOk(t) == \A u \in Antes[t] : ti[u] \in Terminais \ Falhados

Marca(t, s) == ti' = [ti EXCEPT ![t] = s]
Pronta(t) == ativo /\ ti[t] = "none" /\ DepsOk(t)
Acaso == acasos < MaxAcasos /\ acasos' = acasos + 1

AbrirRun(f) ==
    /\ ~ativo /\ ativo' = TRUE /\ force' = f /\ intacto' = TRUE
    /\ IF f THEN Acaso ELSE UNCHANGED acasos
    /\ UNCHANGED <<mundo, bases, dados, relatorios, ti, ultimo, ger>>

Extraida == pdf

\* extract_source, parse_dispositivos and build_chunks: the lake holds the law
\* published.  Killed after the manifest, the next run goes on from there.
RodarDados ==
    /\ Pronta("dados")
    /\ \/ atual' = Extraida /\ Marca("dados", "ok") /\ UNCHANGED acasos
       \/ atual' \in {atual, Extraida} /\ Marca("dados", "falhou") /\ Acaso
    /\ UNCHANGED <<mundo, bases, tab, loja, relatorios, dag, intacto, ger>>

RodarCarga ==
    /\ Pronta("carga")
    /\ \/ tab' = atual /\ Marca("carga", "ok") /\ UNCHANGED acasos
       \/ UNCHANGED tab /\ Marca("carga", "falhou") /\ Acaso
    /\ UNCHANGED <<mundo, bases, atual, loja, relatorios, dag, intacto, ger>>

RodarVetores ==
    /\ Pronta("vetores")
    /\ \/ loja' = atual /\ Marca("vetores", "ok") /\ UNCHANGED acasos
       \/ UNCHANGED loja /\ Marca("vetores", "falhou") /\ Acaso
    /\ UNCHANGED <<mundo, bases, atual, tab, relatorios, dag, intacto, ger>>

RodarContrato ==
    /\ Pronta("contrato")
    /\ \/ /\ Marca("contrato", IF Contratos[atual][rotulo] THEN "ok" ELSE "falhou")
          /\ UNCHANGED acasos
       \/ Marca("contrato", "falhou") /\ Acaso
    /\ UNCHANGED <<mundo, bases, dados, relatorios, dag, intacto, ger>>

\* lc05: the labels must be of the law of the vectors, then the gate.  Nothing
\* writes the tables between its first query and its last.
RotulosVelhos == loja = 0 \/ Golden[rotulo].lei # loja

RodarAval ==
    /\ Pronta("aval")
    /\ \/ /\ Marca("aval", IF /\ ~RotulosVelhos /\ baseBusca.medida
                              /\ Gate(Medidas[tab][loja][rotulo], baseBusca.m)
                           THEN "ok" ELSE "falhou")
          /\ UNCHANGED acasos
       \/ Marca("aval", "falhou") /\ Acaso
    /\ UNCHANGED <<mundo, bases, dados, relatorios, dag, intacto, ger>>

Propagar(t) ==
    /\ ativo /\ ti[t] = "none" /\ \E u \in Antes[t] : ti[u] \in Falhados
    /\ Marca(t, "acima")
    /\ UNCHANGED <<mundo, bases, dados, relatorios, dag, intacto, ger, acasos>>

\* The leaf decides the colour of the run.
FimRun ==
    /\ ativo /\ \A t \in Tarefas : ti[t] \in Terminais
    /\ ultimo' = IF ti["gera"] \in Falhados THEN "vermelha" ELSE "verde"
    /\ ativo' = FALSE /\ force' = FALSE /\ ti' = [t \in Tarefas |-> "none"]
    /\ UNCHANGED <<mundo, bases, dados, relatorios, intacto, ger, acasos>>

-----------------------------------------------------------------------------
(* lc06: `dag` runs --golden --dev --once --gate, `mao` --golden --dev with *)
(* --gate, --write-baseline or neither.                                     *)

\* Faulty form, for the mutants: without the labels.
SemRotulos(v, r, m) == <<v, m>>
Chave(v, r, m) == <<v, r, m>>

EmDia == \E x \in relatorios : x.pasta = atual /\ x.chave = Chave(loja, rotulo, llm)

Sai(p, s) ==
    /\ ger' = [ger EXCEPT ![p] = Livre]
    /\ IF p = "dag" THEN Marca("gera", s) ELSE UNCHANGED ti

\* main() and run(), up to the first phrasing: Ollama, the labels, --once.
ComecaGera(p, modo) ==
    /\ ger[p] = Livre
    /\ \/ Sai(p, "sem_llm")
       \/ (RotulosVelhos \/ DevIds[rotulo] = {}) /\ Sai(p, "falhou")
       \/ ~RotulosVelhos /\ p = "dag" /\ ~force /\ EmDia /\ Sai(p, "em_dia")
       \/ /\ ~RotulosVelhos /\ DevIds[rotulo] # {} /\ ~(p = "dag" /\ ~force /\ EmDia)
          /\ ger' = [ger EXCEPT ![p] =
                [fase |-> "gera", modo |-> modo, rotulo |-> rotulo, pasta |-> atual, indice |-> tab,
                 decisao |-> decisao, chave |-> Chave(loja, rotulo, llm), outs |-> <<>>]]
          /\ IF p = "dag" THEN Marca("gera", "rodando") ELSE UNCHANGED ti

RodarGera ==
    /\ Pronta("gera") /\ ComecaGera("dag", "gate")
    /\ UNCHANGED <<mundo, bases, dados, relatorios, dag, intacto, acasos>>

GerarAMao(modo) ==
    /\ Acaso
    /\ ComecaGera("mao", modo)
    /\ UNCHANGED <<mundo, bases, dados, relatorios, dag, intacto>>

Falta(p) == Len(Todos[ger[p].rotulo]) - Len(ger[p].outs)

\* One phrasing, with the rows, the vectors and the LLM of the moment; or the
\* call fails, and the whole run is a skip without a report.
Responde(p) ==
    /\ ger[p].fase = "gera" /\ Falta(p) > 0
    /\ \/ /\ LET r == ger[p].rotulo
                 o == Respostas[ger[p].indice, tab, loja, r, llm, ger[p].decisao]
             IN  ger' = [ger EXCEPT ![p].outs = Append(@, o[Len(@) + 1])]
          /\ UNCHANGED ti
       \/ Sai(p, "sem_llm")
    /\ UNCHANGED <<mundo, bases, dados, relatorios, dag, intacto, acasos>>

\* The report is written last: a regression leaves one, an error does not.
TerminaGera(p) ==
    LET g == ger[p]
        m == GenMetrics(g.outs)
        passa == GenGate(m, baseGera.m)
        erro == ~baseGera.medida \/ baseGera.dev # DevIds[g.rotulo]
        relata(ok) == relatorios' = relatorios \cup
            {[pasta |-> g.pasta, chave |-> g.chave, dev |-> DevIds[g.rotulo], passou |-> ok]}
    IN  /\ g.fase = "gera" /\ Falta(p) = 0
        /\ \/ g.modo = "mede" /\ relata(FALSE) /\ Sai(p, "ok") /\ UNCHANGED baseGera
           \/ /\ g.modo = "base" /\ relata(FALSE) /\ Sai(p, "ok")
              /\ baseGera' = [medida |-> TRUE, dev |-> DevIds[g.rotulo], m |-> m]
           \/ g.modo = "gate" /\ erro /\ Sai(p, "falhou") /\ UNCHANGED <<relatorios, baseGera>>
           \/ /\ g.modo = "gate" /\ ~erro
              /\ relata(passa) /\ Sai(p, IF passa THEN "ok" ELSE "falhou") /\ UNCHANGED baseGera
        /\ UNCHANGED <<mundo, baseBusca, dados, dag, intacto, acasos>>

MataGera(p) ==
    /\ ger[p].fase = "gera" /\ Acaso /\ Sai(p, "falhou")
    /\ UNCHANGED <<mundo, bases, dados, relatorios, dag, intacto>>

-----------------------------------------------------------------------------
(* The world. *)

Evento == Acaso /\ UNCHANGED <<bases, dados, relatorios, dag, ti, ger>>

Publica(v) ==
    /\ v # pdf /\ pdf' = v /\ intacto' = FALSE
    /\ Evento /\ UNCHANGED <<rotulo, llm, decisao>>
Reetiqueta(r) ==
    /\ r # rotulo /\ rotulo' = r /\ intacto' = FALSE
    /\ Evento /\ UNCHANGED <<pdf, llm, decisao>>
TrocaLlm(m) == m # llm /\ llm' = m /\ Evento /\ UNCHANGED <<pdf, rotulo, decisao, intacto>>
TrocaDecisao(d) ==
    d # decisao /\ decisao' = d /\ Evento /\ UNCHANGED <<pdf, rotulo, llm, intacto>>

\* lc05 --write-baseline
EscreverBase ==
    /\ Acaso
    /\ ~RotulosVelhos
    /\ baseBusca' = [medida |-> TRUE, m |-> Medidas[tab][loja][rotulo]] /\ intacto' = FALSE
    /\ UNCHANGED <<mundo, baseGera, dados, relatorios, dag, ti, ger>>

Airflow ==
    \/ \E f \in BOOLEAN : AbrirRun(f)
    \/ RodarDados \/ RodarCarga \/ RodarVetores \/ RodarContrato \/ RodarAval \/ RodarGera
    \/ \E t \in Tarefas : Propagar(t)
    \/ Responde("dag") \/ TerminaGera("dag") \/ FimRun

Mao ==
    \/ \E modo \in {"mede", "gate", "base"} : GerarAMao(modo)
    \/ Responde("mao") \/ TerminaGera("mao") \/ EscreverBase

Mundo ==
    \/ \E v \in Versoes : Publica(v)
    \/ \E r \in 1..Len(Golden) : Reetiqueta(r)
    \/ \E m \in DOMAIN Replica : TrocaLlm(m)
    \/ \E d \in Regras : TrocaDecisao(d)
    \/ \E p \in Procs : MataGera(p)

Next == Airflow \/ Mao \/ Mundo

Spec == Init /\ [][Next]_vars

\* The weekly run is opened and its tasks are run; nothing else is promised.
FairSpec == Spec /\ WF_vars(Airflow)
-----------------------------------------------------------------------------
(* Properties. *)

Quota == 0..Casas   \* a share of its group, in ten-thousandths
Metricas == [n : Nat, n_context : Nat, success : Quota, mrr : Quota, context : Quota]

\* State and baselines have the types the code gives them, and every metric of
\* a retrieval baseline is a share of its group (lc05_eval.py:153).
TypeOK ==
    /\ pdf \in Versoes /\ rotulo \in 1..Len(Golden) /\ llm \in DOMAIN Replica
    /\ decisao \in Regras /\ {atual, tab, loja} \subseteq 0..Len(Leis)
    /\ ativo \in BOOLEAN /\ force \in BOOLEAN /\ ultimo \in {"nenhum", "verde", "vermelha"}
    /\ ti \in [Tarefas -> {"none", "rodando"} \cup Terminais]
    /\ (ger["dag"] # Livre) = (ti["gera"] = "rodando")
    /\ \A p \in Procs : ger[p] # Livre => Falta(p) \in Nat
    /\ \A x \in relatorios : x.pasta \in Versoes /\ x.dev # {} /\ x.passou \in BOOLEAN
    /\ baseBusca.medida =>
          \A g \in Grupos :
              baseBusca.m[g] \in Metricas /\ baseBusca.m[g].n <= baseBusca.m[g].n_context

\* A run that ends green with nothing changed under it has served the law that
\* is published, in both projections, with labels that hold for it and a
\* retrieval within the tolerance of the baseline, although only the leaf
\* decides its colour (dag_rag_lc214.py:134-135, 157-159).
VerdeCoerente ==
    (~ativo /\ ultimo = "verde" /\ intacto) =>
        /\ tab = pdf /\ loja = pdf /\ atual = pdf
        /\ Contratos[pdf][rotulo]
        /\ baseBusca.medida /\ Gate(Medidas[pdf][pdf][rotulo], baseBusca.m)

\* The contract of the labels is enough for the metric: a case it lets through
\* with mode = all can be solved by some k chunks (golden.py:18, 168).
ContratoSolucionavel ==
    ti["contrato"] = "ok" =>
        LET T == Trechos[Golden[rotulo].lei]
        IN  \A c \in ToSet(Golden[rotulo].casos) :
               (Contratos[Golden[rotulo].lei][rotulo] /\ ~c.conhecido /\ Medido(c) /\ c.modo = "all") =>
                   \E S \in SUBSET DOMAIN T :
                       /\ Cardinality(S) <= TopK
                       /\ c.espera \subseteq UNION {ToSet(T[n].ids) : n \in S}

\* A generation skipped as up to date has behind it a complete report of the
\* same dev cases, on the law of the vectors (lc06_generate.py:760-770).
PuloFundado ==
    [][(ti["gera"] # "em_dia" /\ ti'["gera"] = "em_dia") =>
        \E x \in relatorios : /\ x.pasta = atual /\ x.chave[1] = loja
                               /\ x.dev = DevIds[rotulo]]_vars

Aprovado ==
    /\ Contratos[pdf][rotulo]
    /\ baseBusca.medida /\ Gate(Medidas[pdf][pdf][rotulo], baseBusca.m)

\* The answers the LLM gives now, on that law and under that rule, pass their gate.
RespostasPassam ==
    /\ baseGera.medida /\ baseGera.dev = DevIds[rotulo]
    /\ GenGate(GenMetrics(Respostas[pdf, pdf, pdf, rotulo, llm, decisao]), baseGera.m)


\* "the same inputs were already generated and gated" (lc06_generate.py:767)
PuloAprovado ==
    [][(ti["gera"] # "em_dia" /\ ti'["gera"] = "em_dia") =>
        \E x \in relatorios : /\ x.pasta = atual /\ x.chave = Chave(loja, rotulo, llm)
                               /\ x.passou]_vars
=============================================================================
