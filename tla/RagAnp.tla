------------------------------- MODULE RagAnp -------------------------------
(***************************************************************************)
(* The RAG over ANP prices: rag01_context.py and context_sync.py keep      *)
(* ai.rag_context_anp a projection of gold, run by dag_rag_anp on each     *)
(* publication or by hand; rag04_eval_retrival.py is the gate after it.    *)
(*                                                                         *)
(* A chunk_id is <id_fato>:<md5 of the text>, and the text is made of the  *)
(* other fields of the fact: a chunk is the record of Fatos.               *)
(***************************************************************************)
EXTENDS RagRoteador

CONSTANTS
    Golds,         \* the versions of gold, as dbt commits them
    Modelos, Inicial, \* embedding models, and the one of the DDL and the first env
    Dim,           \* [model -> size of its vectors]
    Distancia,     \* [model -> [id_fato -> distance to a question]]
    Golden,        \* GOLDEN_SET: [q, esperado, verdade, filtro, cnpj]
    TopK, MinRouting, MinValue,   \* TOP_K, and the thresholds in percent
    MaxMao, MaxFalhas, MaxTrocas   \* bounds of the instance

ASSUME RagAssumption ==
    /\ Len(Golds) \in Nat \ {0} /\ Len(Golden) \in Nat
    /\ Inicial \in Modelos /\ TopK \in Nat \ {0} /\ {MinRouting, MinValue} \subseteq 0..100
    /\ {MaxMao, MaxFalhas, MaxTrocas} \subseteq Nat

VARIABLES
    gold, publicando,  \* version of gold; committed, and its asset not yet emitted
    evento,            \* an asset event waits for a run of the DAG
    modelo,            \* RAG_EMBEDDING_MODEL of what starts now
    store, dim, indice,   \* rows [fato, modelo], size of the column, HNSW index
    proc,              \* the processes of rag01: "dag" and "mao"
    dag, ultimo,       \* ocioso, build, avaliar, avaliando; outcome of the last run
    aval,              \* the evaluation, kept after it ended
    usos,              \* runs by hand, failures, changes of model
    maoGravou          \* a run by hand wrote since the last run of the DAG began

mundo == <<gold, publicando, modelo>>
tabela == <<store, dim, indice>>
vars == <<gold, publicando, evento, modelo, store, dim, indice, proc, dag, ultimo,
          aval, usos, maoGravou>>

Procs == {"dag", "mao"}
Outro(p) == IF p = "dag" THEN "mao" ELSE "dag"
Parado(saida) ==
    [fase |-> "fora", saida |-> saida, modelo |-> Inicial, cheio |-> FALSE, quer |-> {},
     tem |-> {}, mods |-> {}, dimc |-> 0, mexeu |-> FALSE]

BuildChunks == [g \in 1..Len(Golds) |-> Fatos(Golds[g])]

\* The facts of gold are never all gone again: rag01 leaves the store as it is
\* when gold gives it no chunk.
ASSUME GoldNaoEsvazia ==
    \A g, h \in 1..Len(Golds) : g <= h /\ BuildChunks[h] = {} => BuildChunks[g] = {}

\* The tables are finite, and names have a length.
ASSUME GoldTipado ==
    \A g \in 1..Len(Golds) :
        /\ IsFiniteSet(Golds[g].ft)
        /\ \A p \in Golds[g].produtos : Len(p) \in Nat
        /\ \A c \in DOMAIN Golds[g].postos : Len(Golds[g].postos[c].municipio) \in Nat

Ids(linhas) == {l.fato : l \in linhas}
Linhas(fatos, m) == {[fato |-> f, modelo |-> m] : f \in fatos}

\* Faulty forms, for the mutants: a change of model goes unnoticed; the stale
\* chunks of a delta stay.
RefazSemModelo(r) == r.cheio \/ r.tem = {}
VelhosFicam(r) == IF r.cheio THEN r.tem ELSE {}

\* plan_sync, over what a process has read.
Refaz(r) == r.cheio \/ r.mods \ {r.modelo} # {} \/ r.tem = {}
Novos(r) == IF Refaz(r) THEN r.quer ELSE r.quer \ r.tem
Velhos(r) == IF Refaz(r) THEN r.tem ELSE r.tem \ r.quer
Vazio(r) == ~Refaz(r) /\ Novos(r) = {} /\ Velhos(r) = {}

SemAval ==
    [n |-> 0, g |-> 0, modelo |-> Inicial, obtido |-> SemValor,
     pede |-> FALSE, rot |-> 0, val |-> 0, achou |-> 0, busca |-> 0]

Init ==
    /\ gold = 1 /\ publicando = FALSE /\ evento = TRUE /\ modelo = Inicial
    /\ store = {} /\ dim = Dim[Inicial] /\ indice = TRUE
    /\ proc = [p \in Procs |-> Parado("nenhuma")]
    /\ dag = "ocioso" /\ ultimo = "nenhum" /\ aval = SemAval
    /\ usos = [mao |-> 0, falhas |-> 0, trocas |-> 0]
    /\ maoGravou = FALSE

-----------------------------------------------------------------------------
(* The world: dbt commits gold and then publish_gold emits the asset; the  *)
(* operator changes the model of the environment.                          *)

PublicaGold ==
    /\ gold < Len(Golds) /\ gold' = gold + 1 /\ publicando' = TRUE
    /\ UNCHANGED <<evento, modelo, tabela, proc, dag, ultimo, aval, usos, maoGravou>>

EmiteAsset ==
    /\ publicando /\ publicando' = FALSE /\ evento' = TRUE
    /\ UNCHANGED <<gold, modelo, tabela, proc, dag, ultimo, aval, usos, maoGravou>>

TrocaModelo(m) ==
    /\ m # modelo /\ usos.trocas < MaxTrocas
    /\ modelo' = m /\ usos' = [usos EXCEPT !.trocas = @ + 1]
    /\ UNCHANGED <<gold, publicando, evento, tabela, proc, dag, ultimo, aval, maoGravou>>

-----------------------------------------------------------------------------
(* rag01: gold, then the ids, then the models of the store, each its own   *)
(* query; the plan; minutes of embedding; one transaction.                 *)

Comeca(p, cheio) ==
    proc' = [proc EXCEPT ![p] = [Parado("nenhuma") EXCEPT
                !.fase = "gold", !.modelo = modelo, !.cheio = cheio]]

Resultado(saida) ==
    CASE saida = "ok" -> [dag |-> "avaliar", ultimo |-> ultimo]
      [] saida = "99" -> [dag |-> "ocioso", ultimo |-> "verde"]
      [] OTHER -> [dag |-> "ocioso", ultimo |-> "vermelha"]

\* The process ends; after a commit the other one works on a stale plan.
Encerra(p, saida, gravou) ==
    /\ proc' = [x \in Procs |->
          IF x = p THEN Parado(saida)
          ELSE IF gravou /\ proc[x].fase \in {"mods", "plano", "rx"}
               THEN [proc[x] EXCEPT !.mexeu = TRUE] ELSE proc[x]]
    /\ maoGravou' = (maoGravou \/ (gravou /\ p = "mao"))
    /\ IF p = "dag" THEN dag' = Resultado(saida).dag /\ ultimo' = Resultado(saida).ultimo
       ELSE UNCHANGED <<dag, ultimo>>

Avanca(p, r) == proc' = [proc EXCEPT ![p] = r] /\ UNCHANGED <<dag, ultimo, maoGravou>>

LerGold(p) ==
    /\ proc[p].fase = "gold"
    /\ LET quer == BuildChunks[gold]
       IN  IF quer = {} THEN Encerra(p, "99", FALSE)
           ELSE Avanca(p, [proc[p] EXCEPT !.fase = "ids", !.quer = quer])
    /\ UNCHANGED <<mundo, evento, tabela, aval, usos>>

LerIds(p) ==
    /\ proc[p].fase = "ids"
    /\ Avanca(p, [proc[p] EXCEPT !.fase = "mods", !.tem = Ids(store)])
    /\ UNCHANGED <<mundo, evento, tabela, aval, usos>>

LerModelos(p) ==
    /\ proc[p].fase = "mods"
    /\ LET r == [proc[p] EXCEPT !.fase = "plano", !.dimc = dim,
                                !.mods = {l.modelo : l \in store}]
       IN  IF Vazio(r) /\ indice THEN Encerra(p, "99", FALSE) ELSE Avanca(p, r)
    /\ UNCHANGED <<mundo, evento, tabela, aval, usos>>

\* aplicar().  DELETE and COPY hold ROW EXCLUSIVE until the commit; TRUNCATE
\* and DROP INDEX need the table alone, CREATE INDEX, which comes last, needs
\* it without another writer.
Sozinho(p) == proc[Outro(p)].fase # "rx"

\* The end of a transaction: committed, or committed and then killed before
\* the exit code, which fails the task (a bounded failure).
Saidas == {"ok"} \cup IF usos.falhas < MaxFalhas THEN {"erro"} ELSE {}
Conta(saida) == usos' = [usos EXCEPT !.falhas = @ + IF saida = "erro" THEN 1 ELSE 0]

\* Everything new: TRUNCATE, the column resized if it was read with another
\* size, COPY, index.
TrocarTudo(p) ==
    LET r == proc[p]
        col == IF r.dimc # Dim[r.modelo] THEN Dim[r.modelo] ELSE dim
    IN  /\ r.fase = "plano" /\ Refaz(r) /\ Sozinho(p)
        /\ IF Dim[r.modelo] # col
           THEN Encerra(p, "erro", FALSE) /\ UNCHANGED <<tabela, usos>>
           ELSE \E saida \in Saidas :
                   /\ store' = Linhas(r.quer, r.modelo) /\ dim' = col /\ indice' = TRUE
                   /\ Encerra(p, saida, TRUE) /\ Conta(saida)
        /\ UNCHANGED <<mundo, evento, aval>>

CopiarSemChave(p) ==  \* faulty: COPY into a table without its constraints
    /\ proc[p].fase = "plano" /\ ~Refaz(proc[p]) /\ ~Vazio(proc[p])
    /\ Avanca(p, [proc[p] EXCEPT !.fase = "rx"])
    /\ UNCHANGED <<mundo, evento, tabela, aval, usos>>

\* A delta: rows of another size, or a chunk_id that exists by now, abort it.
Copiar(p) ==
    LET r == proc[p]
        sobram == Ids(store) \ Velhos(r)
    IN  /\ r.fase = "plano" /\ ~Refaz(r) /\ ~Vazio(r)
        /\ IF (Novos(r) # {} /\ Dim[r.modelo] # dim) \/ Novos(r) \cap sobram # {}
           THEN Encerra(p, "erro", FALSE)
           ELSE Avanca(p, [r EXCEPT !.fase = "rx"])
        /\ UNCHANGED <<mundo, evento, tabela, aval, usos>>

Confirmar(p) ==
    LET r == proc[p]
    IN  /\ r.fase = "rx" \/ (r.fase = "plano" /\ Vazio(r))
        /\ Sozinho(p)
        /\ \E saida \in Saidas :
              /\ store' = {l \in store : l.fato \notin Velhos(r)} \cup Linhas(Novos(r), r.modelo)
              /\ indice' = TRUE /\ UNCHANGED dim
              /\ Encerra(p, saida, TRUE) /\ Conta(saida)
        /\ UNCHANGED <<mundo, evento, aval>>

\* Two writers, each waiting for the other to create the index: Postgres
\* aborts one of them.
Impasse(p) ==
    /\ proc[p].fase = "rx" /\ ~Sozinho(p)
    /\ Encerra(p, "erro", FALSE)
    /\ UNCHANGED <<mundo, evento, tabela, aval, usos>>

SemTempo == FALSE  \* faulty: the task has lost its execution_timeout

\* execution_timeout, while the other process keeps the table.
EsgotaTempo ==
    /\ proc["dag"].fase \in {"plano", "rx"} /\ ~Sozinho("dag")
    /\ Encerra("dag", "erro", FALSE)
    /\ UNCHANGED <<mundo, evento, tabela, aval, usos>>

Morre(p) ==
    /\ proc[p].fase # "fora" /\ usos.falhas < MaxFalhas
    /\ Encerra(p, "erro", FALSE) /\ Conta("erro")
    /\ UNCHANGED <<mundo, evento, tabela, aval>>

\* The index is lost while nothing runs: a restore, or a build of the time
\* before one transaction.
PerdeIndice ==
    /\ dag = "ocioso" /\ proc["mao"].fase = "fora"
    /\ indice /\ usos.falhas < MaxFalhas /\ store # {}
    /\ indice' = FALSE /\ Conta("erro")
    /\ UNCHANGED <<mundo, evento, store, dim, proc, dag, ultimo, aval, maoGravou>>

\* The documented repair by hand, python rag01_context.py [--full-refresh].
RodarAMao(cheio) ==
    /\ proc["mao"].fase = "fora" /\ usos.mao < MaxMao
    /\ Comeca("mao", cheio) /\ usos' = [usos EXCEPT !.mao = @ + 1]
    /\ UNCHANGED <<mundo, evento, tabela, dag, ultimo, aval, maoGravou>>

-----------------------------------------------------------------------------
(* The DAG: one run at a time, opened by the asset.                        *)

AbrirRun ==
    /\ dag = "ocioso" /\ evento
    /\ evento' = FALSE /\ dag' = "build" /\ maoGravou' = FALSE
    /\ Comeca("dag", FALSE) /\ aval' = SemAval
    /\ UNCHANGED <<mundo, tabela, ultimo, usos>>

\* rag04: the vocabulary once, then each question of the golden set and, in a
\* later query, its truth.
ComecaAval ==
    /\ dag = "avaliar" /\ dag' = "avaliando"
    /\ aval' = [SemAval EXCEPT !.n = 1, !.g = gold, !.modelo = modelo]
    /\ UNCHANGED <<mundo, evento, tabela, proc, ultimo, usos, maoGravou>>

FimAval(saida) == dag' = "ocioso" /\ ultimo' = saida

Perto(m) ==
    LET d(f) == Distancia[m][f.id]
        antes(f) == Cardinality({x \in Ids(store) : d(x) < d(f) \/ (d(x) = d(f) /\ x.valor < f.valor)})
    IN  [n \in 1..Cardinality(Ids(store)) |-> CHOOSE f \in Ids(store) : antes(f) = n - 1]

\* The answer to item n with the vocabulary of gold d over gold g.
Respostas ==
    [n \in 1..Len(Golden) |-> [d \in 1..Len(Golds) |-> [g \in 1..Len(Golds) |->
        LET i == Interpretar(Golden[n].q, Dimensoes(Golds[d]))
        IN  [sql |-> UsaSql(i), metodo |-> Metodo(i),
             valor |-> IF UsaSql(i) THEN ExecutarSql(BuildChunks[g], i).valor ELSE SemValor]]]]

Recuperar ==
    LET it == Golden[aval.n]
        r == Respostas[aval.n][aval.g][gold]
        mede == ~r.sql /\ it.cnpj # ""
        perto == BuscarVetorial(Perto(aval.modelo), TopK)
    IN  /\ dag = "avaliando" /\ ~aval.pede /\ aval.n <= Len(Golden)
        /\ IF ~r.sql /\ Dim[aval.modelo] # dim
           THEN FimAval("vermelha") /\ UNCHANGED aval
           ELSE /\ UNCHANGED <<dag, ultimo>>
                /\ aval' = [aval EXCEPT
                     !.pede = it.verdade # "", !.obtido = r.valor,
                     !.n = @ + IF it.verdade = "" THEN 1 ELSE 0,
                     !.rot = @ + IF r.metodo = it.esperado THEN 1 ELSE 0,
                     !.busca = @ + IF mede THEN 1 ELSE 0,
                     !.achou = @ + IF mede /\ \E n \in 1..Len(perto) : perto[n].cnpj = it.cnpj
                                   THEN 1 ELSE 0]
        /\ UNCHANGED <<mundo, evento, tabela, proc, usos, maoGravou>>

\* sql_verdade, an independent query per question (the CNPJ of the set is of
\* the state): its WHERE over the facts or over dm_postos.
Filtrados(g, it) ==
    {f \in Fatos(g) : /\ it.filtro.cnpj \in {"", f.cnpj}
                      /\ it.filtro.municipio \in {Nada, f.municipio}
                      /\ it.filtro.produto \in {Nada, f.produto}}
Revendas(g, it) ==
    {c \in DOMAIN g.postos : g.postos[c].uf = UF /\ g.postos[c].municipio = it.filtro.municipio}

Verdade(g, it) ==
    LET S == Filtrados(g, it)
    IN  CASE it.verdade = "revendas" -> Inteiro(Cardinality(Revendas(g, it)))
          [] it.verdade = "postos" -> Inteiro(Cardinality(Postos(S)))
          [] it.verdade \notin {"revendas", "postos"} /\ S = {} -> SemValor
          [] it.verdade = "max" /\ S # {} -> Inteiro(Max(Valores(S)))
          [] it.verdade = "min" /\ S # {} -> Inteiro(Min(Valores(S)))
          [] OTHER -> Fracao(S)

Verdades == [n \in 1..Len(Golden) |-> [g \in 1..Len(Golds) |-> Verdade(Golds[g], Golden[n])]]

Iguais(a, b) == a.n > 0 /\ b.n > 0 /\ a.s * b.n = b.s * a.n

ConferirVerdade ==
    /\ dag = "avaliando" /\ aval.pede
    /\ aval' = [aval EXCEPT !.pede = FALSE, !.n = @ + 1, !.obtido = SemValor,
                  !.val = @ + IF Iguais(aval.obtido, Verdades[aval.n][gold]) THEN 1 ELSE 0]
    /\ UNCHANGED <<mundo, evento, tabela, proc, dag, ultimo, usos, maoGravou>>

\* The gate: routing and value accuracy, each skipped when nothing measured it.
Passa(a) ==
    LET com == {n \in 1..Len(Golden) : Golden[n].verdade # ""}
    IN  /\ a.rot * 100 >= MinRouting * Len(Golden)
        /\ com # {} => a.val * 100 >= MinValue * Cardinality(com)

Resumir ==
    /\ dag = "avaliando" /\ aval.n > Len(Golden)
    /\ FimAval(IF Passa(aval) THEN "verde" ELSE "vermelha")
    /\ UNCHANGED <<mundo, evento, tabela, proc, aval, usos, maoGravou>>

MorreAval ==
    /\ dag \in {"avaliar", "avaliando"} /\ usos.falhas < MaxFalhas
    /\ FimAval("vermelha") /\ aval' = SemAval /\ Conta("erro")
    /\ UNCHANGED <<mundo, evento, tabela, proc, maoGravou>>

-----------------------------------------------------------------------------
Rag01(p) ==
    \/ LerGold(p) \/ LerIds(p) \/ LerModelos(p)
    \/ TrocarTudo(p) \/ Copiar(p) \/ Confirmar(p) \/ Impasse(p)

Airflow == AbrirRun \/ ComecaAval \/ Recuperar \/ ConferirVerdade \/ Resumir \/ EsgotaTempo

Next ==
    \/ PublicaGold \/ EmiteAsset \/ \E m \in Modelos : TrocaModelo(m)
    \/ \E p \in Procs : Rag01(p) \/ Morre(p)
    \/ \E cheio \in BOOLEAN : RodarAMao(cheio)
    \/ Airflow \/ MorreAval
    \/ PerdeIndice

Spec == Init /\ [][Next]_vars
FairSpec == Spec /\ WF_vars(Rag01("dag") \/ Airflow)

-----------------------------------------------------------------------------
(* Properties. *)

TypeOK ==
    /\ gold \in 1..Len(Golds) /\ modelo \in Modelos
    /\ \A l \in store : l.modelo \in Modelos /\ Dim[l.modelo] = dim
    /\ \A l, k \in store : l.fato = k.fato => l = k
    /\ \A p \in Procs : proc[p].fase \in {"fora", "gold", "ids", "mods", "plano", "rx"}
    /\ (proc["dag"].fase # "fora") = (dag = "build")
    /\ dag \in {"ocioso", "build", "avaliar", "avaliando"}
    /\ ultimo \in {"nenhum", "verde", "vermelha"}
    /\ aval.n \in 0..(Len(Golden) + 1)

\* A synchronisation that says it is done, and that nobody wrote under, leaves
\* exactly the chunks of the gold it read, all of its own model and indexed,
\* from whatever store an earlier failure, model or race left
\* (context_sync.py:8-10, 64-67; rag01_context.py:9).
SincroniaExata ==
    [][\A p \in Procs :
        (/\ proc[p].fase \in {"mods", "plano", "rx"} /\ ~proc[p].mexeu
         /\ proc'[p].saida \in {"ok", "99"})
            => store' = Linhas(proc[p].quer, proc[p].modelo) /\ indice']_vars

\* After a green run with no publication on its way the store has what gold
\* has, whatever was published during the run, unless a run by hand wrote
\* since it began: no event is lost and no snapshot outlives its successor.
SemDefasagem ==
    (dag = "ocioso" /\ ultimo = "verde" /\ ~evento /\ ~publicando /\ ~maoGravou)
        => Ids(store) = BuildChunks[gold]

\* The gate is not red for a reason of its own: over a gold that did not change
\* under it and that has a price for every question of the golden set and for
\* every station, each question is routed as expected and its value is the truth
\* (ADR 0005; rag_query_router.py against rag04_eval_retrival.py:71-90).
Acomodada(g) ==
    /\ \A n \in 1..Len(Golden) : Filtrados(g, Golden[n]) # {}
    /\ \A c \in DOMAIN g.postos : g.postos[c].uf = UF => \E f \in Fatos(g) : f.cnpj = c
ComVerdade(fim) == {n \in 1..fim : Golden[n].verdade # ""}
PortaoHonesto ==
    (dag = "avaliando" /\ aval.n > Len(Golden) /\ aval.g = gold /\ Acomodada(Golds[gold]))
        => aval.rot = Len(Golden) /\ aval.val = Cardinality(ComVerdade(Len(Golden)))

\* What PortaoHonesto asks of the golden set, over such a gold: a question names
\* what the WHERE of its truth names and asks for its function, without a period,
\* and any other name of gold found in it is shorter.
Diz(texto, termos, t) ==
    IF t = Nada THEN \A u \in termos : ~Ocorre(u, texto) /\ ~Ocorre(u, Certo(texto))
    ELSE Ocorre(t, texto) /\ \A u \in termos \ {t} : Ocorre(u, texto) => Len(u) < Len(t)
Nomeia(q, g, f) ==
    /\ Diz(q.texto, Dimensoes(g).produtos, f.produto)
    /\ Diz(q.texto, Dimensoes(g).municipios, f.municipio)
    /\ Diz(q.texto, Dimensoes(g).bandeiras, Nada)

Roteada(it, g, a) ==
    \/ it.esperado = "vetorial" /\ it.q.cnpj = "" /\ a = "nenhuma"
    \/ /\ it.esperado = "vetorial" /\ it.q.cnpj = "" /\ Nomeia(it.q, g, it.filtro)
       /\ it.filtro.produto = Nada /\ it.filtro.municipio = Nada
    \/ it.esperado = "sql_detalhe" /\ it.q.cnpj # "" /\ a = "nenhuma"
    \/ it.esperado = "sql_agregado" /\ it.q.cnpj # "" /\ a # "nenhuma"
    \/ /\ it.esperado = "sql_agregado" /\ a # "nenhuma" /\ Nomeia(it.q, g, it.filtro)
       /\ it.filtro.produto # Nada \/ it.filtro.municipio # Nada

Funcao == [revendas |-> {"COUNT", "LISTA"}, postos |-> {"COUNT", "LISTA"},
           avg |-> {"STATS"}, max |-> {"MAX"}, min |-> {"MIN"}]
Medida(it, g, a) ==
    /\ it.esperado = "sql_agregado" /\ it.verdade \in DOMAIN Funcao /\ a \in Funcao[it.verdade]
    /\ it.q.cnpj = it.filtro.cnpj /\ Nomeia(it.q, g, it.filtro)
    /\ it.q.quando.tipo = "nada" /\ ~it.q.recente
    /\ it.verdade = "revendas" => it.filtro.cnpj = "" /\ it.filtro.produto = Nada
                                  /\ it.filtro.municipio # Nada
    /\ it.verdade \in {"avg", "max", "min"} => it.filtro.produto \in ToSet(Alfabeto) \ {Nada}

GoldenClaro ==
    \A g \in 1..Len(Golds), n \in 1..Len(Golden) : Acomodada(Golds[g]) =>
        LET it == Golden[n]
            a == DetectarAgregacao(it.q.pede)
        IN  Roteada(it, Golds[g], a) /\ (it.verdade # "" => Medida(it, Golds[g], a))

\* A run by hand that holds the table, or dies holding a stale plan, does not
\* keep the run of the DAG open (dag_rag_anp.py:43-46, 51; max_active_runs=1).
RunTermina == (dag # "ocioso") ~> (dag = "ocioso")
=============================================================================
