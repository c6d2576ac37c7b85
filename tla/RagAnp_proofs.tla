---------------------------- MODULE RagAnp_proofs ----------------------------
(***************************************************************************)
(* The synchronisation of ai.rag_context_anp is exact, and the gate after  *)
(* it is open to a clear golden set, for every history of gold, every set  *)
(* of models and any number of runs by hand, failures and changes of model.*)
(***************************************************************************)
EXTENDS RagAnp, FiniteSetTheorems, WellFoundedInduction, TLAPS

Fases == {"fora", "gold", "ids", "mods", "plano", "rx"}
Saida == {"nenhuma", "ok", "99", "erro"}
Chunks == UNION {BuildChunks[g] : g \in 1..Len(Golds)}

Processo ==
    [fase : Fases, saida : Saida, modelo : Modelos, cheio : BOOLEAN,
     quer : SUBSET Chunks, tem : SUBSET Chunks, mods : SUBSET Modelos,
     dimc : {0} \cup {Dim[m] : m \in Modelos}, mexeu : BOOLEAN]

Tipo ==
    /\ gold \in 1..Len(Golds) /\ modelo \in Modelos
    /\ store \in SUBSET [fato : Chunks, modelo : Modelos]
    /\ dim \in {Dim[m] : m \in Modelos}
    /\ proc \in [Procs -> Processo]

\* What a process has read is still what the store holds, as long as nobody
\* wrote; a process in the middle of a delta has planned one.
Leituras(r) ==
    /\ r.fase # "fora" => r.saida = "nenhuma"
    /\ r.fase \in {"mods", "plano", "rx"} /\ ~r.mexeu => r.tem = Ids(store)
    /\ r.fase \in {"plano", "rx"} /\ ~r.mexeu => r.mods = {l.modelo : l \in store}
    /\ r.fase = "rx" => ~Refaz(r)

IInv == Tipo /\ \A p \in Procs : Leituras(proc[p])

\* The step of SincroniaExata, for one process.
Exata(p) ==
    (/\ proc[p].fase \in {"mods", "plano", "rx"} /\ ~proc[p].mexeu
     /\ proc'[p].saida \in {"ok", "99"})
        => store' = Linhas(proc[p].quer, proc[p].modelo) /\ indice'

-----------------------------------------------------------------------------
(* Plans. *)

\* A plan of nothing, made of what the store holds, finds the store in sync.
LEMMA PlanoVazio ==
    ASSUME Tipo, NEW r \in Processo, Vazio(r),
           r.tem = Ids(store), r.mods = {l.modelo : l \in store}
    PROVE  store = Linhas(r.quer, r.modelo)
<1>1. r.tem = r.quer
  BY DEF Vazio, Novos, Velhos, Tipo, Processo
<1>2. \A l \in store : l.modelo = r.modelo /\ l.fato \in r.quer
  BY <1>1 DEF Vazio, Refaz, Ids
<1>3. \A f \in r.quer : \E l \in store : l.fato = f
  BY <1>1 DEF Ids
<1>4. \A l \in store : l = [fato |-> l.fato, modelo |-> l.modelo]
  BY DEF Tipo
<1>5. ASSUME NEW l \in store PROVE l \in Linhas(r.quer, r.modelo)
  BY <1>2, <1>4 DEF Linhas
<1>6. ASSUME NEW l \in Linhas(r.quer, r.modelo) PROVE l \in store
  <2>1. PICK f \in r.quer : l = [fato |-> f, modelo |-> r.modelo]
    BY <1>6 DEF Linhas
  <2>2. PICK k \in store : k.fato = f
    BY <1>3
  <2>3. k = l
    BY <1>2, <1>4, <2>1, <2>2
  <2>4. QED
    BY <2>2, <2>3
<1>7. QED
  BY <1>5, <1>6

\* A delta planned over the store makes it exactly what was wanted.
LEMMA DeltaExato ==
    ASSUME Tipo, NEW r \in Processo, ~Refaz(r),
           r.tem = Ids(store), r.mods = {l.modelo : l \in store}
    PROVE  {l \in store : l.fato \notin Velhos(r)} \cup Linhas(Novos(r), r.modelo)
             = Linhas(r.quer, r.modelo)
<1> DEFINE S == {l \in store : l.fato \notin Velhos(r)} \cup Linhas(Novos(r), r.modelo)
<1>1. /\ Novos(r) = r.quer \ Ids(store)
      /\ Velhos(r) = Ids(store) \ r.quer
      /\ \A l \in store : l.modelo = r.modelo
  BY DEF Novos, Velhos, Refaz
<1>2. \A l \in store : l = [fato |-> l.fato, modelo |-> l.modelo] /\ l.fato \in Ids(store)
  BY DEF Tipo, Ids
<1>3. ASSUME NEW l \in S PROVE l \in Linhas(r.quer, r.modelo)
  <2>1. CASE l \in store /\ l.fato \notin Velhos(r)
    BY <1>1, <1>2, <2>1 DEF Linhas
  <2>2. CASE l \in Linhas(Novos(r), r.modelo)
    BY <1>1, <2>2 DEF Linhas
  <2>3. QED
    BY <1>3, <2>1, <2>2
<1>4. ASSUME NEW l \in Linhas(r.quer, r.modelo) PROVE l \in S
  <2>1. PICK f \in r.quer : l = [fato |-> f, modelo |-> r.modelo]
    BY <1>4 DEF Linhas
  <2>2. CASE f \in Ids(store)
    <3>1. PICK k \in store : k.fato = f
      BY <2>2 DEF Ids
    <3>2. k = l /\ k.fato \notin Velhos(r)
      BY <1>1, <1>2, <2>1, <3>1
    <3>3. QED
      BY <3>1, <3>2
  <2>3. CASE f \notin Ids(store)
    BY <1>1, <2>1, <2>3 DEF Linhas
  <2>4. QED
    BY <2>2, <2>3
<1>5. QED
  BY <1>3, <1>4
-----------------------------------------------------------------------------
(* Steps of a process. *)

LEMMA ParadoTipo ==
    ASSUME NEW s \in Saida
    PROVE  /\ Parado(s) \in Processo /\ Parado(s).fase = "fora" /\ Parado(s).saida = s
           /\ ~Parado(s).mexeu
BY RagAssumption DEF Parado, Processo, Fases

\* A process that ends leaves the other one as it was, or on a stale plan.
LEMMA EncerraTipo ==
    ASSUME Tipo, NEW p \in Procs, NEW s \in Saida, NEW g \in BOOLEAN, Encerra(p, s, g)
    PROVE  /\ proc' \in [Procs -> Processo]
           /\ proc'[p] = Parado(s)
           /\ \A x \in Procs \ {p} :
                 \/ proc'[x] = proc[x] /\ ~(g /\ proc[x].fase \in {"mods", "plano", "rx"})
                 \/ proc'[x] = [proc[x] EXCEPT !.mexeu = TRUE]
<1>1. Parado(s) \in Processo
  BY ParadoTipo
<1>2. \A x \in Procs : proc[x] \in Processo /\ [proc[x] EXCEPT !.mexeu = TRUE] \in Processo
  BY DEF Tipo, Processo
<1>3. QED
  BY <1>1, <1>2 DEF Encerra

\* The other process keeps its invariant, and its end is not this step.
LEMMA OutroProcesso ==
    ASSUME IInv, NEW p \in Procs, NEW s \in Saida, NEW g \in BOOLEAN, Encerra(p, s, g),
           g \/ UNCHANGED store, NEW x \in Procs \ {p}
    PROVE  Leituras(proc[x])' /\ Exata(x)
<1>1. \/ proc'[x] = proc[x] /\ ~(g /\ proc[x].fase \in {"mods", "plano", "rx"})
      \/ proc'[x] = [proc[x] EXCEPT !.mexeu = TRUE]
  BY EncerraTipo DEF IInv
<1>2. Leituras(proc[x]) /\ proc[x] \in Processo
  BY DEF IInv, Tipo
<1>3. CASE proc'[x] = proc[x] /\ ~(g /\ proc[x].fase \in {"mods", "plano", "rx"})
  BY <1>2, <1>3 DEF Leituras, Exata, Refaz, Ids
<1>4. CASE proc'[x] = [proc[x] EXCEPT !.mexeu = TRUE]
  BY <1>2, <1>4 DEF Leituras, Exata, Refaz, Processo
<1>5. QED
  BY <1>1, <1>3, <1>4

\* A process that ends without writing, and does not say it is done.
LEMMA Falha ==
    ASSUME IInv, NEW p \in Procs, Encerra(p, "erro", FALSE), UNCHANGED <<store, dim, mundo>>
    PROVE  IInv' /\ \A q \in Procs : Exata(q)
<1> DEFINE s == "erro"
<1>1. s \in Saida
  BY DEF Saida
<1>2. proc' \in [Procs -> Processo] /\ proc'[p] = Parado(s)
  BY <1>1, EncerraTipo DEF IInv
<1>3. \A x \in Procs \ {p} : Leituras(proc[x])' /\ Exata(x)
  BY <1>1, OutroProcesso
<1>4. Leituras(proc[p])' /\ Exata(p)
  BY <1>1, <1>2, ParadoTipo DEF Leituras, Exata
<1>5. Tipo'
  BY <1>2 DEF IInv, Tipo, mundo
<1>6. QED
  BY <1>3, <1>4, <1>5 DEF IInv

\* A process that goes on with what it has read.
LEMMA Segue ==
    ASSUME IInv, NEW p \in Procs, NEW r \in Processo, proc' = [proc EXCEPT ![p] = r],
           UNCHANGED <<store, dim, mundo>>, Leituras(r), r.saida = "nenhuma"
    PROVE  IInv' /\ \A q \in Procs : Exata(q)
<1>1. Tipo'
  BY DEF IInv, Tipo, mundo
<1>2. ASSUME NEW q \in Procs PROVE Leituras(proc[q])' /\ Exata(q)
  <2>1. CASE q = p
    <3>1. proc'[q] = r
      BY <2>1 DEF IInv, Tipo
    <3>2. QED
      BY <3>1 DEF Leituras, Exata, Refaz, Ids
  <2>2. CASE q # p
    <3>1. proc'[q] = proc[q] /\ Leituras(proc[q])
      BY <2>2 DEF IInv, Tipo
    <3>2. QED
      BY <3>1 DEF Leituras, Exata, Refaz, Ids
  <2>3. QED
    BY <2>1, <2>2
<1>3. QED
  BY <1>1, <1>2 DEF IInv
-----------------------------------------------------------------------------
(* The actions. *)

LEMMA ComecaPasso ==
    ASSUME IInv, NEW p \in Procs, NEW cheio \in BOOLEAN, Comeca(p, cheio),
           UNCHANGED <<store, dim, mundo>>
    PROVE  IInv' /\ \A q \in Procs : Exata(q)
<1> DEFINE r == [Parado("nenhuma") EXCEPT !.fase = "gold", !.modelo = modelo, !.cheio = cheio]
<1>1. r \in Processo /\ r.fase = "gold" /\ r.saida = "nenhuma"
  BY DEF Parado, Processo, Fases, Saida, IInv, Tipo
<1>2. Leituras(r)
  BY <1>1 DEF Leituras
<1>3. QED
  BY <1>1, <1>2, Segue DEF Comeca

LEMMA LerGoldPasso ==
    ASSUME IInv, NEW p \in Procs, LerGold(p)
    PROVE  IInv' /\ \A q \in Procs : Exata(q)
<1> DEFINE quer == BuildChunks[gold]
           r == [proc[p] EXCEPT !.fase = "ids", !.quer = quer]
<1>1. UNCHANGED <<store, dim, mundo>> /\ proc[p].fase = "gold" /\ proc[p] \in Processo
  BY DEF LerGold, tabela, IInv, Tipo
<1>2. quer \in SUBSET Chunks
  BY DEF IInv, Tipo, Chunks
<1>3. CASE Encerra(p, "99", FALSE)
  <2>1. "99" \in Saida
    BY DEF Saida
  <2>2. proc' \in [Procs -> Processo] /\ proc'[p] = Parado("99")
    BY <1>3, <2>1, EncerraTipo DEF IInv
  <2>3. Tipo'
    BY <1>1, <2>2 DEF IInv, Tipo, mundo
  <2>4. \A x \in Procs \ {p} : Leituras(proc[x])' /\ Exata(x)
    BY <1>1, <1>3, <2>1, OutroProcesso
  <2>5. Leituras(proc[p])' /\ Exata(p)
    BY <1>1, <2>1, <2>2, ParadoTipo DEF Leituras, Exata
  <2>6. QED
    BY <2>3, <2>4, <2>5 DEF IInv
<1>4. CASE Avanca(p, r)
  <2>1. proc[p].saida = "nenhuma"
    BY <1>1 DEF IInv, Leituras
  <2>2. r \in Processo /\ r.fase = "ids" /\ r.saida = "nenhuma"
    BY <1>1, <1>2, <2>1 DEF Processo, Fases
  <2>3. Leituras(r)
    BY <2>2 DEF Leituras
  <2>4. QED
    BY <1>1, <1>4, <2>2, <2>3, Segue DEF Avanca
<1>5. QED
  BY <1>3, <1>4 DEF LerGold

LEMMA LerIdsPasso ==
    ASSUME IInv, NEW p \in Procs, LerIds(p)
    PROVE  IInv' /\ \A q \in Procs : Exata(q)
<1> DEFINE r == [proc[p] EXCEPT !.fase = "mods", !.tem = Ids(store)]
<1>1. /\ UNCHANGED <<store, dim, mundo>> /\ proc[p].fase = "ids" /\ proc[p] \in Processo
      /\ Avanca(p, r)
  BY DEF LerIds, tabela, IInv, Tipo
<1>2. Ids(store) \in SUBSET Chunks
  BY DEF IInv, Tipo, Ids
<1>3. proc[p].saida = "nenhuma"
  BY <1>1 DEF IInv, Leituras
<1>4. r \in Processo /\ r.fase = "mods" /\ r.saida = "nenhuma" /\ r.tem = Ids(store)
  BY <1>1, <1>2, <1>3 DEF Processo, Fases
<1>5. Leituras(r)
  BY <1>4 DEF Leituras
<1>6. QED
  BY <1>1, <1>4, <1>5, Segue DEF Avanca

LEMMA LerModelosPasso ==
    ASSUME IInv, NEW p \in Procs, LerModelos(p)
    PROVE  IInv' /\ \A q \in Procs : Exata(q)
<1> DEFINE r == [proc[p] EXCEPT !.fase = "plano", !.dimc = dim, !.mods = {l.modelo : l \in store}]
<1>1. /\ UNCHANGED <<store, dim, mundo, indice>> /\ proc[p].fase = "mods" /\ proc[p] \in Processo
      /\ \/ Vazio(r) /\ indice /\ Encerra(p, "99", FALSE)
         \/ Avanca(p, r)
  BY DEF LerModelos, tabela, IInv, Tipo
<1>2. {l.modelo : l \in store} \in SUBSET Modelos
  BY DEF IInv, Tipo
<1>3. proc[p].saida = "nenhuma" /\ (~proc[p].mexeu => proc[p].tem = Ids(store))
  BY <1>1 DEF IInv, Leituras
<1>4. /\ r \in Processo /\ r.fase = "plano" /\ r.saida = "nenhuma" /\ r.mods = {l.modelo : l \in store}
      /\ r.mexeu = proc[p].mexeu /\ r.tem = proc[p].tem /\ r.quer = proc[p].quer
      /\ r.modelo = proc[p].modelo
  BY <1>1, <1>2, <1>3 DEF Processo, Fases, IInv, Tipo
<1>5. CASE Avanca(p, r)
  <2>1. Leituras(r)
    BY <1>3, <1>4 DEF Leituras
  <2>2. QED
    BY <1>1, <1>4, <1>5, <2>1, Segue DEF Avanca
<1>6. CASE Vazio(r) /\ indice /\ Encerra(p, "99", FALSE)
  <2>1. "99" \in Saida
    BY DEF Saida
  <2>2. proc' \in [Procs -> Processo] /\ proc'[p] = Parado("99")
    BY <1>6, <2>1, EncerraTipo DEF IInv
  <2>3. Tipo'
    BY <1>1, <2>2 DEF IInv, Tipo, mundo
  <2>4. \A x \in Procs \ {p} : Leituras(proc[x])' /\ Exata(x)
    BY <1>1, <1>6, <2>1, OutroProcesso
  <2>5. Leituras(proc[p])'
    BY <2>1, <2>2, ParadoTipo DEF Leituras
  <2>6. Exata(p)
    <3>1. ASSUME ~proc[p].mexeu
          PROVE  store = Linhas(r.quer, r.modelo)
      BY <1>3, <1>4, <1>6, <3>1, PlanoVazio DEF IInv
    <3>2. QED
      BY <1>1, <1>4, <1>6, <3>1 DEF Exata
  <2>7. QED
    BY <2>3, <2>4, <2>5, <2>6 DEF IInv
<1>7. QED
  BY <1>1, <1>5, <1>6

LEMMA TrocarTudoPasso ==
    ASSUME IInv, NEW p \in Procs, TrocarTudo(p)
    PROVE  IInv' /\ \A q \in Procs : Exata(q)
<1> DEFINE r == proc[p]
           col == IF r.dimc # Dim[r.modelo] THEN Dim[r.modelo] ELSE dim
<1>1. UNCHANGED mundo /\ r \in Processo
  BY DEF TrocarTudo, IInv, Tipo
<1>2. CASE Encerra(p, "erro", FALSE) /\ UNCHANGED <<tabela, usos>>
  BY <1>1, <1>2, Falha DEF tabela
<1>3. ASSUME NEW saida \in Saidas,
             store' = Linhas(r.quer, r.modelo), dim' = col, indice' = TRUE,
             Encerra(p, saida, TRUE)
      PROVE  IInv' /\ \A q \in Procs : Exata(q)
  <2>1. saida \in Saida
    BY DEF Saida, Saidas
  <2>2. proc' \in [Procs -> Processo] /\ proc'[p] = Parado(saida)
    BY <1>3, <2>1, EncerraTipo DEF IInv
  <2>3. store' \in SUBSET [fato : Chunks, modelo : Modelos]
    BY <1>1, <1>3 DEF Processo, Linhas
  <2>4. Tipo'
    BY <1>1, <1>3, <2>2, <2>3 DEF IInv, Tipo, mundo, Processo
  <2>5. \A x \in Procs \ {p} : Leituras(proc[x])' /\ Exata(x)
    BY <1>3, <2>1, OutroProcesso
  <2>6. Leituras(proc[p])' /\ Exata(p)
    BY <1>3, <2>1, <2>2, ParadoTipo DEF Leituras, Exata
  <2>7. QED
    BY <2>4, <2>5, <2>6 DEF IInv
<1>4. QED
  BY <1>2, <1>3 DEF TrocarTudo

LEMMA CopiarPasso ==
    ASSUME IInv, NEW p \in Procs, Copiar(p)
    PROVE  IInv' /\ \A q \in Procs : Exata(q)
<1> DEFINE r == [proc[p] EXCEPT !.fase = "rx"]
<1>1. /\ UNCHANGED <<store, dim, mundo>> /\ proc[p] \in Processo
      /\ proc[p].fase = "plano" /\ ~Refaz(proc[p])
      /\ Encerra(p, "erro", FALSE) \/ Avanca(p, r)
  BY DEF Copiar, tabela, IInv, Tipo
<1>2. CASE Avanca(p, r)
  <2>1. Leituras(proc[p])
    BY DEF IInv
  <2>2. /\ r \in Processo /\ r.fase = "rx" /\ r.saida = proc[p].saida /\ r.tem = proc[p].tem
        /\ r.mods = proc[p].mods /\ r.mexeu = proc[p].mexeu /\ r.cheio = proc[p].cheio
        /\ r.modelo = proc[p].modelo
    BY <1>1 DEF Processo, Fases
  <2>3. Leituras(r) /\ r.saida = "nenhuma"
    BY <1>1, <2>1, <2>2 DEF Leituras, Refaz
  <2>4. QED
    BY <1>1, <1>2, <2>2, <2>3, Segue DEF Avanca
<1>3. QED
  BY <1>1, <1>2, Falha

LEMMA ConfirmarPasso ==
    ASSUME IInv, NEW p \in Procs, Confirmar(p)
    PROVE  IInv' /\ \A q \in Procs : Exata(q)
<1> DEFINE r == proc[p]
           escrito == {l \in store : l.fato \notin Velhos(r)} \cup Linhas(Novos(r), r.modelo)
<1>1. UNCHANGED mundo /\ r \in Processo /\ Leituras(r)
  BY DEF Confirmar, IInv, Tipo
<1>2. r.fase \in {"plano", "rx"} /\ ~Refaz(r)
  BY <1>1 DEF Confirmar, Vazio, Leituras
<1>3. PICK saida \in Saidas :
         store' = escrito /\ indice' = TRUE /\ UNCHANGED dim /\ Encerra(p, saida, TRUE)
  BY DEF Confirmar
<1>4. saida \in Saida
  BY DEF Saida, Saidas
<1>5. proc' \in [Procs -> Processo] /\ proc'[p] = Parado(saida)
  BY <1>3, <1>4, EncerraTipo DEF IInv
<1>6. Linhas(Novos(r), r.modelo) \in SUBSET [fato : Chunks, modelo : Modelos]
  BY <1>1 DEF Processo, Linhas, Novos
<1>7. Tipo'
  BY <1>1, <1>3, <1>5, <1>6 DEF IInv, Tipo, mundo
<1>8. \A x \in Procs \ {p} : Leituras(proc[x])' /\ Exata(x)
  BY <1>3, <1>4, OutroProcesso
<1>9. Leituras(proc[p])'
  BY <1>4, <1>5, ParadoTipo DEF Leituras
<1>10. Exata(p)
  <2>1. ASSUME ~r.mexeu PROVE escrito = Linhas(r.quer, r.modelo)
    BY <1>1, <1>2, <2>1, DeltaExato DEF IInv, Leituras
  <2>2. QED
    BY <1>3, <2>1 DEF Exata
<1>11. QED
  BY <1>7, <1>8, <1>9, <1>10 DEF IInv

\* A step that leaves the processes and the rows alone.
LEMMA Alheio ==
    ASSUME IInv, UNCHANGED <<store, dim, proc>>,
           gold' \in 1..Len(Golds), modelo' \in Modelos
    PROVE  IInv' /\ \A q \in Procs : Exata(q)
<1>1. Tipo'
  BY DEF IInv, Tipo
<1>2. ASSUME NEW q \in Procs PROVE Leituras(proc[q])' /\ Exata(q)
  BY DEF IInv, Leituras, Exata, Refaz, Ids
<1>3. QED
  BY <1>1, <1>2 DEF IInv

LEMMA InitIInv == Init => IInv
<1> SUFFICES ASSUME Init PROVE IInv
  OBVIOUS
<1>1. Parado("nenhuma") \in Processo /\ Parado("nenhuma").fase = "fora"
  BY ParadoTipo DEF Saida
<1>2. Tipo
  BY <1>1, RagAssumption DEF Init, Tipo
<1>3. \A p \in Procs : Leituras(proc[p])
  BY <1>1 DEF Init, Leituras
<1>4. QED
  BY <1>2, <1>3 DEF IInv

-----------------------------------------------------------------------------
(* The steps of the specification. *)

LEMMA ProcessoPasso ==
    ASSUME IInv, NEW p \in Procs, Rag01(p) \/ Morre(p)
    PROVE  IInv' /\ \A q \in Procs : Exata(q)
<1>1. CASE LerGold(p)
  BY <1>1, LerGoldPasso
<1>2. CASE LerIds(p)
  BY <1>2, LerIdsPasso
<1>3. CASE LerModelos(p)
  BY <1>3, LerModelosPasso
<1>4. CASE TrocarTudo(p)
  BY <1>4, TrocarTudoPasso
<1>5. CASE Copiar(p)
  BY <1>5, CopiarPasso
<1>6. CASE Confirmar(p)
  BY <1>6, ConfirmarPasso
<1>7. CASE Impasse(p)
  BY <1>7, Falha DEF Impasse, tabela
<1>8. CASE Morre(p)
  BY <1>8, Falha DEF Morre, tabela
<1>9. QED
  BY <1>1, <1>2, <1>3, <1>4, <1>5, <1>6, <1>7, <1>8 DEF Rag01

LEMMA Passo ==
    ASSUME IInv, [Next]_vars
    PROVE  IInv' /\ \A q \in Procs : Exata(q)
<1>1. gold \in 1..Len(Golds) /\ Len(Golds) \in Nat /\ modelo \in Modelos
  BY RagAssumption DEF IInv, Tipo
<1>2. CASE \E p \in Procs : Rag01(p) \/ Morre(p)
  BY <1>2, ProcessoPasso
<1>3. CASE EsgotaTempo
  <2>1. "dag" \in Procs
    BY DEF Procs
  <2>2. QED
    BY <1>3, <2>1, Falha DEF EsgotaTempo, tabela
<1>4. CASE \E cheio \in BOOLEAN : RodarAMao(cheio)
  <2>1. "mao" \in Procs
    BY DEF Procs
  <2>2. QED
    BY <1>4, <2>1, ComecaPasso DEF RodarAMao, tabela
<1>5. CASE AbrirRun
  <2>1. "dag" \in Procs
    BY DEF Procs
  <2>2. QED
    BY <1>5, <2>1, ComecaPasso DEF AbrirRun, tabela
<1>6. CASE PublicaGold
  <2>1. gold' \in 1..Len(Golds)
    BY <1>1, <1>6 DEF PublicaGold
  <2>2. QED
    BY <1>1, <1>6, <2>1, Alheio DEF PublicaGold, tabela
<1>7. CASE EmiteAsset
  BY <1>1, <1>7, Alheio DEF EmiteAsset, tabela
<1>8. CASE \E m \in Modelos : TrocaModelo(m)
  BY <1>1, <1>8, Alheio DEF TrocaModelo, tabela
<1>9. CASE ComecaAval
  BY <1>1, <1>9, Alheio DEF ComecaAval, tabela, mundo
<1>10. CASE Recuperar
  BY <1>1, <1>10, Alheio DEF Recuperar, tabela, mundo
<1>11. CASE ConferirVerdade
  BY <1>1, <1>11, Alheio DEF ConferirVerdade, tabela, mundo
<1>12. CASE Resumir
  BY <1>1, <1>12, Alheio DEF Resumir, tabela, mundo
<1>13. CASE MorreAval
  BY <1>1, <1>13, Alheio DEF MorreAval, tabela, mundo
<1>14. CASE PerdeIndice
  BY <1>1, <1>14, Alheio DEF PerdeIndice, mundo
<1>15. CASE UNCHANGED vars
  BY <1>1, <1>15, Alheio DEF vars
<1>16. QED
  BY <1>2, <1>3, <1>4, <1>5, <1>6, <1>7, <1>8, <1>9, <1>10, <1>11, <1>12, <1>13, <1>14, <1>15
     DEF Next, Airflow

\* A synchronisation that ends well, and that nobody wrote under, leaves
\* exactly the chunks of the gold it read, of its own model and indexed,
\* whatever store it started from (plan_sync and aplicar).
THEOREM Sincronizada == Spec => SincroniaExata
<1>1. IInv /\ [Next]_vars => IInv'
  BY Passo
<1>2. IInv /\ [Next]_vars =>
        [\A p \in Procs :
            (/\ proc[p].fase \in {"mods", "plano", "rx"} /\ ~proc[p].mexeu
             /\ proc'[p].saida \in {"ok", "99"})
                => store' = Linhas(proc[p].quer, proc[p].modelo) /\ indice']_vars
  BY Passo DEF Exata
<1>3. QED
  BY InitIInv, <1>1, <1>2, PTL DEF Spec, SincroniaExata

-----------------------------------------------------------------------------
(* The table: one row per key, of the size of the column.  A transaction   *)
(* that has copied its rows holds the table, so that what it checked when  *)
(* it copied is still so when it commits.                                  *)

ChaveUnica == \A l, k \in store : l.fato = k.fato => l = k
ColunaInteira == \A l \in store : Dim[l.modelo] = dim

Copiado(r) ==
    r.fase = "rx" => /\ Novos(r) # {} => Dim[r.modelo] = dim
                     /\ Novos(r) \cap (Ids(store) \ Velhos(r)) = {}

Tabela == ChaveUnica /\ ColunaInteira /\ \A p \in Procs : Copiado(proc[p])

LEMMA DoisProcessos ==
    ASSUME NEW p \in Procs, NEW x \in Procs \ {p}
    PROVE  x = Outro(p)
BY DEF Procs, Outro

\* The end of a process that wrote nothing.
LEMMA TabelaFica ==
    ASSUME Tipo, Tabela, NEW p \in Procs, NEW s \in Saida, Encerra(p, s, FALSE),
           UNCHANGED <<store, dim>>
    PROVE  Tabela'
<1>1. proc'[p] = Parado(s) /\ \A x \in Procs \ {p} : proc'[x] = proc[x] \/
          proc'[x] = [proc[x] EXCEPT !.mexeu = TRUE]
  BY EncerraTipo
<1>2. Copiado(proc[p])'
  BY <1>1, ParadoTipo DEF Copiado
<1>3. ASSUME NEW x \in Procs \ {p} PROVE Copiado(proc[x])'
  <2>1. Copiado(proc[x]) /\ proc[x] \in Processo
    BY DEF Tabela, Tipo
  <2>2. CASE proc'[x] = proc[x]
    BY <2>1, <2>2 DEF Copiado, Novos, Velhos, Refaz, Ids
  <2>3. CASE proc'[x] = [proc[x] EXCEPT !.mexeu = TRUE]
    BY <2>1, <2>3 DEF Copiado, Novos, Velhos, Refaz, Ids, Processo
  <2>4. QED
    BY <1>1, <2>2, <2>3
<1>4. QED
  BY <1>2, <1>3 DEF Tabela, ChaveUnica, ColunaInteira

\* A process that goes on, in a phase that has copied nothing or with a copy
\* that the table takes.
LEMMA TabelaSegue ==
    ASSUME Tipo, Tabela, NEW p \in Procs, NEW r \in Processo,
           proc' = [proc EXCEPT ![p] = r], UNCHANGED <<store, dim>>, Copiado(r)
    PROVE  Tabela'
<1>1. ASSUME NEW q \in Procs PROVE Copiado(proc[q])'
  <2>1. proc'[q] = r \/ proc'[q] = proc[q]
    BY DEF Tipo
  <2>2. Copiado(proc[q])
    BY DEF Tabela
  <2>3. QED
    BY <2>1, <2>2 DEF Copiado, Novos, Velhos, Refaz, Ids
<1>2. QED
  BY <1>1 DEF Tabela, ChaveUnica, ColunaInteira

\* A commit: the other process has copied nothing.
LEMMA TabelaEscrita ==
    ASSUME Tipo, NEW p \in Procs, NEW s \in Saida, Encerra(p, s, TRUE), Sozinho(p),
           ChaveUnica', ColunaInteira'
    PROVE  Tabela'
<1>1. proc'[p] = Parado(s) /\ \A x \in Procs \ {p} : proc'[x] = proc[x] \/
          proc'[x] = [proc[x] EXCEPT !.mexeu = TRUE]
  BY EncerraTipo
<1>2. Copiado(proc[p])'
  BY <1>1, ParadoTipo DEF Copiado
<1>3. ASSUME NEW x \in Procs \ {p} PROVE Copiado(proc[x])'
  <2>1. proc[x].fase # "rx" /\ proc[x] \in Processo
    BY DoisProcessos DEF Sozinho, Tipo
  <2>2. QED
    BY <1>1, <2>1 DEF Copiado, Processo
<1>4. QED
  BY <1>2, <1>3 DEF Tabela

LEMMA TrocarTudoTabela ==
    ASSUME Tipo, Tabela, NEW p \in Procs, TrocarTudo(p)
    PROVE  Tabela'
<1> DEFINE r == proc[p]
           col == IF r.dimc # Dim[r.modelo] THEN Dim[r.modelo] ELSE dim
<1>1. "erro" \in Saida /\ Saidas \subseteq Saida
  BY DEF Saida, Saidas
<1>2. CASE Encerra(p, "erro", FALSE) /\ UNCHANGED <<tabela, usos>>
  BY <1>1, <1>2, TabelaFica DEF tabela
<1>3. ASSUME NEW saida \in Saidas, Dim[r.modelo] = col, Sozinho(p),
             store' = Linhas(r.quer, r.modelo), dim' = col, Encerra(p, saida, TRUE)
      PROVE  Tabela'
  <2>1. ChaveUnica' /\ ColunaInteira'
    BY <1>3 DEF ChaveUnica, ColunaInteira, Linhas
  <2>2. QED
    BY <1>1, <1>3, <2>1, TabelaEscrita
<1>4. QED
  BY <1>2, <1>3 DEF TrocarTudo

LEMMA CopiarTabela ==
    ASSUME Tipo, Tabela, NEW p \in Procs, Copiar(p)
    PROVE  Tabela'
<1> DEFINE r == [proc[p] EXCEPT !.fase = "rx"]
<1>1. UNCHANGED <<store, dim>> /\ proc[p] \in Processo /\ "erro" \in Saida
  BY DEF Copiar, tabela, Tipo, Saida
<1>2. CASE Encerra(p, "erro", FALSE)
  BY <1>1, <1>2, TabelaFica
<1>3. CASE /\ ~(Novos(proc[p]) # {} /\ Dim[proc[p].modelo] # dim)
           /\ Novos(proc[p]) \cap (Ids(store) \ Velhos(proc[p])) = {}
           /\ Avanca(p, r)
  <2>1. /\ r \in Processo /\ r.tem = proc[p].tem /\ r.quer = proc[p].quer
        /\ r.mods = proc[p].mods /\ r.cheio = proc[p].cheio /\ r.modelo = proc[p].modelo
    BY <1>1 DEF Processo, Fases
  <2>2. Novos(r) = Novos(proc[p]) /\ Velhos(r) = Velhos(proc[p])
    BY <2>1 DEF Novos, Velhos, Refaz
  <2>3. Copiado(r)
    BY <1>3, <2>1, <2>2 DEF Copiado
  <2>4. QED
    BY <1>1, <1>3, <2>1, <2>3, TabelaSegue DEF Avanca
<1>4. QED
  BY <1>2, <1>3 DEF Copiar

LEMMA ConfirmarTabela ==
    ASSUME Tipo, Tabela, NEW p \in Procs, Confirmar(p)
    PROVE  Tabela'
<1> DEFINE r == proc[p]
           ficam == {l \in store : l.fato \notin Velhos(r)}
           entram == Linhas(Novos(r), r.modelo)
<1>1. PICK saida \in Saidas :
         store' = ficam \cup entram /\ UNCHANGED dim /\ Encerra(p, saida, TRUE)
  BY DEF Confirmar
<1>2. Sozinho(p) /\ saida \in Saida
  BY DEF Confirmar, Saida, Saidas
<1>3. /\ Novos(r) # {} => Dim[r.modelo] = dim
      /\ Novos(r) \cap (Ids(store) \ Velhos(r)) = {}
  BY DEF Confirmar, Vazio, Tabela, Copiado
<1>4. \A l \in entram : l.fato \in Novos(r) /\ l.modelo = r.modelo
  BY DEF Linhas
<1>5. \A l \in ficam : l.fato \notin Novos(r)
  BY <1>3 DEF Ids
<1>6. \A l, k \in entram : l.fato = k.fato => l = k
  BY DEF Linhas
<1>7. ChaveUnica'
  BY <1>1, <1>4, <1>5, <1>6 DEF ChaveUnica, Tabela
<1>8. ColunaInteira'
  BY <1>1, <1>3, <1>4 DEF ColunaInteira, Tabela
<1>9. QED
  BY <1>1, <1>2, <1>7, <1>8, TabelaEscrita

LEMMA LeituraTabela ==
    ASSUME Tipo, Tabela, NEW p \in Procs, LerGold(p) \/ LerIds(p) \/ LerModelos(p)
    PROVE  Tabela'
<1>1. UNCHANGED <<store, dim>> /\ "99" \in Saida
  BY DEF LerGold, LerIds, LerModelos, tabela, Saida
<1>2. proc[p] \in Processo /\ gold \in 1..Len(Golds)
  BY DEF Tipo
<1>3. CASE Encerra(p, "99", FALSE)
  BY <1>1, <1>3, TabelaFica
<1>4. ASSUME NEW r \in Processo, r.fase # "rx", Avanca(p, r)
      PROVE  Tabela'
  <2>1. Copiado(r)
    BY <1>4 DEF Copiado
  <2>2. QED
    BY <1>1, <1>4, <2>1, TabelaSegue DEF Avanca
<1>5. CASE LerGold(p)
  <2> DEFINE r == [proc[p] EXCEPT !.fase = "ids", !.quer = BuildChunks[gold]]
  <2>1. r \in Processo /\ r.fase # "rx"
    BY <1>2 DEF Processo, Fases, Chunks
  <2>2. QED
    BY <1>3, <1>4, <1>5, <2>1 DEF LerGold
<1>6. CASE LerIds(p)
  <2> DEFINE r == [proc[p] EXCEPT !.fase = "mods", !.tem = Ids(store)]
  <2>1. Ids(store) \in SUBSET Chunks
    BY DEF Tipo, Ids
  <2>2. r \in Processo /\ r.fase # "rx"
    BY <1>2, <2>1 DEF Processo, Fases
  <2>3. QED
    BY <1>4, <1>6, <2>2 DEF LerIds
<1>7. CASE LerModelos(p)
  <2> DEFINE r == [proc[p] EXCEPT !.fase = "plano", !.dimc = dim, !.mods = {l.modelo : l \in store}]
  <2>1. {l.modelo : l \in store} \in SUBSET Modelos /\ dim \in {Dim[m] : m \in Modelos}
    BY DEF Tipo
  <2>2. r \in Processo /\ r.fase # "rx"
    BY <1>2, <2>1 DEF Processo, Fases
  <2>3. QED
    BY <1>3, <1>4, <1>7, <2>2 DEF LerModelos
<1>8. QED
  BY <1>5, <1>6, <1>7

LEMMA ComecaTabela ==
    ASSUME Tipo, Tabela, NEW p \in Procs, NEW cheio \in BOOLEAN, Comeca(p, cheio),
           UNCHANGED <<store, dim>>
    PROVE  Tabela'
<1> DEFINE r == [Parado("nenhuma") EXCEPT !.fase = "gold", !.modelo = modelo, !.cheio = cheio]
<1>1. r \in Processo /\ r.fase = "gold"
  BY DEF Parado, Processo, Fases, Saida, Tipo
<1>2. Copiado(r)
  BY <1>1 DEF Copiado
<1>3. QED
  BY <1>1, <1>2, TabelaSegue DEF Comeca

LEMMA ProcessoTabela ==
    ASSUME Tipo, Tabela, NEW p \in Procs, Rag01(p) \/ Morre(p)
    PROVE  Tabela'
<1>1. "erro" \in Saida
  BY DEF Saida
<1>2. CASE LerGold(p) \/ LerIds(p) \/ LerModelos(p)
  BY <1>2, LeituraTabela
<1>3. CASE TrocarTudo(p)
  BY <1>3, TrocarTudoTabela
<1>4. CASE Copiar(p)
  BY <1>4, CopiarTabela
<1>5. CASE Confirmar(p)
  BY <1>5, ConfirmarTabela
<1>6. CASE Impasse(p)
  BY <1>1, <1>6, TabelaFica DEF Impasse, tabela
<1>7. CASE Morre(p)
  BY <1>1, <1>7, TabelaFica DEF Morre, tabela
<1>8. QED
  BY <1>2, <1>3, <1>4, <1>5, <1>6, <1>7 DEF Rag01

\* A step that leaves the processes and the rows alone.
LEMMA AlheioTabela ==
    ASSUME Tabela, UNCHANGED <<store, dim, proc>>
    PROVE  Tabela'
BY DEF Tabela, ChaveUnica, ColunaInteira, Copiado, Novos, Velhos, Refaz, Ids

LEMMA PassoTabela ==
    ASSUME Tipo, Tabela, [Next]_vars
    PROVE  Tabela'
<1>1. "dag" \in Procs /\ "mao" \in Procs /\ "erro" \in Saida
  BY DEF Procs, Saida
<1>2. CASE \E p \in Procs : Rag01(p) \/ Morre(p)
  BY <1>2, ProcessoTabela
<1>3. CASE EsgotaTempo
  BY <1>1, <1>3, TabelaFica DEF EsgotaTempo, tabela
<1>4. CASE \E cheio \in BOOLEAN : RodarAMao(cheio)
  BY <1>1, <1>4, ComecaTabela DEF RodarAMao, tabela
<1>5. CASE AbrirRun
  BY <1>1, <1>5, ComecaTabela DEF AbrirRun, tabela
<1>6. CASE PublicaGold \/ EmiteAsset \/ \E m \in Modelos : TrocaModelo(m)
  BY <1>6, AlheioTabela DEF PublicaGold, EmiteAsset, TrocaModelo, tabela
<1>7. CASE ComecaAval \/ Recuperar
  BY <1>7, AlheioTabela DEF ComecaAval, Recuperar, tabela
<1>8. CASE ConferirVerdade \/ Resumir
  BY <1>8, AlheioTabela DEF ConferirVerdade, Resumir, tabela
<1>9. CASE MorreAval \/ PerdeIndice
  BY <1>9, AlheioTabela DEF MorreAval, PerdeIndice, tabela
<1>10. CASE UNCHANGED vars
  BY <1>10, AlheioTabela DEF vars
<1>11. QED
  BY <1>2, <1>3, <1>4, <1>5, <1>6, <1>7, <1>8, <1>9, <1>10 DEF Next, Airflow

-----------------------------------------------------------------------------
(* The run of the DAG and its evaluation. *)

Run ==
    /\ dag \in {"ocioso", "build", "avaliar", "avaliando"}
    /\ ultimo \in {"nenhum", "verde", "vermelha"}
    /\ (proc["dag"].fase # "fora") = (dag = "build")

Contagem(a) ==
    /\ a = [n |-> a.n, g |-> a.g, modelo |-> a.modelo, obtido |-> a.obtido, pede |-> a.pede,
            rot |-> a.rot, val |-> a.val, achou |-> a.achou, busca |-> a.busca]
    /\ a.n \in 0..(Len(Golden) + 1) /\ a.pede \in BOOLEAN
    /\ a.pede => a.n <= Len(Golden)

LEMMA RunEncerra ==
    ASSUME Tipo, Run, NEW p \in Procs, NEW s \in Saida, NEW g \in BOOLEAN, Encerra(p, s, g)
    PROVE  Run'
<1>1. proc'[p] = Parado(s) /\ \A x \in Procs \ {p} : proc'[x] = proc[x] \/
          proc'[x] = [proc[x] EXCEPT !.mexeu = TRUE]
  BY EncerraTipo
<1>2. "dag" \in Procs /\ proc["dag"] \in Processo
  BY DEF Tipo, Procs
<1>3. CASE p = "dag"
  <2>1. proc'["dag"].fase = "fora"
    BY <1>1, <1>3, ParadoTipo
  <2>2. dag' = Resultado(s).dag /\ ultimo' = Resultado(s).ultimo
    BY <1>3 DEF Encerra
  <2>3. dag' \in {"avaliar", "ocioso"} /\ ultimo' \in {ultimo, "verde", "vermelha"}
    BY <2>2 DEF Resultado
  <2>4. QED
    BY <2>1, <2>3 DEF Run
<1>4. CASE p # "dag"
  <2>1. UNCHANGED <<dag, ultimo>>
    BY <1>4 DEF Encerra
  <2>2. proc'["dag"].fase = proc["dag"].fase
    BY <1>1, <1>2, <1>4 DEF Processo
  <2>3. QED
    BY <2>1, <2>2 DEF Run
<1>5. QED
  BY <1>3, <1>4

LEMMA RunAvanca ==
    ASSUME Tipo, Run, NEW p \in Procs, NEW r \in Processo, Avanca(p, r),
           proc[p].fase # "fora", r.fase # "fora"
    PROVE  Run'
BY DEF Tipo, Run, Avanca

LEMMA RunProcesso ==
    ASSUME Tipo, Run, NEW p \in Procs, Rag01(p) \/ Morre(p)
    PROVE  Run'
<1>1. {"erro", "99"} \subseteq Saida /\ Saidas \subseteq Saida
  BY DEF Saida, Saidas
<1>2. proc[p] \in Processo /\ gold \in 1..Len(Golds)
  BY DEF Tipo
<1>3. ASSUME NEW r \in Processo, Avanca(p, r), proc[p].fase # "fora", r.fase # "fora"
      PROVE  Run'
  BY <1>3, RunAvanca
<1>4. CASE LerGold(p)
  <2> DEFINE r == [proc[p] EXCEPT !.fase = "ids", !.quer = BuildChunks[gold]]
  <2>1. r \in Processo /\ r.fase # "fora"
    BY <1>2 DEF Processo, Fases, Chunks
  <2>2. QED
    BY <1>1, <1>3, <1>4, <2>1, RunEncerra DEF LerGold
<1>5. CASE LerIds(p)
  <2> DEFINE r == [proc[p] EXCEPT !.fase = "mods", !.tem = Ids(store)]
  <2>1. Ids(store) \in SUBSET Chunks
    BY DEF Tipo, Ids
  <2>2. r \in Processo /\ r.fase # "fora"
    BY <1>2, <2>1 DEF Processo, Fases
  <2>3. QED
    BY <1>3, <1>5, <2>2 DEF LerIds
<1>6. CASE LerModelos(p)
  <2> DEFINE r == [proc[p] EXCEPT !.fase = "plano", !.dimc = dim, !.mods = {l.modelo : l \in store}]
  <2>1. {l.modelo : l \in store} \in SUBSET Modelos /\ dim \in {Dim[m] : m \in Modelos}
    BY DEF Tipo
  <2>2. r \in Processo /\ r.fase # "fora"
    BY <1>2, <2>1 DEF Processo, Fases
  <2>3. QED
    BY <1>1, <1>3, <1>6, <2>2, RunEncerra DEF LerModelos
<1>7. CASE Copiar(p)
  <2> DEFINE r == [proc[p] EXCEPT !.fase = "rx"]
  <2>1. r \in Processo /\ r.fase # "fora"
    BY <1>2 DEF Processo, Fases
  <2>2. QED
    BY <1>1, <1>3, <1>7, <2>1, RunEncerra DEF Copiar
<1>8. CASE TrocarTudo(p)
  BY <1>1, <1>8, RunEncerra DEF TrocarTudo
<1>9. CASE Confirmar(p)
  BY <1>1, <1>9, RunEncerra DEF Confirmar
<1>10. CASE Impasse(p)
  BY <1>1, <1>10, RunEncerra DEF Impasse
<1>11. CASE Morre(p)
  BY <1>1, <1>11, RunEncerra DEF Morre
<1>12. QED
  BY <1>4, <1>5, <1>6, <1>7, <1>8, <1>9, <1>10, <1>11 DEF Rag01

LEMMA PassoRun ==
    ASSUME Tipo, Run, [Next]_vars
    PROVE  Run'
<1>1. /\ "dag" \in Procs /\ "mao" \in Procs /\ "erro" \in Saida
      /\ proc \in [Procs -> Processo]
  BY DEF Procs, Saida, Tipo
<1>2. CASE \E p \in Procs : Rag01(p) \/ Morre(p)
  BY <1>2, RunProcesso
<1>3. CASE EsgotaTempo
  BY <1>1, <1>3, RunEncerra DEF EsgotaTempo
<1>4. CASE \E cheio \in BOOLEAN : RodarAMao(cheio)
  BY <1>1, <1>4 DEF RodarAMao, Comeca, Run
<1>5. CASE AbrirRun
  BY <1>1, <1>5 DEF AbrirRun, Comeca, Run, Parado
<1>6. CASE PublicaGold \/ EmiteAsset \/ \E m \in Modelos : TrocaModelo(m)
  BY <1>6 DEF PublicaGold, EmiteAsset, TrocaModelo, Run
<1>7. CASE ComecaAval
  BY <1>7 DEF ComecaAval, Run
<1>8. CASE Recuperar
  BY <1>8 DEF Recuperar, FimAval, Run
<1>9. CASE ConferirVerdade
  BY <1>9 DEF ConferirVerdade, Run
<1>10. CASE Resumir
  BY <1>10 DEF Resumir, FimAval, Run
<1>11. CASE MorreAval
  BY <1>11 DEF MorreAval, FimAval, Run
<1>12. CASE PerdeIndice
  BY <1>12 DEF PerdeIndice, Run
<1>13. CASE UNCHANGED vars
  BY <1>13 DEF vars, Run
<1>14. QED
  BY <1>2, <1>3, <1>4, <1>5, <1>6, <1>7, <1>8, <1>9, <1>10, <1>11, <1>12, <1>13 DEF Next, Airflow

LEMMA ContagemDe ==
    ASSUME NEW n \in 0..(Len(Golden) + 1), NEW pede \in BOOLEAN, pede => n <= Len(Golden),
           NEW g, NEW m, NEW obtido, NEW rot, NEW val, NEW achou, NEW busca
    PROVE  Contagem([n |-> n, g |-> g, modelo |-> m, obtido |-> obtido, pede |-> pede,
                     rot |-> rot, val |-> val, achou |-> achou, busca |-> busca])
BY DEF Contagem

\* The evaluation counts to the end of the golden set, and a truth that is
\* asked for is of a question of the set.
LEMMA PassoAval ==
    ASSUME Contagem(aval), [Next]_vars
    PROVE  Contagem(aval')
<1>1. Len(Golden) \in Nat /\ aval.n \in Nat
  BY RagAssumption DEF Contagem
<1>2. Contagem(SemAval) /\ Contagem([SemAval EXCEPT !.n = 1, !.g = gold, !.modelo = modelo])
  <2>1. 0 \in 0..(Len(Golden) + 1) /\ 1 \in 0..(Len(Golden) + 1)
    BY <1>1
  <2>2. Contagem(SemAval) /\ ~SemAval.pede
    BY <2>1, ContagemDe DEF SemAval
  <2>3. ASSUME NEW b, b = [SemAval EXCEPT !.n = 1, !.g = gold, !.modelo = modelo]
        PROVE  Contagem(b)
    <3>1. b = [n |-> 1, g |-> gold, modelo |-> modelo, obtido |-> SemAval.obtido,
               pede |-> SemAval.pede, rot |-> SemAval.rot, val |-> SemAval.val,
               achou |-> SemAval.achou, busca |-> SemAval.busca]
      BY <2>2, <2>3 DEF Contagem
    <3>2. SemAval.pede \in BOOLEAN
      BY <2>2 DEF Contagem
    <3>3. QED
      BY <2>1, <2>2, <3>1, <3>2, ContagemDe
  <2>4. QED
    BY <2>2, <2>3
<1>3. CASE UNCHANGED aval
  BY <1>3
<1>4. CASE ConferirVerdade
  <2> DEFINE val == aval.val + IF Iguais(aval.obtido, Verdades[aval.n][gold]) THEN 1 ELSE 0
             novo == [n |-> aval.n + 1, g |-> aval.g, modelo |-> aval.modelo, obtido |-> SemValor,
                      pede |-> FALSE, rot |-> aval.rot, val |-> val, achou |-> aval.achou,
                      busca |-> aval.busca]
  <2>1. aval.pede /\ aval' = [aval EXCEPT !.pede = FALSE, !.n = @ + 1, !.obtido = SemValor, !.val = val]
    BY <1>4 DEF ConferirVerdade
  <2> HIDE DEF val
  <2>2. aval' = novo
    BY <2>1 DEF Contagem
  <2>3. aval.n + 1 \in 0..(Len(Golden) + 1)
    BY <1>1, <2>1 DEF Contagem
  <2>4. QED
    BY <2>2, <2>3, ContagemDe
<1>5. CASE Recuperar /\ ~UNCHANGED aval
  <2> DEFINE it == Golden[aval.n]
             r == Respostas[aval.n][aval.g][gold]
             mede == ~r.sql /\ it.cnpj # ""
             perto == BuscarVetorial(Perto(aval.modelo), TopK)
             pede == it.verdade # ""
             rot == aval.rot + IF r.metodo = it.esperado THEN 1 ELSE 0
             busca == aval.busca + IF mede THEN 1 ELSE 0
             achou == aval.achou + IF mede /\ \E n \in 1..Len(perto) : perto[n].cnpj = it.cnpj
                                   THEN 1 ELSE 0
             prox == aval.n + IF it.verdade = "" THEN 1 ELSE 0
             valor == r.valor
             novo == [n |-> prox, g |-> aval.g, modelo |-> aval.modelo, obtido |-> valor,
                      pede |-> pede, rot |-> rot, val |-> aval.val, achou |-> achou,
                      busca |-> busca]
  <2>a. aval.n <= Len(Golden)
    BY <1>5 DEF Recuperar
  <2>1. aval' = [aval EXCEPT !.pede = pede, !.obtido = valor, !.n = prox, !.rot = rot,
                         !.busca = busca, !.achou = achou]
    BY <1>5 DEF Recuperar
  <2>2. CASE it.verdade = ""
    <3>1. pede \in BOOLEAN /\ ~pede /\ prox = aval.n + 1
      BY <2>2
    <3> HIDE DEF pede, rot, busca, achou, prox, valor
    <3>2. prox \in 0..(Len(Golden) + 1)
      BY <1>1, <2>a, <3>1
    <3>3. aval' = novo
      BY <2>1 DEF Contagem
    <3>4. QED
      BY <3>1, <3>2, <3>3, ContagemDe
  <2>3. CASE it.verdade # ""
    <3>a. prox = aval.n + 0 /\ pede \in BOOLEAN
      BY <2>3, Zenon
    <3> HIDE DEF pede, rot, busca, achou, prox, valor
    <3>2. prox \in 0..(Len(Golden) + 1) /\ prox <= Len(Golden)
      BY <1>1, <2>a, <3>a
    <3>3. aval' = novo
      BY <2>1 DEF Contagem
    <3>4. QED
      BY <3>a, <3>2, <3>3, ContagemDe
  <2>4. QED
    BY <2>2, <2>3
<1>6. CASE ComecaAval
  BY <1>2, <1>6 DEF ComecaAval
<1>7. CASE AbrirRun \/ MorreAval
  BY <1>2, <1>7 DEF AbrirRun, MorreAval
<1>8. CASE \E p \in Procs : Rag01(p) \/ Morre(p)
  BY <1>3, <1>8 DEF Rag01, LerGold, LerIds, LerModelos, TrocarTudo, Copiar, Confirmar, Impasse, Morre
<1>9. CASE \/ PublicaGold \/ EmiteAsset \/ \E m \in Modelos : TrocaModelo(m)
           \/ \E cheio \in BOOLEAN : RodarAMao(cheio)
           \/ Resumir \/ EsgotaTempo \/ PerdeIndice \/ UNCHANGED vars
  BY <1>3, <1>9 DEF PublicaGold, EmiteAsset, TrocaModelo, RodarAMao, Resumir, EsgotaTempo,
                    PerdeIndice, vars
<1>10. QED
  BY <1>3, <1>4, <1>5, <1>6, <1>7, <1>8, <1>9 DEF Next, Airflow

\* Every row of ai.rag_context_anp is the only one of its chunk and has the
\* size of the column, whoever else is writing; the run of the DAG is in its
\* build exactly while its rag01 runs, and the evaluation stays in its set.
THEOREM TabelaIntegra == Spec => []TypeOK
<1> DEFINE Inv == Tipo /\ (\A p \in Procs : Leituras(proc[p])) /\ Tabela /\ Run /\ Contagem(aval)
<1>1. Init => Inv
  <2> SUFFICES ASSUME Init PROVE Inv
    OBVIOUS
  <2>1. IInv
    BY InitIInv
  <2>2. Parado("nenhuma").fase = "fora"
    BY DEF Parado
  <2>3. Tabela /\ Run
    BY <2>2 DEF Init, Tabela, ChaveUnica, ColunaInteira, Copiado, Run, Procs
  <2>4. Contagem(aval)
    BY RagAssumption DEF Init, SemAval, Contagem
  <2>5. QED
    BY <2>1, <2>3, <2>4 DEF IInv
<1>2. Inv /\ [Next]_vars => Inv'
  <2> SUFFICES ASSUME Inv, [Next]_vars PROVE Inv'
    OBVIOUS
  <2>1. IInv'
    BY Passo DEF IInv
  <2>2. Tabela' /\ Run'
    BY PassoTabela, PassoRun
  <2>3. Contagem(aval')
    BY PassoAval
  <2>4. Contagem(aval)'
    BY <2>3 DEF Contagem
  <2>5. QED
    BY <2>1, <2>2, <2>4 DEF IInv
<1>3. Inv => TypeOK
  <2> SUFFICES ASSUME Inv PROVE TypeOK
    OBVIOUS
  <2>1. gold \in 1..Len(Golds) /\ modelo \in Modelos /\ \A l \in store : l.modelo \in Modelos
    BY DEF Tipo
  <2>2. \A p \in Procs : proc[p].fase \in {"fora", "gold", "ids", "mods", "plano", "rx"}
    BY DEF Tipo, Processo, Fases
  <2>3. QED
    BY <2>1, <2>2 DEF TypeOK, Tabela, ChaveUnica, ColunaInteira, Run, Contagem
<1>4. QED
  BY <1>1, <1>2, <1>3, PTL DEF Spec

-----------------------------------------------------------------------------
(* A green run leaves no lag.  What a process wants is a version of gold   *)
(* that was published; the run of the DAG wants the last one, or an event  *)
(* is on its way; and as long as no run by hand wrote, nobody wrote under  *)
(* it, so that SincroniaExata applies to its end.                          *)

Lido(r) == r.fase \in {"ids", "mods", "plano", "rx"}
Quieto == ~evento /\ ~publicando

Quer(r) == Lido(r) => r.quer # {} /\ \E g \in 1..gold : r.quer = BuildChunks[g]

EmDia ==
    /\ BuildChunks[gold] = {} => store = {}
    /\ \A p \in Procs : Quer(proc[p])
    /\ Lido(proc["dag"]) /\ Quieto => proc["dag"].quer = BuildChunks[gold]
    /\ proc["dag"].fase # "fora" /\ ~maoGravou => ~proc["dag"].mexeu
    /\ (/\ dag \in {"avaliar", "avaliando"} \/ (dag = "ocioso" /\ ultimo = "verde")
        /\ Quieto /\ ~maoGravou) => Ids(store) = BuildChunks[gold]

LEMMA QuerAlgo ==
    ASSUME Tipo, NEW r \in Processo, Quer(r), Lido(r)
    PROVE  BuildChunks[gold] # {}
<1>1. PICK g \in 1..gold : r.quer = BuildChunks[g] /\ r.quer # {}
  BY DEF Quer
<1>2. gold \in 1..Len(Golds) /\ g \in 1..Len(Golds) /\ g <= gold
  BY RagAssumption DEF Tipo
<1>3. QED
  BY <1>1, <1>2, GoldNaoEsvazia

LEMMA IdsLinhas ==
    ASSUME NEW fatos, NEW m
    PROVE  Ids(Linhas(fatos, m)) = fatos
<1>1. ASSUME NEW f \in fatos PROVE f \in Ids(Linhas(fatos, m))
  <2>1. [fato |-> f, modelo |-> m] \in Linhas(fatos, m)
    BY DEF Linhas
  <2>2. QED
    BY <2>1 DEF Ids
<1>2. ASSUME NEW f \in Ids(Linhas(fatos, m)) PROVE f \in fatos
  BY DEF Ids, Linhas
<1>3. QED
  BY <1>1, <1>2

\* The end of a process that wrote nothing: the run of the DAG turns green
\* only over a store in sync.
LEMMA EmDiaFim ==
    ASSUME Tipo, Run, EmDia, NEW p \in Procs, NEW s \in Saida, Encerra(p, s, FALSE),
           UNCHANGED <<store, gold, evento, publicando>>,
           p = "dag" => s = "erro" \/ (Quieto /\ ~maoGravou => Ids(store) = BuildChunks[gold])
    PROVE  EmDia'
<1>1. /\ proc'[p] = Parado(s) /\ (maoGravou' <=> maoGravou)
      /\ \A x \in Procs \ {p} : proc'[x] = proc[x]
  BY DEF Encerra
<1>2. "dag" \in Procs /\ Parado(s).fase = "fora"
  BY ParadoTipo DEF Procs
<1>3. \A x \in Procs : Quer(proc[x])'
  BY <1>1, <1>2 DEF EmDia, Quer, Lido
<1>4. CASE p = "dag"
  <2>1. s = "erro" => dag' = "ocioso" /\ ultimo' = "vermelha"
    BY <1>4 DEF Encerra, Resultado
  <2>2. proc'["dag"].fase = "fora"
    BY <1>1, <1>2, <1>4
  <2>3. QED
    BY <1>1, <1>3, <1>4, <2>1, <2>2 DEF EmDia, Lido, Quieto
<1>5. CASE p # "dag"
  <2>1. proc'["dag"] = proc["dag"] /\ UNCHANGED <<dag, ultimo>>
    BY <1>1, <1>2, <1>5 DEF Encerra
  <2>2. QED
    BY <1>1, <1>3, <2>1 DEF EmDia, Lido, Quieto
<1>6. QED
  BY <1>4, <1>5

LEMMA EmDiaAvanca ==
    ASSUME Tipo, EmDia, NEW p \in Procs, NEW r \in Processo, Avanca(p, r),
           UNCHANGED <<store, gold, evento, publicando>>, proc[p].fase # "fora",
           Lido(r), r.mexeu = proc[p].mexeu, Quer(r),
           p = "dag" /\ Quieto => r.quer = BuildChunks[gold]
    PROVE  EmDia'
<1>1. /\ proc'[p] = r /\ UNCHANGED <<dag, ultimo, maoGravou>>
      /\ \A x \in Procs \ {p} : proc'[x] = proc[x]
  BY DEF Avanca, Tipo
<1>2. \A x \in Procs : Quer(proc[x])'
  BY <1>1 DEF EmDia, Quer, Lido
<1>3. "dag" \in Procs
  BY DEF Procs
<1>4. CASE p = "dag"
  BY <1>1, <1>2, <1>4 DEF EmDia, Lido, Quieto
<1>5. CASE p # "dag"
  BY <1>1, <1>2, <1>3, <1>5 DEF EmDia, Lido, Quieto
<1>6. QED
  BY <1>4, <1>5

LEMMA EmDiaEscrita ==
    ASSUME Tipo, Run, EmDia, NEW p \in Procs, NEW s \in {"ok", "erro"}, Encerra(p, s, TRUE),
           UNCHANGED <<gold, evento, publicando>>, proc[p].fase \in {"plano", "rx"}, Exata(p)
    PROVE  EmDia'
<1>1. /\ proc'[p] = Parado(s) /\ (maoGravou' <=> maoGravou \/ p = "mao")
      /\ \A x \in Procs \ {p} : proc'[x] = proc[x] \/ proc'[x] = [proc[x] EXCEPT !.mexeu = TRUE]
  BY DEF Encerra
<1>2. "dag" \in Procs /\ Parado(s).fase = "fora" /\ Parado(s).saida = s
  BY ParadoTipo DEF Procs, Saida
<1>3. proc[p] \in Processo /\ Quer(proc[p]) /\ Lido(proc[p])
  BY DEF Tipo, EmDia, Lido
<1>4. BuildChunks[gold]' # {}
  BY <1>3, QuerAlgo
<1>5. ASSUME NEW x \in Procs PROVE Quer(proc[x])'
  <2>1. proc[x] \in Processo /\ Quer(proc[x])
    BY DEF Tipo, EmDia
  <2>2. proc'[x].fase = "fora" \/ (proc'[x].fase = proc[x].fase /\ proc'[x].quer = proc[x].quer)
    BY <1>1, <1>2, <2>1 DEF Processo
  <2>3. QED
    BY <2>1, <2>2 DEF Quer, Lido
<1>6. CASE p = "dag"
  <2>1. s = "erro" => dag' = "ocioso" /\ ultimo' = "vermelha"
    BY <1>6 DEF Encerra, Resultado
  <2>2. proc'["dag"].fase = "fora"
    BY <1>1, <1>2, <1>6
  <2>3. ASSUME s = "ok", Quieto, ~maoGravou PROVE Ids(store') = BuildChunks[gold]
    <3>1. ~proc[p].mexeu /\ proc[p].quer = BuildChunks[gold]
      BY <1>3, <1>6, <2>3 DEF EmDia
    <3>2. store' = Linhas(proc[p].quer, proc[p].modelo)
      BY <1>1, <1>2, <2>3, <3>1 DEF Exata
    <3>3. QED
      BY <3>1, <3>2, IdsLinhas
  <2>4. QED
    BY <1>1, <1>4, <1>5, <1>6, <2>1, <2>2, <2>3 DEF EmDia, Lido, Quieto, Ids
<1>7. CASE p # "dag"
  <2>1. maoGravou'
    BY <1>1, <1>7 DEF Procs
  <2>2. proc["dag"] \in Processo
    BY <1>2 DEF Tipo
  <2>3. proc'["dag"].fase = proc["dag"].fase /\ proc'["dag"].quer = proc["dag"].quer
    BY <1>1, <1>2, <1>7, <2>2 DEF Processo
  <2>4. QED
    BY <1>4, <1>5, <2>1, <2>3 DEF EmDia, Lido, Quieto
<1>8. QED
  BY <1>6, <1>7

LEMMA EmDiaLeitura ==
    ASSUME IInv, Run, EmDia, NEW p \in Procs, LerGold(p) \/ LerIds(p) \/ LerModelos(p), Exata(p)
    PROVE  EmDia'
<1>1. UNCHANGED <<store, gold, evento, publicando>> /\ "99" \in Saida
  BY DEF LerGold, LerIds, LerModelos, tabela, mundo, Saida
<1>2. Tipo /\ proc[p] \in Processo /\ gold \in 1..Len(Golds) /\ Quer(proc[p]) /\ Leituras(proc[p])
  BY DEF IInv, Tipo, EmDia
<1>3. CASE LerGold(p)
  <2> DEFINE r == [proc[p] EXCEPT !.fase = "ids", !.quer = BuildChunks[gold]]
  <2>1. proc[p].fase = "gold"
    BY <1>3 DEF LerGold
  <2>2. CASE BuildChunks[gold] = {} /\ Encerra(p, "99", FALSE)
    <3>1. Ids(store) = BuildChunks[gold]
      BY <2>2 DEF EmDia, Ids
    <3>2. QED
      BY <1>1, <1>2, <2>2, <3>1, EmDiaFim
  <2>3. CASE BuildChunks[gold] # {} /\ Avanca(p, r)
    <3>1. r \in Processo /\ Lido(r) /\ r.mexeu = proc[p].mexeu /\ r.quer = BuildChunks[gold]
      BY <1>2 DEF Processo, Fases, Chunks, Lido
    <3>2. Quer(r)
      BY <1>2, <2>3, <3>1 DEF Quer
    <3>3. QED
      BY <1>1, <1>2, <2>1, <2>3, <3>1, <3>2, EmDiaAvanca
  <2>4. QED
    BY <1>3, <2>2, <2>3 DEF LerGold
<1>4. CASE LerIds(p)
  <2> DEFINE r == [proc[p] EXCEPT !.fase = "mods", !.tem = Ids(store)]
  <2>1. proc[p].fase = "ids" /\ Avanca(p, r)
    BY <1>4 DEF LerIds
  <2>2. Ids(store) \in SUBSET Chunks
    BY <1>2 DEF Tipo, Ids
  <2>3. r \in Processo /\ Lido(r) /\ r.mexeu = proc[p].mexeu /\ r.quer = proc[p].quer
    BY <1>2, <2>2 DEF Processo, Fases, Lido
  <2>4. Lido(proc[p])
    BY <2>1 DEF Lido
  <2>5. Quer(r) /\ (p = "dag" /\ Quieto => r.quer = BuildChunks[gold])
    BY <1>2, <2>3, <2>4 DEF Quer, EmDia
  <2>6. QED
    BY <1>1, <1>2, <2>1, <2>3, <2>5, EmDiaAvanca
<1>5. CASE LerModelos(p)
  <2> DEFINE r == [proc[p] EXCEPT !.fase = "plano", !.dimc = dim, !.mods = {l.modelo : l \in store}]
  <2>1. proc[p].fase = "mods" /\ Lido(proc[p]) /\ (Encerra(p, "99", FALSE) \/ Avanca(p, r))
    BY <1>5 DEF LerModelos, Lido
  <2>2. CASE Encerra(p, "99", FALSE)
    <3>1. ASSUME p = "dag", Quieto, ~maoGravou PROVE Ids(store) = BuildChunks[gold]
      <4>1. ~proc[p].mexeu /\ proc[p].quer = BuildChunks[gold]
        BY <2>1, <3>1 DEF EmDia
      <4>2. proc'[p].saida = "99"
        BY <1>1, <1>2, <2>2, EncerraTipo, ParadoTipo
      <4>3. store = Linhas(proc[p].quer, proc[p].modelo)
        BY <1>1, <2>1, <4>1, <4>2 DEF Exata
      <4>4. QED
        BY <4>1, <4>3, IdsLinhas
    <3>2. QED
      BY <1>1, <1>2, <2>2, <3>1, EmDiaFim
  <2>3. CASE Avanca(p, r)
    <3>1. {l.modelo : l \in store} \in SUBSET Modelos /\ dim \in {Dim[m] : m \in Modelos}
      BY <1>2 DEF Tipo
    <3>2. r \in Processo /\ Lido(r) /\ r.mexeu = proc[p].mexeu /\ r.quer = proc[p].quer
      BY <1>2, <3>1 DEF Processo, Fases, Lido
    <3>3. Quer(r) /\ (p = "dag" /\ Quieto => r.quer = BuildChunks[gold])
      BY <1>2, <2>1, <3>2 DEF Quer, EmDia
    <3>4. QED
      BY <1>1, <1>2, <2>1, <2>3, <3>2, <3>3, EmDiaAvanca
  <2>4. QED
    BY <2>1, <2>2, <2>3
<1>6. QED
  BY <1>3, <1>4, <1>5

LEMMA EmDiaProcesso ==
    ASSUME IInv, Run, EmDia, NEW p \in Procs, Rag01(p) \/ Morre(p), Exata(p)
    PROVE  EmDia'
<1>1. Tipo /\ "erro" \in Saida /\ proc[p] \in Processo /\ Quer(proc[p])
  BY DEF IInv, Tipo, Saida, EmDia
<1>2. Saidas \subseteq {"ok", "erro"}
  BY DEF Saidas
<1>3. CASE LerGold(p) \/ LerIds(p) \/ LerModelos(p)
  BY <1>3, EmDiaLeitura
<1>4. CASE Encerra(p, "erro", FALSE) /\ UNCHANGED <<store, gold, evento, publicando>>
  BY <1>1, <1>4, EmDiaFim
<1>5. ASSUME NEW s \in Saidas, Encerra(p, s, TRUE), UNCHANGED <<gold, evento, publicando>>,
             proc[p].fase \in {"plano", "rx"}
      PROVE  EmDia'
  BY <1>1, <1>2, <1>5, EmDiaEscrita
<1>6. CASE TrocarTudo(p)
  BY <1>4, <1>5, <1>6 DEF TrocarTudo, tabela, mundo
<1>7. CASE Copiar(p)
  <2> DEFINE r == [proc[p] EXCEPT !.fase = "rx"]
  <2>1. /\ proc[p].fase = "plano" /\ Lido(proc[p]) /\ UNCHANGED <<store, gold, evento, publicando>>
        /\ Encerra(p, "erro", FALSE) \/ Avanca(p, r)
    BY <1>7 DEF Copiar, tabela, mundo, Lido
  <2>2. r \in Processo /\ Lido(r) /\ r.mexeu = proc[p].mexeu /\ r.quer = proc[p].quer
    BY <1>1 DEF Processo, Fases, Lido
  <2>3. Quer(r) /\ (p = "dag" /\ Quieto => r.quer = BuildChunks[gold])
    BY <1>1, <2>1, <2>2 DEF Quer, EmDia
  <2>4. CASE Avanca(p, r)
    BY <1>1, <2>1, <2>2, <2>3, <2>4, EmDiaAvanca
  <2>5. QED
    BY <1>4, <2>1, <2>4
<1>8. CASE Confirmar(p)
  BY <1>5, <1>8 DEF Confirmar, mundo
<1>9. CASE Impasse(p)
  BY <1>4, <1>9 DEF Impasse, tabela, mundo
<1>10. CASE Morre(p)
  BY <1>4, <1>10 DEF Morre, tabela, mundo
<1>11. QED
  BY <1>3, <1>6, <1>7, <1>8, <1>9, <1>10 DEF Rag01

LEMMA EmDiaComeca ==
    ASSUME Tipo, Run, EmDia, NEW cheio \in BOOLEAN, UNCHANGED <<store, gold>>,
           \/ Comeca("mao", cheio) /\ UNCHANGED <<evento, publicando, dag, ultimo, maoGravou>>
           \/ Comeca("dag", cheio) /\ dag' = "build"
    PROVE  EmDia'
<1> DEFINE r == [Parado("nenhuma") EXCEPT !.fase = "gold", !.modelo = modelo, !.cheio = cheio]
<1>1. r.fase = "gold" /\ ~r.mexeu /\ ~Lido(r)
  BY DEF Parado, Lido
<1>2. "dag" \in Procs /\ "mao" \in Procs /\ "dag" # "mao"
  BY DEF Procs
<1>3. ASSUME NEW q \in Procs PROVE Quer(proc[q])'
  <2>1. proc'[q] = r \/ proc'[q] = proc[q]
    BY DEF Comeca, Tipo
  <2>2. QED
    BY <1>1, <2>1 DEF EmDia, Quer, Lido
<1>4. CASE Comeca("mao", cheio) /\ UNCHANGED <<evento, publicando, dag, ultimo, maoGravou>>
  <2>1. proc'["dag"] = proc["dag"]
    BY <1>2, <1>4 DEF Comeca, Tipo
  <2>2. QED
    BY <1>3, <1>4, <2>1 DEF EmDia, Lido, Quieto
<1>5. CASE Comeca("dag", cheio) /\ dag' = "build"
  <2>1. proc'["dag"] = r
    BY <1>2, <1>5 DEF Comeca, Tipo
  <2>2. QED
    BY <1>1, <1>3, <1>5, <2>1 DEF EmDia, Lido
<1>6. QED
  BY <1>4, <1>5

\* A step that leaves processes, store, gold and events alone, and turns the
\* run green only from its evaluation.
LEMMA EmDiaAlheio ==
    ASSUME EmDia, UNCHANGED <<store, proc, gold, evento, publicando, maoGravou>>,
           \/ UNCHANGED <<dag, ultimo>>
           \/ dag \in {"avaliar", "avaliando"}
           \/ dag' \notin {"avaliar", "avaliando"} /\ ~(dag' = "ocioso" /\ ultimo' = "verde")
    PROVE  EmDia'
<1>1. \A p \in Procs : Quer(proc[p])'
  BY DEF EmDia, Quer, Lido
<1>2. QED
  BY <1>1 DEF EmDia, Lido, Quieto, Ids

LEMMA PassoEmDia ==
    ASSUME IInv, Run, EmDia, [Next]_vars
    PROVE  EmDia'
<1>1. /\ Tipo /\ "dag" \in Procs /\ "mao" \in Procs /\ "erro" \in Saida
      /\ gold \in 1..Len(Golds) /\ Len(Golds) \in Nat
  BY RagAssumption DEF IInv, Tipo, Procs, Saida
<1>2. CASE \E p \in Procs : Rag01(p) \/ Morre(p)
  BY <1>2, Passo, EmDiaProcesso
<1>3. CASE EsgotaTempo
  BY <1>1, <1>3, EmDiaFim DEF EsgotaTempo, tabela, mundo
<1>4. CASE \E cheio \in BOOLEAN : RodarAMao(cheio)
  BY <1>1, <1>4, EmDiaComeca DEF RodarAMao, tabela, mundo
<1>5. CASE AbrirRun
  BY <1>1, <1>5, EmDiaComeca DEF AbrirRun, tabela, mundo
<1>6. CASE PublicaGold
  <2>1. gold' = gold + 1 /\ gold' \in 1..Len(Golds) /\ gold < gold' /\ publicando' = TRUE
        /\ UNCHANGED <<store, proc, maoGravou>>
    BY <1>1, <1>6 DEF PublicaGold, tabela
  <2>2. BuildChunks[gold'] = {} => BuildChunks[gold] = {}
    BY <1>1, <2>1, GoldNaoEsvazia
  <2>3. ASSUME NEW p \in Procs PROVE Quer(proc[p])'
    <3>1. 1..gold \subseteq 1..gold'
      BY <1>1, <2>1
    <3>2. QED
      BY <2>1, <3>1 DEF EmDia, Quer, Lido
  <2>4. QED
    BY <2>1, <2>2, <2>3 DEF EmDia, Quieto
<1>7. CASE EmiteAsset
  <2>1. UNCHANGED <<store, proc, gold, maoGravou, dag, ultimo>> /\ evento' = TRUE
    BY <1>7 DEF EmiteAsset, tabela
  <2>2. \A p \in Procs : Quer(proc[p])'
    BY <2>1 DEF EmDia, Quer, Lido
  <2>3. QED
    BY <2>1, <2>2 DEF EmDia, Quieto
<1>8. CASE \E m \in Modelos : TrocaModelo(m)
  BY <1>8, EmDiaAlheio DEF TrocaModelo, tabela
<1>9. CASE ComecaAval
  BY <1>9, EmDiaAlheio DEF ComecaAval, tabela, mundo
<1>10. CASE Recuperar
  BY <1>10, EmDiaAlheio DEF Recuperar, tabela, mundo
<1>11. CASE ConferirVerdade
  BY <1>11, EmDiaAlheio DEF ConferirVerdade, tabela, mundo
<1>12. CASE Resumir
  BY <1>12, EmDiaAlheio DEF Resumir, tabela, mundo
<1>13. CASE MorreAval
  BY <1>13, EmDiaAlheio DEF MorreAval, tabela, mundo
<1>14. CASE PerdeIndice
  BY <1>14, EmDiaAlheio DEF PerdeIndice, mundo
<1>15. CASE UNCHANGED vars
  BY <1>15, EmDiaAlheio DEF vars
<1>16. QED
  BY <1>2, <1>3, <1>4, <1>5, <1>6, <1>7, <1>8, <1>9, <1>10, <1>11, <1>12, <1>13, <1>14, <1>15
     DEF Next, Airflow

\* After a green run with no publication on its way the store has what gold
\* has, unless a run by hand wrote since it began: the event that arrives
\* during a run opens another one (dag_rag_anp.py, max_active_runs=1).
THEOREM VerdeSemDefasagem == Spec => []SemDefasagem
<1> DEFINE Inv == IInv /\ Run /\ EmDia
<1>1. Init => Inv
  <2> SUFFICES ASSUME Init PROVE Inv
    OBVIOUS
  <2>1. Parado("nenhuma").fase = "fora"
    BY DEF Parado
  <2>2. Run
    BY <2>1 DEF Init, Run, Procs
  <2>3. EmDia
    BY <2>1 DEF Init, EmDia, Quer, Lido, Quieto, Procs
  <2>4. QED
    BY InitIInv, <2>2, <2>3
<1>2. Inv /\ [Next]_vars => Inv'
  <2> SUFFICES ASSUME Inv, [Next]_vars PROVE Inv'
    OBVIOUS
  <2>1. Run'
    BY PassoRun DEF IInv
  <2>2. QED
    BY Passo, PassoEmDia, <2>1
<1>3. Inv => SemDefasagem
  BY DEF EmDia, SemDefasagem, Quieto
<1>4. QED
  BY <1>1, <1>2, <1>3, PTL DEF Spec
-----------------------------------------------------------------------------
(* The gate.  The router reads a clear question as its item means it, the    *)
(* SQL of that reading gives the value of the truth, and the counters of the *)
(* evaluation follow the questions one by one while gold stays.              *)

\* The longest of the names in the question, when there is one.
LEMMA NomeLido ==
    ASSUME NEW texto, NEW termos, NEW t \in termos, t # Nada, Diz(texto, termos, t),
           \A u \in termos : Len(u) \in Nat
    PROVE  AcharEntidade(texto, termos) = t
<1> DEFINE exatos == {x \in termos : Ocorre(x, texto)}
           maior(x) == \A u \in exatos : Len(u) <= Len(x)
<1>1. t \in exatos /\ \A u \in exatos \ {t} : Len(u) < Len(t)
  BY DEF Diz
<1>2. \A u \in exatos : Len(u) \in Nat
  OBVIOUS
<1>3. AcharEntidade(texto, termos) = CHOOSE x \in exatos : maior(x)
  BY <1>1 DEF AcharEntidade
<1> HIDE DEF exatos
<1>4. maior(t)
  BY <1>1, <1>2
<1>5. ASSUME NEW x \in exatos, maior(x) PROVE x = t
  BY <1>1, <1>2, <1>5
<1>6. QED
  BY <1>1, <1>3, <1>4, <1>5

LEMMA NadaLido ==
    ASSUME NEW texto, NEW termos, Diz(texto, termos, Nada)
    PROVE  AcharEntidade(texto, termos) = Nada
<1>1. {x \in termos : Ocorre(x, texto)} = {} /\ {x \in termos : Ocorre(x, Certo(texto))} = {}
  BY DEF Diz
<1>2. QED
  BY <1>1 DEF AcharEntidade

Leitura(n, g) == Interpretar(Golden[n].q, Dimensoes(Golds[g]))

LEMMA CamposLidos ==
    ASSUME NEW q, NEW dims
    PROVE  LET i == Interpretar(q, dims)
           IN  /\ i.cnpj = q.cnpj /\ i.agregacao = DetectarAgregacao(q.pede)
               /\ i.produto = AcharEntidade(q.texto, dims.produtos)
               /\ i.municipio = AcharEntidade(q.texto, dims.municipios)
               /\ i.bandeira = AcharEntidade(q.texto, dims.bandeiras)
               /\ i.ini = ParsePeriodo(q, dims).ini
               /\ i.recente = (ParsePeriodo(q, dims).ini = 0 /\
                    (q.recente \/ (q.cnpj # "" /\ DetectarAgregacao(q.pede) = "nenhuma"
                                   /\ AcharEntidade(q.texto, dims.produtos) = Nada)))
BY DEF Interpretar

LEMMA FatoDe ==
    ASSUME NEW g \in 1..Len(Golds), NEW f \in Fatos(Golds[g])
    PROVE  /\ f.cnpj \in DOMAIN Golds[g].postos /\ f.produto \in Golds[g].produtos
           /\ Golds[g].postos[f.cnpj].uf = UF
           /\ f.municipio = Golds[g].postos[f.cnpj].municipio
BY DEF Fatos

LEMMA DimensoesDe ==
    ASSUME NEW g \in 1..Len(Golds)
    PROVE  /\ Dimensoes(Golds[g]).produtos = Golds[g].produtos
           /\ Dimensoes(Golds[g]).municipios =
                {Golds[g].postos[c].municipio :
                    c \in {x \in DOMAIN Golds[g].postos : Golds[g].postos[x].uf = UF}}
BY DEF Dimensoes

\* A question of the golden set is read by the names of its truth.
LEMMA NomesLidos ==
    ASSUME NEW g \in 1..Len(Golds), NEW n \in 1..Len(Golden), Acomodada(Golds[g]),
           Nomeia(Golden[n].q, Golds[g], Golden[n].filtro)
    PROVE  /\ Leitura(n, g).produto = Golden[n].filtro.produto
           /\ Leitura(n, g).municipio = Golden[n].filtro.municipio
           /\ Leitura(n, g).bandeira = Nada
<1> DEFINE it == Golden[n]
           d == Dimensoes(Golds[g])
<1>1. PICK f \in Fatos(Golds[g]) : /\ it.filtro.municipio \in {Nada, f.municipio}
                                   /\ it.filtro.produto \in {Nada, f.produto}
  BY DEF Acomodada, Filtrados
<1>2. f.produto \in d.produtos /\ f.municipio \in d.municipios
  <2>1. /\ f.cnpj \in {x \in DOMAIN Golds[g].postos : Golds[g].postos[x].uf = UF}
        /\ f.municipio = Golds[g].postos[f.cnpj].municipio /\ f.produto \in Golds[g].produtos
    BY FatoDe
  <2>2. f.municipio \in {Golds[g].postos[c].municipio :
                            c \in {x \in DOMAIN Golds[g].postos : Golds[g].postos[x].uf = UF}}
    BY <2>1
  <2>3. QED
    BY <2>1, <2>2, DimensoesDe
<1>3. /\ \A u \in d.produtos : Len(u) \in Nat
      /\ \A u \in d.municipios : Len(u) \in Nat
  BY DimensoesDe, GoldTipado
<1>4. /\ Diz(it.q.texto, d.produtos, it.filtro.produto)
      /\ Diz(it.q.texto, d.municipios, it.filtro.municipio)
      /\ Diz(it.q.texto, d.bandeiras, Nada)
  BY DEF Nomeia
<1> HIDE DEF d
<1>5. AcharEntidade(it.q.texto, d.produtos) = it.filtro.produto
  BY <1>1, <1>2, <1>3, <1>4, NomeLido, NadaLido
<1>6. AcharEntidade(it.q.texto, d.municipios) = it.filtro.municipio
  BY <1>1, <1>2, <1>3, <1>4, NomeLido, NadaLido
<1>7. AcharEntidade(it.q.texto, d.bandeiras) = Nada
  BY <1>4, NadaLido
<1>8. QED
  BY <1>5, <1>6, <1>7, CamposLidos DEF Leitura, d

LEMMA RotaCerta ==
    ASSUME NEW g \in 1..Len(Golds), NEW n \in 1..Len(Golden), Acomodada(Golds[g]),
           Roteada(Golden[n], Golds[g], DetectarAgregacao(Golden[n].q.pede))
    PROVE  Metodo(Leitura(n, g)) = Golden[n].esperado
<1>1. /\ Leitura(n, g).cnpj = Golden[n].q.cnpj
      /\ Leitura(n, g).agregacao = DetectarAgregacao(Golden[n].q.pede)
  BY CamposLidos DEF Leitura
<1>2. Nomeia(Golden[n].q, Golds[g], Golden[n].filtro) =>
        /\ Leitura(n, g).produto = Golden[n].filtro.produto
        /\ Leitura(n, g).municipio = Golden[n].filtro.municipio
        /\ Leitura(n, g).bandeira = Nada
  BY NomesLidos
<1>3. QED
  BY <1>1, <1>2 DEF Roteada, Metodo, UsaSql

LEMMA FatosFinitos ==
    ASSUME NEW g \in 1..Len(Golds)
    PROVE  IsFiniteSet(Fatos(Golds[g]))
<1> DEFINE G == Golds[g]
           X == {x \in G.ft : x.cnpj \in DOMAIN G.postos /\ x.produto \in G.produtos
                              /\ G.postos[x.cnpj].uf = UF}
           r(f) == [id |-> f.id, cnpj |-> f.cnpj, produto |-> f.produto, valor |-> f.valor,
                    data |-> f.data, municipio |-> G.postos[f.cnpj].municipio,
                    bandeira |-> G.postos[f.cnpj].bandeira]
<1>1. IsFiniteSet(X)
  BY GoldTipado, FS_Subset
<1>2. Fatos(G) = {r(f) : f \in X}
  BY DEF Fatos
<1> DEFINE h == [f \in X |-> r(f)]
<1> HIDE DEF X, r
<1>3. h \in Surjection(X, {r(f) : f \in X})
  BY DEF Surjection
<1>4. QED
  BY <1>1, <1>2, <1>3, FS_Surjection

\* A set of facts that is not empty has a mean, and so has every count.
LEMMA TemValor ==
    ASSUME NEW S, IsFiniteSet(S), S # {}
    PROVE  Fracao(S).n > 0
BY FS_EmptySet, FS_CardinalityType DEF Fracao

LEMMA IgualASi ==
    ASSUME NEW a, a.n > 0
    PROVE  Iguais(a, a)
BY DEF Iguais

\* The stations of a municipality are those of its prices, when every station
\* has a price.
LEMMA RevendasComPreco ==
    ASSUME NEW g \in 1..Len(Golds), NEW it, Acomodada(Golds[g]),
           it.filtro.cnpj = "", it.filtro.produto = Nada, it.filtro.municipio # Nada
    PROVE  Postos(Filtrados(Golds[g], it)) = Revendas(Golds[g], it)
<1>1. ASSUME NEW f \in Filtrados(Golds[g], it) PROVE f.cnpj \in Revendas(Golds[g], it)
  <2>1. f \in Fatos(Golds[g]) /\ f.municipio = it.filtro.municipio
    BY DEF Filtrados
  <2>2. QED
    BY <2>1, FatoDe DEF Revendas
<1>2. ASSUME NEW c \in Revendas(Golds[g], it)
      PROVE  \E f \in Filtrados(Golds[g], it) : f.cnpj = c
  <2>1. PICK f \in Fatos(Golds[g]) : f.cnpj = c
    BY DEF Acomodada, Revendas
  <2>2. f.municipio = it.filtro.municipio
    BY <2>1, FatoDe DEF Revendas
  <2>3. f \in Filtrados(Golds[g], it)
    BY <2>2 DEF Filtrados
  <2>4. QED
    BY <2>1, <2>3
<1>3. QED
  BY <1>1, <1>2 DEF Postos

\* Every nonempty set of naturals has a least member.
LEMMA TemMenor ==
    ASSUME NEW T, T \subseteq Nat, T # {}
    PROVE  \E x \in T : \A y \in T : x =< y
<1>1. \A x, y \in Nat : x < y => <<x, y>> \in OpToRel(<, Nat)
  BY DEF OpToRel
<1>2. PICK x \in T : \A y \in T : ~(<<y, x>> \in OpToRel(<, Nat))
  BY NatLessThanWellFounded, WFMin
<1>3. \A y \in T : x \in Nat /\ y \in Nat /\ ~(y < x)
  BY <1>1, <1>2
<1>4. QED
  BY <1>3

\* Of one product, the mean of the first product is the mean.
LEMMA MediaDeUm ==
    ASSUME NEW S, S # {}, NEW p \in ToSet(Alfabeto), \A f \in S : f.produto = p
    PROVE  SqlStats(S).valor = Fracao(S)
<1> DEFINE com == {n \in 1..Len(Alfabeto) : \E f \in S : f.produto = Alfabeto[n]}
           um == {f \in S : f.produto = Alfabeto[Min(com)]}
<1>1. com # {} /\ \A n \in com : Alfabeto[n] = p
  BY DEF ToSet
<1>2. Min(com) \in com
  <2>1. com \subseteq Nat
    OBVIOUS
  <2> HIDE DEF com
  <2>2. PICK x \in com : \A y \in com : x =< y
    BY <1>1, <2>1, TemMenor
  <2>3. QED
    BY <2>2 DEF Min
<1>3. um = S
  BY <1>1, <1>2
<1> HIDE DEF um
<1>4. QED
  BY <1>3 DEF SqlStats, um

LEMMA ValorCerto ==
    ASSUME NEW g \in 1..Len(Golds), NEW n \in 1..Len(Golden), Acomodada(Golds[g]),
           Medida(Golden[n], Golds[g], DetectarAgregacao(Golden[n].q.pede))
    PROVE  Iguais(ExecutarSql(BuildChunks[g], Leitura(n, g)).valor, Verdade(Golds[g], Golden[n]))
<1> DEFINE it == Golden[n]
           i == Leitura(n, g)
           F == Fatos(Golds[g])
           S == Filtrados(Golds[g], it)
<1>1. BuildChunks[g] = F
  BY DEF BuildChunks
<1>2. i.produto = it.filtro.produto /\ i.municipio = it.filtro.municipio /\ i.bandeira = Nada
  BY NomesLidos DEF Medida
<1>3. /\ i.cnpj = it.filtro.cnpj /\ i.agregacao = DetectarAgregacao(it.q.pede)
      /\ i.ini = 0 /\ ~i.recente
  <2>1. ParsePeriodo(it.q, Dimensoes(Golds[g])).ini = 0
    BY DEF Medida, ParsePeriodo
  <2>2. it.q.cnpj = it.filtro.cnpj /\ ~it.q.recente
    BY DEF Medida
  <2>a. \A v \in DOMAIN Funcao : "nenhuma" \notin Funcao[v]
    BY DEF Funcao
  <2>b. DetectarAgregacao(it.q.pede) # "nenhuma"
    BY <2>a DEF Medida
  <2>3. QED
    BY <2>1, <2>2, <2>b, CamposLidos DEF Leitura
<1>4. S # {} /\ S \subseteq F /\ IsFiniteSet(S)
  BY FatosFinitos, FS_Subset DEF Acomodada, Filtrados
<1>5. /\ ResolverPeriodo(F, i) = i
      /\ Filtros(F, i) = S
  <2>1. ResolverPeriodo(F, i) = i
    BY <1>3 DEF ResolverPeriodo
  <2>2. Filtros(F, i) = {x \in F : /\ it.filtro.cnpj \in {"", x.cnpj}
                                   /\ it.filtro.municipio \in {Nada, x.municipio}
                                   /\ it.filtro.produto \in {Nada, x.produto}}
    <3> HIDE DEF i, it, F
    <3>1. QED
      BY <1>2, <1>3 DEF Filtros
  <2>3. QED
    BY <2>1, <2>2 DEF Filtrados
<1>6. \A f \in S : it.filtro.produto # Nada => f.produto = it.filtro.produto
  BY DEF Filtrados
<1>7. /\ it.verdade \in DOMAIN Funcao /\ i.agregacao \in Funcao[it.verdade]
      /\ it.verdade \in {"avg", "max", "min"} =>
            it.filtro.produto \in ToSet(Alfabeto) \ {Nada}
      /\ it.verdade = "revendas" => /\ it.filtro.cnpj = "" /\ it.filtro.produto = Nada
                                    /\ it.filtro.municipio # Nada
  BY <1>3 DEF Medida
<1>a. /\ DOMAIN Funcao = {"revendas", "postos", "avg", "max", "min"}
      /\ Funcao["revendas"] = {"COUNT", "LISTA"} /\ Funcao["postos"] = {"COUNT", "LISTA"}
      /\ Funcao["avg"] = {"STATS"} /\ Funcao["max"] = {"MAX"} /\ Funcao["min"] = {"MIN"}
  BY DEF Funcao
<1> HIDE DEF i, F, S, it
<1>8. CASE it.verdade \in {"revendas", "postos"}
  <2>1. i.agregacao \in {"COUNT", "LISTA"}
    BY <1>7, <1>8, <1>a
  <2>2. ExecutarSql(F, i).valor = Inteiro(Cardinality(Postos(S)))
    BY <1>5, <2>1 DEF ExecutarSql
  <2>3. Verdade(Golds[g], it) = Inteiro(Cardinality(Postos(S)))
    <3>1. CASE it.verdade = "postos"
      BY <3>1 DEF Verdade, S
    <3>2. CASE it.verdade = "revendas"
      BY <1>7, <3>2, RevendasComPreco DEF Verdade, S
    <3>3. QED
      BY <1>8, <3>1, <3>2
  <2>4. QED
    <3>1. Inteiro(Cardinality(Postos(S))).n > 0
      BY DEF Inteiro
    <3>2. QED
      BY <1>1, <2>2, <2>3, <3>1, IgualASi DEF it, i
<1>9. CASE it.verdade = "avg"
  <2>1. i.agregacao = "STATS" /\ it.filtro.produto \in ToSet(Alfabeto) \ {Nada}
    BY <1>7, <1>9, <1>a
  <2>2. ExecutarSql(F, i).valor = Fracao(S)
    BY <1>4, <1>5, <1>6, <2>1, MediaDeUm DEF ExecutarSql
  <2>3. Verdade(Golds[g], it) = Fracao(S)
    BY <1>4, <1>9 DEF Verdade, S
  <2>4. QED
    BY <1>1, <1>4, <2>2, <2>3, IgualASi, TemValor DEF it, i
<1>10. CASE it.verdade \in {"max", "min"}
  <2>1. /\ i.agregacao = IF it.verdade = "max" THEN "MAX" ELSE "MIN"
        /\ i.produto # Nada
    BY <1>2, <1>7, <1>10, <1>a
  <2> DEFINE v == Inteiro(IF it.verdade = "max" THEN Max(Valores(S)) ELSE Min(Valores(S)))
  <2>2. ExecutarSql(F, i).valor = v
    BY <1>4, <1>5, <1>10, <2>1 DEF ExecutarSql, SqlRanking
  <2>3. Verdade(Golds[g], it) = v
    BY <1>4, <1>10 DEF Verdade, S
  <2>4. QED
    <3>1. v.n > 0
      BY DEF Inteiro
    <3> HIDE DEF v
    <3>2. QED
      BY <1>1, <2>2, <2>3, <3>1, IgualASi DEF it, i
<1>11. QED
  BY <1>7, <1>8, <1>9, <1>10, <1>a

\* What the evaluation has counted, while gold is the one it took its names from.
EmConta ==
    /\ aval.n \in 1..(Len(Golden) + 1)
    /\ aval.rot = IF aval.pede THEN aval.n ELSE aval.n - 1
    /\ aval.val = Cardinality(ComVerdade(aval.n - 1))
    /\ aval.pede => /\ aval.n <= Len(Golden) /\ Golden[aval.n].verdade # ""
                    /\ aval.obtido = Respostas[aval.n][gold][gold].valor

Conferida ==
    dag = "avaliando" =>
        /\ aval.g \in 1..gold
        /\ aval.g = gold /\ Acomodada(Golds[gold]) => EmConta

LEMMA MaisUma ==
    ASSUME NEW n \in 1..Len(Golden)
    PROVE  /\ Cardinality(ComVerdade(n - 1)) \in Nat
           /\ Golden[n].verdade # "" => Cardinality(ComVerdade(n)) = Cardinality(ComVerdade(n - 1)) + 1
           /\ Golden[n].verdade = "" => ComVerdade(n) = ComVerdade(n - 1)
<1>1. n \in Nat /\ n - 1 \in Nat /\ n \notin 1..(n - 1) /\ 1..n = 1..(n - 1) \cup {n}
  BY RagAssumption
<1>2. IsFiniteSet(ComVerdade(n - 1))
  <2>1. IsFiniteSet(1..(n - 1))
    BY <1>1, FS_Interval
  <2>2. ComVerdade(n - 1) \subseteq 1..(n - 1)
    BY DEF ComVerdade
  <2>3. QED
    BY <2>1, <2>2, FS_Subset
<1>3. n \notin ComVerdade(n - 1)
  BY <1>1 DEF ComVerdade
<1>4. Cardinality(ComVerdade(n - 1)) \in Nat
  BY <1>2, FS_CardinalityType
<1>5. CASE Golden[n].verdade # ""
  <2>1. ComVerdade(n) = ComVerdade(n - 1) \cup {n}
    BY <1>1, <1>5 DEF ComVerdade
  <2>2. QED
    BY <1>2, <1>3, <1>4, <1>5, <2>1, FS_AddElement
<1>6. CASE Golden[n].verdade = ""
  <2>1. ComVerdade(n) = ComVerdade(n - 1)
    BY <1>1, <1>6 DEF ComVerdade
  <2>2. QED
    BY <1>4, <1>6, <2>1
<1>7. QED
  BY <1>4, <1>5, <1>6

LEMMA RespostaDe ==
    ASSUME GoldenClaro, NEW g \in 1..Len(Golds), NEW n \in 1..Len(Golden), Acomodada(Golds[g])
    PROVE  /\ Respostas[n][g][g].metodo = Golden[n].esperado
           /\ Golden[n].verdade # "" =>
                /\ Iguais(Respostas[n][g][g].valor, Verdades[n][g])
                /\ Respostas[n][g][g].sql
<1> DEFINE a == DetectarAgregacao(Golden[n].q.pede)
<1>1. /\ Roteada(Golden[n], Golds[g], a)
      /\ Golden[n].verdade # "" => Medida(Golden[n], Golds[g], a)
  BY DEF GoldenClaro
<1>2. Metodo(Leitura(n, g)) = Golden[n].esperado
  BY <1>1, RotaCerta
<1>3. Respostas[n][g][g] =
        [sql |-> UsaSql(Leitura(n, g)), metodo |-> Metodo(Leitura(n, g)),
         valor |-> IF UsaSql(Leitura(n, g)) THEN ExecutarSql(BuildChunks[g], Leitura(n, g)).valor
                   ELSE SemValor]
  BY DEF Respostas, Leitura
<1>4. ASSUME Golden[n].verdade # ""
      PROVE  /\ UsaSql(Leitura(n, g))
             /\ Iguais(ExecutarSql(BuildChunks[g], Leitura(n, g)).valor, Verdade(Golds[g], Golden[n]))
  <2>1. Medida(Golden[n], Golds[g], a)
    BY <1>1, <1>4
  <2>2. UsaSql(Leitura(n, g))
    BY <1>2, <2>1 DEF Medida, Metodo
  <2>3. QED
    BY <2>1, <2>2, ValorCerto
<1>5. Verdades[n][g] = Verdade(Golds[g], Golden[n])
  BY DEF Verdades
<1> DEFINE i == Leitura(n, g)
           v == ExecutarSql(BuildChunks[g], i).valor
<1>6. /\ Respostas[n][g][g].sql = UsaSql(i) /\ Respostas[n][g][g].metodo = Metodo(i)
      /\ UsaSql(i) => Respostas[n][g][g].valor = v
  BY <1>3
<1> HIDE DEF i, v
<1>7. QED
  BY <1>2, <1>4, <1>5, <1>6 DEF i, v

\* A step that neither evaluates nor takes gold back.
LEMMA ConferidaAlheio ==
    ASSUME Conferida, aval' = aval, dag' = "avaliando" => dag = "avaliando",
           gold \in Nat, gold' = gold \/ gold' = gold + 1
    PROVE  Conferida'
<1>1. CASE gold' = gold
  BY <1>1 DEF Conferida, EmConta
<1>2. CASE gold' = gold + 1
  BY <1>2 DEF Conferida
<1>3. QED
  BY <1>1, <1>2

LEMMA PassoRecuperar ==
    ASSUME GoldenClaro, gold \in 1..Len(Golds), Contagem(aval), Conferida, Recuperar
    PROVE  Conferida'
<1> DEFINE it == Golden[aval.n]
           r == Respostas[aval.n][aval.g][gold]
<1>1. dag = "avaliando" /\ ~aval.pede /\ aval.n <= Len(Golden) /\ gold' = gold
  BY DEF Recuperar, mundo
<1>2. CASE UNCHANGED aval
  <2>1. dag' = "avaliando" => dag = "avaliando"
    BY <1>1
  <2>2. QED
    BY <1>1, <1>2, <2>1, ConferidaAlheio
<1>3. CASE ~UNCHANGED aval
  <2>1. aval'.g = aval.g /\ aval'.val = aval.val
        /\ aval'.pede = (it.verdade # "") /\ aval'.obtido = r.valor
        /\ aval'.n = aval.n + (IF it.verdade = "" THEN 1 ELSE 0)
        /\ aval'.rot = aval.rot + (IF r.metodo = it.esperado THEN 1 ELSE 0)
    BY <1>3 DEF Recuperar, Contagem
  <2>2. ASSUME aval.g = gold, Acomodada(Golds[gold]) PROVE EmConta'
    <3>1. EmConta /\ aval.n \in 1..Len(Golden) /\ Len(Golden) \in Nat
      <4>1. EmConta
        BY <1>1, <2>2 DEF Conferida
      <4>2. aval.n \in 1..(Len(Golden) + 1) /\ Len(Golden) \in Nat /\ aval.n <= Len(Golden)
        BY <1>1, <4>1, RagAssumption DEF EmConta
      <4>3. QED
        BY <4>1, <4>2
    <3>2. /\ r.metodo = it.esperado
          /\ it.verdade = "" => ComVerdade(aval.n) = ComVerdade(aval.n - 1)
      BY <2>2, <3>1, RespostaDe, MaisUma DEF EmConta
    <3> HIDE DEF it, r
    <3>3. aval.rot = aval.n - 1 /\ aval.n \in Nat
      <4>1. aval.rot = aval.n - 1
        BY <1>1, <3>1 DEF EmConta
      <4>2. QED
        BY <3>1, <4>1
    <3>a. aval'.rot = aval.n
      <4>1. aval'.rot = aval.rot + 1
        BY <2>1, <3>2
      <4>2. QED
        BY <3>3, <4>1
    <3>4. CASE it.verdade = ""
      <4>1. aval'.n = aval.n + 1 /\ aval'.rot = aval.n /\ aval'.pede = FALSE
        BY <2>1, <3>a, <3>4
      <4>2. aval'.val = Cardinality(ComVerdade(aval'.n - 1))
        <5>1. aval'.n - 1 = aval.n
          BY <3>1, <4>1
        <5>2. QED
          BY <2>1, <3>1, <3>2, <3>4, <5>1 DEF EmConta
      <4>3. aval'.n \in 1..(Len(Golden) + 1) /\ aval'.n - 1 = aval.n
        BY <3>1, <4>1
      <4>4. QED
        BY <4>1, <4>2, <4>3 DEF EmConta
    <3>5. CASE it.verdade # ""
      <4>1. aval'.n = aval.n /\ aval'.rot = aval.n /\ aval'.pede = TRUE
        <5>1. aval'.n = aval.n + 0 /\ aval'.pede = TRUE
          BY <2>1, <3>5, Zenon
        <5>2. QED
          BY <3>3, <3>a, <5>1
      <4>2. aval'.val = Cardinality(ComVerdade(aval'.n - 1))
        BY <2>1, <3>1, <4>1 DEF EmConta
      <4>3. Golden[aval'.n].verdade # "" /\ aval'.obtido = Respostas[aval'.n][gold'][gold'].valor
        BY <1>1, <2>1, <2>2, <3>5, <4>1 DEF it, r
      <4>4. aval'.n \in 1..(Len(Golden) + 1) /\ aval'.n <= Len(Golden)
        BY <3>1, <4>1
      <4>5. QED
        BY <4>1, <4>2, <4>3, <4>4 DEF EmConta
    <3>6. QED
      BY <3>4, <3>5
  <2>3. QED
    BY <1>1, <2>1, <2>2 DEF Conferida
<1>4. QED
  BY <1>2, <1>3

LEMMA PassoConferir ==
    ASSUME GoldenClaro, gold \in 1..Len(Golds), Contagem(aval), Conferida, ConferirVerdade
    PROVE  Conferida'
<1>1. /\ dag = "avaliando" /\ aval.pede /\ gold' = gold
      /\ aval'.pede = FALSE /\ aval'.n = aval.n + 1 /\ aval'.g = aval.g /\ aval'.rot = aval.rot
      /\ aval'.val = aval.val + IF Iguais(aval.obtido, Verdades[aval.n][gold]) THEN 1 ELSE 0
  BY DEF ConferirVerdade, Contagem, mundo
<1>2. ASSUME aval.g = gold, Acomodada(Golds[gold]) PROVE EmConta'
  <2>1. EmConta
    BY <1>1, <1>2 DEF Conferida
  <2>a. /\ aval.n \in 1..(Len(Golden) + 1) /\ aval.n <= Len(Golden) /\ aval.rot = aval.n
        /\ Len(Golden) \in Nat
    BY <1>1, <2>1, RagAssumption DEF EmConta
  <2>2. aval.n \in 1..Len(Golden) /\ Len(Golden) \in Nat
    BY <2>a
  <2>3. aval'.val = aval.val + 1
    <3>1. aval.obtido = Respostas[aval.n][gold][gold].valor /\ Golden[aval.n].verdade # ""
      BY <1>1, <2>1 DEF EmConta
    <3>2. Iguais(aval.obtido, Verdades[aval.n][gold])
      BY <1>2, <2>2, <3>1, RespostaDe
    <3>3. QED
      BY <1>1, <3>2
  <2>4. aval'.val = Cardinality(ComVerdade(aval'.n - 1))
    <3>1. aval'.n - 1 = aval.n
      BY <1>1, <2>2
    <3>2. aval.val = Cardinality(ComVerdade(aval.n - 1)) /\ Golden[aval.n].verdade # ""
      BY <1>1, <2>1 DEF EmConta
    <3>3. QED
      BY <2>2, <2>3, <3>1, <3>2, MaisUma
  <2>5. aval'.n \in 1..(Len(Golden) + 1) /\ aval'.n - 1 = aval.n /\ aval.rot = aval.n
    BY <1>1, <2>a
  <2>6. aval'.rot = aval'.n - 1 /\ ~aval'.pede
    BY <1>1, <2>5
  <2>7. aval'.rot = IF aval'.pede THEN aval'.n ELSE aval'.n - 1
    BY <2>6
  <2>8. QED
    BY <2>4, <2>5, <2>6, <2>7 DEF EmConta
<1>3. QED
  BY <1>1, <1>2 DEF Conferida

LEMMA PassoComecaAval ==
    ASSUME gold \in 1..Len(Golds), ComecaAval
    PROVE  Conferida'
<1>1. /\ gold' = gold /\ aval'.n = 1 /\ aval'.g = gold /\ aval'.pede = FALSE
      /\ aval'.rot = 0 /\ aval'.val = 0
  BY DEF ComecaAval, mundo, SemAval
<1>2. ComVerdade(0) = {} /\ Cardinality({}) = 0
  BY FS_EmptySet DEF ComVerdade
<1>3. 1 \in 1..(Len(Golden) + 1) /\ gold \in 1..gold
  BY RagAssumption
<1>4. EmConta'
  <2>1. aval'.n - 1 = 0
    BY <1>1
  <2>2. aval'.val = Cardinality(ComVerdade(aval'.n - 1))
    BY <1>1, <1>2, <2>1
  <2>3. aval'.rot = IF aval'.pede THEN aval'.n ELSE aval'.n - 1
    BY <1>1, <2>1
  <2>4. QED
    BY <1>1, <1>3, <2>2, <2>3 DEF EmConta
<1>5. QED
  BY <1>1, <1>3, <1>4 DEF Conferida

LEMMA PassoConferida ==
    ASSUME GoldenClaro, Tipo, Run, Contagem(aval), Conferida, [Next]_vars
    PROVE  Conferida'
<1>0. gold \in 1..Len(Golds) /\ gold \in Nat
  BY RagAssumption DEF Tipo
<1>1. CASE Recuperar
  BY <1>0, <1>1, PassoRecuperar
<1>2. CASE ConferirVerdade
  BY <1>0, <1>2, PassoConferir
<1>3. CASE ComecaAval
  BY <1>0, <1>3, PassoComecaAval
<1>4. CASE Resumir \/ MorreAval \/ AbrirRun
  BY <1>4 DEF Resumir, MorreAval, AbrirRun, FimAval, Conferida
<1>5. CASE PublicaGold \/ EmiteAsset \/ (\E m \in Modelos : TrocaModelo(m))
           \/ (\E cheio \in BOOLEAN : RodarAMao(cheio)) \/ PerdeIndice \/ UNCHANGED vars
  <2>1. /\ UNCHANGED <<aval, dag>>
        /\ gold' = gold \/ gold' = gold + 1
    BY <1>5 DEF PublicaGold, EmiteAsset, TrocaModelo, RodarAMao, PerdeIndice, vars, mundo
  <2>2. QED
    BY <1>0, <2>1, ConferidaAlheio
<1>6. CASE (\E p \in Procs : Rag01(p) \/ Morre(p)) \/ EsgotaTempo
  <2>1. UNCHANGED <<aval, gold>>
    BY <1>6 DEF Rag01, LerGold, LerIds, LerModelos, TrocarTudo, Copiar, Confirmar, Impasse,
                Morre, EsgotaTempo, mundo
  <2>2. dag' = "avaliando" => dag = "avaliando"
    BY <1>6 DEF Rag01, LerGold, LerIds, LerModelos, TrocarTudo, Copiar, Confirmar, Impasse,
                Morre, EsgotaTempo, Encerra, Avanca, Resultado
  <2>3. QED
    BY <1>0, <2>1, <2>2, ConferidaAlheio
<1>7. QED
  BY <1>1, <1>2, <1>3, <1>4, <1>5, <1>6 DEF Next, Airflow

InvPortao == IInv /\ Run /\ Contagem(aval) /\ Conferida

LEMMA SempreInvPortao ==
    ASSUME GoldenClaro
    PROVE  Spec => []InvPortao
<1>1. Init => InvPortao
  <2> SUFFICES ASSUME Init PROVE InvPortao
    OBVIOUS
  <2>1. Parado("nenhuma").fase = "fora"
    BY DEF Parado
  <2>2. Run
    BY <2>1 DEF Init, Run, Procs
  <2>3. Contagem(aval)
    <3>1. 0 \in 0..(Len(Golden) + 1)
      BY RagAssumption
    <3>2. QED
      BY <3>1, ContagemDe DEF Init, SemAval
  <2>4. Conferida
    BY DEF Init, Conferida
  <2>5. QED
    BY InitIInv, <2>2, <2>3, <2>4 DEF InvPortao
<1>2. InvPortao /\ [Next]_vars => InvPortao'
  <2> SUFFICES ASSUME InvPortao, [Next]_vars PROVE InvPortao'
    OBVIOUS
  <2>1. Run'
    BY PassoRun DEF IInv, InvPortao
  <2>2. Contagem(aval')
    BY PassoAval DEF InvPortao
  <2>3. Conferida'
    BY PassoConferida DEF IInv, InvPortao
  <2>4. QED
    BY Passo, <2>1, <2>2, <2>3 DEF InvPortao
<1>3. QED
  BY <1>1, <1>2, PTL DEF Spec

\* At the end of such an evaluation everything is counted.
LEMMA TudoContado ==
    ASSUME Conferida, dag = "avaliando", aval.n > Len(Golden), aval.g = gold,
           Acomodada(Golds[gold])
    PROVE  aval.rot = Len(Golden) /\ aval.val = Cardinality(ComVerdade(Len(Golden)))
<1>1. EmConta
  BY DEF Conferida
<1>2. aval.n = Len(Golden) + 1 /\ aval.n - 1 = Len(Golden) /\ ~(aval.n <= Len(Golden))
  <2>1. aval.n \in 1..(Len(Golden) + 1) /\ Len(Golden) \in Nat
    BY <1>1, RagAssumption DEF EmConta
  <2>2. QED
    BY <2>1
<1>3. QED
  BY <1>1, <1>2 DEF EmConta

\* The gate is not red for a reason of its own: when the golden set is clear, an
\* evaluation over a gold that stays, and that has a price for every question and
\* every station, routes each question as expected and finds every truth, for any
\* interleaving with publications, runs by hand and failures
\* (rag04_eval_retrival.py: avaliar_pergunta; rag_query_router.py).
THEOREM PortaoSempreHonesto ==
    ASSUME GoldenClaro
    PROVE  Spec => []PortaoHonesto
<1>1. InvPortao => PortaoHonesto
  BY TudoContado DEF InvPortao, PortaoHonesto
<1>2. QED
  BY <1>1, SempreInvPortao, PTL

LEMMA TudoPassa ==
    ASSUME aval.rot = Len(Golden), aval.val = Cardinality(ComVerdade(Len(Golden)))
    PROVE  Passa(aval)
<1> DEFINE c == Cardinality(ComVerdade(Len(Golden)))
<1>1. Len(Golden) \in Nat /\ MinRouting \in 0..100 /\ MinValue \in 0..100
  BY RagAssumption
<1>2. c \in Nat
  <2>1. IsFiniteSet(1..Len(Golden))
    BY <1>1, FS_Interval
  <2>2. ComVerdade(Len(Golden)) \subseteq 1..Len(Golden)
    BY DEF ComVerdade
  <2>3. QED
    BY <2>1, <2>2, FS_Subset, FS_CardinalityType
<1>3. ASSUME NEW k \in Nat, NEW m \in 0..100 PROVE k * 100 >= m * k
  <2>1. m \in Nat /\ 100 - m \in Nat /\ (100 - m) * k >= 0
    BY <1>3
  <2>2. (100 - m) * k = k * 100 - m * k
    BY <1>3
  <2>3. QED
    BY <1>3, <2>1, <2>2
<1>4. {n \in 1..Len(Golden) : Golden[n].verdade # ""} = ComVerdade(Len(Golden))
  BY DEF ComVerdade
<1> HIDE DEF c
<1>5. QED
  BY <1>1, <1>2, <1>3, <1>4 DEF Passa, c

\* So the run ends green: no threshold, up to all of the questions, keeps it red.
THEOREM PortaoAbre ==
    ASSUME GoldenClaro
    PROVE  Spec => [][Resumir /\ aval.g = gold /\ Acomodada(Golds[gold])
                        => ultimo' = "verde"]_vars
<1>1. ASSUME InvPortao, Resumir, aval.g = gold, Acomodada(Golds[gold])
      PROVE  ultimo' = "verde"
  <2>1. Passa(aval)
    BY <1>1, TudoContado, TudoPassa DEF InvPortao, Resumir
  <2>2. QED
    BY <1>1, <2>1 DEF Resumir, FimAval
<1>2. QED
  BY <1>1, SempreInvPortao, PTL
=============================================================================
