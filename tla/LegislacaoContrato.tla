------------------------- MODULE LegislacaoContrato -------------------------
(***************************************************************************)
(* golden.py: the contract between the labelled questions and a version of *)
(* the law.  Pure operators over a label set v = [lei, casos] and the      *)
(* provisions L and chunks T of that version.  A case is [id, tipo, rota,  *)
(* comp, dev, perguntas, espera, ancoras, modo, estado, escopo, conhecido];*)
(* perguntas maps each phrasing group it has to a question.                *)
(***************************************************************************)
EXTENDS LegislacaoContexto

CONSTANT MinRef      \* LC214_MIN_SELF_REF, in percent

Grupos == {"fiscal", "formal"}
Modos == {"all", "any"}
SemEspera == {"no_answer", "not_found"}

\* type -> the route and the behavior it must have
Tipos ==
    [content      |-> <<"vector", "answer">>,
     amended      |-> <<"vector", "answer">>,
     anomaly      |-> <<"vector", "answer">>,
     external_ref |-> <<"vector", "cite_external">>,
     no_answer    |-> <<"vector", "abstain">>,
     citation     |-> <<"sql", "answer">>,
     status       |-> <<"sql", "report_status">>,
     out_of_scope |-> <<"sql", "abstain">>,
     combined     |-> <<"combined", "answer">>,
     ambiguous    |-> <<"clarify", "ask_path">>,
     not_found    |-> <<"clarify", "report_missing">>]

\* validate_schema (G1), the part of one case
Esquema(c) ==
    /\ c.tipo \in DOMAIN Tipos /\ <<c.rota, c.comp>> = Tipos[c.tipo]
    /\ "fiscal" \in DOMAIN c.perguntas /\ DOMAIN c.perguntas \subseteq Grupos
    /\ (c.espera = {}) = (c.tipo \in SemEspera)
    /\ (c.espera # {} /\ c.rota # "clarify") => c.modo \in Modos
    /\ (c.ancoras # {}) = (c.tipo = "combined")
    /\ (c.estado # "vigente") = (c.tipo \in {"status", "out_of_scope"})
    /\ c.escopo # "now" => c.tipo = "external_ref"

EsquemaVale(v) ==
    /\ v.casos # <<>>
    /\ \A m, n \in 1..Len(v.casos) : v.casos[m].id = v.casos[n].id => m = n
    /\ \A n \in 1..Len(v.casos) : Esquema(v.casos[n])

\* chunk_index, and chunks_needed: provisions that share a chunk count once.
Carregam(p, T) == {n \in DOMAIN T : Contains(T[n].ids, p)}

\* Faulty form, for the mutants: one slot per article.
UmPorArtigo(espera, T) == Cardinality({p[1] : p \in {x \in espera : Carregam(x, T) # {}}})

Junta(T, p, grupos) ==
    LET toca == {g \in grupos : g \cap Carregam(p, T) # {}}
    IN  IF Carregam(p, T) = {} THEN grupos
        ELSE (grupos \ toca) \cup {Carregam(p, T) \cup UNION toca}
Grupados(espera, T) == FoldSet(LAMBDA p, grupos : Junta(T, p, grupos), {}, espera)
ChunksNeeded(espera, T) == Cardinality(Grupados(espera, T))

\* routing_violations (R1, R2), for one phrasing
Ancora(plano, S) == ToSet(plano.ancoras) = S /\ Len(plano.ancoras) = Cardinality(S)

RotaCerta(c, q, ids) ==
    /\ Rota(q, ids).rota = c.rota
    /\ c.rota = "sql" => Ancora(Rota(q, ids), c.espera)
    /\ c.rota = "combined" => Ancora(Rota(q, ids), c.ancoras)
    /\ c.tipo = "ambiguous" =>
          /\ UNION Opcoes(q, ids) = c.espera
          /\ MapThenSumSet(Cardinality, Opcoes(q, ids)) = Cardinality(c.espera)
    /\ c.tipo = "not_found" => Faltam(q, ids)

\* What check() finds against one case (G3 to G6, R1, R2).
Achados(c, L, T) ==
    LET rotulos == c.espera \cup c.ancoras
        vivos == rotulos \cap DOMAIN L
        vetorial == c.rota \in {"vector", "combined"}
    IN  {<<"G3_exists", p>> : p \in rotulos \ vivos}
          \cup {<<"G4_status", p>> : p \in {x \in vivos : L[x].vivo # (c.estado = "vigente")}}
          \cup {<<"G5_amended", p>> : p \in {x \in vivos : c.tipo = "amended" /\ ~L[x].nota}}
          \cup {<<"G6_retrievable", p>> : p \in {x \in c.espera \cap vivos : vetorial /\ Carregam(x, T) = {}}}
          \cup (IF vetorial /\ c.modo = "all" /\ ChunksNeeded(c.espera, T) > TopK
                THEN {<<"G6_coverage", c.id>>} ELSE {})
          \cup {<<"R_route", g>> : g \in {x \in DOMAIN c.perguntas :
                                            ~RotaCerta(c, c.perguntas[x], DOMAIN L)}}

\* self_references (R3): the citations the law makes to itself, without the
\* text quoted from other laws and the revoking articles (`alheio`).
SelfReferences(L) ==
    LET citas == [p \in {x \in DOMAIN L : ~L[x].alheio} |-> Nossas(L[p].cita)]
        certas(p) == Len(SelectSeq(citas[p], LAMBDA c : Cardinality(Resolve(c, DOMAIN L)) = 1))
    IN  [proprias |-> MapThenSumSet(LAMBDA p : Len(citas[p]), DOMAIN citas),
         certas |-> MapThenSumSet(certas, DOMAIN citas)]

\* check(): a known issue is strict, it must still fail.
Check(v, L, T, lei) ==
    /\ EsquemaVale(v) /\ v.lei = lei
    /\ \A n \in 1..Len(v.casos) : (Achados(v.casos[n], L, T) # {}) = v.casos[n].conhecido
    /\ 100 * SelfReferences(L).certas >= MinRef * SelfReferences(L).proprias
=============================================================================
