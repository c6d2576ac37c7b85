------------------------- MODULE LegislacaoContexto -------------------------
(***************************************************************************)
(* retriever.py: the articles of the anchors and of the nearest chunks as  *)
(* blocks of a context, under a budget.  Pure operators over one version of*)
(* the law, [id -> [ord, vivo, tok]], and of its chunks, [name -> [art,    *)
(* ids, janela, tok]].  Lengths are in small units of tokens.              *)
(***************************************************************************)
EXTENDS LegislacaoRoteador

CONSTANTS
    NumCtx, Reserva, Margem,  \* LC214_NUM_CTX, answer + prompt, % of margin
    Teto,        \* ANCHOR_MAX_TOKENS
    MinBloco,    \* MIN_BLOCK_TOKENS
    TopK,        \* LC214_TOP_K
    Cab, Rot, Sufixo   \* units of a header, of the omitted labels, of "[...]"

ASSUME MedidasAssumption ==
    /\ {NumCtx, Reserva, Teto, MinBloco, TopK} \subseteq Nat \ {0}
    /\ {Cab, Rot, Sufixo} \subseteq Nat /\ Margem \in 0..100
    /\ Cab <= MinBloco /\ MinBloco <= Teto

-----------------------------------------------------------------------------
(* One article as a block of the context. *)

Linhas(L, art) == {p \in DOMAIN L : p[1] = art}
Acima(L, S) == S \cup {q \in DOMAIN L : \E p \in S \cap DOMAIN L : IsPrefix(q, p)}

Tamanho(L, p, jan, teto) ==
    LET t == IF p \in DOMAIN jan THEN FoldFunction(+, 0, [w \in jan[p] |-> w[2]]) ELSE L[p].tok
    IN  IF ~L[p].vivo THEN 1 ELSE IF t > teto THEN teto + Sufixo ELSE t

Texto(L, inc, jan, teto) ==
    Cab + FoldFunction(+, 0, [p \in inc \cap DOMAIN L |-> Tamanho(L, p, jan, teto)])

\* What is left out and listed by its label: living, under something shown.
Rotulos(L, art, inc) ==
    {p \in Linhas(L, art) \ inc : L[p].vivo /\ (Len(p) = 1 \/ Front(p) \in inc)}

Camadas(L, art, inc, jan, limite) ==
    Texto(L, inc, jan, Max({limite \div 2, MinBloco}))
        + (IF Rotulos(L, art, inc) # {} THEN Rot ELSE 0)

\* _units_for: the subtree of each anchor (only the caput when the article
\* itself was cited), then the chunks in order of distance; a window stands
\* for the provision it was cut from.
Unidades(L, art, ancoras, ranque) ==
    [n \in 1..Len(ancoras) |->
        [ids |-> IF ancoras[n] = <<art>> THEN {<<art>>} \cap DOMAIN L
                 ELSE {p \in Linhas(L, art) : IsPrefix(ancoras[n], p)},
         jan |-> {}, obrig |-> TRUE]]
    \o [n \in 1..Len(ranque) |->
        [ids |-> ToSet(ranque[n].ids), obrig |-> FALSE,
         jan |-> IF ranque[n].janela
                 THEN {<<ranque[n].ids[1], <<n, ranque[n].tok>>>>} ELSE {}]]

Inclui(L, art, limite, acc, u) ==
    LET nova == {w \in u.jan : ~(w[1] \in acc.inc /\ w[1] \notin DOMAIN acc.jan)}
        jan == [p \in DOMAIN acc.jan \cup {w[1] : w \in nova} |->
                    (IF p \in DOMAIN acc.jan THEN acc.jan[p] ELSE {})
                        \cup {w[2] : w \in {x \in nova : x[1] = p}}]
        inc == Acima(L, acc.inc \cup u.ids)
        cabe == Camadas(L, art, inc, jan, limite) <= limite
    IN  IF (jan = acc.jan /\ u.ids \subseteq acc.inc) \/ ~(cabe \/ u.obrig) THEN acc
        ELSE [inc |-> inc, jan |-> jan]

\* The provisions of the block whose text starts before the cut.
Lidos(L, inc, jan, limite) ==
    LET teto == Max({limite \div 2, MinBloco})
    IN  {p \in inc : Texto(L, {q \in inc : L[q].ord < L[p].ord}, jan, teto) < limite}

BuildBlock(L, art, ancoras, ranque, limite) ==
    LET todas == Linhas(L, art)
        inteiro == Cab + FoldFunction(+, 0, [p \in todas |-> IF L[p].vivo THEN L[p].tok ELSE 1])
        fim == FoldLeft(LAMBDA acc, u : Inclui(L, art, limite, acc, u),
                        [inc |-> {<<art>>}, jan |-> <<>>],
                        Unidades(L, art, ancoras, ranque))
        inc == fim.inc \cap todas
        tok == Camadas(L, art, fim.inc, fim.jan, limite)
        corta == tok > limite
    IN  IF inteiro <= limite
        THEN [art |-> art, ids |-> todas, lidos |-> todas, tok |-> inteiro, ancora |-> ancoras # <<>>]
        ELSE [art |-> art, ids |-> inc, ancora |-> ancoras # <<>>,
              lidos |-> IF corta THEN Lidos(L, inc, fim.jan, limite) ELSE inc,
              tok |-> IF corta THEN limite + Sufixo ELSE tok]

ContextBudget(q) ==   \* int() cuts towards zero
    LET n == (NumCtx - Reserva - q.tok) * (100 - Margem)
    IN  IF n >= 0 THEN n \div 100 ELSE -((-n) \div 100)

\* Faulty forms, for the mutants: an article once per anchor and hit; a limit
\* that ignores what is left.
ArtigosRepetidos(ancoras, hits) ==
    [n \in 1..Len(ancoras) |-> ancoras[n][1]] \o [n \in 1..Len(hits) |-> hits[n].art]
LimiteSemSobra(ancoras, sobra) == IF ancoras = <<>> /\ sobra < MinBloco THEN sobra ELSE Teto

\* The articles in the order of assemble(): of the anchors, then of the hits.
Artigos(ancoras, hits) ==
    LET arts == [n \in 1..Len(ancoras) |-> ancoras[n][1]] \o [n \in 1..Len(hits) |-> hits[n].art]
    IN  FoldLeft(LAMBDA s, x : IF Contains(s, x) THEN s ELSE Append(s, x), <<>>, arts)

\* The chunks of one version in the order of distance, and the top k.
Proximos(T, ordem) ==
    LET nomes == Nas(ordem, {n \in DOMAIN ordem : ordem[n] \in DOMAIN T})
    IN  [n \in 1..Len(nomes) |-> T[nomes[n]]]
Topo(T, ordem) == LET s == Proximos(T, ordem) IN SubSeq(s, 1, Min({TopK, Len(s)}))

\* The chunks and the anchors of one article.
DoArtigo(perto, art) == Nas(perto, {n \in DOMAIN perto : perto[n].art = art})
AncorasDe(ancoras, art) == Nas(ancoras, {n \in DOMAIN ancoras : ancoras[n][1] = art})

\* The limit of one article: what is left of the budget, under the ceiling;
\* an anchor always has the minimum.
Limite(ancoras, sobra) ==
    IF ancoras # <<>> THEN Max({Min({Teto, sobra}), MinBloco}) ELSE Min({Teto, sobra})

\* One turn of the loop of assemble(): the article is a block, or is dropped.
Acrescenta(L, T, ancoras, ordem, acc, art) ==
    LET anc == AncorasDe(ancoras, art)
        limite == Limite(anc, acc.sobra)
        ranque == DoArtigo(Proximos(T, ordem), art)
        b == BuildBlock(L, art, anc, ranque, limite)
    IN  IF anc = <<>> /\ limite < MinBloco
        THEN [acc EXCEPT !.caidos = @ \cup {art}]
        ELSE [acc EXCEPT !.blocos = Append(@, b), !.sobra = @ - b.tok]

Assemble(L, T, ancoras, ordem, orcamento) ==
    FoldLeft(LAMBDA acc, art : Acrescenta(L, T, ancoras, ordem, acc, art),
             [blocos |-> <<>>, sobra |-> orcamento, caidos |-> {}],
             Artigos(ancoras, Topo(T, ordem)))

Tokens(blocos) == FoldLeft(LAMBDA t, b : t + b.tok, 0, blocos)
Mostra(blocos) == UNION {blocos[n].ids : n \in 1..Len(blocos)}
=============================================================================
