------------------------- MODULE LegislacaoRoteador -------------------------
(***************************************************************************)
(* router.py: the citations of a question, the provisions they resolve to  *)
(* and the route of the question.  Pure operators, shared by the retrieval,*)
(* the answer and the golden contract.                                     *)
(*                                                                         *)
(* A provision is the path of its id: <<"1", <<"par", "1", 1>>>> is        *)
(* lc214-2025:art-1:par-1, and the last 1 says it is the first copy (the   *)
(* id of a second copy ends in "#2").  A text is the sequence of its       *)
(* citation parts.                                                         *)
(***************************************************************************)
EXTENDS Integers, SequencesExt

\* The members of a sequence at the positions D, in order.
Nas(s, D) ==
    FoldLeftDomain(LAMBDA t, n : IF n \in D THEN Append(t, s[n]) ELSE t, <<>>, s)

(* Citations.  A part of a question is [tipo, valor, liga, fora]: `liga` is *)
(* the gap before it ("cola": only commas and prepositions; "e": those and  *)
(* an "e", or the article of a list; "solta": other words) and `fora` says  *)
(* whether another law is named right after it ("logo") or later, for the   *)
(* whole sentence ("todos").                                                *)

Parte == [tipo : STRING, valor : STRING, liga : {"cola", "e", "solta"},
          fora : {"nao", "logo", "todos"}]
Niveis == <<"par", "inc", "ali">>
Tem(s, k) == k \in DOMAIN s.partes

\* The parts of a segment, one value for each kind, with one more.
Com(f, c) == [k \in DOMAIN f \cup {c.tipo} |-> IF k = c.tipo THEN c.valor ELSE f[k]]

Encaixa(segs, c) ==
    LET n == Len(segs)
        novo == [partes |-> Com(<<>>, c), ligado |-> FALSE, fora |-> c.fora]
    IN  IF n = 0 THEN <<novo>>
        ELSE IF c.liga = "cola" /\ (~Tem(segs[n], c.tipo) \/ c.tipo = "caput")
             THEN [segs EXCEPT ![n].partes = Com(@, c),
                               ![n].fora = c.fora]
             ELSE Append([segs EXCEPT ![n].ligado = c.liga # "solta"], novo)

Segmentos(partes) == FoldLeft(Encaixa, <<>>, partes)

Ligados(segs, i, j) == \A m \in i..(j - 1) : segs[m].ligado

OutraLei(segs, i) ==
    \E j \in i..Len(segs) :
        /\ Ligados(segs, i, j)
        /\ segs[j].fora = "todos" \/ (segs[j].fora = "logo" /\ Tem(segs[j], "art"))

\* The segment that gives the article: the next one in the legal order, else
\* the previous one in the chat order; 0 when none is listed with it.
Fonte(segs, i) ==
    LET depois == {j \in (i + 1)..Len(segs) : Ligados(segs, i, j) /\ Tem(segs[j], "art")}
        antes  == {j \in 1..(i - 1) : Ligados(segs, j, i) /\ Tem(segs[j], "art")}
    IN  IF Tem(segs[i], "art") THEN i
        ELSE IF depois # {} THEN Min(depois)
        ELSE IF antes # {} THEN Max(antes) ELSE 0

Cita(segs, i) ==
    LET f == Fonte(segs, i)
        s == segs[i].partes
        o == segs[f].partes
        proprios == {n \in 1..3 : Niveis[n] \in DOMAIN s}
        acima == IF f = i \/ proprios = {} THEN {}
                 ELSE {Niveis[n] : n \in {m \in 1..(Min(proprios) - 1) :
                          /\ Niveis[m] \in DOMAIN o
                          /\ ~(Niveis[m] = "par" /\ "caput" \in DOMAIN s)}}
        niveis == {Niveis[n] : n \in proprios} \cup acima
    IN  [art   |-> o["art"],
         nivel |-> [k \in niveis |-> IF k \in DOMAIN s THEN s[k] ELSE o[k]],
         caput |-> "caput" \in DOMAIN s \/ ("caput" \in DOMAIN o /\ "par" \notin niveis),
         fora  |-> OutraLei(segs, i) \/ OutraLei(segs, f)]

\* The segments that have an article, and what each of them cites.
ComArtigo(segs) == Nas([i \in 1..Len(segs) |-> i], {i \in 1..Len(segs) : Fonte(segs, i) # 0})
Leituras(segs, com) == [n \in 1..Len(com) |-> Cita(segs, com[n])]
ParseCitations(partes) ==
    LET segs == Segmentos(partes) IN Leituras(segs, ComArtigo(segs))

\* Index.resolve: every provision that has the cited levels, whatever lies
\* between; an inciso cited right under the article is the caput's when that
\* leaves one candidate.
Passos(p) == {p[n] : n \in 2..Len(p)}
De(p, k) == \E s \in Passos(p) : s[1] = k

Resolve(c, ids) ==
    LET fundo == Niveis[Max({n \in 1..3 : Niveis[n] \in DOMAIN c.nivel})]
        casa(p) == IF DOMAIN c.nivel = {} THEN Len(p) = 1
                   ELSE /\ Len(p) > 1 /\ p[Len(p)][1] = fundo
                        /\ \A k \in DOMAIN c.nivel :
                              \E s \in Passos(p) : s[1] = k /\ s[2] = c.nivel[k]
                        /\ ~(c.caput /\ De(p, "par"))
        hits == {p \in ids : p[1] = c.art /\ casa(p)}
        doCaput == {p \in hits : ~De(p, "par")}
    IN  IF /\ Cardinality(hits) > 1 /\ DOMAIN c.nivel = {"inc"}
           /\ Cardinality(doCaput) = 1
        THEN doCaput ELSE hits

\* The citations of the LC 214 in a text, and what each of them names.
Proprias(citas) == Nas(citas, {n \in DOMAIN citas : ~citas[n].fora})
Nossas(partes) == Proprias(ParseCitations(partes))
Citadas(partes, ids) ==
    LET nossas == Nossas(partes) IN {Resolve(nossas[n], ids) : n \in 1..Len(nossas)}
Faltam(q, ids) == {} \in Citadas(q.partes, ids)
Opcoes(q, ids) == {S \in Citadas(q.partes, ids) : Cardinality(S) > 1}

Rota(q, ids) ==
    LET nossas == Nossas(q.partes)
        uma(c) == CHOOSE p \in Resolve(c, ids) : TRUE
        ancoras == [n \in 1..Len(nossas) |-> uma(nossas[n])]
    IN  IF nossas = <<>> THEN [rota |-> "vector", ancoras |-> <<>>]
        ELSE IF Faltam(q, ids) \/ Opcoes(q, ids) # {} THEN [rota |-> "clarify", ancoras |-> <<>>]
        ELSE IF q.sinais # {} \/ q.resto <= 1
             THEN [rota |-> "sql", ancoras |-> ancoras]
             ELSE [rota |-> "combined", ancoras |-> ancoras]
=============================================================================
