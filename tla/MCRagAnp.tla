------------------------------ MODULE MCRagAnp ------------------------------
EXTENDS RagAnp

Gas == <<"gasolina">>
Adi == <<"gasolina", "aditivada">>
Eta == <<"etanol">>
Goi == <<"goiania">>
Apa == <<"aparecida", "de", "goiania">>
Ipi == <<"ipiranga">>
MCAlfabeto == <<Eta, Gas, Adi>>
MCErro == "anapols" :> "goiania"

Fato(i, c, p, v, d) == [id |-> i, cnpj |-> c, produto |-> p, valor |-> v, data |-> d]
Posto(u, m) == [uf |-> u, municipio |-> m, bandeira |-> Ipi]
P1 == "A" :> Posto("GO", Goi) @@ "C" :> Posto("GO", Goi) @@ "S" :> Posto("SP", <<"sao", "paulo">>)
P2 == "B" :> Posto("GO", Apa) @@ P1
F1 == {Fato(1, "A", Gas, 5, 3), Fato(9, "S", Gas, 1, 3)}
F2 == F1 \cup {Fato(2, "B", Gas, 7, 12), Fato(3, "A", Eta, 3, 12), Fato(4, "C", Adi, 6, 12)}
F3 == {f \in F2 : f.id # 1} \cup {Fato(1, "A", Gas, 4, 3)}
Prod == {Gas, Adi, Eta}
\* No gold yet; a week, with the new station not yet in dm_postos and then in
\* it; the month that corrects a price.
MCGolds == <<[ft |-> {}, postos |-> <<>>, produtos |-> {}],
             [ft |-> F2, postos |-> P1, produtos |-> Prod],
             [ft |-> F3, postos |-> P2, produtos |-> Prod]>>

MCDim == [m \in {"small", "base"} |-> IF m = "base" THEN 2 ELSE 1]
MCDistancia == [m \in {"small", "base"} |->
                  [i \in 1..9 |-> IF m = "small" THEN i ELSE 10 - i]]

Sem == [tipo |-> "nada", dia |-> 0, mes |-> 0, ano |-> 0]
Q(t, c, p, w, r) == [texto |-> t, cnpj |-> c, pede |-> p, quando |-> w, recente |-> r]
Filtro(c, m, p) == [cnpj |-> c, municipio |-> m, produto |-> p]
It(q, e, v, f, c) == [q |-> q, esperado |-> e, verdade |-> v, filtro |-> f, cnpj |-> c]

MCGolden == <<
    It(Q(<<"cnpj", "do", "posto", "em", "anapols">>, "", {}, Sem, FALSE), "vetorial", "",
       Filtro("", Nada, Nada), "A"),
    It(Q(<<"gasolina", "do", "cnpj">>, "A", {"max"}, Sem, FALSE), "sql_agregado", "max",
       Filtro("A", Nada, Gas), ""),
    It(Q(<<"revendas", "em", "aparecida", "de", "goiania">>, "", {"quantos"}, Sem, FALSE),
       "sql_agregado", "revendas", Filtro("", Apa, Nada), ""),
    It(Q(<<"etanol", "em", "goiania">>, "", {"media"}, Sem, FALSE), "sql_agregado", "avg",
       Filtro("", Goi, Eta), "")>>

\* The last gold has everything the golden set asks for, and the set is clear.
ASSUME GoldenClaro /\ Acomodada(MCGolds[3])
=============================================================================
