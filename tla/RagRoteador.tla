----------------------------- MODULE RagRoteador -----------------------------
(***************************************************************************)
(* rag_query_router.py: what a question about ANP prices asks for, whether *)
(* it goes to SQL or to the vectors, and what the SQL answers over gold.   *)
(*                                                                         *)
(* Gold is three tables that dbt rebuilds one by one: ft, a set of facts   *)
(* [id, cnpj, produto, valor, data]; postos, [cnpj -> [uf, municipio,      *)
(* bandeira]]; produtos, a set.  A name or a question is a sequence of     *)
(* words, a date is a number of days.  Pure operators.                     *)
(***************************************************************************)
EXTENDS Integers, SequencesExt

CONSTANTS
    UF,             \* RAG_UF
    JanelaRecente,  \* JANELA_RECENTE_DIAS
    LimiteDetalhe,  \* LIMITE_DETALHE
    Overfetch,      \* VETORIAL_OVERFETCH
    DiasMes, MesesAno,  \* the calendar
    Alfabeto,       \* the products in the order of ORDER BY c.produto
    Erro            \* [misspelt word -> word], what FUZZY_CUTOFF lets through

ASSUME RoteadorAssumption ==
    /\ {JanelaRecente, LimiteDetalhe, Overfetch, DiasMes, MesesAno} \subseteq Nat \ {0}

Nada == <<>>
-----------------------------------------------------------------------------
(* The vocabulary of the router, read once from gold.                      *)

\* _FROM and _JOIN, within the state of RAG_UF.
Fatos(g) ==
    {[id |-> f.id, cnpj |-> f.cnpj, produto |-> f.produto, valor |-> f.valor, data |-> f.data,
      municipio |-> g.postos[f.cnpj].municipio, bandeira |-> g.postos[f.cnpj].bandeira] :
        f \in {x \in g.ft : /\ x.cnpj \in DOMAIN g.postos /\ x.produto \in g.produtos
                            /\ g.postos[x.cnpj].uf = UF}}

Dimensoes(g) ==
    LET uf == {g.postos[c] : c \in {x \in DOMAIN g.postos : g.postos[x].uf = UF}}
        datas == {f.data : f \in Fatos(g)}
    IN  [produtos |-> g.produtos, municipios |-> {p.municipio : p \in uf},
         bandeiras |-> {p.bandeira : p \in uf},
         data_max |-> IF datas = {} THEN 0 ELSE Max(datas)]

-----------------------------------------------------------------------------
(* The question: [texto, cnpj, pede, quando, recente].  `pede` are the     *)
(* words of aggregation in it, `quando` the period it names.               *)

Ocorre(termo, texto) ==
    \E n \in 1..(Len(texto) - Len(termo) + 1) : SubSeq(texto, n, n + Len(termo) - 1) = termo

Qualquer(texto, termos) ==
    LET achados == {t \in termos : Ocorre(t, texto)}
    IN  IF achados = {} THEN Nada
        ELSE CHOOSE t \in achados : \A u \in achados : Len(t) <= Len(u)

Certo(texto) ==
    [n \in 1..Len(texto) |-> IF texto[n] \in DOMAIN Erro THEN Erro[texto[n]] ELSE texto[n]]

\* Exact words first, the longest term; misspelt words only if none is found.
AcharEntidade(texto, termos) ==
    LET exatos == {t \in termos : Ocorre(t, texto)}
        achados == IF exatos # {} THEN exatos ELSE {t \in termos : Ocorre(t, Certo(texto))}
    IN  IF achados = {} THEN Nada
        ELSE CHOOSE t \in achados : \A u \in achados : Len(u) <= Len(t)

DetectarAgregacao(pede) ==
    CASE "quantos" \in pede -> "COUNT"
      [] "quantos" \notin pede /\ ("media" \in pede \/ {"min", "max"} \subseteq pede) -> "STATS"
      [] pede \cap {"quantos", "media", "min", "max"} = {"min"} -> "MIN"
      [] pede \cap {"quantos", "media", "min", "max"} = {"max"} -> "MAX"
      [] pede = {"lista"} -> "LISTA"
      [] OTHER -> "nenhuma"

IntervaloMes(ano, mes) ==
    LET m == ano * MesesAno + mes - 1 IN [ini |-> m * DiasMes + 1, fim |-> (m + 1) * DiasMes]

Ano(dia) == (dia - 1) \div (DiasMes * MesesAno)
Mes(dia) == (((dia - 1) \div DiasMes) % MesesAno) + 1

\* _parse_periodo: a month without a year is of the year of the last date in
\* gold, "mês passado" is the month of that date, an impossible date is none.
ParsePeriodo(q, dims) ==
    CASE q.quando.tipo = "dia" -> [ini |-> q.quando.dia, fim |-> q.quando.dia]
      [] q.quando.tipo = "mes" /\ q.quando.mes \in 1..MesesAno ->
            IntervaloMes(IF q.quando.ano < 0 THEN Ano(dims.data_max) ELSE q.quando.ano, q.quando.mes)
      [] q.quando.tipo = "passado" -> IntervaloMes(Ano(dims.data_max), Mes(dims.data_max))
      [] OTHER -> [ini |-> 0, fim |-> 0]

Interpretar(q, dims) ==
    LET produto == AcharEntidade(q.texto, dims.produtos)
        agregacao == DetectarAgregacao(q.pede)
        per == ParsePeriodo(q, dims)
    IN  [cnpj |-> q.cnpj, produto |-> produto, agregacao |-> agregacao,
         municipio |-> AcharEntidade(q.texto, dims.municipios),
         bandeira |-> AcharEntidade(q.texto, dims.bandeiras),
         ini |-> per.ini, fim |-> per.fim,
         recente |-> per.ini = 0 /\
            (q.recente \/ (q.cnpj # "" /\ agregacao = "nenhuma" /\ produto = Nada))]

UsaSql(i) ==
    i.cnpj # "" \/ (i.agregacao # "nenhuma" /\ \E v \in {i.produto, i.municipio, i.bandeira} : v # Nada)

Metodo(i) ==
    IF ~UsaSql(i) THEN "vetorial"
    ELSE IF i.agregacao # "nenhuma" THEN "sql_agregado" ELSE "sql_detalhe"

-----------------------------------------------------------------------------
(* The SQL of an intent over the facts F: the facts it rests on, and the   *)
(* value of its first line as a fraction (n = 0: no value).                *)

Filtros(F, i) ==
    {f \in F : /\ i.cnpj \in {"", f.cnpj} /\ i.produto \in {Nada, f.produto}
               /\ i.municipio \in {Nada, f.municipio} /\ i.bandeira \in {Nada, f.bandeira}
               /\ i.ini # 0 => f.data \in i.ini..i.fim}

ResolverPeriodo(F, i) ==
    LET datas == {f.data : f \in Filtros(F, i)}
    IN  IF i.ini # 0 \/ ~i.recente \/ datas = {} THEN i
        ELSE [i EXCEPT !.ini = Max(datas) - JanelaRecente + 1, !.fim = Max(datas)]

Fracao(S) == [s |-> MapThenSumSet(LAMBDA f : f.valor, S), n |-> Cardinality(S)]
Inteiro(k) == [s |-> k, n |-> 1]
SemValor == [s |-> 0, n |-> 0]
Valores(S) == {f.valor : f \in S}
Postos(S) == {f.cnpj : f \in S}

SqlStats(S) ==
    LET com == {n \in 1..Len(Alfabeto) : \E f \in S : f.produto = Alfabeto[n]}
        um == {f \in S : f.produto = Alfabeto[Min(com)]}
    IN  IF S = {} THEN [base |-> {}, valor |-> SemValor] ELSE [base |-> S, valor |-> Fracao(um)]

SqlRanking(S, agregacao) ==
    [base |-> S,
     valor |-> IF S = {} THEN SemValor
               ELSE Inteiro(IF agregacao = "MIN" THEN Min(Valores(S)) ELSE Max(Valores(S)))]

SqlDetalhe(S) ==
    LET seq == SetToSortSeq(S, LAMBDA a, b : a.data > b.data)
    IN  [base |-> ToSet(SubSeq(seq, 1, Min({LimiteDetalhe, Len(seq)}))), valor |-> SemValor]

ExecutarSql(F, intencao) ==
    LET i == ResolverPeriodo(F, intencao)
        S == Filtros(F, i)
    IN  CASE i.agregacao \in {"COUNT", "LISTA"} -> [base |-> S, valor |-> Inteiro(Cardinality(Postos(S)))]
          [] i.agregacao = "STATS" \/ (i.agregacao \in {"MIN", "MAX"} /\ i.produto = Nada) -> SqlStats(S)
          [] i.agregacao \in {"MIN", "MAX"} /\ i.produto # Nada -> SqlRanking(S, i.agregacao)
          [] OTHER -> SqlDetalhe(S)

\* The vector path: more candidates than asked for, one per station and
\* product first.  `perto` are the facts of the store by distance.
BuscarVetorial(perto, k) ==
    LET cand == SubSeq(perto, 1, Min({k * Overfetch, Len(perto)}))
        chave(f) == <<f.cnpj, f.municipio, f.bandeira, f.produto>>
        repete(n) == \E m \in 1..(n - 1) : chave(cand[m]) = chave(cand[n])
        idx == [n \in 1..Len(cand) |-> n]
        lista == SelectSeq(idx, LAMBDA n : ~repete(n)) \o SelectSeq(idx, repete)
    IN  [n \in 1..Min({k, Len(lista)}) |-> cand[lista[n]]]
=============================================================================
