----------------------- MODULE MCLegislacaoAvaliacao -----------------------
(***************************************************************************)
(* Labels 1 hold for version 1 of the law; labels 2 are theirs with one    *)
(* case more in the dev subset; labels 3 hold for version 2; a case of     *)
(* labels 4 needs three chunks, more than k; labels 5 are labels 1 with one*)
(* case of three asked in words the vectors do not find: a loss of one case*)
(* of tolerance, 0.6667 to 0.3333, which the rounded means do not forgive. *)
(***************************************************************************)
EXTENDS LegislacaoAvaliacao, MCLeiExemplo

Q(p, s, r, o) == [partes |-> p, sinais |-> s, resto |-> r, tok |-> 1, ordem |-> o]
Perto1 == <<"c1", "c2", "j1", "j2", "c3">>
Perto2 == <<"j2", "c3", "c2", "j1", "c1">>
Aberta(o) == Q(<<>>, {}, 5, o)

Caso(id, tipo, rota, comp, pergs, espera) ==
    [id |-> id, tipo |-> tipo, rota |-> rota, comp |-> comp, dev |-> FALSE,
     perguntas |-> pergs, espera |-> espera, ancoras |-> {}, modo |-> "all",
     estado |-> "vigente", escopo |-> "now", conhecido |-> FALSE]

Content(fiscal, formal, E) == [Caso("content-01", "content", "vector", "answer",
    [fiscal |-> Aberta(fiscal), formal |-> Aberta(formal)], E) EXCEPT !.dev = TRUE]
Direta == Caso("content-02", "content", "vector", "answer",
    [fiscal |-> Aberta(Perto1), formal |-> Aberta(Perto1)], {A1I})
NoAnswer == [Caso("no_answer-01", "no_answer", "vector", "abstain",
    [fiscal |-> Aberta(Perto1)], {}) EXCEPT !.dev = TRUE]
Combined(dev, partes, E) == [Caso("combined-01", "combined", "combined", "answer",
    [fiscal |-> Q(partes, {}, 5, Perto2)], E)
    EXCEPT !.dev = dev, !.ancoras = E, !.modo = "any"]
Citation == Caso("citation-01", "citation", "sql", "answer",
    [fiscal |-> Q(CA1I, {}, 0, Perto1)], {A1I})
Revogado(p, partes) == [Caso("status-01", "status", "sql", "report_status",
    [fiscal |-> Q(partes, {"status"}, 4, Perto1)], {p}) EXCEPT !.estado = "revogado"]
Ambiguo == Caso("ambiguous-01", "ambiguous", "clarify", "ask_path",
    [fiscal |-> Q(<<P("art", "1", "solta"), P("inc", "II", "cola")>>, {}, 5, Perto1)], {A1II, A1II2})
NotFound == Caso("not_found-01", "not_found", "clarify", "report_missing",
    [fiscal |-> Q(CA9, {}, 4, Perto1)], {})
Externo(E) == [Caso("external-01", "external_ref", "vector", "cite_external",
    [fiscal |-> Aberta(Perto1)], E) EXCEPT !.escopo = "annexes"]
Emenda == Caso("amended-01", "amended", "vector", "answer",
    [fiscal |-> Aberta(Perto2), formal |-> Aberta(Perto2)], {A2})
\* Known to fail: the article that is revoked can never be retrieved.
Anomalia == [Caso("anomaly-01", "anomaly", "vector", "answer",
    [fiscal |-> Aberta(Perto1)], {A3}) EXCEPT !.conhecido = TRUE]

Casos1(dev, fiscal) ==
    <<Content(fiscal, Perto1, {A1I, A1P1I}), Direta, NoAnswer, Combined(dev, CA1P, {A1P1}),
      Citation, Revogado(A3, <<P("art", "3", "solta")>>), Ambiguo, NotFound,
      Externo({A2U}), Anomalia>>
Casos2 == <<Content(Perto2, Perto1, {A1I, A2}), NoAnswer, Combined(FALSE, CA1I, {A1I}), Citation,
            Revogado(A2U, CA2U), NotFound, Emenda>>

Casos4 == <<Content(Perto2, Perto1, {A1I, A1P1I, A2U}), NoAnswer>>

MCGolden == <<[lei |-> 1, casos |-> Casos1(FALSE, Perto1)], [lei |-> 1, casos |-> Casos1(TRUE, Perto1)],
              [lei |-> 2, casos |-> Casos2], [lei |-> 1, casos |-> Casos4],
              [lei |-> 1, casos |-> Casos1(FALSE, Perto2)]>>

Vazia == R(FALSE, "length", FALSE, <<>>, <<>>)
MCReplica ==
    [a |-> [c \in {"content-01", "no_answer-01", "combined-01"} |->
              [g \in Grupos |-> IF c = "no_answer-01" THEN R(TRUE, "stop", FALSE, <<>>, CA1I)
                                ELSE R(TRUE, "stop", TRUE, <<CA9>>, CA1I)]],
     b |-> [c \in {"content-01", "no_answer-01", "combined-01"} |->
              [g \in Grupos |-> IF c = "no_answer-01" THEN R(TRUE, "stop", TRUE, <<CA1I>>, <<>>)
                                ELSE Vazia]]]
=============================================================================
