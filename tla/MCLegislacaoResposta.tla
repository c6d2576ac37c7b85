------------------------ MODULE MCLegislacaoResposta ------------------------
EXTENDS LegislacaoResposta, MCLeiExemplo

MCOrdens == {<<"c1", "c2", "j1", "j2", "c3">>, <<"j2", "c3", "c2", "j1", "c1">>,
             <<"c2", "c3", "j1", "c1", "j2">>}

Q(p, s, r, t) == [partes |-> p, sinais |-> s, resto |-> r, tok |-> t]

MCPerguntas == {
    Q(<<>>, {}, 5, 2),                                          \* open
    Q(<<>>, {}, 5, 9),                                          \* open and long
    Q(<<>>, {}, 5, 17),                                         \* longer than the window leaves room for
    Q(<<>>, {}, 5, 23), Q(<<P("art", "1", "solta"), P("art", "2", "e")>>, {}, 5, 23),  \* than the window
    Q(<<P("art", "1", "solta"), P("inc", "I", "cola")>>, {}, 0, 1),
    Q(<<P("art", "1", "solta"), P("inc", "II", "cola")>>, {}, 5, 1),
    Q(<<P("par", "1", "solta"), P("art", "1", "cola")>>, {}, 5, 1),
    Q(<<P("art", "3", "solta")>>, {"status"}, 4, 1),
    Q(<<P("art", "9", "solta")>>, {}, 4, 1),
    Q(<<F("art", "1", "solta")>>, {}, 4, 1),
    Q(<<P("inc", "I", "solta"), P("caput", "", "cola"), P("par", "1", "e"), F("art", "1", "cola")>>, {}, 4, 1),
    Q(<<P("inc", "I", "solta"), P("par", "1", "e"), P("art", "1", "cola")>>, {}, 4, 1),
    Q(<<P("art", "2", "solta"), P("art", "1", "e"), P("par", "1", "cola"), P("art", "3", "e")>>, {}, 4, 4)}

MCReplicas == {
    R(FALSE, "length", FALSE, <<>>, <<>>), R(FALSE, "stop", FALSE, <<>>, <<>>),
    R(TRUE, "stop", TRUE, <<CA1I, CA9>>, <<>>), R(TRUE, "stop", FALSE, <<CA1P>>, <<>>),
    R(TRUE, "stop", TRUE, <<CA9, CF>>, CA2U), R(TRUE, "stop", FALSE, <<>>, CA1I),
    R(TRUE, "stop", TRUE, <<CA2U>>, CF)}
=============================================================================
