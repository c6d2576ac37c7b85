---------------------------- MODULE MCLeiExemplo ----------------------------
(***************************************************************************)
(* A law in two versions, with their chunks.  Art. 1 does not fit a block, *)
(* its inciso II is printed twice; art. 2 has a long caput, cut in two     *)
(* windows; art. 3 is revoked.  The amendment drops the paragraph of art. 1*)
(* and art. 3, and revokes art. 2, paragrafo unico.                        *)
(***************************************************************************)
EXTENDS LegislacaoContexto

A1 == <<"1">>
A1I == <<"1", <<"inc", "I", 1>>>>
A1II == <<"1", <<"inc", "II", 1>>>>
A1II2 == <<"1", <<"inc", "II", 2>>>>
A1P1 == <<"1", <<"par", "1", 1>>>>
A1P1I == <<"1", <<"par", "1", 1>>, <<"inc", "I", 1>>>>
A2 == <<"2">>
A2U == <<"2", <<"par", "unico", 1>>>>
A3 == <<"3">>

P(k, v, g) == [tipo |-> k, valor |-> v, liga |-> g, fora |-> "nao"]
F(k, v, g) == [tipo |-> k, valor |-> v, liga |-> g, fora |-> "logo"]

D(n, v, t) == [ord |-> n, vivo |-> v, tok |-> t, nota |-> FALSE, alheio |-> FALSE, cita |-> <<>>]
Nota(d) == [d EXCEPT !.nota = TRUE]
Cita214(d, c) == [d EXCEPT !.cita = c]

Lei1 == A1 :> D(1, TRUE, 2) @@ A1I :> D(2, TRUE, 2) @@ A1II :> D(3, TRUE, 2)
     @@ A1II2 :> D(4, TRUE, 1) @@ A1P1 :> D(5, TRUE, 3) @@ A1P1I :> D(6, TRUE, 4)
     @@ A2 :> Cita214(D(7, TRUE, 6), <<P("inc", "I", "solta"), P("par", "1", "cola"), P("art", "1", "cola")>>)
     @@ A2U :> D(8, TRUE, 2) @@ A3 :> D(9, FALSE, 3)
Lei2 == A1 :> D(1, TRUE, 2) @@ A1I :> D(2, TRUE, 2) @@ A1II :> Nota(D(3, TRUE, 2))
     @@ A2 :> Cita214(Nota(D(4, TRUE, 6)), <<P("inc", "I", "solta"), P("art", "1", "cola"), F("art", "7", "solta")>>)
     @@ A2U :> D(5, FALSE, 2)

C(a, s, j, t) == [art |-> a, ids |-> s, janela |-> j, tok |-> t]
T1 == "c1" :> C("1", <<A1, A1I, A1II, A1II2>>, FALSE, 7) @@ "c2" :> C("1", <<A1P1, A1P1I>>, FALSE, 7)
   @@ "j1" :> C("2", <<A2>>, TRUE, 3) @@ "j2" :> C("2", <<A2>>, TRUE, 3)
   @@ "c3" :> C("2", <<A2U>>, FALSE, 2)
T2 == "c1" :> C("1", <<A1, A1I, A1II>>, FALSE, 6)
   @@ "j1" :> C("2", <<A2>>, TRUE, 3) @@ "j2" :> C("2", <<A2>>, TRUE, 3)

MCLeis == <<Lei1, Lei2>>
MCTrechos == <<T1, T2>>

R(j, f, d, c, t) == [json |-> j, fim |-> f, diz |-> d, cites |-> c, texto |-> t]
CA1I == <<P("art", "1", "solta"), P("inc", "I", "cola")>>
CA1P == <<P("art", "1", "solta"), P("par", "1", "cola")>>
CA2U == <<P("art", "2", "solta"), P("par", "unico", "cola")>>
CA9 == <<P("art", "9", "solta")>>
CF == <<F("art", "5", "solta")>>
=============================================================================
