--------------------------- MODULE MCAnpIngestao ---------------------------
(***************************************************************************)
(* Small instance of AnpIngestao: one weekly file of two days, published on  *)
(* days 1 and 2; the first two days and the last one make two monthly files. *)
(***************************************************************************)
EXTENDS AnpIngestao

MCLinks == {"gasolina"}
MCItens == {"mes_1", "mes_2"}
MCColetas == [dia : 0..2, produto : MCLinks]
MCMensal ==
    [i \in MCItens |-> {c \in MCColetas : IF i = "mes_1" THEN c.dia <= 1 ELSE c.dia = 2}]
=============================================================================
