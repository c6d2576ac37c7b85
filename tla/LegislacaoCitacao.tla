-------------------------- MODULE LegislacaoCitacao --------------------------
(***************************************************************************)
(* lc06_generate.py: the citations of a reply, checked against what the    *)
(* context showed, and the decision to show the reply or to refuse.  Pure  *)
(* operators.                                                              *)
(***************************************************************************)
EXTENDS LegislacaoContexto

\* Faulty forms, for the mutants: a citation of any provision of the law is
\* valid; a re-scoring that leaves refusals as they are.
StatusDaLei(citas, ids, mostra) ==
    LET cand == UNION {Resolve(citas[n], ids) : n \in {m \in 1..Len(citas) : ~citas[m].fora}}
    IN  [estado |-> IF cand # {} THEN "valid" ELSE "not_found", ids |-> cand]

Status(citas, ids, mostra) ==
    LET cand == UNION {Resolve(citas[n], ids) : n \in {m \in 1..Len(citas) : ~citas[m].fora}}
        dentro == cand \cap mostra
    IN  IF citas # <<>> /\ \A n \in 1..Len(citas) : citas[n].fora
        THEN [estado |-> "foreign", ids |-> {}]
        ELSE IF dentro # {} THEN [estado |-> "valid", ids |-> dentro]
        ELSE [estado |-> IF cand # {} THEN "outside_context" ELSE "not_found", ids |-> cand]

CheckCitation(partes, ids, mostra) == Status(ParseCitations(partes), ids, mostra)

TextCitations(partes, ids, mostra) ==
    LET citas == ParseCitations(partes)
    IN  {Status(<<citas[n]>>, ids, mostra) : n \in 1..Len(citas)}

ValidOf(a) ==
    UNION {c.ids : c \in {d \in a.cites \cup (IF a.contaTexto THEN a.texto ELSE {}) :
                            d.estado = "valid"}}

Decisions == {"model", "citations", "model_text"}
ContaTexto(rule) == rule = "model_text"
FinalRefusals == {"clarify", "no_context", "invalid_json", "truncated"}

Decide(previa, diz, temValida, rule) ==
    IF previa \in FinalRefusals THEN previa
    ELSE IF rule \in {"model", "model_text"} /\ ~diz THEN "model"
    ELSE IF ~temValida THEN "no_valid_citation" ELSE "nenhuma"

\* An Answer before any reply: `recusa` is "nenhuma" when the text is shown.
SemReplica(motivo) ==
    [llm |-> FALSE, diz |-> FALSE, cites |-> {}, texto |-> {}, contaTexto |-> FALSE,
     recusa |-> motivo, estrutura |-> {}]

Julga(r, ids, mostra, rule) ==
    LET a == [SemReplica("nenhuma") EXCEPT
                !.llm = TRUE, !.diz = r.diz, !.contaTexto = ContaTexto(rule),
                !.cites = {CheckCitation(r.cites[n], ids, mostra) : n \in 1..Len(r.cites)},
                !.texto = TextCitations(r.texto, ids, mostra)]
    IN  IF ~r.json
        THEN [SemReplica(IF r.fim = "length" THEN "truncated" ELSE "invalid_json")
                EXCEPT !.llm = TRUE]
        ELSE [a EXCEPT !.recusa = Decide("nenhuma", r.diz, ValidOf(a) # {}, rule)]

RescoreSoMostradas(a, rule) ==
    IF a.recusa # "nenhuma" THEN a
    ELSE [a EXCEPT !.recusa = Decide("nenhuma", a.diz, ValidOf(a) # {}, rule)]

\* rescore: what the report recorded, under another rule.
Rescore(a, rule) ==
    LET b == [a EXCEPT !.contaTexto = ContaTexto(rule)]
        previa == IF a.recusa \in FinalRefusals THEN a.recusa ELSE "nenhuma"
    IN  IF ~a.llm THEN a
        ELSE [b EXCEPT !.recusa = Decide(previa, a.diz, ValidOf(b) # {}, rule)]
=============================================================================
