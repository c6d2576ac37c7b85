----------------------------- MODULE FilaLotes -----------------------------
(***************************************************************************)
(* What ctrl.nfe_lote promises to the rest of the NF-e pipeline: a queue of *)
(* lots numbered by lote_id.  A lot enters the queue with the files it      *)
(* loaded, waits as CARREGADO, is closed together with every waiting lot up *)
(* to the same lote_id, and comes back only from PROCESSADO or ERRO.        *)
(* The header of infra/postgres/init/sql/05_nfe.sql draws this life cycle.  *)
(***************************************************************************)
EXTENDS Naturals

CONSTANTS
    Lotes,       \* lote_id values, a set of naturals
    Arquivos

VARIABLES
    estado,      \* status of each lot
    conteudo     \* files the bronze holds for each lot

Init ==
    /\ estado = [l \in Lotes |-> "ausente"]
    /\ conteudo = [l \in Lotes |-> {}]

\* A lot is loaded for the first time, in the order of lote_id, or again after
\* an error.  A lot that loads nothing has nothing to wait for.
Carregar(l) ==
    /\ \/ estado[l] = "ausente" /\ \A k \in Lotes : k < l => estado[k] # "ausente"
       \/ estado[l] = "ERRO"
    /\ \E C \in SUBSET Arquivos :
         /\ conteudo' = [conteudo EXCEPT ![l] = C]
         /\ estado' = [estado EXCEPT ![l] = IF C = {} THEN "PROCESSADO" ELSE "CARREGADO"]

\* No waiting lot is left behind a closed one.
Fechar(teto, s) ==
    /\ estado' = [l \in Lotes |-> IF estado[l] = "CARREGADO" /\ l <= teto
                                  THEN s ELSE estado[l]]
    /\ UNCHANGED conteudo

Devolver(l) ==
    /\ estado[l] \in {"PROCESSADO", "ERRO"}
    /\ estado' = [estado EXCEPT ![l] = "CARREGADO"]
    /\ UNCHANGED conteudo

Next ==
    \/ \E l \in Lotes : Carregar(l) \/ Devolver(l)
    \/ \E teto \in Lotes \cup {0}, s \in {"PROCESSADO", "ERRO"} : Fechar(teto, s)

Spec == Init /\ [][Next]_<<estado, conteudo>>
=============================================================================
