------------------------------ MODULE NfeLote ------------------------------
(***************************************************************************)
(* The NF-e lot pipeline: airflow/dags/dag_nfe.py, the control functions of *)
(* infra/postgres/init/sql/05_nfe.sql and the incremental dbt models of the *)
(* silver and gold layers.                                                  *)
(*                                                                         *)
(* XML files arrive in the inbox; one DAG run at a time (max_active_runs=1) *)
(* moves them to processando/<lote>, loads them into the immutable bronze,  *)
(* runs the dbt models as separate tasks over the lots that are CARREGADO,  *)
(* and closes the lots.  Tasks fail before or after their effect and are    *)
(* retried once; an operator may put a lot back in the queue or clear a     *)
(* failed run.  A table is the set of its rows.                             *)
(***************************************************************************)
EXTENDS Integers, FiniteSets

CONSTANTS
    Arquivos,          \* XML files; their order is the order of their names
    Chave,             \* access key of each file
    Itens,             \* item numbers (det/@nItem) of each file
    Invalidos,         \* files whose XML does not parse
    Mes,               \* month of issue of each access key
    MaxArquivosLote,   \* NFE_MAX_ARQUIVOS_LOTE
    MaxRuns,           \* bound: DAG runs that find a file
    MaxFalhas,         \* bound: failed task attempts
    MaxReprocessos,    \* bound: calls of fn_nfe_reprocessar_lote
    MaxLimpezas,       \* bound: failed runs cleared by the operator
    OperadorEspera     \* the operator only intervenes between runs

ASSUME NfeAssumption ==
    /\ Arquivos \subseteq Nat
    /\ Invalidos \subseteq Arquivos
    /\ DOMAIN Chave = Arquivos
    /\ DOMAIN Itens = Arquivos
    /\ \A a \in Arquivos : Chave[a] \in DOMAIN Mes
    /\ MaxArquivosLote \in Nat \ {0}
    /\ MaxRuns \in Nat \ {0}
    /\ MaxFalhas \in Nat
    /\ MaxReprocessos \in Nat
    /\ MaxLimpezas \in Nat
    /\ OperadorEspera \in BOOLEAN

Runs  == 1..MaxRuns
Lotes == 1..MaxRuns            \* lote_id: a run names at most one lot

\* Tasks of the DAG; nota, item, ft, doc and ag are the dbt models nfe_nota,
\* nfe_item, ft_nfe_item, ft_nfe_documento and ag_nfe_ibscbs_mensal.
Tarefas == {"aguardar", "reservar", "ingerir", "nota", "item", "ft", "doc",
            "ag", "finalizar", "marcar_erro", "arquivar"}

\* mutant: arquivar_lote hung on reservar_lote
ArquivarLogo == {"reservar"}

FolhasDbt    == {"doc", "ag"}        \* dbt_nfe >> finalizar_lote, marcar_erro
PaisFtItem   == {"nota", "item"}     \* the ref()s of ft_nfe_item
PaisArquivar == {"finalizar"}

Acima ==
    [aguardar |-> {}, reservar |-> {"aguardar"}, ingerir |-> {"reservar"},
     nota |-> {"ingerir"}, item |-> {"ingerir"}, ft |-> PaisFtItem,
     doc |-> {"nota"}, ag |-> {"ft"}, finalizar |-> FolhasDbt,
     marcar_erro |-> FolhasDbt, arquivar |-> PaisArquivar]

Terminais == {"success", "failed", "upstream_failed", "skipped"}
Falhados  == {"failed", "upstream_failed"}
EstadosTi == {"none", "up_for_retry"} \cup Terminais
Status    == {"ausente", "CARREGADO", "PROCESSADO", "ERRO"}

VARIABLES
    entregues,    \* files the source system has written so far
    inbox,        \* NFE_DIR/inbox
    processando,  \* NFE_DIR/processando/<lote>, by run
    processados,  \* NFE_DIR/processados/<lote>, by run
    lote,         \* ctrl.nfe_lote: lote_id of the lot a run named, 0 = none
    status,       \* ctrl.nfe_lote.status
    bronze,       \* landing_nfe.nfe_xml
    rejeitados,   \* ctrl.nfe_arquivo_rejeitado
    nota,         \* silver.nfe_nota
    item,         \* silver.nfe_item
    ft,           \* gold.ft_nfe_item
    doc,          \* gold.ft_nfe_documento
    ag,           \* gold.ag_nfe_ibscbs_mensal: the fact rows it adds up
    run,          \* the active DAG run, 0 = none
    ti,           \* task instance states, by run
    xcom,         \* LOTE_ID: what ingerir_bronze returned, by run
    falhas, reprocessos, limpezas   \* how much of each bound is used

arquivosVars == <<entregues, inbox, processando, processados>>
loteVars     == <<lote, status>>
bronzeVars   == <<bronze, rejeitados>>
silverVars   == <<nota, item>>
goldVars     == <<ft, doc, ag>>
airflowVars  == <<run, ti, xcom, falhas>>
operador     == <<reprocessos, limpezas>>
vars == <<arquivosVars, loteVars, bronzeVars, silverVars, goldVars,
          airflowVars, operador>>

-----------------------------------------------------------------------------
(* Rows *)

Linha     == [lote : Lotes, arq : Arquivos]
LinhaItem == [lote : Lotes, arq : Arquivos, n : UNION {Itens[a] : a \in Arquivos}]
\* A fact row also remembers the file whose header it was joined with (cab).
LinhaFato == [lote : Lotes, arq : Arquivos, n : UNION {Itens[a] : a \in Arquivos},
              cab : Arquivos]

MesmaChave(x, y) == Chave[x.arq] = Chave[y.arq]
MesmoItem(x, y)  == MesmaChave(x, y) /\ x.n = y.n
MesDe(x)         == Mes[Chave[x.arq]]

NomeAntesDoLote(x, y) == x.arq > y.arq \/ (x.arq = y.arq /\ x.lote > y.lote) \* mutant

\* order by lote_id desc, arquivo desc
MaisRecente(x, y) == x.lote > y.lote \/ (x.lote = y.lote /\ x.arq > y.arq)

DoLote(tabela, L) == {x \in tabela : x.lote \in L}

\* distinct on (chave_acesso): the first row of each key
Distintas(linhas) ==
    {x \in linhas : \A y \in linhas \ {x} : MesmaChave(x, y) => MaisRecente(x, y)}

Acrescenta(tabela, novas) == tabela \cup novas     \* mutant: append, no unique_key

MergePorChave(tabela, novas) ==
    {x \in tabela : \A y \in novas : ~MesmaChave(x, y)} \cup novas

MergePorItem(tabela, novas) ==
    {x \in tabela : \A y \in novas : ~MesmoItem(x, y)} \cup novas

\* nfe_lotes_pendentes(): the queue, read again by every model
Pendentes == {l \in Lotes : status[l] = "CARREGADO" /\ l <= xcom[run]}

XmlVigente == Distintas(DoLote(bronze, Pendentes))

-----------------------------------------------------------------------------
(* Airflow: trigger rules, retries, end of a run *)

\* mutant: one_failed that does not count upstream_failed
DepsSoFailed(t) ==
    IF t = "marcar_erro"
    THEN \E u \in Acima[t] : ti[run][u] = "failed"
    ELSE \A u \in Acima[t] : ti[run][u] = "success"

DepsOk(t) ==
    IF t = "marcar_erro"
    THEN \E u \in Acima[t] : ti[run][u] \in Falhados
    ELSE \A u \in Acima[t] : ti[run][u] = "success"

Pronta(t) ==
    /\ run # 0
    /\ ti[run][t] \in {"none", "up_for_retry"}
    /\ DepsOk(t)

Marca(t, s) == ti' = [ti EXCEPT ![run][t] = s]

Sucesso(t) == Marca(t, "success") /\ UNCHANGED falhas

FalhouSemRetry(t) == Marca(t, "failed")     \* mutant: retries = 0

\* retries = 1: the second failed attempt is final
Falhou(t) ==
    Marca(t, IF ti[run][t] = "none" THEN "up_for_retry" ELSE "failed")

Falha(t) == falhas < MaxFalhas /\ falhas' = falhas + 1 /\ Falhou(t)

\* A task whose effect is committed may still be reported failed: the worker
\* dies, the connection drops, or a dbt test of the model fails.
Termina(t) == Sucesso(t) \/ Falha(t)

Init ==
    /\ entregues = {} /\ inbox = {}
    /\ processando = [r \in Runs |-> {}]
    /\ processados = [r \in Runs |-> {}]
    /\ lote = [r \in Runs |-> 0]
    /\ status = [l \in Lotes |-> "ausente"]
    /\ bronze = {} /\ rejeitados = {}
    /\ nota = {} /\ item = {}
    /\ ft = {} /\ doc = {} /\ ag = {}
    /\ run = 0
    /\ ti = [r \in Runs |-> [t \in Tarefas |-> "none"]]
    /\ xcom = [r \in Runs |-> 0]
    /\ falhas = 0 /\ reprocessos = 0 /\ limpezas = 0

\* The source system writes a file (atomically: .tmp, then rename).
Chega(a) ==
    /\ a \notin entregues
    /\ entregues' = entregues \cup {a}
    /\ inbox' = inbox \cup {a}
    /\ UNCHANGED <<processando, processados, loteVars, bronzeVars, silverVars,
                   goldVars, airflowVars, operador>>

Nova(r) == ti[r] = [t \in Tarefas |-> "none"]

\* The scheduler opens the next run.  A run whose sensor would time out on an
\* empty inbox is skipped whole and changes nothing, so it is not opened.
AbrirRun(r) ==
    /\ run = 0
    /\ inbox # {}
    /\ Nova(r) /\ \A q \in Runs : q < r => ~Nova(q)
    /\ run' = r
    /\ UNCHANGED <<arquivosVars, loteVars, bronzeVars, silverVars, goldVars,
                   ti, xcom, falhas, operador>>

\* aguardar_xml finds a file, or (soft_fail) times out and is skipped.
AguardarXml ==
    /\ Pronta("aguardar")
    /\ Marca("aguardar", IF inbox # {} THEN "success" ELSE "skipped")
    /\ UNCHANGED <<arquivosVars, loteVars, bronzeVars, silverVars, goldVars,
                   run, xcom, falhas, operador>>

\* mutant: cp instead of mv
Copia(S) ==
    /\ processando' = [processando EXCEPT ![run] = @ \cup S]
    /\ UNCHANGED <<inbox, entregues, processados, loteVars, bronzeVars, silverVars,
                   goldVars, run, xcom, operador>>

Move(S) ==
    /\ inbox' = inbox \ S
    /\ processando' = [processando EXCEPT ![run] = @ \cup S]
    /\ UNCHANGED <<entregues, processados, loteVars, bronzeVars, silverVars,
                   goldVars, run, xcom, operador>>

\* find | head -n MAX | xargs mv: any MAX files, in the order find lists them.
ReservarLote ==
    /\ Pronta("reservar")
    /\ \E S \in SUBSET inbox :
         /\ Cardinality(S) = IF Cardinality(inbox) <= MaxArquivosLote
                             THEN Cardinality(inbox) ELSE MaxArquivosLote
         /\ Move(S)
         /\ IF processando[run] \cup S = {}
            THEN Marca("reservar", "skipped") /\ UNCHANGED falhas   \* exit 99
            ELSE Termina("reservar")

\* The task dies between two moves.
ReservarParte ==
    /\ Pronta("reservar")
    /\ \E S \in SUBSET inbox :
         /\ S # {} /\ S # inbox /\ Cardinality(S) < MaxArquivosLote
         /\ Move(S)
         /\ Falha("reservar")

ArquivosDaPasta == UNION {processando[r] : r \in Runs}    \* mutant: not this lot's directory

ArquivosDoLote == processando[run]     \* pg_ls_dir(p_diretorio)

ApagaLote(tabela, l) == {x \in tabela : x.lote # l}

\* mutant: a lot without valid files keeps its first status
CargaVaziaRecebida(bons) == IF bons = {} THEN "RECEBIDO" ELSE "CARREGADO"

StatusDaCarga(bons) == IF bons = {} THEN "PROCESSADO" ELSE "CARREGADO"

ProximoLote == 1 + Cardinality({r \in Runs : lote[r] # 0})

\* fn_nfe_ingerir_lote: one transaction.  A lot in ERRO is loaded again from
\* its directory; one already CARREGADO or PROCESSADO is left alone.
IngerirBronze ==
    /\ Pronta("ingerir")
    /\ LET l      == IF lote[run] = 0 THEN ProximoLote ELSE lote[run]
           bons   == ArquivosDoLote \ Invalidos
           ruins  == ArquivosDoLote \cap Invalidos
           linhas(S) == [lote : {l}, arq : S]
       IN  /\ IF status[l] \in {"CARREGADO", "PROCESSADO"}
              THEN UNCHANGED <<loteVars, bronzeVars>>
              ELSE /\ lote' = [lote EXCEPT ![run] = l]
                   /\ bronze' = ApagaLote(bronze, l) \cup linhas(bons)
                   /\ rejeitados' = ApagaLote(rejeitados, l) \cup linhas(ruins)
                   /\ status' = [status EXCEPT ![l] = StatusDaCarga(bons)]
           /\ \/ Sucesso("ingerir") /\ xcom' = [xcom EXCEPT ![run] = l]
              \/ Falha("ingerir") /\ UNCHANGED xcom
    /\ UNCHANGED <<arquivosVars, silverVars, goldVars, run, operador>>

DbtUnchanged == UNCHANGED <<arquivosVars, loteVars, bronzeVars, run, xcom, operador>>

\* silver.nfe_nota: merge by chave_acesso
RodarNota ==
    /\ Pronta("nota")
    /\ nota' = MergePorChave(nota, XmlVigente)
    /\ Termina("nota")
    /\ UNCHANGED <<item, goldVars>> /\ DbtUnchanged

\* silver.nfe_item: merge by (chave_acesso, n_item); a merge deletes nothing
RodarItem ==
    /\ Pronta("item")
    /\ LET novas == UNION {[lote : {x.lote}, arq : {x.arq}, n : Itens[x.arq]] :
                           x \in XmlVigente}
       IN  item' = MergePorItem(item, novas)
    /\ Termina("item")
    /\ UNCHANGED <<nota, goldVars>> /\ DbtUnchanged

\* gold.ft_nfe_item: pending items joined with pending headers, merge by item
RodarFtItem ==
    /\ Pronta("ft")
    /\ LET novas == {f \in LinhaFato :
                       /\ [lote |-> f.lote, arq |-> f.arq, n |-> f.n]
                             \in DoLote(item, Pendentes)
                       /\ \E c \in DoLote(nota, Pendentes) :
                             MesmaChave(c, f) /\ c.arq = f.cab}
       IN  ft' = MergePorItem(ft, novas)
    /\ Termina("ft")
    /\ UNCHANGED <<silverVars, doc, ag>> /\ DbtUnchanged

\* gold.ft_nfe_documento: merge by chave_acesso
RodarFtDocumento ==
    /\ Pronta("doc")
    /\ doc' = MergePorChave(doc, DoLote(nota, Pendentes))
    /\ Termina("doc")
    /\ UNCHANGED <<silverVars, ft, ag>> /\ DbtUnchanged

MesesAfetados == {MesDe(f) : f \in DoLote(ft, Pendentes)}

SoPendentes == DoLote(ft, Pendentes)      \* mutant: the month of the queue only

LinhasDosMeses == {f \in ft : MesDe(f) \in MesesAfetados}

\* gold.ag_nfe_ibscbs_mensal: delete+insert of the months the pending rows touch
RodarAgregado ==
    /\ Pronta("ag")
    /\ ag' = {f \in ag : MesDe(f) \notin MesesAfetados} \cup LinhasDosMeses
    /\ Termina("ag")
    /\ UNCHANGED <<silverVars, ft, doc>> /\ DbtUnchanged

SoOLoteDoRun == {xcom[run]} \ {0}      \* mutant: lote_id = p_lote_max, whatever its status

AFechar == Pendentes       \* status = 'CARREGADO' AND lote_id <= p_lote_max

\* fn_nfe_finalizar_lotes(LOTE_ID, s): every CARREGADO lot up to LOTE_ID
FechaLotes(s) ==
    /\ status' = [l \in Lotes |-> IF l \in AFechar THEN s ELSE status[l]]
    /\ UNCHANGED <<arquivosVars, lote, bronzeVars, silverVars, goldVars, run,
                   xcom, operador>>

FinalizarLote ==
    /\ Pronta("finalizar")
    /\ FechaLotes("PROCESSADO")
    /\ Termina("finalizar")

MarcarErro ==
    /\ Pronta("marcar_erro")
    /\ FechaLotes("ERRO")
    /\ Termina("marcar_erro")

\* mv processando/<lote> processados/<lote>; without the directory mv fails
ArquivarLote ==
    /\ Pronta("arquivar")
    /\ IF processando[run] # {}
       THEN /\ processados' = [processados EXCEPT ![run] = @ \cup processando[run]]
            /\ processando' = [processando EXCEPT ![run] = {}]
            /\ Termina("arquivar")
       ELSE /\ Falhou("arquivar")
            /\ UNCHANGED <<processando, processados, falhas>>
    /\ UNCHANGED <<entregues, inbox, loteVars, bronzeVars, silverVars, goldVars,
                   run, xcom, operador>>

\* An attempt fails before it has any effect.
FalhaAntes(t) ==
    /\ Pronta(t)
    /\ Falha(t)
    /\ UNCHANGED <<arquivosVars, loteVars, bronzeVars, silverVars, goldVars,
                   run, xcom, operador>>

\* The scheduler settles a task that will not run: all_success after a failure
\* or a skip upstream, one_failed when everything upstream ended well.
Propagar(t) ==
    /\ run # 0
    /\ ti[run][t] = "none"
    /\ LET acima == {ti[run][u] : u \in Acima[t]}
       IN  IF t = "marcar_erro"
           THEN acima \subseteq {"success", "skipped"} /\ Marca(t, "skipped")
           ELSE \/ /\ acima \cap Falhados # {}
                   /\ Marca(t, "upstream_failed")
                \/ /\ acima \cap Falhados = {} /\ "skipped" \in acima
                   /\ Marca(t, "skipped")
    /\ UNCHANGED <<arquivosVars, loteVars, bronzeVars, silverVars, goldVars,
                   run, xcom, falhas, operador>>

FimRun ==
    /\ run # 0
    /\ \A t \in Tarefas : ti[run][t] \in Terminais
    /\ run' = 0
    /\ UNCHANGED <<arquivosVars, loteVars, bronzeVars, silverVars, goldVars,
                   ti, xcom, falhas, operador>>

-----------------------------------------------------------------------------
(* The operator *)

PodeIntervir == OperadorEspera => run = 0

\* ctrl.fn_nfe_reprocessar_lote
Reprocessar(l) ==
    /\ PodeIntervir
    /\ reprocessos < MaxReprocessos
    /\ status[l] \in {"PROCESSADO", "ERRO"}
    /\ status' = [status EXCEPT ![l] = "CARREGADO"]
    /\ reprocessos' = reprocessos + 1
    /\ UNCHANGED <<arquivosVars, lote, bronzeVars, silverVars, goldVars,
                   airflowVars, limpezas>>

RunFalho(r) == \E t \in Tarefas : ti[r][t] \in Falhados

\* Airflow's "clear" of a failed run: every task, or only those that failed.
LimparRun(r) ==
    /\ run = 0
    /\ limpezas < MaxLimpezas
    /\ RunFalho(r)
    /\ \E T \in {Tarefas, {t \in Tarefas : ti[r][t] \in Falhados}} :
         /\ ti' = [ti EXCEPT ![r] = [t \in Tarefas |-> IF t \in T THEN "none" ELSE @[t]]]
         /\ xcom' = IF "ingerir" \in T THEN [xcom EXCEPT ![r] = 0] ELSE xcom
    /\ run' = r
    /\ limpezas' = limpezas + 1
    /\ UNCHANGED <<arquivosVars, loteVars, bronzeVars, silverVars, goldVars,
                   falhas, reprocessos>>

-----------------------------------------------------------------------------
Tarefa ==
    \/ AguardarXml \/ ReservarLote \/ ReservarParte \/ IngerirBronze
    \/ RodarNota \/ RodarItem \/ RodarFtItem \/ RodarFtDocumento \/ RodarAgregado
    \/ FinalizarLote \/ MarcarErro \/ ArquivarLote
    \/ \E t \in Tarefas : FalhaAntes(t)

Scheduler ==
    \/ \E r \in Runs : AbrirRun(r)
    \/ \E t \in Tarefas : Propagar(t)
    \/ FimRun

Operador ==
    \/ \E l \in Lotes : Reprocessar(l)
    \/ \E r \in Runs : LimparRun(r)

Next == (\E a \in Arquivos : Chega(a)) \/ Tarefa \/ Scheduler \/ Operador

Spec == Init /\ [][Next]_vars

\* Airflow keeps scheduling and running tasks; nobody promises that a file
\* arrives or that an operator acts.
FairSpec == Spec /\ WF_vars(Tarefa \/ Scheduler)

-----------------------------------------------------------------------------
(* Properties *)

TipoArquivos ==
    /\ entregues \subseteq Arquivos
    /\ inbox \subseteq Arquivos
    /\ processando \in [Runs -> SUBSET Arquivos]
    /\ processados \in [Runs -> SUBSET Arquivos]

TipoLotes ==
    /\ lote \in [Runs -> Lotes \cup {0}]
    /\ status \in [Lotes -> Status]

TipoTabelas ==
    /\ bronze \subseteq Linha /\ rejeitados \subseteq Linha
    /\ nota \subseteq Linha /\ doc \subseteq Linha
    /\ item \subseteq LinhaItem
    /\ ft \subseteq LinhaFato /\ ag \subseteq LinhaFato

TipoAirflow ==
    /\ run \in Runs \cup {0}
    /\ ti \in [Runs -> [Tarefas -> EstadosTi]]
    /\ xcom \in [Runs -> Lotes \cup {0}]

TipoLimites ==
    /\ falhas \in 0..MaxFalhas
    /\ reprocessos \in 0..MaxReprocessos
    /\ limpezas \in 0..MaxLimpezas

\* The shape of the state; in particular a committed lot is never RECEBIDO.
TypeOK ==
    TipoArquivos /\ TipoLotes /\ TipoTabelas /\ TipoAirflow /\ TipoLimites

Pasta(r) == processando[r] \cup processados[r]

\* The mv of reservar_lote and arquivar_lote neither loses nor duplicates a
\* file, whatever fails, is retried or is cleared.
UmLugarSo ==
    /\ entregues = inbox \cup UNION {Pasta(r) : r \in Runs}
    /\ \A r \in Runs : inbox \cap Pasta(r) = {} /\ processando[r] \cap processados[r] = {}
    /\ \A q, r \in Runs : q # r => Pasta(q) \cap Pasta(r) = {}

\* A bronze or rejected row comes from the directory of the run that named its
\* lot: no retry or reload ever loads a file under another lot.
OrigemDaLinha ==
    \A b \in bronze \cup rejeitados :
        \E r \in Runs : lote[r] = b.lote /\ b.arq \in Pasta(r)

\* arquivar_lote only puts away files that ingerir_bronze has accounted for.
SoArquivaIngerido ==
    \A r \in Runs : \A a \in processados[r] :
        \E b \in bronze \cup rejeitados : b.lote = lote[r] /\ b.arq = a

\* The dbt tests unique(chave_acesso) and unique(chave_acesso, n_item): retries,
\* resends and requeued lots never leave two rows of one key.
ChavesUnicas ==
    /\ \A x, y \in nota : MesmaChave(x, y) => x = y
    /\ \A x, y \in doc : MesmaChave(x, y) => x = y
    /\ \A x, y \in item : MesmoItem(x, y) => x = y
    /\ \A x, y \in ft : MesmoItem(x, y) => x = y

\* PROCESSADO means the silver layer has every note of the lot.
SilverInteira ==
    \A b \in bronze : status[b.lote] = "PROCESSADO" =>
        \E x \in nota : MesmaChave(x, b)

\* Every lot that brought the key is closed.
ChaveQuieta(c) == \A b \in bronze : Chave[b.arq] = c => status[b.lote] = "PROCESSADO"

\* nfe_nota and nfe_item are separate tasks that each resolve resends: once the
\* lots of a key are closed, the header's items come from the same file.
NotaComItens ==
    \A x \in nota : ChaveQuieta(Chave[x.arq]) =>
        \A n \in Itens[x.arq] : [lote |-> x.lote, arq |-> x.arq, n |-> n] \in item

\* Once the lots of a key are closed, the two facts hold its silver rows.
OuroEspelhaSilver ==
    \A x \in nota : ChaveQuieta(Chave[x.arq]) =>
        /\ x \in doc
        /\ {i \in item : MesmaChave(i, x)} =
             {[lote |-> f.lote, arq |-> f.arq, n |-> f.n] : f \in {g \in ft : MesmaChave(g, x)}}

\* The monthly aggregate only recomputes the months a run touches: when every
\* lot of a month is closed it still adds up exactly the month's fact rows.
AgregadoEmDia ==
    \A m \in {Mes[c] : c \in DOMAIN Mes} :
        (\A c \in DOMAIN Mes : Mes[c] = m => ChaveQuieta(c)) =>
            {f \in ag : MesDe(f) = m} = {f \in ft : MesDe(f) = m}

\* The gold tables hold what silver does once the lots they depend on are
\* closed, although each table is built by a task that reads the queue again
\* and the lots close while some of those tasks are still running.
OuroEmDia == OuroEspelhaSilver /\ AgregadoEmDia

\* Silver keeps the latest file of a key (ADR 0006, int_nfe__xml_vigente).
SilverMaisRecente ==
    \A x \in nota : ChaveQuieta(Chave[x.arq]) =>
        \A b \in bronze : MesmaChave(b, x) => b = x \/ MaisRecente(x, b)

\* It does as long as nobody puts a lot back in the queue, whatever fails.
MaisRecenteSemReprocesso == reprocessos = 0 => SilverMaisRecente

\* What closing a lot promises of silver: its notes are there, each with the
\* items of its own file, and of the latest file when no lot was put back.
SilverFiel == SilverInteira /\ NotaComItens /\ MaisRecenteSemReprocesso

\* Trigger rules, retries and skips leave no task of a run undecided.
RunTermina == run # 0 ~> run = 0

\* With at most one failed attempt the retry suffices: every file that arrives
\* is loaded or rejected.
ArquivoIngerido ==
    [](falhas <= 1) =>
        \A a \in Arquivos : a \in inbox ~> \E b \in bronze \cup rejeitados : b.arq = a

\* The lots are the queue FilaLotes promises: opened in order of lote_id, closed
\* in order up to LOTE_ID, put back only by the operator.
Fila == INSTANCE FilaLotes
        WITH estado <- status,
             conteudo <- [l \in Lotes |-> {b.arq : b \in DoLote(bronze, {l})}]

FilaSpec == Fila!Spec
=============================================================================
