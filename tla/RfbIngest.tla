----------------------------- MODULE RfbIngest -----------------------------
(***************************************************************************)
(* The RFB pipeline (CNPJ open data): the scripts pipelines/rfb/rfb01 to    *)
(* rfb11 in the order of airflow/dags/dag_rfb.py, and the dbt run of        *)
(* dag_rfb_dbt.py, which the asset of a finished landing triggers and which *)
(* may read the landing tables while the next dag_rfb run rewrites them.    *)
(*                                                                         *)
(* A file of the month is the set of its keys.  The files of an entity are  *)
(* loaded in the order of their names; a file is one COPY batch.            *)
(***************************************************************************)
EXTENDS Integers, FiniteSets, Bags

CONSTANTS
    Arquivos,     \* files of a month, numbered in name order (EXPECTED_FILES)
    Grandes,      \* entities with several files and an incremental gold table
    Dominios,     \* domain tables: one file each, gold rebuilt as a table
    Entidade,     \* the entity of each file
    Chaves,
    Conteudo,     \* keys of each file of each month
    Amostra,      \* the keys among the first DEV_ROW_LIMIT rows of the file
    MaxMes,       \* bound: reference months
    MaxRuns,      \* bound: dag_rfb runs
    MaxFalhas     \* bound: failed files and attempts

Meses == 1..MaxMes
Entidades == Grandes \cup Dominios

ASSUME RfbAssumption ==
    /\ Arquivos \subseteq Nat /\ IsFiniteSet(Arquivos)
    /\ Grandes \cap Dominios = {} /\ Entidade \in [Arquivos -> Entidades]
    /\ MaxMes \in Nat \ {0} /\ MaxRuns \in Nat /\ MaxFalhas \in Nat
    /\ Conteudo \in [Meses \X Arquivos -> (SUBSET Chaves) \ {{}}]
    /\ Amostra \in [Meses \X Arquivos -> (SUBSET Chaves) \ {{}}]
    /\ \A p \in Meses \X Arquivos :
         /\ Amostra[p] \subseteq Conteudo[p]
         /\ Entidade[p[2]] \in Dominios => Amostra[p] = Conteudo[p]  \* BIG_ENTITIES only

\* One silver and one landing task per big entity, one pair for the domains.
Grupos == {{e} : e \in Grandes} \cup {Dominios}
ArquivosDe(g) == {f \in Arquivos : Entidade[f] \in g}

Download   == <<"download", {}>>
Bronze     == <<"bronze", {}>>
Silver(g)  == <<"silver", g>>
Landing(g) == <<"landing", g>>
Landed     == <<"landed", {}>>
Tarefas == {Download, Bronze, Landed}
             \cup {Silver(g) : g \in Grupos} \cup {Landing(g) : g \in Grupos}

Falhados  == {"failed", "upstream_failed"}
Terminais == {"success", "skipped"} \cup Falhados
Pendente  == {"none", "up_for_retry"}
Correndo  == {"running", "rerunning"}

VARIABLES
    publicado,   \* last month the Receita has published
    zips,        \* readable ZIPs in datasource/rfb: <<month, file>>
    bronze,      \* bronze bucket: keys of each parquet
    silver,      \* silver bucket: keys and _inserted_at of each parquet
    landing,     \* landing_rfb tables: a bag of rows
    gold,        \* gold tables, by entity
    runs, ativo, mes, dev, ti,  \* the dag_rfb run: params and task states
    preparadas,  \* tables whose partition this landing attempt has cleared
    copiados,    \* files this landing attempt has copied
    eventos,     \* datalabs://landing/rfb events not consumed
    dbtAtivo, dti,  \* the dag_rfb_dw_dbt run and its models
    relogio, falhas

lago    == <<zips, bronze, silver>>
rfbVars == <<publicado, runs, ativo, mes, dev>>
cargaVars == <<landing, preparadas, copiados>>
dbtVars == <<gold, dbtAtivo, dti>>
vars == <<lago, rfbVars, ti, cargaVars, eventos, dbtVars, relogio, falhas>>

-----------------------------------------------------------------------------
(* Airflow *)

Acima(t) ==
    CASE t = Download -> {}
      [] t = Bronze   -> {Download}
      [] t = Landed   -> {Landing(g) : g \in Grupos}
      [] t[1] = "silver"  -> {Bronze}
      [] t[1] = "landing" -> {Silver(t[2])}

EstadosAcima(t) == {ti[u] : u \in Acima(t)}

Pronta(t)  == ativo /\ ti[t] \in Pendente /\ EstadosAcima(t) \subseteq {"success"}
Rodando(t) == ti[t] \in Correndo

Marca(t, s) == ti' = [ti EXCEPT ![t] = s]

\* retries = 1
AposFalha(s) == IF s \in {"none", "running"} THEN "up_for_retry" ELSE "failed"
Falhou(t)    == Marca(t, AposFalha(ti[t]))
Falha        == falhas < MaxFalhas /\ falhas' = falhas + 1

Termina(t, completo) ==
    \/ completo /\ Marca(t, "success") /\ UNCHANGED falhas
    \/ Falhou(t) /\ Falha

Init ==
    /\ publicado = 0
    /\ zips = {} /\ bronze = <<>> /\ silver = <<>>
    /\ landing = EmptyBag /\ gold = [e \in Entidades |-> {}]
    /\ runs = 0 /\ ativo = FALSE /\ mes = 1 /\ dev = FALSE
    /\ ti = [t \in Tarefas |-> "none"]
    /\ preparadas = [g \in Grupos |-> {}] /\ copiados = [g \in Grupos |-> {}]
    /\ eventos = 0
    /\ dbtAtivo = FALSE /\ dti = [e \in Entidades |-> "none"]
    /\ relogio = 0 /\ falhas = 0

Publica ==
    /\ publicado < MaxMes
    /\ publicado' = publicado + 1
    /\ UNCHANGED <<lago, runs, ativo, mes, dev, ti, cargaVars, eventos, dbtVars, relogio, falhas>>

\* schedule = None: triggered by hand, with the params ref_month and dev_mode.
AbrirRun(m, d) ==
    /\ ~ativo /\ runs < MaxRuns
    /\ ativo' = TRUE /\ runs' = runs + 1 /\ mes' = m /\ dev' = d
    /\ ti' = [t \in Tarefas |-> "none"]
    /\ UNCHANGED <<publicado, lago, cargaVars, eventos, dbtVars, relogio, falhas>>

-----------------------------------------------------------------------------
(* rfb01: download.  Only tasks of this run read what the lake steps write,  *)
(* so a step is one action: what it finished before it ended or was killed.  *)

DoMes(A) == {mes} \X A

\* Objects uploaded to a bucket, over those of the same key.
Sobre(novos, bucket) ==
    [p \in DOMAIN novos \cup DOMAIN bucket |->
        IF p \in DOMAIN novos THEN novos[p] ELSE bucket[p]]

Faltam == {f \in Arquivos : <<mes, f>> \notin zips}

\* 206 for the month, 404 for it and 206 for the one before, 404 for both
Fonte == IF mes <= publicado THEN "publicado"
         ELSE IF mes - 1 <= publicado THEN "nao_publicado" ELSE "desconhecido"

\* A file takes its name (os.replace of the .part) once it is a whole ZIP.
BaixarMes ==
    /\ Pronta(Download)
    /\ IF Faltam = {} \/ Fonte = "publicado"
       THEN \E A \in SUBSET Faltam :
              zips' = zips \cup DoMes(A) /\ Termina(Download, A = Faltam)
       ELSE /\ \/ Fonte = "nao_publicado" /\ Marca(Download, "skipped")  \* exit 99
               \/ Fonte = "desconhecido" /\ Falhou(Download)
            /\ UNCHANGED <<zips, falhas>>
    /\ UNCHANGED <<bronze, silver, rfbVars, cargaVars, eventos, dbtVars, relogio>>

-----------------------------------------------------------------------------
(* rfb02: ZIP to bronze parquet *)

ComZip     == {f \in Arquivos : <<mes, f>> \in zips}
SemParquet == {f \in ComZip : <<mes, f>> \notin DOMAIN bronze}

\* mutant: the parquet is uploaded in the finally, whatever was read
SobeParcial(A) == [p \in DoMes(SemParquet \cup A) |-> IF p[2] \in A THEN Conteudo[p] ELSE {}]

\* Uploaded after the last row, or the last one dev_mode reads.
Sobe(A) == [p \in DoMes(A) |-> IF dev THEN Amostra[p] ELSE Conteudo[p]]

\* pending_files: those without a parquet, and those whose head_object failed
\* for any other reason, which are made again over the parquet that is there.
Pendentes == {P \in SUBSET ComZip : SemParquet \subseteq P}

ExtrairBronze ==
    /\ Pronta(Bronze)
    /\ \E P \in Pendentes : \E A \in SUBSET P :
         bronze' = Sobre(Sobe(A), bronze) /\ Termina(Bronze, A = P)
    /\ UNCHANGED <<zips, silver, rfbVars, cargaVars, eventos, dbtVars, relogio>>

-----------------------------------------------------------------------------
(* rfb03 to rfb06: bronze to silver parquet *)

SemSilver(g) == {f \in ArquivosDe(g) : <<mes, f>> \in DOMAIN bronze \ DOMAIN silver}

\* mutants: the clock is read once for the task, or before it has moved
UmaVez(f, A)   == 1
AntesDe(f, A)  == Cardinality({x \in A : x < f})

Ate(f, A) == Cardinality({x \in A : x <= f})

\* The files in order, up to the first that fails; _inserted_at is the time
\* of the transformation.
TransformarSilver(g) ==
    /\ Pronta(Silver(g))
    /\ \E A \in SUBSET SemSilver(g) :
         /\ \A x \in A, y \in SemSilver(g) \ A : x < y
         /\ silver' = Sobre([p \in DoMes(A) |->
                              [linhas |-> bronze[p], ts |-> relogio + Ate(p[2], A)]], silver)
         /\ relogio' = relogio + Cardinality(A)
         /\ Termina(Silver(g), A = SemSilver(g))
    /\ UNCHANGED <<zips, bronze, rfbVars, cargaVars, eventos, dbtVars>>

-----------------------------------------------------------------------------
(* rfb07 to rfb11: silver to the landing tables *)

LandingUnchanged == UNCHANGED <<lago, rfbVars, eventos, dbtVars, relogio>>

Linhas(f) ==
    {[chave |-> c, mes |-> mes, arq |-> f, ts |-> silver[<<mes, f>>].ts] :
     c \in silver[<<mes, f>>].linhas}

DaTabela(e) == {r \in BagToSet(landing) : Entidade[r.arq] = e}

\* The files list_objects_v2 returns, those not copied yet, and the first of them.
ACopiar(g) == {f \in ArquivosDe(g) : <<mes, f>> \in DOMAIN silver} \ copiados[g]
Proximo(g) == CHOOSE f \in ACopiar(g) : \A x \in ACopiar(g) : f <= x

IniciarLanding(g) ==
    LET t == Landing(g)
    IN  /\ Pronta(t)
        /\ Marca(t, IF ti[t] = "none" THEN "running" ELSE "rerunning")
        /\ preparadas' = [preparadas EXCEPT ![g] = {}]
        /\ copiados' = [copiados EXCEPT ![g] = {}]
        /\ UNCHANGED <<landing, falhas>> /\ LandingUnchanged

\* DELETE ... WHERE referencia_mes = ref, committed before the first COPY
SemParticao(e) ==
    LET fica == {r \in BagToSet(landing) : ~(Entidade[r.arq] = e /\ r.mes = mes)}
    IN  [r \in fica |-> landing[r]]

PrepararTabela(g) ==
    /\ Rodando(Landing(g)) /\ ACopiar(g) # {}
    /\ LET e == Entidade[Proximo(g)]
       IN  /\ e \notin preparadas[g]
           /\ landing' = SemParticao(e)
           /\ preparadas' = [preparadas EXCEPT ![g] = @ \cup {e}]
    /\ UNCHANGED <<ti, copiados, falhas>> /\ LandingUnchanged

\* One COPY, committed on its own
CopiarArquivo(g) ==
    /\ Rodando(Landing(g)) /\ ACopiar(g) # {}
    /\ Entidade[Proximo(g)] \in preparadas[g]
    /\ landing' = landing (+) SetToBag(Linhas(Proximo(g)))
    /\ copiados' = [copiados EXCEPT ![g] = @ \cup {Proximo(g)}]
    /\ UNCHANGED <<ti, preparadas, falhas>> /\ LandingUnchanged

FimLanding(g) ==
    /\ Rodando(Landing(g)) /\ ACopiar(g) = {}
    /\ Termina(Landing(g), TRUE)
    /\ UNCHANGED cargaVars /\ LandingUnchanged

\* An exception or a kill: what was committed stays.
MorreLanding(g) ==
    /\ Rodando(Landing(g)) /\ ACopiar(g) # {}
    /\ Falhou(Landing(g)) /\ Falha
    /\ UNCHANGED cargaVars /\ LandingUnchanged

\* mutant: landed without its outlets
LandedSemOutlet ==
    /\ Pronta(Landed)
    /\ Marca(Landed, "success")
    /\ UNCHANGED <<lago, rfbVars, cargaVars, eventos, dbtVars, relogio, falhas>>

\* landed, with outlets=[LANDING_RFB]
EmitirAsset ==
    /\ Pronta(Landed)
    /\ Marca(Landed, "success")
    /\ eventos' = eventos + 1
    /\ UNCHANGED <<lago, rfbVars, cargaVars, dbtVars, relogio, falhas>>

\* all_success can no longer be met
Propagar(t) ==
    /\ ativo /\ ti[t] = "none"
    /\ \/ EstadosAcima(t) \cap Falhados # {} /\ Marca(t, "upstream_failed")
       \/ /\ EstadosAcima(t) \subseteq {"success", "skipped"} /\ "skipped" \in EstadosAcima(t)
          /\ Marca(t, "skipped")
    /\ UNCHANGED <<cargaVars, falhas>> /\ LandingUnchanged

FimRun ==
    /\ ativo /\ \A t \in Tarefas : ti[t] \in Terminais
    /\ ativo' = FALSE
    /\ UNCHANGED <<lago, publicado, runs, mes, dev, ti, cargaVars, eventos, dbtVars,
                   relogio, falhas>>

-----------------------------------------------------------------------------
(* dag_rfb_dw_dbt *)

DbtUnchanged == UNCHANGED <<lago, rfbVars, ti, cargaVars, relogio>>

\* Events that come before the run is created share it.
AbrirDbt ==
    /\ ~dbtAtivo /\ eventos > 0
    /\ eventos' \in {0, eventos - 1}
    /\ dbtAtivo' = TRUE /\ dti' = [e \in Entidades |-> "none"]
    /\ UNCHANGED <<gold, falhas>> /\ DbtUnchanged

MaxTs(S) == IF S = {} THEN 0 ELSE CHOOSE t \in {r.ts : r \in S} : \A r \in S : r.ts <= t

\* The rows a model reads: all, or those above the watermark MAX(data_carga)
Novas(e) ==
    IF e \in Dominios THEN DaTabela(e)
    ELSE {r \in DaTabela(e) : r.ts > MaxTs(gold[e])}

\* materialized='table', or delete+insert by unique_key
Constroi(e, novas) ==
    IF e \in Dominios THEN novas
    ELSE {r \in gold[e] : \A x \in novas : x.chave # r.chave} \cup novas

\* The unique index of every gold table: a key read twice fails the model.
IndiceUnico(novas) ==
    \A r \in novas : landing[r] = 1 /\ \A x \in novas : x.chave = r.chave => x = r

ModeloPronto(e) == dbtAtivo /\ dti[e] \in Pendente
ModeloFalhou(e) == dti' = [dti EXCEPT ![e] = AposFalha(@)]

RodarModelo(e) ==
    /\ ModeloPronto(e)
    /\ IF IndiceUnico(Novas(e))
       THEN /\ gold' = [gold EXCEPT ![e] = Constroi(e, Novas(e))]
            /\ \/ dti' = [dti EXCEPT ![e] = "success"] /\ UNCHANGED falhas
               \/ ModeloFalhou(e) /\ Falha
       ELSE ModeloFalhou(e) /\ UNCHANGED <<gold, falhas>>
    /\ UNCHANGED <<dbtAtivo, eventos>> /\ DbtUnchanged

FalhaModelo(e) ==
    /\ ModeloPronto(e) /\ ModeloFalhou(e) /\ Falha
    /\ UNCHANGED <<gold, dbtAtivo, eventos>> /\ DbtUnchanged

FimDbt ==
    /\ dbtAtivo /\ \A e \in Entidades : dti[e] \in Terminais
    /\ dbtAtivo' = FALSE
    /\ UNCHANGED <<gold, dti, eventos, falhas>> /\ DbtUnchanged

-----------------------------------------------------------------------------
Rfb ==
    \/ BaixarMes \/ ExtrairBronze \/ EmitirAsset \/ FimRun
    \/ \E g \in Grupos : \/ TransformarSilver(g) \/ IniciarLanding(g) \/ PrepararTabela(g)
                         \/ CopiarArquivo(g) \/ FimLanding(g) \/ MorreLanding(g)
    \/ \E t \in Tarefas : Propagar(t)

Dbt ==
    \/ AbrirDbt \/ FimDbt
    \/ \E e \in Entidades : RodarModelo(e) \/ FalhaModelo(e)

Operador == \E m \in Meses, d \in BOOLEAN : AbrirRun(m, d)

Next == Publica \/ Operador \/ Rfb \/ Dbt

Spec == Init /\ [][Next]_vars

\* Airflow runs what was triggered; nobody promises a run or a publication.
FairSpec == Spec /\ WF_vars(Rfb) /\ WF_vars(Dbt)

-----------------------------------------------------------------------------
(* Properties *)

Linha == [chave : Chaves, mes : Meses, arq : Arquivos, ts : Nat]

\* The shape of the state.
TypeOK ==
    /\ publicado \in 0..MaxMes /\ mes \in Meses /\ runs \in 0..MaxRuns
    /\ {ativo, dev, dbtAtivo} \subseteq BOOLEAN
    /\ zips \subseteq Meses \X Arquivos
    /\ DOMAIN bronze \subseteq zips /\ DOMAIN silver \subseteq DOMAIN bronze
    /\ \A p \in DOMAIN silver : silver[p].linhas \subseteq Chaves /\ silver[p].ts \in 1..relogio
    /\ IsABag(landing) /\ BagToSet(landing) \subseteq Linha
    /\ gold \in [Entidades -> SUBSET Linha]
    /\ ti \in [Tarefas -> Pendente \cup Correndo \cup Terminais]
    /\ dti \in [Entidades -> Pendente \cup Terminais]
    /\ \A g \in Grupos : preparadas[g] \subseteq g /\ copiados[g] \subseteq ArquivosDe(g)
    /\ eventos \in 0..MaxRuns /\ falhas \in 0..MaxFalhas

\* A file, or the sample that dev_mode took of it.
Inteira(p, linhas) == linhas \in {Conteudo[p], Amostra[p]}

\* Every parquet is a whole file or its sample, although bronze may be made
\* again under a silver that then is of another run's reading.
LagoInteiro ==
    /\ \A p \in DOMAIN bronze : Inteira(p, bronze[p])
    /\ \A p \in DOMAIN silver : Inteira(p, silver[p].linhas)

\* A run that reached "landed" has every file of the month in the landing
\* tables, whole or as its sample, each row once and all of them those of the
\* silver parquet, whatever failed and was retried in any of its steps or in
\* earlier runs.
MesInteiro ==
    ti[Landed] = "success" =>
        \A f \in Arquivos :
          LET rs == {r \in BagToSet(landing) : r.arq = f /\ r.mes = mes}
          IN  /\ rs = Linhas(f) /\ Inteira(<<mes, f>>, {r.chave : r \in rs})
              /\ \A r \in rs : landing[r] = 1

\* From the ZIP to the landing tables no layer holds part of a file, although
\* each is skipped when it is there already, and bronze may be made again.
CamadasInteiras == LagoInteiro /\ MesInteiro

\* At rest after a green landing and a green model, the gold table has every
\* key of its landing table, from that load or a later one, although the model
\* may have read the table half reloaded in an earlier run.
GoldEmDia ==
    ~ativo /\ ti[Landed] = "success" /\ ~dbtAtivo /\ eventos = 0 =>
        \A e \in Entidades : dti[e] = "success" =>
            \A r \in DaTabela(e) : \E x \in gold[e] : x.chave = r.chave /\ x.ts >= r.ts

\* A reload in progress never takes a key out of the incremental tables.
FatoNaoEncolhe ==
    \A e \in Grandes : {r.chave : r \in gold[e]} \subseteq {r.chave : r \in gold'[e]}

\* Gold built over landing tables that are being reloaded loses nothing on the
\* way and is whole at rest.
GoldFiel == [][GoldEmDia' /\ FatoNaoEncolhe]_vars

NoGold(m, e) == \E r \in gold[e] : r.mes = m

\* "Emits the asset, which triggers dag_rfb_dw_dbt (...) gold is rebuilt": when
\* nothing fails, every gold table ends up with rows of each month landed.
MesNoGold ==
    \A m \in Meses, e \in Entidades :
        ti[Landed] = "success" /\ mes = m ~> NoGold(m, e) \/ falhas > 0
=============================================================================
