---------------------------- MODULE AnpIngestao ----------------------------
(***************************************************************************)
(* The ANP fuel price pipeline: the scrapers pipelines/anp/anp_01 (weekly)  *)
(* and anp_02 (monthly), the landing shared by both (anp_landing.py), and   *)
(* the silver table and incremental fact of the dbt models, in the order    *)
(* airflow/dags/dag_dbt_anp.py runs them.                                   *)
(*                                                                         *)
(* A run scrapes the site, lands the CSVs left in a directory, and rebuilds *)
(* silver and gold.  Downloads, control rows, loads and tasks fail, and the *)
(* site publishes, at any moment.  A CSV is the set of its price rows.      *)
(***************************************************************************)
EXTENDS Integers, FiniteSets

CONSTANTS
    Links,         \* weekly files, one per product (LINKS_DOWNLOAD)
    Itens,         \* monthly files, one per (cat, ref)
    Coletas,       \* natural keys: records with the fields dia and produto
    Mensal,        \* the keys each monthly file holds
    MaxRef,        \* bound: weekly publications
    Janela,        \* weeks a weekly file covers (4 in "ultimas-4-semanas")
    MaxFalhas,     \* bound: failed downloads, control writes and task attempts
    MaxFalhasCarga,  \* bound: failures inside a landing
    MaxIlegiveis   \* bound: failed reads of ctrl.anp_metadata_mensal

\* A monthly file is one category and one month: no two share a key.
ASSUME AnpAssumption ==
    /\ Links \cap Itens = {}
    /\ \A c \in Coletas : c.dia \in Nat /\ c.produto \in Links
    /\ Mensal \in [Itens -> SUBSET Coletas]
    /\ \A i, j \in Itens : i # j => Mensal[i] \cap Mensal[j] = {}
    /\ MaxRef \in Nat \ {0} /\ Janela \in Nat \ {0}
    /\ MaxFalhas \in Nat /\ MaxFalhasCarga \in Nat /\ MaxIlegiveis \in Nat

Refs == 1..MaxRef
Nada == [ref |-> -1, linhas |-> {}]  \* no pending file (or already renamed OK_)
Arquivos == Links \cup Itens
Lados == {"semanal", "mensal"}       \* run_landing(kind)

Tarefas == {"scrap_semanal", "landing_semanal", "scrap_mensal", "landing_mensal",
            "join_landing", "prata", "ouro"}
Landing(k) == IF k = "semanal" THEN "landing_semanal" ELSE "landing_mensal"
Fontes(k)  == IF k = "semanal" THEN Links ELSE Itens

Falhados  == {"failed", "upstream_failed"}
Terminais == {"success", "skipped"} \cup Falhados

VARIABLES
    site,       \* reference date the ANP page announces
    portal,     \* monthly files the page lists
    pasta,      \* pending CSV of each file, or Nada
    semanal,    \* ctrl.anp_metadata_semanal: [ref, status]
    mensal,     \* ctrl.anp_metadata_mensal: items
    bronze,     \* bronze.anp_landing_semanal and _mensal
    prata,      \* silver.anp_combustivel
    ouro,       \* gold.ft_anp_combustiveis
    ativo, ti,  \* the single active run and the states of its tasks
    data_site,  \* anp_01: the reference read from the page
    baixados,   \* anp_01: files downloaded in this attempt
    pendentes,  \* anp_02: df_pending still to fetch
    ok_mensal,  \* anp_02: downloaded_count > 0
    fila,       \* anp_landing: files still to load, by side
    weekly_ref, \* anp_landing: the tag of weekly loads
    ts,         \* anp_landing: ingestion_ts, by side
    ok_carga,   \* anp_landing: files_ok > 0, by side
    relogio, falhas, falhasCarga, ilegiveis

fontesVars  == <<site, portal>>
ctrlVars    == <<semanal, mensal>>
scrapVars   == <<data_site, baixados, pendentes, ok_mensal>>
landingVars == <<fila, weekly_ref, ts, ok_carga, relogio>>
dbtVars     == <<prata, ouro>>
vars == <<fontesVars, pasta, ctrlVars, bronze, dbtVars, ativo, ti, scrapVars,
          landingVars, falhas, falhasCarga, ilegiveis>>

-----------------------------------------------------------------------------
(* Rows *)

\* tag is the "#ref=" part of a weekly load_key, de the publication the file
\* came from (0 for monthly files); only load_key is stored by the code.
Linha == [fonte : Arquivos, tag : 0..MaxRef, de : 0..MaxRef, chave : Coletas, ts : Nat]

\* What the server sends for a file at publication r.
Conteudo(f, r) ==
    IF f \in Links
    THEN {c \in Coletas : c.produto = f /\ c.dia \in (r - Janela + 1)..r}
    ELSE Mensal[f]

Inteiro(f, r) == [ref |-> IF f \in Links THEN r ELSE 0, linhas |-> Conteudo(f, r)]

DaCarga(f, t) == {x \in bronze : x.fonte = f /\ x.tag = t}

Linhas(f, t, s) ==
    {[fonte |-> f, tag |-> t, de |-> pasta[f].ref, chave |-> c, ts |-> s] :
     c \in pasta[f].linhas}

\* ROW_NUMBER() OVER (PARTITION BY chave ORDER BY ingestion_timestamp DESC)
Vigentes(linhas) ==
    {x \in linhas : \A y \in linhas : y.chave = x.chave => y.ts <= x.ts}

MaxDe(S) == IF S = {} THEN 0 ELSE CHOOSE m \in S : \A n \in S : n <= m

-----------------------------------------------------------------------------
(* Airflow *)

Acima == [scrap_semanal |-> {}, scrap_mensal |-> {},
          landing_semanal |-> {"scrap_semanal"}, landing_mensal |-> {"scrap_mensal"},
          join_landing |-> {"landing_semanal", "landing_mensal"},
          prata |-> {"join_landing"}, ouro |-> {"prata"}]

EstadosAcima(t) == {ti[u] : u \in Acima[t]}

\* mutant: a landing that also runs when its scraper was skipped
DepsSemFalha(t) == EstadosAcima(t) \subseteq {"success", "skipped"}

\* all_success, except join_landing: NONE_FAILED_MIN_ONE_SUCCESS
DepsOk(t) ==
    IF t = "join_landing"
    THEN EstadosAcima(t) \subseteq {"success", "skipped"} /\ "success" \in EstadosAcima(t)
    ELSE EstadosAcima(t) \subseteq {"success"}

Pronta(t)  == ativo /\ ti[t] \in {"none", "up_for_retry"} /\ DepsOk(t)
Rodando(t) == ti[t] \in {"running", "rerunning"}

Marca(t, s) == ti' = [ti EXCEPT ![t] = s]
Inicia(t)   == Marca(t, IF ti[t] = "none" THEN "running" ELSE "rerunning")
\* retries = 1
Falhou(t)   == Marca(t, IF ti[t] \in {"none", "running"} THEN "up_for_retry" ELSE "failed")

Falha      == falhas < MaxFalhas /\ falhas' = falhas + 1
FalhaCarga == falhasCarga < MaxFalhasCarga /\ falhasCarga' = falhasCarga + 1

Init ==
    /\ site = 1 /\ portal = {}
    /\ pasta = [f \in Arquivos |-> Nada]
    /\ semanal = {} /\ mensal = {}
    /\ bronze = {} /\ prata = {} /\ ouro = {}
    /\ ativo = FALSE /\ ti = [t \in Tarefas |-> "none"]
    /\ data_site = 0 /\ baixados = {}
    /\ pendentes = {} /\ ok_mensal = FALSE
    /\ fila = [k \in Lados |-> {}] /\ weekly_ref = 0
    /\ ts = [k \in Lados |-> 0] /\ ok_carga = [k \in Lados |-> FALSE]
    /\ relogio = 0 /\ falhas = 0 /\ falhasCarga = 0 /\ ilegiveis = 0

\* ANP publishes, also while a run is reading the page or the files.
PublicaSemana ==
    /\ site < MaxRef
    /\ site' = site + 1
    /\ UNCHANGED <<portal, pasta, ctrlVars, bronze, dbtVars, ativo, ti, scrapVars,
                   landingVars, falhas, falhasCarga, ilegiveis>>

PublicaMes(i) ==
    /\ i \notin portal
    /\ portal' = portal \cup {i}
    /\ UNCHANGED <<site, pasta, ctrlVars, bronze, dbtVars, ativo, ti, scrapVars,
                   landingVars, falhas, falhasCarga, ilegiveis>>

AbrirRun ==
    /\ ~ativo
    /\ ativo' = TRUE
    /\ ti' = [t \in Tarefas |-> "none"]
    /\ UNCHANGED <<fontesVars, pasta, ctrlVars, bronze, dbtVars, scrapVars,
                   landingVars, falhas, falhasCarga, ilegiveis>>

-----------------------------------------------------------------------------
(* anp_01: the weekly scraper *)

SemanalUnchanged ==
    UNCHANGED <<fontesVars, mensal, bronze, dbtVars, ativo, pendentes, ok_mensal,
                landingVars, falhasCarga, ilegiveis>>

\* SELECT MAX(data_ref): the rows of failed runs count too.
UltimaDataBanco == MaxDe({m.ref : m \in semanal})

\* The page is read and compared with the last reference in the database.
LerSite ==
    LET t == "scrap_semanal"
    IN  /\ Pronta(t)
        /\ IF site <= UltimaDataBanco
           THEN Marca(t, "skipped") /\ UNCHANGED data_site        \* sys.exit(99)
           ELSE Inicia(t) /\ data_site' = site
        /\ UNCHANGED <<pasta, semanal, baixados, falhas>> /\ SemanalUnchanged

Anexa(f, C) == [Inteiro(f, site) EXCEPT !.linhas = pasta[f].linhas \cup C]  \* mutant: open(.., 'ab')

\* open(.., 'wb') and the chunks received so far; the server sends what it has now
Grava(f, C) == [Inteiro(f, site) EXCEPT !.linhas = C]

BaixaSemanal(f) ==
    /\ Rodando("scrap_semanal") /\ f \notin baixados
    /\ pasta' = [pasta EXCEPT ![f] = Grava(f, Conteudo(f, site))]
    /\ baixados' = baixados \cup {f}
    /\ UNCHANGED <<semanal, ti, data_site, falhas>> /\ SemanalUnchanged

\* What an attempt leaves behind: the python process and its locals are gone.
FimScrapSemanal == data_site' = 0 /\ baixados' = {} /\ SemanalUnchanged

\* except Exception: the row FALHOU is written, unless that fails too.
BaixaSemanalFalha(f) ==
    LET t == "scrap_semanal"
    IN  /\ Rodando(t) /\ f \notin baixados
        /\ \/ UNCHANGED pasta
           \/ \E C \in SUBSET Conteudo(f, site) : pasta' = [pasta EXCEPT ![f] = Grava(f, C)]
        /\ semanal' \in {semanal, semanal \cup {[ref |-> data_site, status |-> "FALHOU"]}}
        /\ Falhou(t) /\ Falha /\ FimScrapSemanal

RegistraSemanal ==
    LET t == "scrap_semanal"
        sucesso == [ref |-> data_site, status |-> "SUCESSO"]
        falhou  == [ref |-> data_site, status |-> "FALHOU"]
    IN  /\ Rodando(t) /\ baixados = Links
        /\ \/ semanal' = semanal \cup {sucesso} /\ Marca(t, "success") /\ UNCHANGED falhas
           \/ /\ semanal' \in {semanal, semanal \cup {falhou}, semanal \cup {sucesso},
                               semanal \cup {sucesso, falhou}}
              /\ Falhou(t) /\ Falha
        /\ UNCHANGED pasta /\ FimScrapSemanal

\* The page cannot be read, or the process is killed (SIGTERM is not an Exception).
MorreScrapSemanal ==
    LET t == "scrap_semanal"
    IN  /\ Pronta(t) \/ Rodando(t)
        /\ Falhou(t) /\ Falha
        /\ UNCHANGED <<pasta, semanal>> /\ FimScrapSemanal

-----------------------------------------------------------------------------
(* anp_02: the monthly scraper *)

MensalUnchanged ==
    UNCHANGED <<fontesVars, semanal, bronze, dbtVars, ativo, data_site, baixados,
                landingVars, falhasCarga>>

\* The control table or, when it cannot be read, an empty frame and a warning.
CtrlLido == {mensal, {}}

\* The anti-join of the page with the control table.
LerPortal ==
    LET t == "scrap_mensal"
    IN  /\ Pronta(t)
        /\ \E vistos \in CtrlLido :
             /\ IF vistos = mensal THEN UNCHANGED ilegiveis
                ELSE ilegiveis < MaxIlegiveis /\ ilegiveis' = ilegiveis + 1
             /\ IF portal \subseteq vistos
                THEN Marca(t, "skipped") /\ UNCHANGED pendentes   \* sys.exit(99)
                ELSE Inicia(t) /\ pendentes' = portal \ vistos
        /\ UNCHANGED <<pasta, mensal, ok_mensal, falhas>> /\ MensalUnchanged

RegistraTudo(feitos, i, inteiro) == feitos \cup {i}                 \* mutant: INSERT in a finally

\* The control row is inserted after the last chunk.
Registra(feitos, i, inteiro) == IF inteiro THEN feitos \cup {i} ELSE feitos

\* PRIMARY KEY (cat, ref): inserting the row of a file already there fails.
BaixaMensal(i) ==
    /\ Rodando("scrap_mensal") /\ i \in pendentes
    /\ pasta' = [pasta EXCEPT ![i] = Grava(i, Mensal[i])]
    /\ mensal' = Registra(mensal, i, TRUE)
    /\ ok_mensal' = (ok_mensal \/ i \notin mensal)
    /\ pendentes' = pendentes \ {i}
    /\ UNCHANGED <<ti, falhas, ilegiveis>> /\ MensalUnchanged

BaixaMensalFalha(i) ==
    /\ Rodando("scrap_mensal") /\ i \in pendentes
    /\ \/ UNCHANGED pasta
       \/ \E C \in SUBSET Mensal[i] : pasta' = [pasta EXCEPT ![i] = Grava(i, C)]
    /\ mensal' = Registra(mensal, i, FALSE)
    /\ pendentes' = pendentes \ {i}
    /\ Falha
    /\ UNCHANGED <<ti, ok_mensal, ilegiveis>> /\ MensalUnchanged

FimScrapMensal ==
    LET t == "scrap_mensal"
    IN  /\ Rodando(t) /\ pendentes = {}
        /\ IF ok_mensal THEN Marca(t, "success") ELSE Falhou(t)
        /\ ok_mensal' = FALSE
        /\ UNCHANGED <<pasta, mensal, pendentes, falhas, ilegiveis>> /\ MensalUnchanged

MorreScrapMensal ==
    LET t == "scrap_mensal"
    IN  /\ Pronta(t) \/ Rodando(t)
        /\ \/ UNCHANGED pasta
           \/ \E i \in pendentes : \E C \in SUBSET Mensal[i] :
                pasta' = [pasta EXCEPT ![i] = Grava(i, C)]
        /\ Falhou(t) /\ Falha
        /\ pendentes' = {} /\ ok_mensal' = FALSE
        /\ UNCHANGED <<mensal, ilegiveis>> /\ MensalUnchanged

-----------------------------------------------------------------------------
(* anp_landing: run_landing(kind) *)

LandingUnchanged ==
    UNCHANGED <<fontesVars, ctrlVars, dbtVars, ativo, scrapVars, falhas, ilegiveis>>

ArquivosPendentes(k) == {f \in Fontes(k) : pasta[f] # Nada}

\* MAX(data_ref) WHERE status = 'SUCESSO'
UltimaSucesso == MaxDe({m.ref : m \in {n \in semanal : n.status = "SUCESSO"}})

ListarPendentes(k) ==
    LET t == Landing(k)
    IN  /\ Pronta(t)
        /\ IF ArquivosPendentes(k) = {}
           THEN Marca(t, "skipped") /\ UNCHANGED landingVars       \* return 99
           ELSE /\ Inicia(t)
                /\ fila' = [fila EXCEPT ![k] = ArquivosPendentes(k)]
                /\ relogio' = relogio + 1
                /\ ts' = [ts EXCEPT ![k] = relogio + 1]
                /\ weekly_ref' = IF k = "semanal" THEN UltimaSucesso ELSE weekly_ref
                /\ UNCHANGED ok_carga
        /\ UNCHANGED <<pasta, bronze, falhasCarga>> /\ LandingUnchanged

Tag(k) == IF k = "semanal" THEN weekly_ref ELSE 0

\* DELETE ... WHERE arquivo = load_key, committed on its own
Apaga(linhas, f, t) == linhas \ DaCarga(f, t)

Carrega(k, f) == Apaga(bronze, f, Tag(k)) \cup Linhas(f, Tag(k), ts[k])

CarregarArquivo(k, f) ==
    /\ Rodando(Landing(k)) /\ f \in fila[k]
    /\ bronze' = Carrega(k, f)
    /\ pasta' = [pasta EXCEPT ![f] = Nada]                           \* os.rename to OK_
    /\ fila' = [fila EXCEPT ![k] = @ \ {f}]
    /\ ok_carga' = [ok_carga EXCEPT ![k] = TRUE]
    /\ UNCHANGED <<ti, weekly_ref, ts, relogio, falhasCarga>> /\ LandingUnchanged

\* The file fails before the DELETE (or its header is rejected), between the
\* DELETE and the COPY, or between the COPY and the rename.
MeiaCarga(k, f) == bronze' \in {bronze, Apaga(bronze, f, Tag(k)), Carrega(k, f)}

CarregarFalha(k, f) ==
    /\ Rodando(Landing(k)) /\ f \in fila[k]
    /\ MeiaCarga(k, f)
    /\ fila' = [fila EXCEPT ![k] = @ \ {f}]
    /\ FalhaCarga
    /\ UNCHANGED <<pasta, ti, weekly_ref, ts, relogio, ok_carga>> /\ LandingUnchanged

FimAttempt(k) ==
    /\ fila' = [fila EXCEPT ![k] = {}]
    /\ ts' = [ts EXCEPT ![k] = 0]
    /\ ok_carga' = [ok_carga EXCEPT ![k] = FALSE]
    /\ weekly_ref' = IF k = "semanal" THEN 0 ELSE weekly_ref
    /\ UNCHANGED <<pasta, relogio>> /\ LandingUnchanged

\* return 1 if ok == 0 else 0
FimLanding(k) ==
    LET t == Landing(k)
    IN  /\ Rodando(t) /\ fila[k] = {}
        /\ IF ok_carga[k] THEN Marca(t, "success") ELSE Falhou(t)
        /\ UNCHANGED <<bronze, falhasCarga>> /\ FimAttempt(k)

MorreLanding(k) ==
    LET t == Landing(k)
    IN  /\ \/ Pronta(t) /\ UNCHANGED bronze
           \/ Rodando(t) /\ (UNCHANGED bronze \/ \E f \in fila[k] : MeiaCarga(k, f))
        /\ Falhou(t) /\ FalhaCarga /\ FimAttempt(k)

-----------------------------------------------------------------------------
(* dbt *)

DbtUnchanged ==
    UNCHANGED <<fontesVars, pasta, ctrlVars, bronze, ativo, scrapVars, landingVars,
                falhasCarga, ilegiveis>>

Termina(t) == (Marca(t, "success") /\ UNCHANGED falhas) \/ (Falhou(t) /\ Falha)

JoinLanding ==
    /\ Pronta("join_landing")
    /\ Marca("join_landing", "success")
    /\ UNCHANGED <<dbtVars, falhas>> /\ DbtUnchanged

\* silver.anp_combustivel, materialized='table'
RodarPrata ==
    /\ Pronta("prata")
    /\ prata' = Vigentes(bronze)
    /\ Termina("prata")
    /\ UNCHANGED ouro /\ DbtUnchanged

\* mutant: a watermark on the business date
NovasPorData == {x \in prata : x.chave.dia >= MaxDe({g.chave.dia : g \in ouro})}

\* WHERE ingestion_timestamp >= (SELECT MAX(_source_loaded_at) FROM this)
Novas == {x \in prata : x.ts >= MaxDe({g.ts : g \in ouro})}

\* gold.ft_anp_combustiveis: delete+insert by id_fato
RodarOuro ==
    /\ Pronta("ouro")
    /\ ouro' = {g \in ouro : \A x \in Novas : x.chave # g.chave} \cup Novas
    /\ Termina("ouro")
    /\ UNCHANGED prata /\ DbtUnchanged

FalhaDbt(t) ==
    /\ Pronta(t)
    /\ Falhou(t) /\ Falha
    /\ UNCHANGED dbtVars /\ DbtUnchanged

\* A task whose trigger rule can no longer be met.
Propagar(t) ==
    /\ ativo /\ ti[t] = "none" /\ Acima[t] # {}
    /\ IF EstadosAcima(t) \cap Falhados # {}
       THEN Marca(t, "upstream_failed")
       ELSE /\ EstadosAcima(t) \subseteq {"success", "skipped"} /\ ~DepsOk(t)
            /\ Marca(t, "skipped")
    /\ UNCHANGED <<dbtVars, falhas>> /\ DbtUnchanged

FimRun ==
    /\ ativo /\ \A t \in Tarefas : ti[t] \in Terminais
    /\ ativo' = FALSE
    /\ UNCHANGED <<fontesVars, pasta, ctrlVars, bronze, dbtVars, ti, scrapVars,
                   landingVars, falhas, falhasCarga, ilegiveis>>

-----------------------------------------------------------------------------
Anp == PublicaSemana \/ \E i \in Itens : PublicaMes(i)

ScrapSemanal ==
    \/ LerSite \/ RegistraSemanal \/ MorreScrapSemanal
    \/ \E f \in Links : BaixaSemanal(f) \/ BaixaSemanalFalha(f)

ScrapMensal ==
    \/ LerPortal \/ FimScrapMensal \/ MorreScrapMensal
    \/ \E i \in Itens : BaixaMensal(i) \/ BaixaMensalFalha(i)

LandingAnp ==
    \E k \in Lados :
      \/ ListarPendentes(k) \/ FimLanding(k) \/ MorreLanding(k)
      \/ \E f \in Fontes(k) : CarregarArquivo(k, f) \/ CarregarFalha(k, f)

Dbt == JoinLanding \/ RodarPrata \/ RodarOuro \/ \E t \in {"prata", "ouro"} : FalhaDbt(t)

Scheduler == AbrirRun \/ FimRun \/ \E t \in Tarefas : Propagar(t)

Sistema == ScrapSemanal \/ ScrapMensal \/ LandingAnp \/ Dbt \/ Scheduler

Next == Anp \/ Sistema

Spec == Init /\ [][Next]_vars

\* Airflow opens the next weekly run and runs its tasks; nothing is promised of ANP.
FairSpec == Spec /\ WF_vars(Sistema)

-----------------------------------------------------------------------------
(* Properties *)

\* The shape of the state; a pending CSV holds rows of one publication only.
TypeOK ==
    /\ site \in Refs /\ portal \subseteq Itens
    /\ \A f \in Arquivos :
         pasta[f] = Nada \/ \E r \in Refs : /\ pasta[f].linhas \subseteq Conteudo(f, r)
                                           /\ pasta[f].ref = Inteiro(f, r).ref
    /\ semanal \subseteq [ref : Refs, status : {"SUCESSO", "FALHOU"}]
    /\ mensal \subseteq portal
    /\ bronze \subseteq Linha /\ prata \subseteq Linha /\ ouro \subseteq Linha
    /\ ativo \in BOOLEAN
    /\ ti \in [Tarefas -> {"none", "running", "rerunning", "up_for_retry"} \cup Terminais]
    /\ data_site \in Refs \cup {0} /\ baixados \subseteq Links
    /\ pendentes \subseteq portal /\ ok_mensal \in BOOLEAN
    /\ \A k \in Lados : fila[k] \subseteq ArquivosPendentes(k)
    /\ weekly_ref \in 0..MaxRef
    /\ ts \in [Lados -> 0..relogio] /\ ok_carga \in [Lados -> BOOLEAN]
    /\ falhas \in 0..MaxFalhas /\ falhasCarga \in 0..MaxFalhasCarga
    /\ ilegiveis \in 0..MaxIlegiveis

\* What bronze holds under one weekly load_key is a whole file, from the
\* reference of the key or, when the site publishes during the download, a
\* later one: truncated downloads and leftovers of older weeks never land.
CargaSemanalInteira ==
    \A x \in bronze : x.fonte \in Links =>
        /\ x.de >= x.tag
        /\ {y.chave : y \in DaCarga(x.fonte, x.tag)} = Conteudo(x.fonte, x.de)

Completo(i) == {x.chave : x \in DaCarga(i, 0)} = Mensal[i]

\* A monthly file with a control row is never fetched again, so it must be
\* whole: pending in the directory or loaded in bronze.
MesNuncaTruncado ==
    \A i \in mensal : pasta[i] = Inteiro(i, 0) \/ (pasta[i] = Nada /\ Completo(i))

\* It is, as long as the control table could be read whenever it was.
MesRegistradoInteiro == ilegiveis = 0 => MesNuncaTruncado

\* Weekly or monthly, what is loaded is a whole file of one publication: no
\* truncated download gets past the scrapers, the directory and the landings.
CargasInteiras == CargaSemanalInteira /\ MesRegistradoInteiro

\* When the fact has been built it has every key of silver, from the same load
\* or a later one: the watermark skips no late file, whatever its dates.
OuroAlcancaPrata ==
    ti["ouro"] = "success" =>
        \A x \in prata : \E g \in ouro : g.chave = x.chave /\ g.ts >= x.ts

\* A fact row is only ever replaced by one of a later load, also when a failed
\* reload has taken the newer row out of bronze.
FatoNaoRegride ==
    \A g \in ouro : \E h \in ouro' : h.chave = g.chave /\ h.ts >= g.ts

\* The watermark of the incremental fact is safe both ways: it misses nothing
\* of silver and never goes back (ft_anp_combustiveis.sql:20).
OuroFiel == [][OuroAlcancaPrata' /\ FatoNaoRegride]_vars

\* "Up to date": anp_01 skips only references it has downloaded.
PuloHonesto ==
    [][ti["scrap_semanal"] # "skipped" /\ ti'["scrap_semanal"] = "skipped"
          => [ref |-> site, status |-> "SUCESSO"] \in semanal]_vars

\* Downloaded and recorded, but left in the directory when its run ended.
Encalhado(i) == ~ativo /\ i \in mensal /\ pasta[i] = Inteiro(i, 0)

\* Whatever else fails, as long as the control table can be read every monthly
\* file the page lists is fetched whole and recorded in the end: it lands, or
\* it waits in the directory.
MesBaixado ==
    [](ilegiveis = 0) => \A i \in Itens : i \in portal ~> Completo(i) \/ Encalhado(i)
=============================================================================
