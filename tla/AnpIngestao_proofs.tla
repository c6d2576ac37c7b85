------------------------- MODULE AnpIngestao_proofs -------------------------
(***************************************************************************)
(* What the ANP pipeline loads and what its incremental fact keeps, for    *)
(* every set of files and prices and any number of publications and        *)
(* failures.                                                               *)
(***************************************************************************)
EXTENDS AnpIngestao, TLAPS, WellFoundedInduction

Estados == {"none", "running", "rerunning", "up_for_retry"} \cup Terminais
Vivos   == {"running", "rerunning", "up_for_retry", "success"}

\* A task has been started only after what its trigger rule waits for.
Ordem ==
    /\ ativo \in BOOLEAN /\ ti \in [Tarefas -> Estados]
    /\ ~ativo => \A t \in Tarefas : ti[t] \in Terminais \cup {"none"}
    /\ \A t \in Tarefas : ti[t] \in Vivos => DepsOk(t)

-----------------------------------------------------------------------------
(* The largest of a set of naturals. *)

\* Every nonempty set of naturals has a least member.
LEMMA TemMenor ==
    ASSUME NEW T, T \subseteq Nat, T # {}
    PROVE  \E x \in T : \A y \in T : x <= y
<1>1. \A x, y \in Nat : x < y => <<x, y>> \in OpToRel(<, Nat)
  BY DEF OpToRel
<1>2. PICK x \in T : \A y \in T : ~(<<y, x>> \in OpToRel(<, Nat))
  BY NatLessThanWellFounded, WFMin
<1>3. \A y \in T : x \in Nat /\ y \in Nat /\ ~(y < x)
  BY <1>1, <1>2
<1>4. QED
  BY <1>3

\* MaxDe is an upper bound, and a member unless the set is empty.
LEMMA MaxDeLimita ==
    ASSUME NEW N \in Nat, NEW S, S \subseteq 0..N
    PROVE  /\ MaxDe(S) \in 0..N
           /\ \A n \in S : n <= MaxDe(S)
           /\ S # {} => MaxDe(S) \in S
<1>1. CASE S = {}
  BY <1>1 DEF MaxDe
<1>2. CASE S # {}
  <2> DEFINE T == {N - x : x \in S}
  <2>1. \A n \in S : n \in Nat /\ N - n \in Nat
    OBVIOUS
  <2>2. T \subseteq Nat /\ T # {}
    BY <1>2, <2>1
  <2>3. PICK x \in T : \A y \in T : x <= y
    BY <2>2, TemMenor
  <2>4. PICK m \in S : x = N - m
    OBVIOUS
  <2>5. ASSUME NEW n \in S PROVE n <= m
    <3>1. N - m <= N - n
      BY <2>3, <2>4
    <3>2. n \in Nat /\ m \in Nat
      BY <2>1
    <3>3. QED
      BY <3>1, <3>2
  <2>6. MaxDe(S) \in S /\ \A n \in S : n <= MaxDe(S)
    BY <1>2, <2>5 DEF MaxDe
  <2>7. QED
    BY <2>6
<1>3. QED
  BY <1>1, <1>2

-----------------------------------------------------------------------------
(* Airflow. *)

\* A task changes state as the scheduler or its own attempt may do.
Muda(t) ==
    /\ ativo /\ UNCHANGED ativo /\ ti[t] \notin Terminais
    /\ \E s \in Estados \ {"none"} :
         Marca(t, s) /\ (s \in Vivos => DepsOk(t))

LEMMA AtivaMuda ==
    ASSUME Ordem, NEW t \in Tarefas, Pronta(t) \/ Rodando(t), UNCHANGED ativo,
           NEW s \in Estados \ {"none"}, Marca(t, s)
    PROVE  Muda(t)
<1>1. ativo /\ DepsOk(t) /\ ti[t] \notin Terminais
  BY DEF Ordem, Pronta, Rodando, Vivos, Terminais, Falhados
<1>2. QED
  BY <1>1 DEF Muda

LEMMA FalhouMarca ==
    ASSUME NEW t \in Tarefas, Falhou(t)
    PROVE  \E s \in {"up_for_retry", "failed"} : Marca(t, s)
BY DEF Falhou

LEMMA IniciaMarca ==
    ASSUME NEW t \in Tarefas, Inicia(t)
    PROVE  \E s \in {"running", "rerunning"} : Marca(t, s)
BY DEF Inicia

LEMMA OrdemMuda ==
    ASSUME Ordem, NEW t \in Tarefas, Muda(t)
    PROVE  Ordem'
<1>1. PICK s \in Estados \ {"none"} : Marca(t, s) /\ (s \in Vivos => DepsOk(t))
  BY DEF Muda
<1>2. ti' \in [Tarefas -> Estados] /\ ti'[t] = s
      /\ \A u \in Tarefas : u # t => ti'[u] = ti[u]
  BY <1>1 DEF Marca, Ordem
<1>3. ASSUME NEW u \in Tarefas, ti'[u] \in Vivos PROVE DepsOk(u)'
  <2>1. DepsOk(u)
    <3>1. CASE u = t
      BY <1>1, <1>2, <1>3, <3>1
    <3>2. CASE u # t
      BY <1>2, <1>3, <3>2 DEF Ordem
    <3>3. QED
      BY <3>1, <3>2
  <2>2. Acima[u] \subseteq Tarefas /\ Acima[t] \subseteq Tarefas /\ t \notin Acima[t]
    BY DEF Acima, Tarefas
  <2>3. EstadosAcima(u) \subseteq {"success", "skipped"}
    BY <2>1 DEF DepsOk
  <2>4. t \notin Acima[u]
    BY <2>3 DEF EstadosAcima, Muda, Terminais
  <2>5. EstadosAcima(u)' = EstadosAcima(u)
    BY <1>2, <2>2, <2>4 DEF EstadosAcima, Acima
  <2>6. QED
    BY <2>1, <2>5 DEF DepsOk
<1>4. QED
  BY <1>2, <1>3 DEF Ordem, Muda

LEMMA ScrapSemanalMuda ==
    ASSUME Ordem, ScrapSemanal
    PROVE  UNCHANGED <<ti, ativo>> \/ Muda("scrap_semanal")
<1> DEFINE t == "scrap_semanal"
<1>0. t \in Tarefas /\ {"running", "rerunning", "up_for_retry", "failed", "success", "skipped"}
                          \subseteq Estados \ {"none"}
  BY DEF Tarefas, Estados, Terminais, Falhados
<1>1. UNCHANGED ativo
  BY DEF ScrapSemanal, LerSite, RegistraSemanal, MorreScrapSemanal, BaixaSemanal,
         BaixaSemanalFalha, FimScrapSemanal, SemanalUnchanged
<1>2. CASE LerSite
  BY <1>0, <1>1, <1>2, AtivaMuda, IniciaMarca DEF LerSite
<1>3. CASE RegistraSemanal
  BY <1>0, <1>1, <1>3, AtivaMuda, FalhouMarca DEF RegistraSemanal
<1>4. CASE MorreScrapSemanal
  BY <1>0, <1>1, <1>4, AtivaMuda, FalhouMarca DEF MorreScrapSemanal
<1>5. CASE \E f \in Links : BaixaSemanal(f)
  BY <1>1, <1>5 DEF BaixaSemanal
<1>6. CASE \E f \in Links : BaixaSemanalFalha(f)
  BY <1>0, <1>1, <1>6, AtivaMuda, FalhouMarca DEF BaixaSemanalFalha
<1>7. QED
  BY <1>2, <1>3, <1>4, <1>5, <1>6 DEF ScrapSemanal

LEMMA ScrapMensalMuda ==
    ASSUME Ordem, ScrapMensal
    PROVE  UNCHANGED <<ti, ativo>> \/ Muda("scrap_mensal")
<1> DEFINE t == "scrap_mensal"
<1>0. t \in Tarefas /\ {"running", "rerunning", "up_for_retry", "failed", "success", "skipped"}
                          \subseteq Estados \ {"none"}
  BY DEF Tarefas, Estados, Terminais, Falhados
<1>1. UNCHANGED ativo
  BY DEF ScrapMensal, LerPortal, FimScrapMensal, MorreScrapMensal, BaixaMensal,
         BaixaMensalFalha, MensalUnchanged
<1>2. CASE LerPortal
  BY <1>0, <1>1, <1>2, AtivaMuda, IniciaMarca DEF LerPortal
<1>3. CASE FimScrapMensal
  BY <1>0, <1>1, <1>3, AtivaMuda, FalhouMarca DEF FimScrapMensal
<1>4. CASE MorreScrapMensal
  BY <1>0, <1>1, <1>4, AtivaMuda, FalhouMarca DEF MorreScrapMensal
<1>5. CASE \E i \in Itens : BaixaMensal(i) \/ BaixaMensalFalha(i)
  BY <1>1, <1>5 DEF BaixaMensal, BaixaMensalFalha
<1>6. QED
  BY <1>2, <1>3, <1>4, <1>5 DEF ScrapMensal

\* A step of a landing, by what it does to the loads.
PassoLanding(k) ==
    \/ ListarPendentes(k) \/ FimLanding(k) \/ MorreLanding(k)
    \/ \E f \in Fontes(k) : CarregarArquivo(k, f) \/ CarregarFalha(k, f)

LEMMA LandingMuda ==
    ASSUME Ordem, NEW k \in Lados, PassoLanding(k)
    PROVE  UNCHANGED <<ti, ativo>> \/ Muda(Landing(k))
<1> DEFINE t == Landing(k)
<1>0. t \in Tarefas /\ {"running", "rerunning", "up_for_retry", "failed", "success", "skipped"}
                          \subseteq Estados \ {"none"}
  BY DEF Tarefas, Estados, Terminais, Falhados, Landing
<1>1. UNCHANGED ativo
  BY DEF PassoLanding, ListarPendentes, FimLanding, MorreLanding, CarregarArquivo,
         CarregarFalha, FimAttempt, LandingUnchanged
<1>2. CASE ListarPendentes(k)
  BY <1>0, <1>1, <1>2, AtivaMuda, IniciaMarca DEF ListarPendentes
<1>3. CASE FimLanding(k)
  BY <1>0, <1>1, <1>3, AtivaMuda, FalhouMarca DEF FimLanding
<1>4. CASE MorreLanding(k)
  BY <1>0, <1>1, <1>4, AtivaMuda, FalhouMarca DEF MorreLanding
<1>5. CASE \E f \in Fontes(k) : CarregarArquivo(k, f) \/ CarregarFalha(k, f)
  BY <1>1, <1>5 DEF CarregarArquivo, CarregarFalha
<1>6. QED
  BY <1>2, <1>3, <1>4, <1>5 DEF PassoLanding

LEMMA DbtMuda ==
    ASSUME Ordem, Dbt
    PROVE  \E t \in {"join_landing", "prata", "ouro"} : Muda(t)
<1>0. {"join_landing", "prata", "ouro"} \subseteq Tarefas
      /\ {"up_for_retry", "failed", "success"} \subseteq Estados \ {"none"}
  BY DEF Tarefas, Estados, Terminais, Falhados
<1>1. UNCHANGED ativo
  BY DEF Dbt, JoinLanding, RodarPrata, RodarOuro, FalhaDbt, DbtUnchanged
<1>2. CASE JoinLanding
  BY <1>0, <1>1, <1>2, AtivaMuda DEF JoinLanding
<1>3. CASE RodarPrata
  BY <1>0, <1>1, <1>3, AtivaMuda, FalhouMarca DEF RodarPrata, Termina
<1>4. CASE RodarOuro
  BY <1>0, <1>1, <1>4, AtivaMuda, FalhouMarca DEF RodarOuro, Termina
<1>5. CASE \E t \in {"prata", "ouro"} : FalhaDbt(t)
  BY <1>0, <1>1, <1>5, AtivaMuda, FalhouMarca DEF FalhaDbt
<1>6. QED
  BY <1>2, <1>3, <1>4, <1>5 DEF Dbt

LEMMA PropagarMuda ==
    ASSUME Ordem, NEW t \in Tarefas, Propagar(t)
    PROVE  Muda(t)
<1>1. ativo /\ UNCHANGED ativo /\ ti[t] = "none"
  BY DEF Propagar, DbtUnchanged
<1>2. PICK s \in {"upstream_failed", "skipped"} : Marca(t, s)
  BY DEF Propagar
<1>3. QED
  BY <1>1, <1>2 DEF Muda, Estados, Vivos, Terminais, Falhados

LEMMA OrdemPasso ==
    ASSUME Ordem, [Next]_vars
    PROVE  Ordem'
<1>1. CASE UNCHANGED <<ti, ativo>>
  BY <1>1 DEF Ordem, DepsOk, EstadosAcima
<1>2. CASE \E t \in Tarefas : Muda(t)
  BY <1>2, OrdemMuda
<1>3. CASE AbrirRun
  BY <1>3 DEF AbrirRun, Ordem, Estados, Vivos
<1>4. CASE FimRun
  BY <1>4 DEF FimRun, Ordem, DepsOk, EstadosAcima
<1>5. CASE UNCHANGED vars
  BY <1>1, <1>5 DEF vars
<1>6. CASE Anp
  BY <1>1, <1>6 DEF Anp, PublicaSemana, PublicaMes
<1>7. {"scrap_semanal", "scrap_mensal", "join_landing", "prata", "ouro"} \subseteq Tarefas
      /\ \A k \in Lados : Landing(k) \in Tarefas
  BY DEF Tarefas, Landing
<1>8. CASE ScrapSemanal
  BY <1>1, <1>2, <1>7, <1>8, ScrapSemanalMuda
<1>9. CASE ScrapMensal
  BY <1>1, <1>2, <1>7, <1>9, ScrapMensalMuda
<1>10. CASE LandingAnp
  <2>1. PICK k \in Lados : PassoLanding(k)
    BY <1>10 DEF LandingAnp, PassoLanding
  <2>2. QED
    BY <1>1, <1>2, <1>7, <2>1, LandingMuda
<1>11. CASE Dbt
  BY <1>2, <1>7, <1>11, DbtMuda
<1>12. CASE \E t \in Tarefas : Propagar(t)
  BY <1>2, <1>12, PropagarMuda
<1>13. QED
  BY <1>3, <1>4, <1>5, <1>6, <1>8, <1>9, <1>10, <1>11, <1>12 DEF Next, Sistema, Scheduler

-----------------------------------------------------------------------------
(* Types. *)

ArquivoBom(f) ==
    pasta[f] = Nada \/ \E r \in Refs : /\ pasta[f].linhas \subseteq Conteudo(f, r)
                                       /\ pasta[f].ref = Inteiro(f, r).ref

TipoFontes == site \in Refs /\ portal \subseteq Itens

TipoPasta ==
    /\ pasta \in [Arquivos -> [ref : -1..MaxRef, linhas : SUBSET Coletas]]
    /\ \A f \in Arquivos : ArquivoBom(f)

TipoCtrl ==
    /\ semanal \subseteq [ref : Refs, status : {"SUCESSO", "FALHOU"}]
    /\ mensal \subseteq portal

TipoScrap ==
    /\ data_site \in Refs \cup {0} /\ baixados \subseteq Links
    /\ pendentes \subseteq portal /\ ok_mensal \in BOOLEAN
    /\ Rodando("scrap_semanal") => data_site \in Refs

TipoTabelas == bronze \subseteq Linha /\ prata \subseteq Linha /\ ouro \subseteq Linha

TipoFila ==
    /\ fila \in [Lados -> SUBSET Arquivos]
    /\ \A k \in Lados : fila[k] \subseteq ArquivosPendentes(k)

TipoLanding ==
    /\ weekly_ref \in 0..MaxRef /\ relogio \in Nat
    /\ ts \in [Lados -> 0..relogio] /\ ok_carga \in [Lados -> BOOLEAN]

TipoLimites ==
    /\ falhas \in 0..MaxFalhas /\ falhasCarga \in 0..MaxFalhasCarga
    /\ ilegiveis \in 0..MaxIlegiveis

Forma ==
    /\ Ordem /\ TipoFontes /\ TipoPasta /\ TipoCtrl /\ TipoScrap
    /\ TipoTabelas /\ TipoFila /\ TipoLanding /\ TipoLimites

LEMMA FormaTypeOK == Forma => TypeOK
BY DEF Forma, Ordem, TypeOK, Estados, TipoFontes, TipoPasta, ArquivoBom, TipoCtrl, TipoScrap,
       TipoTabelas, TipoFila, TipoLanding, TipoLimites

LEMMA FormaInicial == Init => Forma
<1> SUFFICES ASSUME Init PROVE Forma
  OBVIOUS
<1>1. Ordem
  BY DEF Init, Ordem, Estados, Vivos
<1>2. Nada \in [ref : -1..MaxRef, linhas : SUBSET Coletas]
  BY AnpAssumption DEF Nada
<1>3. TipoPasta
  BY <1>2 DEF Init, TipoPasta, ArquivoBom
<1>4. TipoFontes /\ TipoCtrl /\ TipoTabelas /\ TipoFila
  BY AnpAssumption DEF Init, TipoFontes, TipoCtrl, TipoTabelas, TipoFila, Refs
<1>5. TipoScrap
  <2>1. ~Rodando("scrap_semanal")
    BY DEF Init, Rodando, Tarefas
  <2>2. QED
    BY <2>1 DEF Init, TipoScrap
<1>6. TipoLanding
  BY AnpAssumption DEF Init, TipoLanding
<1>7. TipoLimites
  BY AnpAssumption DEF Init, TipoLimites
<1>8. QED
  BY <1>1, <1>3, <1>4, <1>5, <1>6, <1>7 DEF Forma

LEMMA ConteudoTipo == \A f \in Arquivos, r \in Refs : Conteudo(f, r) \subseteq Coletas
BY AnpAssumption DEF Conteudo, Arquivos

\* What a scraper writes is a pending file of the announced publication.
LEMMA GravaTipo ==
    ASSUME TipoFontes, TipoPasta, NEW f \in Arquivos, NEW C, C \subseteq Conteudo(f, site),
           pasta' = [pasta EXCEPT ![f] = Grava(f, C)]
    PROVE  /\ TipoPasta' /\ pasta'[f] # Nada
           /\ pasta'[f].ref = Inteiro(f, site).ref /\ pasta'[f].linhas = C
           /\ \A g \in Arquivos : g # f => pasta'[g] = pasta[g]
<1> DEFINE v == Grava(f, C)
<1>1. v = [ref |-> Inteiro(f, site).ref, linhas |-> C]
  BY DEF Grava, Inteiro
<1>2. Inteiro(f, site).ref \in 0..MaxRef
  BY AnpAssumption DEF Inteiro, TipoFontes, Refs
<1>3. C \subseteq Coletas
  BY ConteudoTipo DEF TipoFontes
<1>4. v \in [ref : -1..MaxRef, linhas : SUBSET Coletas] /\ v # Nada
      /\ v.ref = Inteiro(f, site).ref /\ v.linhas = C
  BY <1>1, <1>2, <1>3 DEF Nada
<1> HIDE DEF v
<1>5. pasta' = [pasta EXCEPT ![f] = v]
  BY DEF v
<1>6. pasta' \in [Arquivos -> [ref : -1..MaxRef, linhas : SUBSET Coletas]]
      /\ pasta'[f] = v /\ \A g \in Arquivos : g # f => pasta'[g] = pasta[g]
  BY <1>4, <1>5 DEF TipoPasta
<1>7. ASSUME NEW g \in Arquivos PROVE ArquivoBom(g)'
  BY <1>4, <1>6 DEF TipoPasta, TipoFontes, ArquivoBom
<1>8. QED
  BY <1>4, <1>6, <1>7 DEF TipoPasta

\* No scraper takes a pending file away.
LEMMA FilaFica ==
    ASSUME TipoFila, UNCHANGED fila,
           \A f \in Arquivos : pasta[f] # Nada => pasta'[f] # Nada
    PROVE  TipoFila'
<1>1. \A k \in Lados : Fontes(k) \subseteq Arquivos
  BY DEF Fontes, Arquivos
<1>2. QED
  BY <1>1 DEF TipoFila, ArquivosPendentes

LEMMA FalhaTipo == TipoLimites /\ Falha => falhas' \in 0..MaxFalhas
BY AnpAssumption DEF TipoLimites, Falha

LEMMA FalhaCargaTipo == TipoLimites /\ FalhaCarga => falhasCarga' \in 0..MaxFalhasCarga
BY AnpAssumption DEF TipoLimites, FalhaCarga

\* The state a scraper leaves alone.
LEMMA ScrapFica ==
    ASSUME Forma, UNCHANGED <<fontesVars, bronze, dbtVars, landingVars, falhasCarga>>,
           UNCHANGED ilegiveis \/ ilegiveis' \in 0..MaxIlegiveis,
           UNCHANGED falhas \/ Falha
    PROVE  TipoFontes' /\ TipoTabelas' /\ TipoLanding' /\ TipoLimites'
<1>1. falhas' \in 0..MaxFalhas
  BY FalhaTipo DEF Forma, TipoLimites
<1>2. QED
  BY <1>1 DEF Forma, TipoFontes, TipoTabelas, TipoLanding, TipoLimites, fontesVars, dbtVars,
              landingVars, Linha

LEMMA FormaSemanal ==
    ASSUME Forma, Ordem', ScrapSemanal
    PROVE  Forma'
<1> DEFINE t == "scrap_semanal"
<1> USE DEF SemanalUnchanged, FimScrapSemanal
<1>1. UNCHANGED <<fontesVars, mensal, bronze, dbtVars, ativo, pendentes, ok_mensal,
                  landingVars, falhasCarga, ilegiveis>>
  BY DEF ScrapSemanal, LerSite, RegistraSemanal, MorreScrapSemanal, BaixaSemanal,
         BaixaSemanalFalha
<1>2. UNCHANGED falhas \/ Falha
  BY DEF ScrapSemanal, LerSite, RegistraSemanal, MorreScrapSemanal, BaixaSemanal,
         BaixaSemanalFalha
<1>3. TipoFontes' /\ TipoTabelas' /\ TipoLanding' /\ TipoLimites'
  BY <1>1, <1>2, ScrapFica
<1>4. TipoPasta' /\ \A f \in Arquivos : pasta[f] # Nada => pasta'[f] # Nada
  <2>1. CASE UNCHANGED pasta
    BY <2>1 DEF Forma, TipoPasta, ArquivoBom
  <2>2. CASE \E f \in Links : \E C \in SUBSET Conteudo(f, site) :
                 pasta' = [pasta EXCEPT ![f] = Grava(f, C)]
    BY <2>2, GravaTipo DEF Forma, Arquivos
  <2>3. QED
    BY <2>1, <2>2 DEF ScrapSemanal, LerSite, RegistraSemanal, MorreScrapSemanal, BaixaSemanal,
         BaixaSemanalFalha
<1>5. TipoFila'
  BY <1>1, <1>4, FilaFica DEF Forma, landingVars
<1>6. Rodando(t) => data_site \in Refs
  BY DEF Forma, TipoScrap
<1>7. TipoCtrl'
  <2>1. semanal' \subseteq semanal \cup {[ref |-> data_site, status |-> "SUCESSO"],
                                         [ref |-> data_site, status |-> "FALHOU"]}
    BY DEF ScrapSemanal, LerSite, RegistraSemanal, MorreScrapSemanal, BaixaSemanal,
         BaixaSemanalFalha
  <2>2. UNCHANGED semanal \/ Rodando(t)
    BY DEF ScrapSemanal, LerSite, RegistraSemanal, MorreScrapSemanal, BaixaSemanal,
         BaixaSemanalFalha
  <2>3. semanal' \subseteq [ref : Refs, status : {"SUCESSO", "FALHOU"}]
    BY <1>6, <2>1, <2>2 DEF Forma, TipoCtrl
  <2>4. QED
    BY <1>1, <2>3 DEF Forma, TipoCtrl, fontesVars
<1>8. TipoScrap'
  <2>1. pendentes' \subseteq portal' /\ ok_mensal' \in BOOLEAN
    BY <1>1 DEF Forma, TipoScrap, fontesVars
  <2>2. t \in Tarefas /\ ti \in [Tarefas -> Estados]
    BY DEF Tarefas, Forma, Ordem
  <2>3. CASE LerSite
    <3>1. data_site' \in Refs \cup {0} /\ UNCHANGED baixados
      BY <2>3 DEF LerSite, Forma, TipoScrap, TipoFontes
    <3>2. Rodando(t)' => data_site' \in Refs
      BY <2>2, <2>3 DEF LerSite, Forma, TipoFontes, Marca, Rodando
    <3>3. QED
      BY <2>1, <3>1, <3>2 DEF Forma, TipoScrap
  <2>4. CASE \E f \in Links : BaixaSemanal(f)
    BY <2>1, <2>4 DEF BaixaSemanal, Forma, TipoScrap, Rodando
  <2>5. CASE RegistraSemanal \/ MorreScrapSemanal \/ \E f \in Links : BaixaSemanalFalha(f)
    <3>1. data_site' = 0 /\ baixados' = {}
      BY <2>5 DEF RegistraSemanal, MorreScrapSemanal, BaixaSemanalFalha
    <3>2. Falhou(t) \/ Marca(t, "success")
      BY <2>5 DEF RegistraSemanal, MorreScrapSemanal, BaixaSemanalFalha
    <3>3. ~Rodando(t)'
      BY <2>2, <3>2 DEF Falhou, Marca, Rodando
    <3>4. QED
      BY <2>1, <3>1, <3>3 DEF TipoScrap
  <2>6. QED
    BY <2>3, <2>4, <2>5 DEF ScrapSemanal
<1>9. QED
  BY <1>3, <1>4, <1>5, <1>7, <1>8 DEF Forma

LEMMA FormaMensal ==
    ASSUME Forma, Ordem', ScrapMensal
    PROVE  Forma'
<1> DEFINE t == "scrap_mensal"
<1> USE DEF MensalUnchanged
<1>1. UNCHANGED <<fontesVars, semanal, bronze, dbtVars, ativo, data_site, baixados,
                  landingVars, falhasCarga>>
  BY DEF ScrapMensal, LerPortal, FimScrapMensal, MorreScrapMensal, BaixaMensal, BaixaMensalFalha
<1>2. UNCHANGED falhas \/ Falha
  BY DEF ScrapMensal, LerPortal, FimScrapMensal, MorreScrapMensal, BaixaMensal, BaixaMensalFalha
<1>3. UNCHANGED ilegiveis \/ ilegiveis' \in 0..MaxIlegiveis
  <2>1. UNCHANGED ilegiveis \/ (ilegiveis < MaxIlegiveis /\ ilegiveis' = ilegiveis + 1)
    BY DEF ScrapMensal, LerPortal, FimScrapMensal, MorreScrapMensal, BaixaMensal, BaixaMensalFalha
  <2>2. QED
    BY <2>1, AnpAssumption DEF Forma, TipoLimites
<1>4. TipoFontes' /\ TipoTabelas' /\ TipoLanding' /\ TipoLimites'
  BY <1>1, <1>2, <1>3, ScrapFica
<1>5. TipoPasta' /\ \A f \in Arquivos : pasta[f] # Nada => pasta'[f] # Nada
  <2>1. CASE UNCHANGED pasta
    BY <2>1 DEF Forma, TipoPasta, ArquivoBom
  <2>2. CASE \E i \in Itens : \E C \in SUBSET Mensal[i] : pasta' = [pasta EXCEPT ![i] = Grava(i, C)]
    <3>1. PICK i \in Itens : \E C \in SUBSET Mensal[i] : pasta' = [pasta EXCEPT ![i] = Grava(i, C)]
      BY <2>2
    <3>2. PICK C \in SUBSET Mensal[i] : pasta' = [pasta EXCEPT ![i] = Grava(i, C)]
      BY <3>1
    <3>3. i \in Arquivos /\ C \subseteq Conteudo(i, site)
      BY <3>2, AnpAssumption DEF Arquivos, Conteudo
    <3>4. TipoPasta' /\ pasta'[i] # Nada /\ \A g \in Arquivos : g # i => pasta'[g] = pasta[g]
      BY <3>2, <3>3, GravaTipo DEF Forma
    <3>5. QED
      BY <3>4
  <2>3. pendentes \subseteq Itens
    BY DEF Forma, TipoScrap, TipoFontes
  <2>4. CASE LerPortal \/ FimScrapMensal
    BY <2>1, <2>4 DEF LerPortal, FimScrapMensal
  <2>5. CASE MorreScrapMensal
    BY <2>1, <2>2, <2>3, <2>5 DEF MorreScrapMensal
  <2>6. CASE \E i \in Itens : BaixaMensal(i) \/ BaixaMensalFalha(i)
    BY <2>1, <2>2, <2>6 DEF BaixaMensal, BaixaMensalFalha
  <2>7. QED
    BY <2>4, <2>5, <2>6 DEF ScrapMensal
<1>6. TipoFila'
  BY <1>1, <1>5, FilaFica DEF Forma, landingVars
<1>7. TipoCtrl'
  <2>1. mensal' \subseteq mensal \cup pendentes
    BY DEF ScrapMensal, LerPortal, FimScrapMensal, MorreScrapMensal, BaixaMensal, BaixaMensalFalha,
       Registra
  <2>2. QED
    BY <1>1, <2>1 DEF Forma, TipoCtrl, TipoScrap, fontesVars
<1>8. TipoScrap'
  <2>1. pendentes' \subseteq portal
    BY DEF ScrapMensal, LerPortal, FimScrapMensal, MorreScrapMensal, BaixaMensal, BaixaMensalFalha,
       Forma, TipoScrap
  <2>2. ok_mensal' \in BOOLEAN
    <3>1. CASE \E i \in Itens : BaixaMensal(i)
      <4>1. PICK i \in Itens : ok_mensal' = (ok_mensal \/ i \notin mensal)
        BY <3>1 DEF BaixaMensal
      <4>2. QED
        BY <4>1, Zenon
    <3>2. CASE ~\E i \in Itens : BaixaMensal(i)
      <4>1. UNCHANGED ok_mensal \/ ok_mensal' = FALSE
        BY <3>2 DEF ScrapMensal, LerPortal, FimScrapMensal, MorreScrapMensal, BaixaMensalFalha
      <4>2. QED
        BY <4>1, Zenon DEF Forma, TipoScrap
    <3>3. QED
      BY <3>1, <3>2
  <2>3. Rodando("scrap_semanal")' = Rodando("scrap_semanal")
    <3>1. UNCHANGED ti \/ \E s : Marca(t, s)
      BY DEF ScrapMensal, LerPortal, FimScrapMensal, MorreScrapMensal, BaixaMensal,
             BaixaMensalFalha, Inicia, Falhou
    <3>2. QED
      BY <3>1 DEF Marca, Rodando, Forma, Ordem, Tarefas
  <2>4. QED
    BY <1>1, <2>1, <2>2, <2>3 DEF Forma, TipoScrap, fontesVars
<1>9. QED
  BY <1>4, <1>5, <1>6, <1>7, <1>8 DEF Forma

\* The rows a load puts in bronze: the keys of the pending file, one load key,
\* one publication and one timestamp.
LEMMA LinhasDaCarga ==
    ASSUME NEW f, NEW t, NEW s
    PROVE  /\ \A x \in Linhas(f, t, s) :
                x.fonte = f /\ x.tag = t /\ x.de = pasta[f].ref /\ x.ts = s
           /\ {x.chave : x \in Linhas(f, t, s)} = pasta[f].linhas
<1>1. \A x \in Linhas(f, t, s) :
        x.fonte = f /\ x.tag = t /\ x.de = pasta[f].ref /\ x.ts = s /\ x.chave \in pasta[f].linhas
  BY DEF Linhas
<1>2. ASSUME NEW c \in pasta[f].linhas PROVE \E x \in Linhas(f, t, s) : x.chave = c
  <2> DEFINE x == [fonte |-> f, tag |-> t, de |-> pasta[f].ref, chave |-> c, ts |-> s]
  <2>1. x \in Linhas(f, t, s)
    BY DEF Linhas
  <2>2. x.chave = c
    OBVIOUS
  <2>3. QED
    BY <2>1, <2>2
<1>3. QED
  BY <1>1, <1>2

LEMMA LinhasTipo ==
    ASSUME Forma, NEW k \in Lados, NEW f \in fila[k]
    PROVE  /\ f \in Fontes(k) /\ f \in Arquivos /\ pasta[f] # Nada
           /\ Tag(k) \in 0..MaxRef /\ pasta[f].ref \in 0..MaxRef
           /\ Linhas(f, Tag(k), ts[k]) \subseteq Linha
<1>1. f \in Fontes(k) /\ f \in Arquivos /\ pasta[f] # Nada
  BY DEF Forma, TipoFila, ArquivosPendentes, Fontes, Arquivos
<1>2. Tag(k) \in 0..MaxRef
  BY AnpAssumption DEF Forma, TipoLanding, Tag
<1>3. pasta[f].ref \in 0..MaxRef
  BY <1>1, AnpAssumption DEF Forma, TipoPasta, ArquivoBom, Inteiro, Refs
<1>4. ts[k] \in Nat /\ pasta[f].linhas \subseteq Coletas
  BY <1>1 DEF Forma, TipoLanding, TipoPasta
<1>5. Linhas(f, Tag(k), ts[k]) \subseteq Linha
  BY <1>1, <1>2, <1>3, <1>4 DEF Linhas, Linha
<1>6. QED
  BY <1>1, <1>2, <1>3, <1>5

\* A load, whole or cut, touches only the rows under its own load key.
LEMMA CargaEfeito ==
    ASSUME Forma, NEW k \in Lados, NEW f \in fila[k], MeiaCarga(k, f)
    PROVE  /\ bronze' \subseteq Linha
           /\ bronze' \subseteq bronze \cup Linhas(f, Tag(k), ts[k])
           /\ \A g, t : g # f \/ t # Tag(k) => DaCarga(g, t)' = DaCarga(g, t)
           /\ \A t : t = Tag(k) =>
                DaCarga(f, t)' \in {DaCarga(f, t), {}, Linhas(f, t, ts[k])}
<1> DEFINE N == Linhas(f, Tag(k), ts[k])
<1>1. N \subseteq Linha /\ \A x \in N : x.fonte = f /\ x.tag = Tag(k)
  BY LinhasTipo, LinhasDaCarga
<1> HIDE DEF N
<1>2. bronze' \in {bronze, bronze \ DaCarga(f, Tag(k)), (bronze \ DaCarga(f, Tag(k))) \cup N}
  BY DEF MeiaCarga, Apaga, Carrega, N
<1>3. bronze \subseteq Linha
  BY DEF Forma, TipoTabelas
<1>4. bronze' \subseteq Linha /\ bronze' \subseteq bronze \cup N
  BY <1>1, <1>2, <1>3
<1>5. ASSUME NEW g, NEW t, g # f \/ t # Tag(k) PROVE DaCarga(g, t)' = DaCarga(g, t)
  BY <1>1, <1>2, <1>5 DEF DaCarga
<1>6. ASSUME NEW t, t = Tag(k) PROVE DaCarga(f, t)' \in {DaCarga(f, t), {}, N}
  BY <1>1, <1>2, <1>6 DEF DaCarga
<1>7. QED
  BY <1>4, <1>5, <1>6 DEF N

LEMMA FormaLanding ==
    ASSUME Forma, Ordem', NEW k \in Lados, PassoLanding(k)
    PROVE  Forma'
<1> USE DEF LandingUnchanged, FimAttempt
<1>1. UNCHANGED <<fontesVars, ctrlVars, dbtVars, ativo, scrapVars, falhas, ilegiveis>>
  BY DEF PassoLanding, ListarPendentes, FimLanding, MorreLanding, CarregarArquivo, CarregarFalha
<1>2. TipoFontes' /\ TipoCtrl'
  BY <1>1 DEF Forma, TipoFontes, TipoCtrl, fontesVars, ctrlVars
<1>3. TipoScrap'
  <2>1. UNCHANGED ti \/ \E s : Marca(Landing(k), s)
    BY DEF PassoLanding, ListarPendentes, FimLanding, MorreLanding, CarregarArquivo, CarregarFalha,
           Inicia, Falhou
  <2>2. Landing(k) # "scrap_semanal"
    BY DEF Landing
  <2>3. Rodando("scrap_semanal")' = Rodando("scrap_semanal")
    BY <2>1, <2>2 DEF Marca, Rodando, Forma, Ordem, Tarefas
  <2>4. QED
    BY <1>1, <2>3 DEF Forma, TipoScrap, fontesVars, scrapVars
<1>4. TipoLimites'
  <2>1. falhasCarga' \in 0..MaxFalhasCarga
    <3>1. UNCHANGED falhasCarga \/ FalhaCarga
      BY DEF PassoLanding, ListarPendentes, FimLanding, MorreLanding, CarregarArquivo, CarregarFalha
    <3>2. QED
      BY <3>1, FalhaCargaTipo DEF Forma, TipoLimites
  <2>2. QED
    BY <1>1, <2>1 DEF Forma, TipoLimites
<1>5. TipoTabelas'
  <2>1. UNCHANGED bronze \/ \E f \in fila[k] : MeiaCarga(k, f)
    BY DEF PassoLanding, ListarPendentes, FimLanding, MorreLanding, CarregarArquivo, CarregarFalha,
           MeiaCarga
  <2>2. bronze' \subseteq Linha
    BY <2>1, CargaEfeito DEF Forma, TipoTabelas
  <2>3. prata' \subseteq Linha /\ ouro' \subseteq Linha
    BY <1>1 DEF Forma, TipoTabelas, dbtVars
  <2>4. Linha' = Linha
    BY DEF Linha
  <2>5. QED
    BY <2>2, <2>3, <2>4 DEF TipoTabelas
<1>6. TipoPasta' /\ TipoFila'
  <2>1. \A l \in Lados : fila[l] \subseteq Fontes(l) /\ fila[l] \subseteq Arquivos
    BY DEF Forma, TipoFila, ArquivosPendentes
  <2>2. \A l \in Lados : ArquivosPendentes(l) \subseteq Arquivos
    BY DEF ArquivosPendentes, Fontes, Arquivos
  <2>3. CASE UNCHANGED pasta
    <3>1. TipoPasta'
      BY <2>3 DEF Forma, TipoPasta, ArquivoBom
    <3>2. \E S \in SUBSET ArquivosPendentes(k) : fila' = [fila EXCEPT ![k] = S] \/ UNCHANGED fila
      <4>1. \/ UNCHANGED fila \/ fila' = [fila EXCEPT ![k] = {}]
            \/ fila' = [fila EXCEPT ![k] = ArquivosPendentes(k)]
            \/ \E f : fila' = [fila EXCEPT ![k] = fila[k] \ {f}]
        BY DEF PassoLanding, ListarPendentes, FimLanding, MorreLanding, CarregarArquivo,
           CarregarFalha, landingVars
      <4>2. fila[k] \subseteq ArquivosPendentes(k)
        BY DEF Forma, TipoFila
      <4>3. QED
        BY <4>1, <4>2
    <3>3. fila' \in [Lados -> SUBSET Arquivos] /\ \A l \in Lados : fila'[l] \subseteq ArquivosPendentes(l)
      BY <2>2, <3>2 DEF Forma, TipoFila
    <3>4. \A l \in Lados : ArquivosPendentes(l)' = ArquivosPendentes(l)
      BY <2>3 DEF ArquivosPendentes
    <3>5. QED
      BY <3>1, <3>3, <3>4 DEF TipoFila
  <2>4. CASE \E f \in Fontes(k) : CarregarArquivo(k, f)
    <3>1. PICK f \in Fontes(k) : CarregarArquivo(k, f)
      BY <2>4
    <3>2. /\ f \in fila[k] /\ pasta' = [pasta EXCEPT ![f] = Nada]
          /\ fila' = [fila EXCEPT ![k] = fila[k] \ {f}]
      BY <3>1 DEF CarregarArquivo
    <3>3. f \in Arquivos /\ Nada \in [ref : -1..MaxRef, linhas : SUBSET Coletas]
      BY <2>1, <3>2, AnpAssumption DEF Nada
    <3>4. /\ pasta' \in [Arquivos -> [ref : -1..MaxRef, linhas : SUBSET Coletas]]
          /\ pasta'[f] = Nada /\ \A g \in Arquivos : g # f => pasta'[g] = pasta[g]
      BY <3>2, <3>3 DEF Forma, TipoPasta
    <3>5. TipoPasta'
      BY <3>4 DEF Forma, TipoPasta, ArquivoBom
    <3>6. fila' \in [Lados -> SUBSET Arquivos]
      BY <2>1, <3>2 DEF Forma, TipoFila
    <3>7. ASSUME NEW l \in Lados, NEW g \in fila'[l] PROVE g \in Fontes(l) /\ pasta'[g] # Nada
      <4>1. g \in fila[l] /\ (l = k => g # f)
        BY <3>2 DEF Forma, TipoFila
      <4>2. g # f
        BY <2>1, <3>2, <4>1, AnpAssumption DEF Fontes, Lados
      <4>3. QED
        BY <2>1, <3>4, <4>1, <4>2 DEF Forma, TipoFila, ArquivosPendentes
    <3>8. QED
      BY <3>5, <3>6, <3>7 DEF TipoFila, ArquivosPendentes
  <2>5. QED
    BY <2>3, <2>4 DEF PassoLanding, ListarPendentes, FimLanding, MorreLanding, CarregarFalha
<1>7. TipoLanding'
  <2>1. weekly_ref \in 0..MaxRef /\ relogio \in Nat /\ ts \in [Lados -> 0..relogio]
        /\ ok_carga \in [Lados -> BOOLEAN]
    BY DEF Forma, TipoLanding
  <2>2. UltimaSucesso \in 0..MaxRef
    <3> DEFINE S == {m.ref : m \in {n \in semanal : n.status = "SUCESSO"}}
    <3>1. S \subseteq 0..MaxRef
      BY AnpAssumption DEF Forma, TipoCtrl, Refs
    <3>2. QED
      BY <3>1, MaxDeLimita, AnpAssumption DEF UltimaSucesso
  <2>3. CASE UNCHANGED <<weekly_ref, ts, relogio>>
    <3>1. ok_carga' \in [Lados -> BOOLEAN]
      BY <2>1 DEF PassoLanding, ListarPendentes, FimLanding, MorreLanding, CarregarArquivo,
         CarregarFalha, landingVars
    <3>2. QED
      BY <2>1, <2>3, <3>1 DEF TipoLanding
  <2>4. CASE ListarPendentes(k) /\ ArquivosPendentes(k) # {}
    <3>1. /\ relogio' = relogio + 1 /\ ts' = [ts EXCEPT ![k] = relogio + 1]
          /\ weekly_ref' \in {weekly_ref, UltimaSucesso} /\ UNCHANGED ok_carga
      BY <2>4 DEF ListarPendentes
    <3>2. ts' \in [Lados -> 0..relogio']
      BY <2>1, <3>1
    <3>3. weekly_ref' \in 0..MaxRef
      BY <2>1, <2>2, <3>1
    <3>4. QED
      BY <2>1, <3>1, <3>2, <3>3 DEF TipoLanding
  <2>5. CASE FimLanding(k) \/ MorreLanding(k)
    <3>1. /\ UNCHANGED relogio /\ ts' = [ts EXCEPT ![k] = 0]
          /\ weekly_ref' \in {weekly_ref, 0} /\ ok_carga' = [ok_carga EXCEPT ![k] = FALSE]
      BY <2>5 DEF FimLanding, MorreLanding
    <3>2. ts' \in [Lados -> 0..relogio'] /\ weekly_ref' \in 0..MaxRef
      BY <2>1, <3>1, AnpAssumption
    <3>3. ok_carga' \in [Lados -> BOOLEAN]
      BY <2>1, <3>1
    <3>4. QED
      BY <2>1, <3>1, <3>2, <3>3 DEF TipoLanding
  <2>6. QED
    BY <2>3, <2>4, <2>5 DEF PassoLanding, ListarPendentes, CarregarArquivo, CarregarFalha, landingVars
<1>8. QED
  BY <1>2, <1>3, <1>4, <1>5, <1>6, <1>7 DEF Forma

\* What no task of this step is about.
LEMMA FormaFica ==
    ASSUME Forma, Ordem', UNCHANGED <<pasta, ctrlVars, scrapVars, landingVars, falhasCarga, ilegiveis>>,
           TipoFontes', portal \subseteq portal', TipoTabelas', UNCHANGED falhas \/ Falha,
           Rodando("scrap_semanal")' => Rodando("scrap_semanal")
    PROVE  Forma'
<1>1. TipoPasta'
  BY DEF Forma, TipoPasta, ArquivoBom
<1>2. TipoCtrl' /\ TipoScrap'
  BY DEF Forma, TipoCtrl, TipoScrap, ctrlVars, scrapVars
<1>3. TipoFila' /\ TipoLanding'
  BY FilaFica DEF Forma, TipoLanding, landingVars
<1>4. TipoLimites'
  BY FalhaTipo DEF Forma, TipoLimites
<1>5. QED
  BY <1>1, <1>2, <1>3, <1>4 DEF Forma

LEMMA TabelasFicam ==
    ASSUME Forma, bronze' \subseteq bronze, prata' \subseteq bronze \cup prata,
           ouro' \subseteq prata \cup ouro
    PROVE  TipoTabelas'
<1>1. Linha' = Linha
  BY DEF Linha
<1>2. QED
  BY <1>1 DEF Forma, TipoTabelas

LEMMA FormaDbt ==
    ASSUME Forma, Ordem', Dbt
    PROVE  Forma'
<1>1. /\ UNCHANGED <<fontesVars, pasta, ctrlVars, bronze, ativo, scrapVars, landingVars,
                     falhasCarga, ilegiveis>>
      /\ UNCHANGED falhas \/ Falha
  BY DEF Dbt, JoinLanding, RodarPrata, RodarOuro, FalhaDbt, Termina, DbtUnchanged
<1>2. TipoFontes' /\ portal \subseteq portal'
  BY <1>1 DEF Forma, TipoFontes, fontesVars
<1>3. TipoTabelas'
  <2>1. Vigentes(bronze) \subseteq bronze /\ Novas \subseteq prata
    BY DEF Vigentes, Novas
  <2>2. prata' \in {prata, Vigentes(bronze)}
    BY DEF Dbt, JoinLanding, RodarPrata, RodarOuro, FalhaDbt, dbtVars
  <2>3. ouro' \subseteq ouro \cup Novas
    BY DEF Dbt, JoinLanding, RodarPrata, RodarOuro, FalhaDbt, dbtVars
  <2>4. QED
    BY <1>1, <2>1, <2>2, <2>3, TabelasFicam
<1>4. Rodando("scrap_semanal")' => Rodando("scrap_semanal")
  <2>1. \E t \in {"join_landing", "prata", "ouro"} : \E s : Marca(t, s)
    BY DEF Dbt, JoinLanding, RodarPrata, RodarOuro, FalhaDbt, Termina, Falhou
  <2>2. QED
    BY <2>1 DEF Marca, Rodando, Forma, Ordem, Tarefas
<1>5. QED
  BY <1>1, <1>2, <1>3, <1>4, FormaFica

LEMMA FormaScheduler ==
    ASSUME Forma, Ordem', Scheduler
    PROVE  Forma'
<1>1. /\ UNCHANGED <<fontesVars, pasta, ctrlVars, bronze, dbtVars, scrapVars, landingVars,
                     falhasCarga, ilegiveis>>
      /\ UNCHANGED falhas
  BY DEF Scheduler, AbrirRun, FimRun, Propagar, DbtUnchanged
<1>2. TipoFontes' /\ portal \subseteq portal' /\ TipoTabelas'
  BY <1>1, TabelasFicam DEF Forma, TipoFontes, fontesVars, dbtVars
<1>3. Rodando("scrap_semanal")' => Rodando("scrap_semanal")
  <2>1. \/ ti' = [t \in Tarefas |-> "none"] \/ UNCHANGED ti
        \/ \E t \in Tarefas : \E s \in {"upstream_failed", "skipped"} : Marca(t, s)
    BY DEF Scheduler, AbrirRun, FimRun, Propagar
  <2>2. QED
    BY <2>1 DEF Marca, Rodando, Forma, Ordem, Tarefas
<1>4. QED
  BY <1>1, <1>2, <1>3, FormaFica

LEMMA FormaAnp ==
    ASSUME Forma, Ordem', Anp
    PROVE  Forma'
<1>1. UNCHANGED <<pasta, ctrlVars, bronze, dbtVars, ativo, ti, scrapVars, landingVars,
                  falhas, falhasCarga, ilegiveis>>
  BY DEF Anp, PublicaSemana, PublicaMes
<1>2. TipoFontes' /\ portal \subseteq portal'
  BY AnpAssumption DEF Anp, PublicaSemana, PublicaMes, Forma, TipoFontes, Refs
<1>3. TipoTabelas'
  BY <1>1, TabelasFicam DEF dbtVars
<1>4. QED
  BY <1>1, <1>2, <1>3, FormaFica DEF Rodando

LEMMA FormaPasso ==
    ASSUME Forma, [Next]_vars
    PROVE  Forma'
<1>1. Ordem'
  BY OrdemPasso DEF Forma
<1>2. CASE UNCHANGED vars
  <2>1. UNCHANGED <<site, portal, pasta, ctrlVars, bronze, dbtVars, ti, scrapVars, landingVars,
                    falhas, falhasCarga, ilegiveis>>
    BY <1>2 DEF vars, fontesVars
  <2>2. TipoFontes' /\ TipoTabelas'
    BY <2>1, TabelasFicam DEF Forma, TipoFontes, dbtVars
  <2>3. QED
    BY <1>1, <2>1, <2>2, FormaFica DEF Rodando
<1>3. CASE LandingAnp
  <2>1. PICK k \in Lados : PassoLanding(k)
    BY <1>3 DEF LandingAnp, PassoLanding
  <2>2. QED
    BY <1>1, <2>1, FormaLanding
<1>4. QED
  BY <1>1, <1>2, <1>3, FormaAnp, FormaSemanal, FormaMensal, FormaDbt, FormaScheduler
     DEF Next, Sistema

\* The state of the pipeline keeps its shape: a pending CSV holds rows of one
\* publication, a load queue only files that are there, every table only rows
\* with a load key and a timestamp the landing gave (anp_landing.py:105).
THEOREM Tipos == Spec => []TypeOK
<1>1. Init => Forma
  BY FormaInicial
<1>2. Forma /\ [Next]_vars => Forma'
  BY FormaPasso
<1>3. Forma => TypeOK
  BY FormaTypeOK
<1>4. QED
  BY <1>1, <1>2, <1>3, PTL DEF Spec

-----------------------------------------------------------------------------
(* Weekly loads. *)

\* The pending CSV of f is the whole file of publication n or of a later one.
InteiraDesde(f, n) ==
    \E r \in Refs : r >= n /\ pasta[f].ref = r /\ pasta[f].linhas = Conteudo(f, r)

\* One load key of bronze holds one whole publication.
Boa(f, t) ==
    \A x \in DaCarga(f, t) :
        x.de >= t /\ {y.chave : y \in DaCarga(f, t)} = Conteudo(f, x.de)

Boas == \A f \in Links : \A t : Boa(f, t)

\* While the scraper runs, what it has downloaded is whole and newer than every
\* control row; once it has succeeded, so is every CSV left in the directory,
\* and the landing tags it with the last reference that succeeded.
Semanal ==
    /\ ~Rodando("scrap_semanal") => baixados = {}
    /\ Rodando("scrap_semanal") =>
         /\ data_site <= site /\ \A m \in semanal : m.ref < data_site
         /\ \A f \in baixados : InteiraDesde(f, data_site)
    /\ ti["scrap_semanal"] = "success" =>
         \A f \in Links : pasta[f] = Nada \/ InteiraDesde(f, UltimaSucesso)
    /\ Rodando("landing_semanal") => weekly_ref = UltimaSucesso
    /\ Boas

LEMMA SemanalFica ==
    ASSUME Forma, Forma', Semanal, site <= site',
           UNCHANGED <<semanal, data_site, baixados, weekly_ref>>,
           \A f \in Links : pasta'[f] = pasta[f],
           \A f \in Links : \A t : DaCarga(f, t)' = DaCarga(f, t),
           Rodando("scrap_semanal")' <=> Rodando("scrap_semanal"),
           ti'["scrap_semanal"] = "success" => ti["scrap_semanal"] = "success",
           Rodando("landing_semanal")' => Rodando("landing_semanal")
    PROVE  Semanal'
<1>1. Boas'
  BY DEF Semanal, Boas, Boa
<1>2. UltimaSucesso' = UltimaSucesso
  BY DEF UltimaSucesso
<1>3. \A f \in Links : \A n : InteiraDesde(f, n) => InteiraDesde(f, n)'
  BY DEF InteiraDesde
<1>4. baixados \subseteq Links /\ site \in Int /\ site' \in Int
      /\ (Rodando("scrap_semanal") => data_site \in Int)
  BY AnpAssumption DEF Forma, TipoScrap, TipoFontes, Refs
<1>5. Rodando("scrap_semanal")' =>
         /\ data_site' <= site' /\ \A m \in semanal' : m.ref < data_site'
         /\ \A f \in baixados' : InteiraDesde(f, data_site)'
  <2>1. ASSUME Rodando("scrap_semanal"), NEW f \in baixados PROVE InteiraDesde(f, data_site)'
    BY <1>4, <2>1 DEF Semanal, InteiraDesde
  <2>2. QED
    BY <1>4, <2>1 DEF Semanal
<1>6. ti'["scrap_semanal"] = "success" =>
         \A f \in Links : pasta'[f] = Nada \/ InteiraDesde(f, UltimaSucesso)'
  BY <1>2 DEF Semanal, InteiraDesde
<1>7. QED
  BY <1>1, <1>2, <1>5, <1>6 DEF Semanal

\* The landing does not run before its scraper has succeeded.
LEMMA LandingDepois ==
    ASSUME Forma
    PROVE  /\ Pronta("landing_semanal") \/ Rodando("landing_semanal") => ti["scrap_semanal"] = "success"
           /\ Pronta("landing_mensal") \/ Rodando("landing_mensal") => ti["scrap_mensal"] = "success"
<1>1. /\ EstadosAcima("landing_semanal") = {ti["scrap_semanal"]}
      /\ EstadosAcima("landing_mensal") = {ti["scrap_mensal"]}
  BY DEF EstadosAcima, Acima
<1>2. \A t \in {"landing_semanal", "landing_mensal"} : Pronta(t) \/ Rodando(t) => DepsOk(t)
  BY DEF Forma, Ordem, Pronta, Rodando, Vivos, Tarefas
<1>3. QED
  BY <1>1, <1>2 DEF DepsOk

LEMMA SemanalInicial == Init => Semanal
<1> SUFFICES ASSUME Init PROVE Semanal
  OBVIOUS
<1>1. ti["scrap_semanal"] = "none" /\ ti["landing_semanal"] = "none"
  BY DEF Init, Tarefas
<1>2. QED
  BY <1>1 DEF Init, Semanal, Rodando, Boas, Boa, DaCarga

LEMMA SemanalScrap ==
    ASSUME Forma, Forma', Semanal, ScrapSemanal
    PROVE  Semanal'
<1> DEFINE t == "scrap_semanal"
<1> USE DEF SemanalUnchanged, FimScrapSemanal
<1>1. UNCHANGED <<fontesVars, bronze, landingVars>>
  BY DEF ScrapSemanal, LerSite, RegistraSemanal, MorreScrapSemanal, BaixaSemanal,
         BaixaSemanalFalha
<1>2. Boas'
  BY <1>1 DEF Semanal, Boas, Boa, DaCarga
<1>3. t \in Tarefas /\ "landing_semanal" \in Tarefas /\ ti \in [Tarefas -> Estados]
  BY DEF Tarefas, Forma, Ordem
<1>4. ~Rodando("landing_semanal")'
  <2>1. Pronta(t) \/ Rodando(t)
    BY DEF ScrapSemanal, LerSite, RegistraSemanal, MorreScrapSemanal, BaixaSemanal,
           BaixaSemanalFalha
  <2>2. ~Rodando("landing_semanal")
    BY <2>1, LandingDepois DEF Pronta, Rodando
  <2>3. UNCHANGED ti \/ \E s : Marca(t, s)
    BY DEF ScrapSemanal, LerSite, RegistraSemanal, MorreScrapSemanal, BaixaSemanal,
           BaixaSemanalFalha, Inicia, Falhou
  <2>4. QED
    BY <1>3, <2>2, <2>3 DEF Marca, Rodando
<1>5. CASE LerSite
  <2>1. ~Rodando(t) /\ baixados = {} /\ baixados' = {} /\ UNCHANGED <<semanal, site>>
    BY <1>1, <1>5 DEF LerSite, Pronta, Rodando, Semanal, fontesVars
  <2>2. CASE Marca(t, "skipped")
    BY <1>2, <1>3, <1>4, <2>1, <2>2 DEF Marca, Rodando, Semanal
  <2>3. CASE ~(site <= UltimaDataBanco) /\ Inicia(t) /\ data_site' = site
    <3> DEFINE S == {m.ref : m \in semanal}
    <3>1. S \subseteq 0..MaxRef
      BY AnpAssumption DEF Forma, TipoCtrl, Refs
    <3>2. \A n \in S : n <= MaxDe(S) /\ MaxDe(S) \in 0..MaxRef
      BY <3>1, MaxDeLimita, AnpAssumption
    <3>3. site \in Int /\ ~(site <= MaxDe(S))
      BY <2>3, AnpAssumption DEF UltimaDataBanco, Forma, TipoFontes, Refs
    <3>4. \A m \in semanal : m.ref \in S /\ m.ref \in Int
      BY <3>1
    <3> HIDE DEF S
    <3>5. \A m \in semanal : m.ref < site
      <4>1. ASSUME NEW m \in semanal PROVE m.ref < site
        <5>1. m.ref <= MaxDe(S) /\ MaxDe(S) \in Int /\ m.ref \in Int
          BY <3>2, <3>4, AnpAssumption
        <5>2. QED
          BY <3>3, <5>1
      <4>2. QED
        BY <4>1
    <3>6. ti'[t] # "success"
      BY <1>3, <2>3 DEF Inicia, Marca
    <3>7. QED
      BY <1>2, <1>4, <2>1, <2>3, <3>3, <3>5, <3>6 DEF Semanal, Rodando
  <2>4. QED
    BY <1>5, <2>2, <2>3 DEF LerSite
<1>6. CASE \E f \in Links : BaixaSemanal(f)
  <2>1. PICK f \in Links : BaixaSemanal(f)
    BY <1>6
  <2>2. /\ Rodando(t) /\ pasta' = [pasta EXCEPT ![f] = Grava(f, Conteudo(f, site))]
        /\ baixados' = baixados \cup {f} /\ UNCHANGED <<semanal, ti, data_site, site>>
    BY <1>1, <2>1 DEF BaixaSemanal, fontesVars
  <2>3. /\ pasta'[f].ref = Inteiro(f, site).ref /\ pasta'[f].linhas = Conteudo(f, site)
        /\ \A g \in Arquivos : g # f => pasta'[g] = pasta[g]
    BY <2>2, GravaTipo DEF Forma, Arquivos
  <2>4. Inteiro(f, site).ref = site
    BY DEF Inteiro
  <2>5. data_site <= site /\ site \in Refs /\ site \in Int /\ data_site \in Int
        /\ \A m \in semanal : m.ref < data_site
    BY <2>2, AnpAssumption DEF Semanal, Forma, TipoFontes, TipoScrap, Refs
  <2>6. InteiraDesde(f, data_site)'
    BY <2>2, <2>3, <2>4, <2>5 DEF InteiraDesde
  <2>7. ASSUME NEW g \in baixados, g # f PROVE InteiraDesde(g, data_site)'
    <3>1. InteiraDesde(g, data_site) /\ pasta'[g] = pasta[g]
      BY <2>2, <2>3, <2>7 DEF Semanal, Forma, TipoScrap, Arquivos
    <3>2. QED
      BY <2>2, <3>1 DEF InteiraDesde
  <2>8. QED
    BY <1>2, <1>4, <2>2, <2>5, <2>6, <2>7 DEF Semanal, Rodando
<1>7. CASE RegistraSemanal /\ Marca(t, "success")
  <2>1. /\ Rodando(t) /\ baixados = Links /\ UNCHANGED pasta
        /\ data_site' = 0 /\ baixados' = {}
    BY <1>7 DEF RegistraSemanal
  <2>2. ti'[t] = "success"
    BY <1>3, <1>7 DEF Marca
  <2>3. semanal' = semanal \cup {[ref |-> data_site, status |-> "SUCESSO"]}
    BY <1>3, <1>7, <2>2 DEF RegistraSemanal, Falhou, Marca
  <2>4. data_site \in Refs /\ \A m \in semanal : m.ref < data_site
    BY <2>1 DEF Semanal, Forma, TipoScrap
  <2>5. UltimaSucesso' <= data_site /\ UltimaSucesso' \in Int
    <3> DEFINE S == {m.ref : m \in {n \in semanal' : n.status = "SUCESSO"}}
    <3>1. S \subseteq 0..MaxRef
      BY AnpAssumption DEF Forma, TipoCtrl, Refs
    <3>2. MaxDe(S) \in 0..MaxRef /\ (S # {} => MaxDe(S) \in S)
      BY <3>1, MaxDeLimita, AnpAssumption
    <3>3. \A n \in S : n <= data_site
      BY <2>3, <2>4, <3>1, AnpAssumption DEF Refs
    <3>4. data_site \in S
      <4> DEFINE m == [ref |-> data_site, status |-> "SUCESSO"]
      <4>1. m \in semanal' /\ m.status = "SUCESSO" /\ m.ref = data_site
        BY <2>3
      <4>2. QED
        BY <4>1
    <3>5. QED
      BY <3>2, <3>3, <3>4 DEF UltimaSucesso
  <2>6. ASSUME NEW f \in Links PROVE InteiraDesde(f, UltimaSucesso)'
    <3>1. PICK r \in Refs : r >= data_site /\ pasta[f].ref = r /\ pasta[f].linhas = Conteudo(f, r)
      BY <2>1 DEF Semanal, InteiraDesde
    <3>2. r >= UltimaSucesso'
      BY <2>4, <2>5, <3>1, AnpAssumption DEF Refs
    <3>3. QED
      BY <2>1, <3>1, <3>2 DEF InteiraDesde
  <2>7. QED
    BY <1>2, <1>4, <2>1, <2>2, <2>6 DEF Semanal, Rodando
<1>8. CASE /\ RegistraSemanal \/ MorreScrapSemanal \/ \E f \in Links : BaixaSemanalFalha(f)
           /\ Falhou(t)
  <2>1. baixados' = {}
    BY <1>8 DEF RegistraSemanal, MorreScrapSemanal, BaixaSemanalFalha
  <2>2. ti'[t] \in {"up_for_retry", "failed"}
    BY <1>3, <1>8 DEF Falhou, Marca
  <2>3. QED
    BY <1>2, <1>4, <2>1, <2>2 DEF Semanal, Rodando
<1>9. QED
  BY <1>5, <1>6, <1>7, <1>8
     DEF ScrapSemanal, RegistraSemanal, MorreScrapSemanal, BaixaSemanalFalha

\* The scraper is over when its landing runs: nothing it reads moves.
LEMMA SemanalLanding ==
    ASSUME Forma, Forma', Semanal, PassoLanding("semanal")
    PROVE  Semanal'
<1> DEFINE l == "landing_semanal"
<1> USE DEF LandingUnchanged, FimAttempt
<1>1. UNCHANGED <<semanal, site, data_site, baixados>> /\ Landing("semanal") = l
      /\ "semanal" \in Lados /\ Fontes("semanal") = Links /\ l \in Tarefas
      /\ "scrap_semanal" \in Tarefas /\ ti \in [Tarefas -> Estados]
  BY DEF PassoLanding, ListarPendentes, FimLanding, MorreLanding, CarregarArquivo, CarregarFalha,
         ctrlVars, fontesVars, scrapVars, Landing, Lados, Fontes, Tarefas, Forma, Ordem
<1>2. ti["scrap_semanal"] = "success"
  <2>1. Pronta(l) \/ Rodando(l)
    BY <1>1 DEF PassoLanding, ListarPendentes, FimLanding, MorreLanding, CarregarArquivo, CarregarFalha
  <2>2. QED
    BY <2>1, LandingDepois
<1>3. ti'["scrap_semanal"] = "success"
  <2>1. UNCHANGED ti \/ \E s : Marca(l, s)
    BY <1>1 DEF PassoLanding, ListarPendentes, FimLanding, MorreLanding, CarregarArquivo,
           CarregarFalha, Inicia, Falhou
  <2>2. QED
    BY <1>1, <1>2, <2>1 DEF Marca
<1>4. UltimaSucesso' = UltimaSucesso
  BY <1>1 DEF UltimaSucesso
<1>5. \A f \in Links : pasta'[f] = pasta[f] \/ pasta'[f] = Nada
  <2>1. UNCHANGED pasta \/ \E f : pasta' = [pasta EXCEPT ![f] = Nada]
    BY DEF PassoLanding, ListarPendentes, FimLanding, MorreLanding, CarregarArquivo, CarregarFalha
  <2>2. QED
    BY <2>1 DEF Forma, TipoPasta, Arquivos
<1>6. \A f \in Links : pasta'[f] = Nada \/ InteiraDesde(f, UltimaSucesso)'
  <2>1. ASSUME NEW f \in Links, pasta'[f] # Nada PROVE InteiraDesde(f, UltimaSucesso)'
    <3>1. pasta'[f] = pasta[f] /\ InteiraDesde(f, UltimaSucesso)
      BY <1>2, <1>5, <2>1 DEF Semanal
    <3>2. QED
      BY <1>4, <3>1 DEF InteiraDesde
  <2>2. QED
    BY <2>1
<1>7. Rodando(l)' => weekly_ref' = UltimaSucesso'
  <2>1. CASE ListarPendentes("semanal")
    BY <1>1, <1>4, <2>1 DEF ListarPendentes, Marca, Rodando
  <2>2. CASE FimLanding("semanal") \/ MorreLanding("semanal")
    <3>1. Falhou(l) \/ Marca(l, "success")
      BY <1>1, <2>2 DEF FimLanding, MorreLanding
    <3>2. ~Rodando(l)'
      BY <1>1, <3>1 DEF Falhou, Marca, Rodando
    <3>3. QED
      BY <3>2
  <2>3. CASE \E f \in Fontes("semanal") : CarregarArquivo("semanal", f) \/ CarregarFalha("semanal", f)
    BY <1>1, <1>4, <2>3 DEF CarregarArquivo, CarregarFalha, Semanal, Rodando
  <2>4. QED
    BY <2>1, <2>2, <2>3 DEF PassoLanding
<1>8. Boas'
  <2>1. CASE UNCHANGED bronze
    BY <2>1 DEF Semanal, Boas, Boa, DaCarga
  <2>2. CASE Rodando(l) /\ \E f \in fila["semanal"] : MeiaCarga("semanal", f)
    <3>1. PICK f \in fila["semanal"] : MeiaCarga("semanal", f)
      BY <2>2
    <3> DEFINE r == weekly_ref
    <3>2. Tag("semanal") = r /\ r = UltimaSucesso
      BY <2>2 DEF Tag, Semanal
    <3>3. f \in Links /\ pasta[f] # Nada
      BY <1>1, <3>1, LinhasTipo
    <3>4. pasta[f].ref >= r /\ pasta[f].linhas = Conteudo(f, pasta[f].ref)
      BY <1>2, <3>2, <3>3 DEF Semanal, InteiraDesde
    <3> DEFINE N == Linhas(f, r, ts["semanal"])
    <3>5. /\ \A x \in N : x.de = pasta[f].ref
          /\ {x.chave : x \in N} = pasta[f].linhas
      BY LinhasDaCarga
    <3>6. /\ \A g, t : g # f \/ t # r => DaCarga(g, t)' = DaCarga(g, t)
          /\ \A t : t = r => DaCarga(f, t)' \in {DaCarga(f, t), {}, Linhas(f, t, ts["semanal"])}
      BY <1>1, <3>1, <3>2, CargaEfeito
    <3>7. ASSUME NEW g \in Links, NEW t PROVE Boa(g, t)'
      <4>0. Boa(g, t)
        BY DEF Semanal, Boas
      <4>1. CASE g # f \/ t # r
        <5>1. DaCarga(g, t)' = DaCarga(g, t)
          BY <3>6, <4>1
        <5>2. QED
          BY <4>0, <5>1 DEF Boa
      <4>2. CASE g = f /\ t = r
        <5>1. DaCarga(g, t)' \in {DaCarga(g, t), {}, N}
          BY <3>6, <4>2
        <5>2. CASE DaCarga(g, t)' = DaCarga(g, t)
          BY <4>0, <5>2 DEF Boa
        <5>3. CASE DaCarga(g, t)' = {}
          BY <5>3 DEF Boa
        <5>4. CASE DaCarga(g, t)' = N
          <6> HIDE DEF N
          <6>1. \A x \in N : x.de >= t /\ {y.chave : y \in N} = Conteudo(g, x.de)
            BY <3>4, <3>5, <4>2
          <6>2. QED
            BY <5>4, <6>1 DEF Boa
        <5>5. QED
          BY <5>1, <5>2, <5>3, <5>4
      <4>3. QED
        BY <4>1, <4>2
    <3>8. QED
      BY <3>7 DEF Boas
  <2>3. QED
    BY <1>1, <2>1, <2>2 DEF PassoLanding, ListarPendentes, FimLanding, MorreLanding,
       CarregarArquivo, CarregarFalha, MeiaCarga
<1>9. ~Rodando("scrap_semanal") /\ ~Rodando("scrap_semanal")'
  BY <1>2, <1>3 DEF Rodando
<1>10. QED
  BY <1>1, <1>6, <1>7, <1>8, <1>9 DEF Semanal

LEMMA SemanalPasso ==
    ASSUME Forma, Semanal, [Next]_vars
    PROVE  Semanal'
<1>1. Forma'
  BY FormaPasso
<1>2. site \in Int /\ site' \in Int /\ ti \in [Tarefas -> Estados]
      /\ "scrap_semanal" \in Tarefas /\ "landing_semanal" \in Tarefas
  BY <1>1, AnpAssumption DEF Forma, TipoFontes, Refs, Ordem, Tarefas
<1>3. CASE Anp \/ UNCHANGED vars
  <2>1. /\ UNCHANGED <<pasta, semanal, bronze, ti, data_site, baixados, weekly_ref>>
        /\ site' = site \/ site' = site + 1
    BY <1>3 DEF Anp, PublicaSemana, PublicaMes, vars, ctrlVars, fontesVars, scrapVars, landingVars
  <2>2. QED
    BY <1>1, <1>2, <2>1, SemanalFica DEF Rodando, DaCarga
<1>4. CASE ScrapMensal
  <2>1. UNCHANGED <<site, semanal, bronze, data_site, baixados, weekly_ref>>
    BY <1>4 DEF ScrapMensal, LerPortal, FimScrapMensal, MorreScrapMensal, BaixaMensal,
       BaixaMensalFalha, MensalUnchanged, fontesVars, landingVars
  <2>2. UNCHANGED ti \/ \E s : Marca("scrap_mensal", s)
    BY <1>4 DEF ScrapMensal, LerPortal, FimScrapMensal, MorreScrapMensal, BaixaMensal,
           BaixaMensalFalha, Inicia, Falhou
  <2>3. UNCHANGED pasta \/ \E i \in Itens : \E v : pasta' = [pasta EXCEPT ![i] = v]
    <3>1. pendentes \subseteq Itens
      BY DEF Forma, TipoScrap, TipoFontes
    <3>2. QED
      BY <1>4, <3>1 DEF ScrapMensal, LerPortal, FimScrapMensal, MorreScrapMensal, BaixaMensal,
           BaixaMensalFalha
  <2>4. \A f \in Links : pasta'[f] = pasta[f]
    BY <2>3, AnpAssumption DEF Forma, TipoPasta, Arquivos
  <2>5. ti'["scrap_semanal"] = ti["scrap_semanal"] /\ ti'["landing_semanal"] = ti["landing_semanal"]
    BY <1>2, <2>2 DEF Marca
  <2>6. QED
    BY <1>1, <1>2, <2>1, <2>4, <2>5, SemanalFica DEF Rodando, DaCarga
<1>5. CASE PassoLanding("mensal")
  <2>1. UNCHANGED <<site, semanal, data_site, baixados>>
    BY <1>5 DEF PassoLanding, ListarPendentes, FimLanding, MorreLanding, CarregarArquivo,
       CarregarFalha, LandingUnchanged, FimAttempt, fontesVars, ctrlVars, scrapVars
  <2>2. UNCHANGED weekly_ref
    BY <1>5 DEF PassoLanding, ListarPendentes, FimLanding, MorreLanding, CarregarArquivo,
       CarregarFalha, LandingUnchanged, FimAttempt, landingVars
  <2>3. "mensal" \in Lados /\ Landing("mensal") = "landing_mensal" /\ Fontes("mensal") = Itens
    BY DEF Lados, Landing, Fontes
  <2>4. UNCHANGED ti \/ \E s : Marca("landing_mensal", s)
    BY <1>5, <2>3 DEF PassoLanding, ListarPendentes, FimLanding, MorreLanding, CarregarArquivo,
           CarregarFalha, Inicia, Falhou
  <2>5. UNCHANGED pasta \/ \E i \in Itens : pasta' = [pasta EXCEPT ![i] = Nada]
    BY <1>5, <2>3 DEF PassoLanding, ListarPendentes, FimLanding, MorreLanding, CarregarArquivo,
       CarregarFalha, FimAttempt
  <2>6. \A f \in Links : pasta'[f] = pasta[f]
    BY <2>5, AnpAssumption DEF Forma, TipoPasta, Arquivos
  <2>7. ti'["scrap_semanal"] = ti["scrap_semanal"] /\ ti'["landing_semanal"] = ti["landing_semanal"]
    BY <1>2, <2>4 DEF Marca
  <2>8. \A f \in Links : \A t : DaCarga(f, t)' = DaCarga(f, t)
    <3>1. UNCHANGED bronze \/ \E i \in fila["mensal"] : MeiaCarga("mensal", i)
      BY <1>5 DEF PassoLanding, ListarPendentes, FimLanding, MorreLanding, CarregarArquivo,
         CarregarFalha, MeiaCarga
    <3>2. \A i \in fila["mensal"] : i \in Itens
      BY <2>3, LinhasTipo
    <3>3. QED
      BY <2>3, <3>1, <3>2, CargaEfeito, AnpAssumption DEF DaCarga
  <2>9. QED
    BY <1>1, <1>2, <2>1, <2>2, <2>6, <2>7, <2>8, SemanalFica DEF Rodando
<1>6. CASE LandingAnp
  <2>1. PICK k \in Lados : PassoLanding(k)
    BY <1>6 DEF LandingAnp, PassoLanding
  <2>2. QED
    BY <1>1, <1>5, <2>1, SemanalLanding DEF Lados
<1>7. CASE Dbt \/ Scheduler
  <2>1. UNCHANGED <<site, pasta, semanal, bronze, data_site, baixados, weekly_ref>>
    BY <1>7 DEF Dbt, JoinLanding, RodarPrata, RodarOuro, FalhaDbt, DbtUnchanged, Scheduler, AbrirRun,
       FimRun, Propagar, fontesVars, ctrlVars, scrapVars, landingVars
  <2>2. \/ ti' = [t \in Tarefas |-> "none"] /\ ~ativo
        \/ UNCHANGED ti
        \/ \E t \in {"join_landing", "prata", "ouro"} : \E s : Marca(t, s)
        \/ \E t \in Tarefas : \E s \in {"upstream_failed", "skipped"} : ti[t] = "none" /\ Marca(t, s)
    BY <1>7 DEF Dbt, JoinLanding, RodarPrata, RodarOuro, FalhaDbt, Termina, Falhou, Scheduler,
       AbrirRun, FimRun, Propagar
  <2>3. ~ativo => ~Rodando("scrap_semanal")
    BY <1>2 DEF Forma, Ordem, Rodando, Terminais, Falhados
  <2>4. /\ Rodando("scrap_semanal")' <=> Rodando("scrap_semanal")
        /\ ti'["scrap_semanal"] = "success" => ti["scrap_semanal"] = "success"
        /\ Rodando("landing_semanal")' => Rodando("landing_semanal")
    BY <1>2, <2>2, <2>3 DEF Marca, Rodando
  <2>5. QED
    BY <1>1, <1>2, <2>1, <2>4, SemanalFica DEF DaCarga
<1>8. QED
  BY <1>1, <1>3, <1>4, <1>6, <1>7, SemanalScrap DEF Next, Sistema

LEMMA SemanalInteira == Forma /\ Semanal => CargaSemanalInteira
<1> SUFFICES ASSUME Forma, Semanal, NEW x \in bronze, x.fonte \in Links
             PROVE  x.de >= x.tag
                    /\ {y.chave : y \in DaCarga(x.fonte, x.tag)} = Conteudo(x.fonte, x.de)
  BY DEF CargaSemanalInteira
<1>1. x \in DaCarga(x.fonte, x.tag)
  BY DEF DaCarga
<1>2. QED
  BY <1>1 DEF Semanal, Boas, Boa

-----------------------------------------------------------------------------
(* Monthly files. *)

Guardado(i) ==
    \/ pasta[i].ref = 0 /\ pasta[i].linhas = Mensal[i]
    \/ pasta[i] = Nada /\ Completo(i)

\* A month with a control row is not fetched again, and waits or is loaded whole.
Mes == ilegiveis = 0 => pendentes \cap mensal = {} /\ \A i \in mensal : Guardado(i)

LEMMA MesFica ==
    ASSUME Forma, Mes, UNCHANGED <<mensal, pendentes, ilegiveis>>,
           \A i \in Itens : pasta'[i] = pasta[i],
           \A i \in Itens : DaCarga(i, 0)' = DaCarga(i, 0)
    PROVE  Mes'
<1>1. mensal \subseteq Itens
  BY DEF Forma, TipoCtrl, TipoFontes
<1>2. ASSUME NEW i \in Itens, Guardado(i) PROVE Guardado(i)'
  BY <1>2 DEF Guardado, Completo
<1>3. QED
  BY <1>1, <1>2 DEF Mes

LEMMA MesScrap ==
    ASSUME Forma, Mes, ScrapMensal
    PROVE  Mes'
<1> USE DEF MensalUnchanged
<1> SUFFICES ASSUME ilegiveis' = 0
             PROVE  pendentes' \cap mensal' = {} /\ \A i \in mensal' : Guardado(i)'
  BY DEF Mes
<1>1. UNCHANGED bronze
  BY DEF ScrapMensal, LerPortal, FimScrapMensal, MorreScrapMensal, BaixaMensal, BaixaMensalFalha
<1>2. ilegiveis \in Nat
  BY AnpAssumption DEF Forma, TipoLimites
<1>3. UNCHANGED ilegiveis
  <2>1. UNCHANGED ilegiveis \/ ilegiveis' = ilegiveis + 1
    BY DEF ScrapMensal, LerPortal, FimScrapMensal, MorreScrapMensal, BaixaMensal, BaixaMensalFalha
  <2>2. QED
    BY <1>2, <2>1
<1>4. pendentes \cap mensal = {} /\ \A i \in mensal : Guardado(i)
  BY <1>3 DEF Mes
<1>5. mensal \subseteq Itens /\ pendentes \subseteq Itens /\ Itens \subseteq Arquivos
  BY DEF Forma, TipoCtrl, TipoScrap, TipoFontes, Arquivos
<1>6. ASSUME NEW i \in mensal, pasta'[i] = pasta[i] PROVE Guardado(i)'
  BY <1>1, <1>4, <1>6 DEF Guardado, Completo, DaCarga
<1>7. CASE LerPortal
  <2>1. UNCHANGED <<pasta, mensal>>
    BY <1>7 DEF LerPortal
  <2>2. PICK vistos \in CtrlLido :
          /\ IF vistos = mensal THEN UNCHANGED ilegiveis ELSE ilegiveis' = ilegiveis + 1
          /\ UNCHANGED pendentes \/ pendentes' = portal \ vistos
    BY <1>7 DEF LerPortal
  <2>3. vistos = mensal
    BY <1>2, <1>3, <2>2
  <2>4. QED
    BY <1>4, <1>6, <2>1, <2>2, <2>3
<1>8. CASE FimScrapMensal
  BY <1>4, <1>6, <1>8 DEF FimScrapMensal
<1>9. CASE MorreScrapMensal
  <2>1. pendentes' = {} /\ mensal' = mensal
        /\ (UNCHANGED pasta \/ \E i \in pendentes : \E v : pasta' = [pasta EXCEPT ![i] = v])
    BY <1>9 DEF MorreScrapMensal
  <2>2. \A i \in mensal : pasta'[i] = pasta[i]
    BY <1>4, <1>5, <2>1 DEF Forma, TipoPasta
  <2>3. QED
    BY <1>6, <2>1, <2>2
<1>10. ASSUME NEW i \in Itens, BaixaMensal(i)
       PROVE  pendentes' \cap mensal' = {} /\ \A j \in mensal' : Guardado(j)'
  <2>1. /\ i \in pendentes /\ pasta' = [pasta EXCEPT ![i] = Grava(i, Mensal[i])]
        /\ mensal' = mensal \cup {i} /\ pendentes' = pendentes \ {i}
    BY <1>10 DEF BaixaMensal, Registra
  <2>2. i \in Arquivos /\ Mensal[i] \subseteq Conteudo(i, site) /\ Inteiro(i, site).ref = 0
    BY <1>5, AnpAssumption DEF Conteudo, Inteiro
  <2>3. /\ pasta'[i].ref = 0 /\ pasta'[i].linhas = Mensal[i]
        /\ \A g \in Arquivos : g # i => pasta'[g] = pasta[g]
    BY <2>1, <2>2, GravaTipo DEF Forma
  <2>4. Guardado(i)'
    BY <2>3 DEF Guardado
  <2>5. QED
    BY <1>4, <1>5, <1>6, <2>1, <2>3, <2>4
<1>11. ASSUME NEW i \in Itens, BaixaMensalFalha(i)
       PROVE  pendentes' \cap mensal' = {} /\ \A j \in mensal' : Guardado(j)'
  <2>1. /\ i \in pendentes /\ mensal' = mensal /\ pendentes' = pendentes \ {i}
        /\ (UNCHANGED pasta \/ \E v : pasta' = [pasta EXCEPT ![i] = v])
    BY <1>11 DEF BaixaMensalFalha, Registra
  <2>2. \A j \in mensal : pasta'[j] = pasta[j]
    BY <1>4, <1>5, <2>1 DEF Forma, TipoPasta
  <2>3. QED
    BY <1>4, <1>6, <2>1, <2>2
<1>12. QED
  BY <1>7, <1>8, <1>9, <1>10, <1>11 DEF ScrapMensal

LEMMA MesLanding ==
    ASSUME Forma, Mes, PassoLanding("mensal")
    PROVE  Mes'
<1> USE DEF LandingUnchanged, FimAttempt
<1>1. "mensal" \in Lados /\ Tag("mensal") = 0 /\ Fontes("mensal") = Itens
  BY DEF Lados, Tag, Fontes
<1>2. UNCHANGED <<mensal, pendentes, ilegiveis>>
  BY DEF PassoLanding, ListarPendentes, FimLanding, MorreLanding, CarregarArquivo, CarregarFalha,
         ctrlVars, scrapVars
<1>3. mensal \subseteq Itens /\ Itens \subseteq Arquivos
  BY DEF Forma, TipoCtrl, TipoFontes, Arquivos
<1>4. CASE UNCHANGED <<bronze, pasta>>
  BY <1>2, <1>4, MesFica DEF DaCarga
<1>5. ASSUME UNCHANGED pasta, NEW f \in fila["mensal"], MeiaCarga("mensal", f)
      PROVE  Mes'
  <2>1. \A g, t : g # f \/ t # 0 => DaCarga(g, t)' = DaCarga(g, t)
    BY <1>1, <1>5, CargaEfeito
  <2>2. pasta[f] # Nada
    BY <1>1, LinhasTipo
  <2>3. ASSUME NEW i \in mensal, Guardado(i) PROVE Guardado(i)'
    <3>1. CASE i = f
      BY <1>5, <2>2, <2>3, <3>1 DEF Guardado
    <3>2. CASE i # f
      <4>1. DaCarga(i, 0)' = DaCarga(i, 0)
        BY <2>1, <3>2
      <4>2. QED
        BY <1>5, <2>3, <4>1 DEF Guardado, Completo
    <3>3. QED
      BY <3>1, <3>2
  <2>4. QED
    BY <1>2, <2>3 DEF Mes
<1>6. ASSUME NEW f \in Itens, CarregarArquivo("mensal", f)
      PROVE  Mes'
  <2> DEFINE N == Linhas(f, 0, ts["mensal"])
  <2>1. /\ f \in fila["mensal"] /\ pasta' = [pasta EXCEPT ![f] = Nada]
        /\ bronze' = (bronze \ DaCarga(f, 0)) \cup N
    BY <1>1, <1>6 DEF CarregarArquivo, Carrega, Apaga
  <2>2. pasta[f] # Nada
    BY <1>1, <2>1, LinhasTipo
  <2>3. /\ \A x \in N : x.fonte = f /\ x.tag = 0
        /\ {x.chave : x \in N} = pasta[f].linhas
    BY LinhasDaCarga
  <2> HIDE DEF N
  <2>4. DaCarga(f, 0)' = N /\ \A g : g # f => DaCarga(g, 0)' = DaCarga(g, 0)
    BY <2>1, <2>3 DEF DaCarga
  <2>5. pasta'[f] = Nada /\ \A g \in Arquivos : g # f => pasta'[g] = pasta[g]
    BY <1>3, <2>1 DEF Forma, TipoPasta
  <2>6. ASSUME NEW i \in mensal, Guardado(i) PROVE Guardado(i)'
    <3>1. CASE i = f
      <4>1. pasta[f].linhas = Mensal[f]
        BY <2>2, <2>6, <3>1 DEF Guardado
      <4>2. Completo(f)'
        BY <2>3, <2>4, <4>1 DEF Completo
      <4>3. QED
        BY <2>5, <3>1, <4>2 DEF Guardado
    <3>2. CASE i # f
      BY <1>3, <2>4, <2>5, <2>6, <3>2 DEF Guardado, Completo
    <3>3. QED
      BY <3>1, <3>2
  <2>7. QED
    BY <1>2, <2>6 DEF Mes
<1>7. CASE ListarPendentes("mensal") \/ FimLanding("mensal")
  BY <1>4, <1>7 DEF ListarPendentes, FimLanding
<1>8. CASE MorreLanding("mensal")
  BY <1>4, <1>5, <1>8 DEF MorreLanding
<1>9. CASE \E f \in Itens : CarregarFalha("mensal", f)
  BY <1>5, <1>9 DEF CarregarFalha
<1>10. QED
  BY <1>1, <1>6, <1>7, <1>8, <1>9 DEF PassoLanding

LEMMA MesPasso ==
    ASSUME Forma, Mes, [Next]_vars
    PROVE  Mes'
<1>1. Links \subseteq Arquivos /\ Itens \subseteq Arquivos /\ Links \cap Itens = {}
  BY AnpAssumption DEF Arquivos
<1>2. CASE Anp \/ UNCHANGED vars \/ Dbt \/ Scheduler
  <2>1. UNCHANGED <<mensal, pendentes, ilegiveis, pasta, bronze>>
    BY <1>2 DEF Anp, PublicaSemana, PublicaMes, vars, ctrlVars, scrapVars, Dbt, JoinLanding,
       RodarPrata, RodarOuro, FalhaDbt, DbtUnchanged, Scheduler, AbrirRun, FimRun, Propagar
  <2>2. QED
    BY <2>1, MesFica DEF DaCarga
<1>3. CASE ScrapSemanal
  <2>1. /\ UNCHANGED <<mensal, pendentes, ilegiveis, bronze>>
        /\ UNCHANGED pasta \/ \E f \in Links : \E v : pasta' = [pasta EXCEPT ![f] = v]
    BY <1>3 DEF ScrapSemanal, LerSite, RegistraSemanal, MorreScrapSemanal, BaixaSemanal,
       BaixaSemanalFalha, SemanalUnchanged, FimScrapSemanal
  <2>2. \A i \in Itens : pasta'[i] = pasta[i]
    BY <1>1, <2>1 DEF Forma, TipoPasta
  <2>3. QED
    BY <2>1, <2>2, MesFica DEF DaCarga
<1>4. CASE PassoLanding("semanal")
  <2>1. "semanal" \in Lados /\ Fontes("semanal") = Links
    BY DEF Lados, Fontes
  <2>2. /\ UNCHANGED <<mensal, pendentes, ilegiveis>>
        /\ UNCHANGED pasta \/ \E f \in Links : pasta' = [pasta EXCEPT ![f] = Nada]
        /\ UNCHANGED bronze \/ \E f \in fila["semanal"] : MeiaCarga("semanal", f)
    BY <1>4, <2>1 DEF PassoLanding, ListarPendentes, FimLanding, MorreLanding, CarregarArquivo,
       CarregarFalha, MeiaCarga, LandingUnchanged, FimAttempt, ctrlVars, scrapVars
  <2>3. \A i \in Itens : pasta'[i] = pasta[i]
    BY <1>1, <2>2 DEF Forma, TipoPasta
  <2>4. \A f \in fila["semanal"] : f \in Links
    BY <2>1, LinhasTipo
  <2>5. \A i \in Itens : DaCarga(i, 0)' = DaCarga(i, 0)
    BY <1>1, <2>1, <2>2, <2>4, CargaEfeito DEF DaCarga
  <2>6. QED
    BY <2>2, <2>3, <2>5, MesFica
<1>5. CASE LandingAnp
  <2>1. PICK k \in Lados : PassoLanding(k)
    BY <1>5 DEF LandingAnp, PassoLanding
  <2>2. QED
    BY <1>4, <2>1, MesLanding DEF Lados
<1>6. QED
  BY <1>2, <1>3, <1>5, MesScrap DEF Next, Sistema

LEMMA MesInteiro == Forma /\ Mes => MesRegistradoInteiro
<1> SUFFICES ASSUME Forma, Mes, ilegiveis = 0, NEW i \in mensal
             PROVE  pasta[i] = Inteiro(i, 0) \/ (pasta[i] = Nada /\ Completo(i))
  BY DEF MesRegistradoInteiro, MesNuncaTruncado
<1>1. Guardado(i) /\ i \in Itens
  BY DEF Mes, Forma, TipoCtrl, TipoFontes
<1>2. CASE pasta[i].ref = 0 /\ pasta[i].linhas = Mensal[i]
  <2>1. pasta[i] \in [ref : -1..MaxRef, linhas : SUBSET Coletas] /\ i \notin Links
    BY <1>1, AnpAssumption DEF Forma, TipoPasta, Arquivos
  <2>2. pasta[i] = [ref |-> 0, linhas |-> Mensal[i]]
    BY <1>2, <2>1
  <2>3. Inteiro(i, 0) = [ref |-> 0, linhas |-> Mensal[i]]
    BY <2>1 DEF Inteiro, Conteudo
  <2>4. QED
    BY <2>2, <2>3
<1>3. QED
  BY <1>1, <1>2 DEF Guardado

\* What lands is whole, whatever fails: a weekly load key holds one complete
\* publication, a registered month is never left truncated (anp_landing.py:117,
\* anp_02_anp_month_file_scrap.py:224).
THEOREM CargasSempreInteiras == Spec => []CargasInteiras
<1>1. Init => Forma /\ Semanal /\ Mes
  BY FormaInicial, SemanalInicial DEF Init, Mes
<1>2. Forma /\ Semanal /\ Mes /\ [Next]_vars => Forma' /\ Semanal' /\ Mes'
  BY FormaPasso, SemanalPasso, MesPasso
<1>3. Forma /\ Semanal /\ Mes => CargasInteiras
  BY SemanalInteira, MesInteiro DEF CargasInteiras
<1>4. QED
  BY <1>1, <1>2, <1>3, PTL DEF Spec

-----------------------------------------------------------------------------
(* The incremental fact. *)

\* S has the key of x, from the same load or a later one.
Alcanca(x, S) == \E y \in S : y.chave = x.chave /\ y.ts >= x.ts

\* The fact reaches every row it is not older than; loads to come are newer
\* than all of it, and silver is the newest of bronze until the run ends.
Passado ==
    /\ \A x \in bronze \cup prata \cup ouro : x.ts <= relogio
    /\ \A x \in bronze \cup prata : Alcanca(x, ouro) \/ \A g \in ouro : g.ts < x.ts
    /\ \A k \in Lados : Rodando(Landing(k)) => \A g \in ouro : g.ts < ts[k]
    /\ ti["prata"] = "success" => \A x \in bronze : Alcanca(x, prata)
    /\ ti["ouro"] = "success" => \A x \in prata : Alcanca(x, ouro)

\* No landing runs once silver has been built, nor silver once the fact has.
LEMMA DbtDepois ==
    ASSUME Forma
    PROVE  /\ ti["prata"] \in Vivos =>
                \A k \in Lados : ~Pronta(Landing(k)) /\ ~Rodando(Landing(k))
           /\ ti["ouro"] \in Vivos \/ Pronta("ouro") => ti["prata"] = "success"
<1>1. /\ EstadosAcima("ouro") = {ti["prata"]} /\ EstadosAcima("prata") = {ti["join_landing"]}
      /\ EstadosAcima("join_landing") = {ti["landing_semanal"], ti["landing_mensal"]}
  BY DEF EstadosAcima, Acima
<1>2. \A t \in Tarefas : ti[t] \in Vivos => DepsOk(t)
  BY DEF Forma, Ordem
<1>3. {"prata", "ouro", "join_landing"} \subseteq Tarefas
  BY DEF Tarefas
<1>4. ti["ouro"] \in Vivos \/ Pronta("ouro") => ti["prata"] = "success"
  BY <1>1, <1>2, <1>3 DEF DepsOk, Pronta
<1>5. ti["prata"] \in Vivos => ti["join_landing"] = "success"
  BY <1>1, <1>2, <1>3 DEF DepsOk
<1>6. ti["join_landing"] = "success" =>
        {ti["landing_semanal"], ti["landing_mensal"]} \subseteq {"success", "skipped"}
  BY <1>1, <1>2, <1>3 DEF DepsOk, Vivos
<1>7. QED
  BY <1>4, <1>5, <1>6 DEF Landing, Pronta, Rodando

LEMMA TempoTipo ==
    ASSUME Forma
    PROVE  /\ \A x \in bronze \cup prata \cup ouro : x.ts \in Nat
           /\ relogio \in Nat /\ \A k \in Lados : ts[k] \in 0..relogio
BY DEF Forma, TipoTabelas, TipoLanding, Linha

\* ROW_NUMBER() = 1 keeps, for every row, one at least as new of its key.
LEMMA VigentesAlcancam ==
    ASSUME Forma, Passado, NEW x \in bronze
    PROVE  Alcanca(x, Vigentes(bronze))
<1> DEFINE B == {y \in bronze : y.chave = x.chave}
           S == {y.ts : y \in B}
<1>1. relogio \in Nat /\ S \subseteq 0..relogio
  BY TempoTipo DEF Passado
<1>2. x.ts \in S
  OBVIOUS
<1>3. MaxDe(S) \in S /\ \A n \in S : n <= MaxDe(S)
  BY <1>1, <1>2, MaxDeLimita
<1>4. PICK y \in B : y.ts = MaxDe(S)
  BY <1>3
<1>5. \A z \in B : z.ts <= y.ts
  BY <1>3, <1>4
<1>6. y \in Vigentes(bronze)
  BY <1>5 DEF Vigentes
<1>7. y.ts >= x.ts
  BY <1>5, TempoTipo
<1>8. QED
  BY <1>6, <1>7 DEF Alcanca

LEMMA PassadoInicial == Init => Passado
<1> SUFFICES ASSUME Init PROVE Passado
  OBVIOUS
<1>1. ti["prata"] = "none" /\ ti["ouro"] = "none"
  BY DEF Init, Tarefas
<1>2. QED
  BY <1>1 DEF Init, Passado

\* Steps that touch neither the tables nor the landings.
LEMMA PassadoFica ==
    ASSUME Passado, UNCHANGED <<bronze, prata, ouro, ts, relogio>>,
           ti'["prata"] = "success" => ti["prata"] = "success",
           ti'["ouro"] = "success" => ti["ouro"] = "success",
           \A k \in Lados : Rodando(Landing(k))' => Rodando(Landing(k))
    PROVE  Passado'
BY DEF Passado, Alcanca

LEMMA PassadoLanding ==
    ASSUME Forma, Forma', Passado, NEW k \in Lados, PassoLanding(k)
    PROVE  Passado'
<1> DEFINE t == Landing(k)
<1> USE DEF LandingUnchanged, FimAttempt
<1>1. UNCHANGED <<prata, ouro>>
  BY DEF PassoLanding, ListarPendentes, FimLanding, MorreLanding, CarregarArquivo, CarregarFalha,
         dbtVars
<1>2. ti \in [Tarefas -> Estados] /\ t \in Tarefas /\ t \notin {"prata", "ouro"}
      /\ \A l \in Lados : Landing(l) \in Tarefas /\ (l # k => Landing(l) # t)
  BY DEF Forma, Ordem, Tarefas, Landing, Lados
<1>3. UNCHANGED ti \/ \E s : Marca(t, s)
  BY DEF PassoLanding, ListarPendentes, FimLanding, MorreLanding, CarregarArquivo, CarregarFalha,
         Inicia, Falhou
<1>4. ti'["prata"] # "success" /\ ti'["ouro"] # "success"
  <2>1. Pronta(t) \/ Rodando(t)
    BY DEF PassoLanding, ListarPendentes, FimLanding, MorreLanding, CarregarArquivo, CarregarFalha
  <2>2. ti["prata"] # "success" /\ ti["ouro"] # "success"
    BY <2>1, DbtDepois DEF Vivos
  <2>3. QED
    BY <1>2, <1>3, <2>2 DEF Marca, Tarefas
<1>5. \A l \in Lados : l # k => (Rodando(Landing(l))' => Rodando(Landing(l)))
  BY <1>2, <1>3 DEF Marca, Rodando
<1>6. \A x \in bronze' : x \in bronze \/ (Rodando(t) /\ x.ts = ts[k])
  <2>1. UNCHANGED bronze \/ (Rodando(t) /\ \E f \in fila[k] : MeiaCarga(k, f))
    BY DEF PassoLanding, ListarPendentes, FimLanding, MorreLanding, CarregarArquivo, CarregarFalha,
           MeiaCarga
  <2>2. QED
    BY <2>1, CargaEfeito, LinhasDaCarga
<1>7. relogio \in Nat /\ ts \in [Lados -> 0..relogio] /\ relogio' \in Nat
  BY DEF Forma, TipoLanding
<1>8. /\ relogio' >= relogio
      /\ \A l \in Lados : Rodando(Landing(l))' => \A g \in ouro' : g.ts < ts'[l]
  <2>1. CASE ListarPendentes(k) /\ ArquivosPendentes(k) # {}
    <3>1. relogio' = relogio + 1 /\ ts' = [ts EXCEPT ![k] = relogio + 1]
      BY <2>1 DEF ListarPendentes
    <3>2. \A g \in ouro : g.ts < relogio + 1
      BY <1>7, TempoTipo DEF Passado
    <3>3. QED
      BY <1>1, <1>5, <1>7, <3>1, <3>2 DEF Passado
  <2>2. CASE ListarPendentes(k) /\ ArquivosPendentes(k) = {}
    <3>1. ~Rodando(t)' /\ UNCHANGED <<relogio, ts>>
      BY <1>2, <2>2 DEF ListarPendentes, Marca, Rodando, landingVars
    <3>2. QED
      BY <1>1, <1>5, <1>7, <3>1 DEF Passado
  <2>3. CASE \E f \in Fontes(k) : CarregarArquivo(k, f) \/ CarregarFalha(k, f)
    BY <1>1, <1>7, <2>3 DEF CarregarArquivo, CarregarFalha, Passado, Rodando
  <2>4. CASE FimLanding(k) \/ MorreLanding(k)
    <3>1. UNCHANGED relogio /\ ts' = [ts EXCEPT ![k] = 0]
      BY <2>4 DEF FimLanding, MorreLanding
    <3>2. Falhou(t) \/ Marca(t, "success")
      BY <2>4 DEF FimLanding, MorreLanding
    <3>3. ~Rodando(t)'
      BY <1>2, <3>2 DEF Falhou, Marca, Rodando
    <3>4. QED
      BY <1>1, <1>5, <1>7, <3>1, <3>3 DEF Passado
  <2>5. QED
    BY <2>1, <2>2, <2>3, <2>4 DEF PassoLanding
<1>9. \A x \in bronze' \cup prata' \cup ouro' : x.ts <= relogio'
  BY <1>1, <1>6, <1>7, <1>8, TempoTipo DEF Passado
<1>10. \A x \in bronze' \cup prata' : Alcanca(x, ouro') \/ \A g \in ouro' : g.ts < x.ts
  <2>1. \A x \in bronze \cup prata : Alcanca(x, ouro) \/ \A g \in ouro : g.ts < x.ts
    BY DEF Passado
  <2>2. Rodando(t) => \A g \in ouro : g.ts < ts[k]
    BY DEF Passado
  <2>3. QED
    BY <1>1, <1>6, <2>1, <2>2
<1>11. QED
  BY <1>4, <1>8, <1>9, <1>10 DEF Passado, Alcanca

LEMMA PassadoPrata ==
    ASSUME Forma, Forma', Passado, RodarPrata
    PROVE  Passado'
<1>1. UNCHANGED <<bronze, ouro, ts, relogio>> /\ prata' = Vigentes(bronze)
  BY DEF RodarPrata, DbtUnchanged, landingVars
<1>2. \E s : Marca("prata", s)
  BY DEF RodarPrata, Termina, Falhou
<1>3. ti["ouro"] # "success"
  BY DbtDepois DEF RodarPrata, Pronta, Vivos
<1>4. ti'["ouro"] # "success" /\ \A k \in Lados : Rodando(Landing(k))' => Rodando(Landing(k))
  BY <1>2, <1>3 DEF Marca, Rodando, Landing, Forma, Ordem, Tarefas
<1>5. Vigentes(bronze) \subseteq bronze
  BY DEF Vigentes
<1>6. \A x \in bronze : Alcanca(x, Vigentes(bronze))
  BY VigentesAlcancam
<1>7. \A x \in bronze' : Alcanca(x, prata)'
  BY <1>1, <1>6 DEF Alcanca
<1>8. QED
  BY <1>1, <1>4, <1>5, <1>7 DEF Passado, Alcanca

\* The delete+insert of the fact loses no key and goes back on none.
LEMMA OuroAlcanca ==
    ASSUME Forma, Passado, RodarOuro
    PROVE  /\ \A z : Alcanca(z, ouro) /\ z.ts \in Nat => Alcanca(z, ouro')
           /\ \A x \in prata : Alcanca(x, ouro')
<1> DEFINE S == {g.ts : g \in ouro}
<1>1. relogio \in Nat /\ S \subseteq 0..relogio
  BY TempoTipo DEF Passado
<1>2. ouro' = {g \in ouro : \A x \in Novas : x.chave # g.chave} \cup Novas
  BY DEF RodarOuro
<1>3. Novas = {x \in prata : x.ts >= MaxDe(S)}
  BY DEF Novas
<1> DEFINE M == MaxDe(S)
<1>4. M \in Nat /\ (\A g \in ouro : g.ts <= M) /\ (ouro # {} => \E g \in ouro : g.ts = M)
      /\ (ouro = {} => M = 0)
  <2>1. (ouro # {} => S # {}) /\ (ouro = {} => S = {})
    OBVIOUS
  <2>2. S = {} => M = 0
    BY DEF MaxDe
  <2>3. (\A g \in ouro : g.ts \in S) /\ \A n \in S : \E g \in ouro : g.ts = n
    OBVIOUS
  <2> HIDE DEF S
  <2>4. M \in 0..relogio /\ (S # {} => M \in S) /\ \A n \in S : n <= M
    BY <1>1, MaxDeLimita
  <2> HIDE DEF M
  <2>5. M \in Nat /\ \A g \in ouro : g.ts <= M
    <3>1. M \in Nat
      BY <1>1, <2>4
    <3>2. \A g \in ouro : g.ts <= M
      BY <2>3, <2>4, Zenon
    <3>3. QED
      BY <3>1, <3>2
  <2>6. ouro # {} => \E g \in ouro : g.ts = M
    BY <2>1, <2>3, <2>4
  <2>7. QED
    BY <2>1, <2>2, <2>5, <2>6
<1>5. \A x \in Novas : x \in prata /\ x.ts >= M
  BY <1>3
<1>6. \A x \in prata : x \in Novas \/ ~(x.ts >= M)
  BY <1>3
<1> HIDE DEF M, S
<1>7. \A x \in bronze \cup prata \cup ouro : x.ts \in Nat
  BY TempoTipo
<1>8. ASSUME NEW z, Alcanca(z, ouro), z.ts \in Nat PROVE Alcanca(z, ouro')
  <2>1. PICK g \in ouro : g.chave = z.chave /\ g.ts >= z.ts
    BY <1>8 DEF Alcanca
  <2>2. CASE g \in ouro'
    BY <2>1, <2>2 DEF Alcanca
  <2>3. CASE g \notin ouro'
    <3>1. PICK x \in Novas : x.chave = g.chave
      BY <1>2, <2>3
    <3>2. x.ts >= M /\ g.ts <= M /\ x.ts \in Nat /\ g.ts \in Nat
      BY <1>4, <1>5, <1>7
    <3>3. x.ts >= z.ts /\ x \in ouro'
      BY <1>2, <1>4, <1>8, <2>1, <3>2
    <3>4. QED
      BY <2>1, <3>1, <3>3 DEF Alcanca
  <2>4. QED
    BY <2>2, <2>3
<1>9. ASSUME NEW x \in prata PROVE Alcanca(x, ouro')
  <2>0. x.ts \in Nat
    BY <1>7
  <2>1. CASE x \in Novas
    BY <1>2, <2>0, <2>1 DEF Alcanca
  <2>2. CASE ~(x.ts >= M)
    <3>1. PICK g \in ouro : g.ts = M
      BY <1>4, <2>0, <2>2
    <3>2. ~(g.ts < x.ts)
      BY <1>4, <2>0, <2>2, <3>1
    <3>3. Alcanca(x, ouro)
      BY <3>2 DEF Passado
    <3>4. QED
      BY <1>8, <2>0, <3>3
  <2>3. QED
    BY <1>6, <2>1, <2>2
<1>10. QED
  BY <1>8, <1>9

LEMMA PassadoOuro ==
    ASSUME Forma, Forma', Passado, RodarOuro
    PROVE  Passado'
<1>1. UNCHANGED <<bronze, prata, ts, relogio>>
  BY DEF RodarOuro, DbtUnchanged, landingVars
<1>2. \E s : Marca("ouro", s)
  BY DEF RodarOuro, Termina, Falhou
<1>3. ti["prata"] = "success" /\ \A k \in Lados : ~Rodando(Landing(k))
  BY DbtDepois DEF RodarOuro, Vivos
<1>4. ti'["prata"] = "success" /\ \A k \in Lados : ~Rodando(Landing(k))'
  BY <1>2, <1>3 DEF Marca, Rodando, Landing, Forma, Ordem, Tarefas
<1>5. ouro' \subseteq ouro \cup prata
  BY DEF RodarOuro, Novas
<1>6. \A x \in prata : Alcanca(x, ouro')
  BY OuroAlcanca
<1>7. ASSUME NEW x \in bronze PROVE Alcanca(x, ouro') /\ Alcanca(x, prata)
  <2>1. PICK y \in prata : y.chave = x.chave /\ y.ts >= x.ts
    BY <1>3 DEF Passado, Alcanca
  <2>2. PICK z \in ouro' : z.chave = y.chave /\ z.ts >= y.ts
    BY <1>6 DEF Alcanca
  <2>3. x.ts \in Nat /\ y.ts \in Nat /\ z.ts \in Nat
    BY <1>5, TempoTipo
  <2>4. QED
    BY <2>1, <2>2, <2>3 DEF Alcanca
<1>8. \A x \in bronze' \cup prata' \cup ouro' : x.ts <= relogio'
  BY <1>1, <1>5 DEF Passado
<1>9. /\ \A x \in bronze' \cup prata' : Alcanca(x, ouro)'
      /\ \A x \in bronze' : Alcanca(x, prata)'
  BY <1>1, <1>6, <1>7 DEF Alcanca
<1>10. QED
  BY <1>4, <1>8, <1>9 DEF Passado

LEMMA PassadoPasso ==
    ASSUME Forma, Passado, [Next]_vars
    PROVE  Passado'
<1>1. Forma' /\ ti \in [Tarefas -> Estados]
      /\ {"prata", "ouro", "landing_semanal", "landing_mensal"} \subseteq Tarefas
      /\ \A k \in Lados : Landing(k) \in {"landing_semanal", "landing_mensal"}
  BY FormaPasso DEF Forma, Ordem, Tarefas, Landing
<1>2. CASE Anp \/ UNCHANGED vars
  <2>1. UNCHANGED <<bronze, prata, ouro, ts, relogio, ti>>
    BY <1>2 DEF Anp, PublicaSemana, PublicaMes, vars, dbtVars, landingVars
  <2>2. QED
    BY <2>1, PassadoFica DEF Rodando
<1>3. CASE ScrapSemanal \/ ScrapMensal
  <2>1. UNCHANGED <<bronze, prata, ouro, ts, relogio>>
    BY <1>3 DEF ScrapSemanal, LerSite, RegistraSemanal, MorreScrapSemanal, BaixaSemanal,
       BaixaSemanalFalha, SemanalUnchanged, FimScrapSemanal, ScrapMensal, LerPortal, FimScrapMensal,
       MorreScrapMensal, BaixaMensal, BaixaMensalFalha, MensalUnchanged, dbtVars, landingVars
  <2>2. UNCHANGED ti \/ \E s : Marca("scrap_semanal", s) \/ Marca("scrap_mensal", s)
    BY <1>3 DEF ScrapSemanal, LerSite, RegistraSemanal, MorreScrapSemanal, BaixaSemanal,
       BaixaSemanalFalha, ScrapMensal, LerPortal, FimScrapMensal, MorreScrapMensal, BaixaMensal,
       BaixaMensalFalha, Inicia, Falhou
  <2>3. \A t \in {"prata", "ouro", "landing_semanal", "landing_mensal"} : ti'[t] = ti[t]
    BY <1>1, <2>2 DEF Marca
  <2>4. QED
    BY <1>1, <2>1, <2>3, PassadoFica DEF Rodando
<1>4. CASE LandingAnp
  <2>1. PICK k \in Lados : PassoLanding(k)
    BY <1>4 DEF LandingAnp, PassoLanding
  <2>2. QED
    BY <1>1, <2>1, PassadoLanding
<1>5. CASE Scheduler \/ JoinLanding \/ \E t \in {"prata", "ouro"} : FalhaDbt(t)
  <2>1. UNCHANGED <<bronze, prata, ouro, ts, relogio>>
    BY <1>5 DEF Scheduler, AbrirRun, FimRun, Propagar, JoinLanding, FalhaDbt, DbtUnchanged, dbtVars,
       landingVars
  <2>2. \/ ti' = [t \in Tarefas |-> "none"]
        \/ UNCHANGED ti
        \/ Marca("join_landing", "success")
        \/ \E t \in Tarefas : \E s \in {"up_for_retry", "failed", "upstream_failed", "skipped"} : Marca(t, s)
    BY <1>1, <1>5 DEF Scheduler, AbrirRun, FimRun, Propagar, JoinLanding, FalhaDbt, Falhou
  <2>3. \A t \in {"prata", "ouro", "landing_semanal", "landing_mensal"} :
          ti'[t] = ti[t] \/ ti'[t] \in {"none", "up_for_retry", "failed", "upstream_failed", "skipped"}
    BY <1>1, <2>2 DEF Marca
  <2>4. QED
    BY <1>1, <2>1, <2>3, PassadoFica DEF Rodando
<1>6. QED
  BY <1>1, <1>2, <1>3, <1>4, <1>5, PassadoPrata, PassadoOuro DEF Next, Sistema, Dbt

LEMMA PassadoFiel ==
    ASSUME Forma, Passado, Passado', [Next]_vars
    PROVE  OuroAlcancaPrata' /\ FatoNaoRegride
<1>1. OuroAlcancaPrata'
  BY DEF Passado, Alcanca, OuroAlcancaPrata
<1>2. \A g \in ouro : g.ts \in Nat
  BY TempoTipo
<1>3. CASE UNCHANGED ouro
  BY <1>1, <1>2, <1>3 DEF FatoNaoRegride
<1>4. CASE RodarOuro
  <2>1. \A g \in ouro : Alcanca(g, ouro)
    BY <1>2 DEF Alcanca
  <2>2. \A g \in ouro : Alcanca(g, ouro')
    BY <1>2, <1>4, <2>1, OuroAlcanca
  <2>3. QED
    BY <1>1, <2>2 DEF Alcanca, FatoNaoRegride
<1>5. UNCHANGED ouro \/ RodarOuro
  <2>1. CASE Anp \/ Scheduler \/ UNCHANGED vars
    BY <2>1 DEF Anp, PublicaSemana, PublicaMes, vars, Scheduler, AbrirRun, FimRun, Propagar, dbtVars
  <2>2. CASE ScrapSemanal \/ ScrapMensal
    BY <2>2 DEF ScrapSemanal, LerSite, RegistraSemanal, MorreScrapSemanal, BaixaSemanal,
       BaixaSemanalFalha, SemanalUnchanged, FimScrapSemanal, ScrapMensal, LerPortal, FimScrapMensal,
       MorreScrapMensal, BaixaMensal, BaixaMensalFalha, MensalUnchanged, dbtVars
  <2>3. CASE LandingAnp
    BY <2>3 DEF LandingAnp, ListarPendentes, FimLanding, MorreLanding, CarregarArquivo, CarregarFalha,
       FimAttempt, LandingUnchanged, dbtVars
  <2>4. CASE Dbt
    BY <2>4 DEF Dbt, JoinLanding, RodarPrata, FalhaDbt, dbtVars
  <2>5. QED
    BY <2>1, <2>2, <2>3, <2>4 DEF Next, Sistema
<1>6. QED
  BY <1>1, <1>3, <1>4, <1>5

\* The watermark of ft_anp_combustiveis skips no row of silver, however late
\* it arrives, and never puts back a row older than the one it has.
THEOREM OuroSempreFiel == Spec => OuroFiel
<1>1. Init => Forma /\ Passado
  BY FormaInicial, PassadoInicial
<1>2. Forma /\ Passado /\ [Next]_vars => Forma' /\ Passado'
  BY FormaPasso, PassadoPasso
<1>3. Forma /\ Passado /\ Passado' /\ [Next]_vars => [OuroAlcancaPrata' /\ FatoNaoRegride]_vars
  BY PassadoFiel
<1>4. QED
  BY <1>1, <1>2, <1>3, PTL DEF Spec, OuroFiel

=============================================================================
