--------------------- MODULE LegislacaoAvaliacao_proofs ---------------------
(***************************************************************************)
(* A weekly run that ends green with nothing changed under it has served   *)
(* the law that is published, and a skipped generation has a report behind *)
(* it, for every law, every label set, every LLM and every reply, and for  *)
(* any number of changes, kills and runs by hand.  The metrics measured on *)
(* the way are shares of their groups, and what the contract lets through  *)
(* with mode = all can be solved.                                          *)
(***************************************************************************)
EXTENDS LegislacaoAvaliacao, FiniteSetTheorems, WellFoundedInduction, TLAPS

\* The tasks, the processes of lc06, and which of them are under way.
Estados == {"none", "rodando"} \cup Terminais
Gerando == \E p \in Procs : ger[p].fase = "gera"

Quadro ==
    /\ ti \in [Tarefas -> Estados]
    /\ \A t \in Tarefas \ {"gera"} : ti[t] \in {"none", "ok"} \cup Falhados
    /\ ~ativo => \A t \in Tarefas : ti[t] = "none"
    /\ ger = [p \in Procs |-> ger[p]]
    /\ \A p \in Procs : ger[p].fase \in {"livre", "gera"}
    /\ \A p \in Procs : ger[p].fase = "livre" => ger[p] = Livre
    /\ ger["dag"].fase = "gera" <=> ti["gera"] = "rodando"

\* What each task that succeeded in the run under way has left, as long as
\* nothing changed since the run opened.
Feito(t) == ti[t] = "ok"

Coerente ==
    (ativo /\ intacto) =>
        /\ Feito("dados") => atual = pdf
        /\ Feito("carga") => Feito("dados") /\ tab = atual
        /\ Feito("vetores") => Feito("dados") /\ loja = atual
        /\ Feito("contrato") => Feito("dados") /\ Contratos[atual][rotulo]
        /\ Feito("aval") =>
              /\ Feito("carga") /\ Feito("vetores") /\ Feito("contrato")
              /\ baseBusca.medida /\ Gate(Medidas[tab][loja][rotulo], baseBusca.m)
        /\ ti["gera"] \notin {"none"} \cup Falhados => Feito("aval")

IInv == Quadro /\ Coerente /\ VerdeCoerente

LEMMA Inicio == Init => IInv
<1> SUFFICES ASSUME Init PROVE IInv
  OBVIOUS
<1>1. /\ ~ativo /\ ultimo = "nenhum"
      /\ ti = [t \in Tarefas |-> "none"] /\ ger = [p \in Procs |-> Livre]
  BY DEF Init
<1>2. Quadro
  BY <1>1 DEF Quadro, Livre, Procs, Tarefas, Estados
<1>3. QED
  BY <1>1, <1>2 DEF IInv, Coerente, VerdeCoerente

LEMMA AbrirPasso ==
    ASSUME IInv, NEW f \in BOOLEAN, AbrirRun(f)
    PROVE  IInv'
<1>1. /\ ativo' = TRUE /\ ~ativo
      /\ UNCHANGED <<ti, ger>>
  BY DEF AbrirRun
<1>2. \A t \in Tarefas : ti'[t] = "none"
  BY <1>1 DEF IInv, Quadro
<1>3. Quadro'
  BY <1>1 DEF IInv, Quadro
<1>4. Coerente'
  BY <1>2 DEF Coerente, Feito, Tarefas
<1>5. VerdeCoerente'
  BY <1>1 DEF VerdeCoerente
<1>6. QED
  BY <1>3, <1>4, <1>5 DEF IInv

\* A task other than gera is marked: the board stays one.
LEMMA MarcaQuadro ==
    ASSUME Quadro, ativo, NEW t \in Tarefas \ {"gera"}, NEW s \in {"ok"} \cup Falhados,
           Marca(t, s), UNCHANGED <<ativo, ger>>
    PROVE  /\ Quadro' /\ ti'[t] = s
           /\ \A u \in Tarefas \ {t} : ti'[u] = ti[u]
<1>1. /\ ti'[t] = s /\ \A u \in Tarefas \ {t} : ti'[u] = ti[u]
      /\ ti' \in [Tarefas -> Estados]
  BY DEF Quadro, Marca, Estados, Terminais
<1>2. QED
  BY <1>1 DEF Quadro, Tarefas

\* What the trigger rule says of the tasks before the one that starts.
LEMMA DepsFeitas ==
    ASSUME Quadro, NEW t \in Tarefas, DepsOk(t)
    PROVE  \A u \in Antes[t] \cap Tarefas : u # "gera" => Feito(u)
  BY DEF Quadro, DepsOk, Terminais, Falhados, Feito

LEMMA DadosPasso ==
    ASSUME IInv, RodarDados
    PROVE  IInv'
<1>1. /\ ativo /\ ti["dados"] = "none"
      /\ UNCHANGED <<pdf, rotulo, baseBusca, tab, loja, ativo, ultimo, intacto, ger>>
  BY DEF RodarDados, Pronta, mundo, bases, dag
<1>2. PICK s \in {"ok", "falhou"} : Marca("dados", s) /\ (s = "ok" => atual' = pdf)
  BY DEF RodarDados, Extraida
<1>3. /\ Quadro' /\ ti'["dados"] = s
      /\ \A u \in Tarefas \ {"dados"} : ti'[u] = ti[u]
  BY <1>1, <1>2, MarcaQuadro DEF IInv, Tarefas, Falhados
<1>4. Coerente'
  BY <1>1, <1>2, <1>3 DEF IInv, Coerente, Feito, Tarefas
<1>5. VerdeCoerente'
  BY <1>1 DEF VerdeCoerente
<1>6. QED
  BY <1>3, <1>4, <1>5 DEF IInv

LEMMA CargaPasso ==
    ASSUME IInv, RodarCarga
    PROVE  IInv'
<1>1. /\ ativo /\ ti["carga"] = "none" /\ DepsOk("carga")
      /\ UNCHANGED <<pdf, rotulo, baseBusca, atual, loja, ativo, ultimo, intacto, ger>>
  BY DEF RodarCarga, Pronta, mundo, bases, dag
<1>2. PICK s \in {"ok", "falhou"} : Marca("carga", s) /\ (s = "ok" => tab' = atual)
  BY DEF RodarCarga
<1>3. /\ Quadro' /\ ti'["carga"] = s
      /\ \A u \in Tarefas \ {"carga"} : ti'[u] = ti[u]
  BY <1>1, <1>2, MarcaQuadro DEF IInv, Tarefas, Falhados
<1>4. Feito("dados")
  BY <1>1, DepsFeitas DEF IInv, Tarefas, Antes
<1>5. Coerente'
  BY <1>1, <1>2, <1>3, <1>4 DEF IInv, Coerente, Feito, Tarefas
<1>6. VerdeCoerente'
  BY <1>1 DEF VerdeCoerente
<1>7. QED
  BY <1>3, <1>5, <1>6 DEF IInv

LEMMA VetoresPasso ==
    ASSUME IInv, RodarVetores
    PROVE  IInv'
<1>1. /\ ativo /\ ti["vetores"] = "none" /\ DepsOk("vetores")
      /\ UNCHANGED <<pdf, rotulo, baseBusca, atual, tab, ativo, ultimo, intacto, ger>>
  BY DEF RodarVetores, Pronta, mundo, bases, dag
<1>2. PICK s \in {"ok", "falhou"} : Marca("vetores", s) /\ (s = "ok" => loja' = atual)
  BY DEF RodarVetores
<1>3. /\ Quadro' /\ ti'["vetores"] = s
      /\ \A u \in Tarefas \ {"vetores"} : ti'[u] = ti[u]
  BY <1>1, <1>2, MarcaQuadro DEF IInv, Tarefas, Falhados
<1>4. Feito("dados")
  BY <1>1, DepsFeitas DEF IInv, Tarefas, Antes
<1>5. Coerente'
  BY <1>1, <1>2, <1>3, <1>4 DEF IInv, Coerente, Feito, Tarefas
<1>6. VerdeCoerente'
  BY <1>1 DEF VerdeCoerente
<1>7. QED
  BY <1>3, <1>5, <1>6 DEF IInv

LEMMA ContratoPasso ==
    ASSUME IInv, RodarContrato
    PROVE  IInv'
<1>1. /\ ativo /\ ti["contrato"] = "none" /\ DepsOk("contrato")
      /\ UNCHANGED <<pdf, rotulo, baseBusca, atual, tab, loja, ativo, ultimo, intacto, ger>>
  BY DEF RodarContrato, Pronta, mundo, bases, dados, dag
<1>2. PICK s \in {"ok", "falhou"} : Marca("contrato", s) /\ (s = "ok" => Contratos[atual][rotulo])
  BY DEF RodarContrato
<1>3. /\ Quadro' /\ ti'["contrato"] = s
      /\ \A u \in Tarefas \ {"contrato"} : ti'[u] = ti[u]
  BY <1>1, <1>2, MarcaQuadro DEF IInv, Tarefas, Falhados
<1>4. Feito("dados")
  BY <1>1, DepsFeitas DEF IInv, Tarefas, Antes
<1>5. Coerente'
  BY <1>1, <1>2, <1>3, <1>4 DEF IInv, Coerente, Feito, Tarefas
<1>6. VerdeCoerente'
  BY <1>1 DEF VerdeCoerente
<1>7. QED
  BY <1>3, <1>5, <1>6 DEF IInv

LEMMA AvalPasso ==
    ASSUME IInv, RodarAval
    PROVE  IInv'
<1>1. /\ ativo /\ ti["aval"] = "none" /\ DepsOk("aval")
      /\ UNCHANGED <<pdf, rotulo, baseBusca, atual, tab, loja, ativo, ultimo, intacto, ger>>
  BY DEF RodarAval, Pronta, mundo, bases, dados, dag
<1>2. PICK s \in {"ok", "falhou"} :
        /\ Marca("aval", s)
        /\ s = "ok" => baseBusca.medida /\ Gate(Medidas[tab][loja][rotulo], baseBusca.m)
  BY DEF RodarAval
<1>3. /\ Quadro' /\ ti'["aval"] = s
      /\ \A u \in Tarefas \ {"aval"} : ti'[u] = ti[u]
  BY <1>1, <1>2, MarcaQuadro DEF IInv, Tarefas, Falhados
<1>4. Feito("carga") /\ Feito("vetores") /\ Feito("contrato")
  BY <1>1, DepsFeitas DEF IInv, Tarefas, Antes
<1>5. Coerente'
  BY <1>1, <1>2, <1>3, <1>4 DEF IInv, Coerente, Feito, Tarefas
<1>6. VerdeCoerente'
  BY <1>1 DEF VerdeCoerente
<1>7. QED
  BY <1>3, <1>5, <1>6 DEF IInv

LEMMA PropagarPasso ==
    ASSUME IInv, NEW t \in Tarefas, Propagar(t)
    PROVE  IInv'
<1>1. /\ ativo /\ ti[t] = "none" /\ Marca(t, "acima")
      /\ UNCHANGED <<pdf, rotulo, baseBusca, atual, tab, loja, ativo, ultimo, intacto, ger>>
  BY DEF Propagar, mundo, bases, dados, dag
<1>2. /\ ti'[t] = "acima" /\ \A u \in Tarefas \ {t} : ti'[u] = ti[u]
      /\ ti' \in [Tarefas -> Estados]
  BY <1>1 DEF IInv, Quadro, Marca, Estados, Terminais, Falhados
<1>3. Quadro'
  BY <1>1, <1>2 DEF IInv, Quadro, Tarefas, Falhados
<1>4. Coerente'
  BY <1>1, <1>2 DEF IInv, Coerente, Feito, Tarefas, Falhados
<1>5. VerdeCoerente'
  BY <1>1 DEF VerdeCoerente
<1>6. QED
  BY <1>3, <1>4, <1>5 DEF IInv

\* The leaf is green only below an evaluation that succeeded, and that only
\* below the contract and both projections.
LEMMA FimPasso ==
    ASSUME IInv, FimRun
    PROVE  IInv'
<1>1. /\ ativo /\ ~ativo' /\ ti' = [t \in Tarefas |-> "none"]
      /\ ultimo' = IF ti["gera"] \in Falhados THEN "vermelha" ELSE "verde"
      /\ \A t \in Tarefas : ti[t] \in Terminais
      /\ UNCHANGED <<pdf, rotulo, baseBusca, atual, tab, loja, intacto, ger>>
  BY DEF FimRun, mundo, bases, dados
<1>2. ti["gera"] \in Terminais
  BY <1>1 DEF Tarefas
<1>3. Quadro'
  BY <1>1, <1>2 DEF IInv, Quadro, Tarefas, Estados, Terminais, Falhados
<1>4. ASSUME ultimo' = "verde", intacto PROVE VerdeCoerente'
  <2>1. ti["gera"] \notin {"none"} \cup Falhados
    BY <1>1, <1>2, <1>4 DEF Terminais, Falhados
  <2>2. /\ tab = pdf /\ loja = pdf /\ atual = pdf /\ Contratos[pdf][rotulo]
        /\ baseBusca.medida /\ Gate(Medidas[pdf][pdf][rotulo], baseBusca.m)
    BY <1>1, <1>4, <2>1 DEF IInv, Coerente
  <2>3. QED
    BY <1>1, <2>2 DEF VerdeCoerente
<1>5. VerdeCoerente'
  BY <1>1, <1>4 DEF VerdeCoerente
<1>6. QED
  BY <1>1, <1>3, <1>5 DEF IInv, Coerente

-----------------------------------------------------------------------------
(* The generation. *)

\* A step of lc06 moves no task but the leaf, which runs only below an
\* evaluation that succeeded.
LEMMA FolhaPasso ==
    ASSUME IInv, Quadro', \A u \in Tarefas \ {"gera"} : ti'[u] = ti[u],
           UNCHANGED <<ativo, ultimo, atual, tab, loja, pdf, rotulo, baseBusca, intacto>>,
           \/ ti'["gera"] = ti["gera"]
           \/ ativo /\ (intacto => Feito("aval"))
    PROVE  IInv'
<1>1. Coerente'
  BY DEF IInv, Coerente, Feito, Tarefas
<1>2. VerdeCoerente'
  BY DEF IInv, VerdeCoerente
<1>3. QED
  BY <1>1, <1>2 DEF IInv

\* A process of lc06 ends.
LEMMA SaiQuadro ==
    ASSUME Quadro, NEW p \in Procs, NEW s \in Terminais, Sai(p, s), UNCHANGED ativo,
           p = "dag" => ativo
    PROVE  /\ Quadro' /\ ger'[p] = Livre /\ \A q \in Procs \ {p} : ger'[q] = ger[q]
           /\ \A u \in Tarefas \ {"gera"} : ti'[u] = ti[u]
           /\ p = "mao" => ti' = ti
<1>1. /\ ger'[p] = Livre /\ \A q \in Procs \ {p} : ger'[q] = ger[q]
      /\ ger' = [q \in Procs |-> ger'[q]]
  BY DEF Quadro, Sai
<1>2. CASE p = "mao"
  <2>1. ti' = ti
    BY <1>2 DEF Sai
  <2>2. QED
    BY <1>1, <1>2, <2>1 DEF Quadro, Livre, Procs
<1>3. CASE p = "dag"
  <2>1. /\ ti'["gera"] = s /\ \A u \in Tarefas \ {"gera"} : ti'[u] = ti[u]
        /\ ti' \in [Tarefas -> Estados] /\ s # "rodando"
    BY <1>3 DEF Quadro, Sai, Marca, Estados, Terminais, Falhados, Tarefas
  <2>2. QED
    BY <1>1, <1>3, <2>1 DEF Quadro, Livre, Procs
<1>4. QED
  BY <1>2, <1>3 DEF Procs

\* A process of lc06 that is under way ends, whatever it leaves.
LEMMA SaiPasso ==
    ASSUME IInv, NEW p \in Procs, ger[p].fase = "gera", NEW s \in Terminais, Sai(p, s),
           UNCHANGED <<ativo, ultimo, atual, tab, loja, pdf, rotulo, baseBusca, intacto>>
    PROVE  IInv'
<1>1. p = "dag" => ativo /\ ti["gera"] = "rodando"
  BY DEF IInv, Quadro, Tarefas
<1>2. /\ Quadro' /\ \A u \in Tarefas \ {"gera"} : ti'[u] = ti[u]
      /\ p = "mao" => ti' = ti
  BY <1>1, SaiQuadro DEF IInv
<1>3. p = "dag" => ativo /\ (intacto => Feito("aval"))
  BY <1>1 DEF IInv, Coerente, Falhados
<1>4. QED
  BY <1>2, <1>3, FolhaPasso DEF Procs

\* A process of lc06 starts, or ends before its first phrasing.
LEMMA ComecaPasso ==
    ASSUME IInv, NEW p \in Procs, NEW modo, ComecaGera(p, modo),
           p = "dag" => ativo /\ (intacto => Feito("aval")),
           UNCHANGED <<ativo, ultimo, atual, tab, loja, pdf, rotulo, baseBusca, intacto>>
    PROVE  IInv'
<1>1. CASE \E s \in {"sem_llm", "falhou", "em_dia"} : Sai(p, s)
  <2>1. PICK s \in Terminais : Sai(p, s)
    BY <1>1 DEF Terminais, Falhados
  <2>2. /\ Quadro' /\ \A u \in Tarefas \ {"gera"} : ti'[u] = ti[u]
        /\ p = "mao" => ti' = ti
    BY <2>1, SaiQuadro DEF IInv
  <2>3. QED
    BY <2>2, FolhaPasso DEF Procs
<1>2. CASE \A s \in {"sem_llm", "falhou", "em_dia"} : ~Sai(p, s)
  <2>1. PICK g : /\ g.fase = "gera" /\ ger' = [ger EXCEPT ![p] = g]
                 /\ IF p = "dag" THEN Marca("gera", "rodando") ELSE UNCHANGED ti
    <3> DEFINE g == [fase |-> "gera", modo |-> modo, rotulo |-> rotulo, pasta |-> atual,
                     indice |-> tab, decisao |-> decisao, chave |-> Chave(loja, rotulo, llm),
                     outs |-> <<>>]
    <3>1. /\ ger' = [ger EXCEPT ![p] = g]
          /\ IF p = "dag" THEN Marca("gera", "rodando") ELSE UNCHANGED ti
      BY <1>2 DEF ComecaGera
    <3>2. g.fase = "gera"
      OBVIOUS
    <3>3. QED
      BY <3>1, <3>2
  <2>2. /\ ger'[p] = g /\ \A q \in Procs \ {p} : ger'[q] = ger[q]
        /\ ger' = [q \in Procs |-> ger'[q]]
    BY <2>1 DEF IInv, Quadro
  <2>3. CASE p = "mao"
    <3>1. ti' = ti
      BY <2>1, <2>3
    <3>2. Quadro'
      BY <2>1, <2>2, <2>3, <3>1 DEF IInv, Quadro, Procs
    <3>3. QED
      BY <3>1, <3>2, FolhaPasso
  <2>4. CASE p = "dag"
    <3>1. /\ ti'["gera"] = "rodando" /\ \A u \in Tarefas \ {"gera"} : ti'[u] = ti[u]
          /\ ti' \in [Tarefas -> Estados]
      BY <2>1, <2>4 DEF IInv, Quadro, Marca, Estados, Tarefas
    <3>2. Quadro'
      BY <2>1, <2>2, <2>4, <3>1 DEF IInv, Quadro, Procs
    <3>3. QED
      BY <2>4, <3>1, <3>2, FolhaPasso
  <2>5. QED
    BY <2>3, <2>4 DEF Procs
<1>3. QED
  BY <1>1, <1>2

LEMMA RodarGeraPasso ==
    ASSUME IInv, RodarGera
    PROVE  IInv'
<1>1. /\ ativo /\ DepsOk("gera") /\ ComecaGera("dag", "gate")
      /\ UNCHANGED <<pdf, rotulo, baseBusca, atual, tab, loja, ativo, ultimo, intacto>>
  BY DEF RodarGera, Pronta, mundo, bases, dados, dag
<1>2. Feito("aval")
  BY <1>1, DepsFeitas DEF IInv, Tarefas, Antes
<1>3. QED
  BY <1>1, <1>2, ComecaPasso DEF Procs

LEMMA MaoPasso ==
    ASSUME IInv, NEW modo, GerarAMao(modo)
    PROVE  IInv'
<1>1. /\ ComecaGera("mao", modo)
      /\ UNCHANGED <<pdf, rotulo, baseBusca, atual, tab, loja, ativo, ultimo, intacto>>
  BY DEF GerarAMao, mundo, bases, dados, dag
<1>2. QED
  BY <1>1, ComecaPasso DEF Procs

\* One more phrasing, or none: the process goes on, or ends without a report.
LEMMA RespondePasso ==
    ASSUME IInv, NEW p \in Procs, Responde(p)
    PROVE  IInv'
<1>1. /\ ger[p].fase = "gera"
      /\ UNCHANGED <<pdf, rotulo, baseBusca, atual, tab, loja, ativo, ultimo, intacto>>
  BY DEF Responde, mundo, bases, dados, dag
<1>2. CASE Sai(p, "sem_llm")
  BY <1>1, <1>2, SaiPasso DEF Terminais
<1>3. CASE ~Sai(p, "sem_llm")
  <2>1. ti' = ti /\ \E o : ger' = [ger EXCEPT ![p].outs = o]
    BY <1>3 DEF Responde
  <2>2. PICK o : ger' = [ger EXCEPT ![p].outs = o]
    BY <2>1
  <2>3. /\ ger' = [q \in Procs |-> ger'[q]]
        /\ \A q \in Procs : ger'[q].fase = ger[q].fase
        /\ ger'[p] = [ger[p] EXCEPT !.outs = o]
        /\ \A q \in Procs \ {p} : ger'[q] = ger[q]
    <3>1. ger' = [q \in Procs |-> IF q = p THEN [ger[p] EXCEPT !.outs = o] ELSE ger[q]]
      BY <2>2 DEF IInv, Quadro
    <3>2. [ger[p] EXCEPT !.outs = o].fase = ger[p].fase
      OBVIOUS
    <3>3. QED
      BY <3>1, <3>2
  <2>4. Quadro'
    BY <1>1, <2>1, <2>3 DEF IInv, Quadro
  <2>5. QED
    BY <1>1, <2>1, <2>4, FolhaPasso
<1>4. QED
  BY <1>2, <1>3

LEMMA TerminaPasso ==
    ASSUME IInv, NEW p \in Procs, TerminaGera(p)
    PROVE  IInv'
<1>1. /\ ger[p].fase = "gera"
      /\ UNCHANGED <<pdf, rotulo, baseBusca, atual, tab, loja, ativo, ultimo, intacto>>
  BY DEF TerminaGera, mundo, dados, dag
<1>2. PICK s \in {"ok", "falhou"} : Sai(p, s)
  BY DEF TerminaGera
<1>3. QED
  BY <1>1, <1>2, SaiPasso DEF Terminais, Falhados

LEMMA MataPasso ==
    ASSUME IInv, NEW p \in Procs, MataGera(p)
    PROVE  IInv'
<1>1. /\ ger[p].fase = "gera" /\ Sai(p, "falhou")
      /\ UNCHANGED <<pdf, rotulo, baseBusca, atual, tab, loja, ativo, ultimo, intacto>>
  BY DEF MataGera, mundo, bases, dados, dag
<1>2. QED
  BY <1>1, SaiPasso DEF Terminais, Falhados

-----------------------------------------------------------------------------
(* The world. *)

LEMMA MundoPasso ==
    ASSUME IInv, UNCHANGED <<ti, ger, ativo, ultimo, atual, tab, loja>>,
           \/ ~intacto'
           \/ UNCHANGED <<intacto, pdf, rotulo, baseBusca>>
    PROVE  IInv'
<1>1. Quadro'
  BY DEF IInv, Quadro
<1>2. CASE ~intacto'
  BY <1>1, <1>2 DEF IInv, Coerente, VerdeCoerente
<1>3. CASE UNCHANGED <<intacto, pdf, rotulo, baseBusca>>
  <2>1. Coerente'
    BY <1>3 DEF IInv, Coerente, Feito
  <2>2. VerdeCoerente'
    BY <1>3 DEF IInv, VerdeCoerente
  <2>3. QED
    BY <1>1, <2>1, <2>2 DEF IInv
<1>4. QED
  BY <1>2, <1>3

LEMMA EventoPasso ==
    ASSUME IInv, \/ \E v \in Versoes : Publica(v)
                 \/ \E r \in 1..Len(Golden) : Reetiqueta(r)
                 \/ \E m \in DOMAIN Replica : TrocaLlm(m)
                 \/ \E d \in Regras : TrocaDecisao(d)
                 \/ EscreverBase
    PROVE  IInv'
<1>1. UNCHANGED <<ti, ger, ativo, ultimo, atual, tab, loja>>
  BY DEF Publica, Reetiqueta, TrocaLlm, TrocaDecisao, Evento, EscreverBase, dados, dag
<1>2. ~intacto' \/ UNCHANGED <<intacto, pdf, rotulo, baseBusca>>
  BY DEF Publica, Reetiqueta, TrocaLlm, TrocaDecisao, Evento, EscreverBase, bases
<1>3. QED
  BY <1>1, <1>2, MundoPasso

LEMMA Passo ==
    ASSUME IInv, [Next]_vars
    PROVE  IInv'
<1>1. CASE UNCHANGED vars
  <2>1. UNCHANGED <<ti, ger, ativo, ultimo, atual, tab, loja, intacto, pdf, rotulo, baseBusca>>
    BY <1>1 DEF vars, mundo, bases, dados, dag
  <2>2. QED
    BY <2>1, MundoPasso
<1>2. CASE Airflow
  BY <1>2, AbrirPasso, DadosPasso, CargaPasso, VetoresPasso, ContratoPasso, AvalPasso,
     RodarGeraPasso, PropagarPasso, RespondePasso, TerminaPasso, FimPasso
     DEF Airflow, Procs
<1>3. CASE Mao
  BY <1>3, MaoPasso, RespondePasso, TerminaPasso, EventoPasso DEF Mao, Procs
<1>4. CASE Mundo
  BY <1>4, EventoPasso, MataPasso DEF Mundo
<1>5. QED
  BY <1>1, <1>2, <1>3, <1>4 DEF Next

\* A run that ends green with nothing changed under it has the law published in
\* both projections, with labels that hold for it and a retrieval within the
\* tolerance of the baseline, although only the leaf decides its colour.
THEOREM VerdeSempreCoerente == Spec => []VerdeCoerente
<1>1. Init => IInv
  BY Inicio
<1>2. IInv /\ [Next]_vars => IInv'
  BY Passo
<1>3. IInv => VerdeCoerente
  BY DEF IInv
<1>4. QED
  BY <1>1, <1>2, <1>3, PTL DEF Spec

-----------------------------------------------------------------------------
(* The reports. *)

\* A report, and a generation under way, are of the labels of their key.
Etiquetados ==
    /\ ger = [p \in Procs |-> ger[p]]
    /\ \A p \in Procs : ger[p].fase = "gera" => ger[p].chave[2] = ger[p].rotulo
    /\ \A x \in relatorios : x.dev = DevIds[x.chave[2]]

LEMMA EtiquetaSai ==
    ASSUME Etiquetados, NEW p \in Procs, NEW s, Sai(p, s),
           \A x \in relatorios' \ relatorios : x.dev = DevIds[x.chave[2]]
    PROVE  Etiquetados'
<1>1. ger' = [ger EXCEPT ![p] = Livre]
  BY DEF Sai
<1>2. /\ ger'[p] = Livre /\ \A q \in Procs \ {p} : ger'[q] = ger[q]
      /\ ger' = [q \in Procs |-> ger'[q]]
  BY <1>1 DEF Etiquetados
<1>3. QED
  BY <1>2 DEF Etiquetados, Livre

LEMMA EtiquetaComeca ==
    ASSUME Etiquetados, NEW p \in Procs, NEW modo, ComecaGera(p, modo), UNCHANGED relatorios
    PROVE  Etiquetados'
<1>1. CASE \E s \in {"sem_llm", "falhou", "em_dia"} : Sai(p, s)
  BY <1>1, EtiquetaSai
<1>2. CASE \A s \in {"sem_llm", "falhou", "em_dia"} : ~Sai(p, s)
  <2> DEFINE g == [fase |-> "gera", modo |-> modo, rotulo |-> rotulo, pasta |-> atual,
                   indice |-> tab, decisao |-> decisao, chave |-> Chave(loja, rotulo, llm),
                   outs |-> <<>>]
  <2>1. ger' = [ger EXCEPT ![p] = g]
    BY <1>2 DEF ComecaGera
  <2>2. g.chave[2] = g.rotulo
    BY DEF Chave
  <2> HIDE DEF g
  <2>3. /\ ger'[p] = g /\ \A q \in Procs \ {p} : ger'[q] = ger[q]
        /\ ger' = [q \in Procs |-> ger'[q]]
    BY <2>1 DEF Etiquetados
  <2>4. QED
    BY <2>2, <2>3 DEF Etiquetados
<1>3. QED
  BY <1>1, <1>2

LEMMA EtiquetaResponde ==
    ASSUME Etiquetados, NEW p \in Procs, Responde(p)
    PROVE  Etiquetados'
<1>1. UNCHANGED relatorios
  BY DEF Responde
<1>2. CASE Sai(p, "sem_llm")
  BY <1>1, <1>2, EtiquetaSai
<1>3. CASE ~Sai(p, "sem_llm")
  <2>1. PICK o : ger' = [ger EXCEPT ![p].outs = o]
    BY <1>3 DEF Responde
  <2>2. ger' = [q \in Procs |-> IF q = p THEN [ger[p] EXCEPT !.outs = o] ELSE ger[q]]
    BY <2>1 DEF Etiquetados
  <2>3. /\ [ger[p] EXCEPT !.outs = o].fase = ger[p].fase
        /\ [ger[p] EXCEPT !.outs = o].chave = ger[p].chave
        /\ [ger[p] EXCEPT !.outs = o].rotulo = ger[p].rotulo
    OBVIOUS
  <2>4. QED
    BY <1>1, <2>2, <2>3 DEF Etiquetados
<1>4. QED
  BY <1>2, <1>3

LEMMA EtiquetaTermina ==
    ASSUME Etiquetados, NEW p \in Procs, TerminaGera(p)
    PROVE  Etiquetados'
<1>1. ger[p].fase = "gera" /\ ger[p].chave[2] = ger[p].rotulo
  BY DEF TerminaGera, Etiquetados
<1>2. PICK s : Sai(p, s)
  BY DEF TerminaGera
<1>3. ASSUME NEW x \in relatorios' \ relatorios PROVE x.dev = DevIds[x.chave[2]]
  <2>1. PICK ok : x = [pasta |-> ger[p].pasta, chave |-> ger[p].chave,
                       dev |-> DevIds[ger[p].rotulo], passou |-> ok]
    BY <1>3 DEF TerminaGera
  <2>2. QED
    BY <1>1, <2>1
<1>4. QED
  BY <1>2, <1>3, EtiquetaSai

LEMMA EtiquetaPasso ==
    ASSUME Etiquetados, [Next]_vars
    PROVE  Etiquetados'
<1>1. CASE UNCHANGED <<ger, relatorios>>
  BY <1>1 DEF Etiquetados
<1>2. CASE \/ RodarGera \/ \E modo \in {"mede", "gate", "base"} : GerarAMao(modo)
  BY <1>2, EtiquetaComeca DEF RodarGera, GerarAMao, Procs
<1>3. CASE \E p \in Procs : Responde(p) \/ TerminaGera(p) \/ MataGera(p)
  BY <1>3, EtiquetaResponde, EtiquetaTermina, EtiquetaSai DEF MataGera
<1>4. CASE \/ UNCHANGED vars \/ \E f \in BOOLEAN : AbrirRun(f)
           \/ RodarDados \/ RodarCarga \/ RodarVetores \/ RodarContrato \/ RodarAval
           \/ \E t \in Tarefas : Propagar(t)
           \/ FimRun \/ EscreverBase
  <2>1. UNCHANGED <<ger, relatorios>>
    BY <1>4 DEF vars, AbrirRun, RodarDados, RodarCarga, RodarVetores, RodarContrato, RodarAval,
                Propagar, FimRun, EscreverBase
  <2>2. QED
    BY <1>1, <2>1
<1>5. CASE \/ \E v \in Versoes : Publica(v)
           \/ \E r \in 1..Len(Golden) : Reetiqueta(r)
           \/ \E m \in DOMAIN Replica : TrocaLlm(m)
           \/ \E d \in Regras : TrocaDecisao(d)
  <2>1. UNCHANGED <<ger, relatorios>>
    BY <1>5 DEF Publica, Reetiqueta, TrocaLlm, TrocaDecisao, Evento
  <2>2. QED
    BY <1>1, <2>1
<1>6. QED
  BY <1>2, <1>3, <1>4, <1>5 DEF Next, Airflow, Mao, Mundo, Procs

-----------------------------------------------------------------------------
(* A generation that is skipped. *)

Pulou == ti["gera"] # "em_dia" /\ ti'["gera"] = "em_dia"
Fundamento ==
    \E x \in relatorios : x.pasta = atual /\ x.chave[1] = loja /\ x.dev = DevIds[rotulo]

LEMMA EmDiaFunda ==
    ASSUME Etiquetados, EmDia
    PROVE  Fundamento
<1>1. PICK x \in relatorios : x.pasta = atual /\ x.chave = Chave(loja, rotulo, llm)
  BY DEF EmDia
<1>2. x.chave[1] = loja /\ x.chave[2] = rotulo
  BY <1>1 DEF Chave
<1>3. QED
  BY <1>1, <1>2 DEF Etiquetados, Fundamento

\* Only the leaf that starts can skip.
LEMMA PuloPasso ==
    ASSUME IInv, Etiquetados, [Next]_vars, Pulou
    PROVE  Fundamento
<1>1. ti \in [Tarefas -> Estados] /\ "gera" \in Tarefas
  BY DEF IInv, Quadro, Tarefas
<1>2. \A t, s : Marca(t, s) => ti'["gera"] = IF t = "gera" THEN s ELSE ti["gera"]
  BY <1>1 DEF Marca
<1>3. \A p, s : Sai(p, s) => ti'["gera"] \in {s, ti["gera"]}
  BY <1>2 DEF Sai
<1>4. CASE RodarGera
  <2>1. EmDia
    BY <1>2, <1>3, <1>4 DEF RodarGera, ComecaGera, Pulou
  <2>2. QED
    BY <2>1, EmDiaFunda
<1>5. CASE \E modo \in {"mede", "gate", "base"} : GerarAMao(modo)
  <2>1. UNCHANGED ti
    BY <1>5 DEF GerarAMao, ComecaGera, Sai
  <2>2. QED
    BY <2>1 DEF Pulou
<1>6. CASE \E p \in Procs : Responde(p) \/ TerminaGera(p) \/ MataGera(p)
  <2>1. UNCHANGED ti \/ \E p, s : Sai(p, s) /\ s \in {"sem_llm", "ok", "falhou"}
    BY <1>6 DEF Responde, TerminaGera, MataGera
  <2>2. QED
    BY <1>3, <2>1 DEF Pulou
<1>7. CASE RodarDados \/ RodarCarga \/ RodarVetores \/ RodarContrato \/ RodarAval
  <2>1. \/ (\E s : Marca("dados", s)) \/ (\E s : Marca("carga", s))
        \/ (\E s : Marca("vetores", s)) \/ (\E s : Marca("contrato", s))
        \/ (\E s : Marca("aval", s))
    BY <1>7, Zenon DEF RodarDados, RodarCarga, RodarVetores, RodarContrato, RodarAval
  <2>2. QED
    BY <1>2, <2>1 DEF Pulou
<1>8. CASE \E t \in Tarefas : Propagar(t)
  <2>1. \E t : Marca(t, "acima")
    BY <1>8 DEF Propagar
  <2>2. QED
    BY <1>2, <2>1 DEF Pulou
<1>9. CASE FimRun
  <2>1. ti'["gera"] = "none"
    BY <1>1, <1>9 DEF FimRun
  <2>2. QED
    BY <2>1 DEF Pulou
<1>10. CASE \/ UNCHANGED vars \/ EscreverBase
            \/ \E f \in BOOLEAN : AbrirRun(f)
            \/ \E v \in Versoes : Publica(v)
            \/ \E r \in 1..Len(Golden) : Reetiqueta(r)
            \/ \E m \in DOMAIN Replica : TrocaLlm(m)
            \/ \E d \in Regras : TrocaDecisao(d)
  <2>1. UNCHANGED ti
    BY <1>10 DEF vars, AbrirRun, EscreverBase, Publica, Reetiqueta, TrocaLlm, TrocaDecisao, Evento
  <2>2. QED
    BY <2>1 DEF Pulou
<1>11. QED
  BY <1>4, <1>5, <1>6, <1>7, <1>8, <1>9, <1>10 DEF Next, Airflow, Mao, Mundo, Procs

\* A generation skipped as up to date has behind it a complete report of the
\* same dev cases, on the law of the vectors.
THEOREM PuloSempreFundado == Spec => PuloFundado
<1>1. Init => IInv /\ Etiquetados
  <2>1. Init => Etiquetados
    BY DEF Init, Etiquetados, Livre
  <2>2. QED
    BY <2>1, Inicio
<1>2. IInv /\ Etiquetados /\ [Next]_vars => IInv' /\ Etiquetados'
  BY Passo, EtiquetaPasso
<1>3. IInv /\ Etiquetados /\ [Next]_vars
        => [(ti["gera"] # "em_dia" /\ ti'["gera"] = "em_dia") =>
              \E x \in relatorios : /\ x.pasta = atual /\ x.chave[1] = loja
                                     /\ x.dev = DevIds[rotulo]]_vars
  BY PuloPasso DEF Pulou, Fundamento
<1>4. QED
  BY <1>1, <1>2, <1>3, PTL DEF Spec, PuloFundado

-----------------------------------------------------------------------------
(* Induction, and folds.  A fold of the community modules is a recursive   *)
(* function over the subsets of a finite set: it exists because each of    *)
(* its values is made from that of a smaller subset.                       *)

\* Every nonempty set of naturals has a least member.
LEMMA TemMenor ==
    ASSUME NEW T, T \subseteq Nat, T # {}
    PROVE  \E x \in T : \A y \in T : x <= y
<1>1. \A x, y \in Nat : x < y => <<x, y>> \in OpToRel(<, Nat)
  BY DEF OpToRel
<1>2. PICK x \in T : \A y \in T : ~(<<y, x>> \in OpToRel(<, Nat))
  BY NatLessThanWellFounded, WFMin
<1>3. \A y \in T : x \in Nat /\ y \in Nat /\ ~(y < x)
  BY <1>1, <1>2
<1>4. QED
  BY <1>3

\* What holds of 0 and passes from k to k + 1 holds up to n.
LEMMA Ate ==
    ASSUME NEW n \in Nat, NEW Q, 0 \in Q, \A k \in 0..(n - 1) : k \in Q => k + 1 \in Q
    PROVE  0..n \subseteq Q
<1> SUFFICES ASSUME ~(0..n \subseteq Q) PROVE FALSE
  OBVIOUS
<1> DEFINE T == {k \in 0..n : k \notin Q}
<1>1. T \subseteq Nat /\ T # {}
  OBVIOUS
<1>2. PICK x \in T : \A y \in T : x <= y
  BY <1>1, TemMenor, Zenon
<1>3. x \in 0..n /\ x \notin Q /\ x # 0
  BY <1>2
<1>4. x - 1 \in 0..(n - 1) /\ x - 1 \notin T
  BY <1>2, <1>3
<1>5. QED
  BY <1>3, <1>4

\* What holds of the empty set, and of a set when it holds without the member
\* that ch takes out of it, holds of every subset of a finite set.
LEMMA Tirando ==
    ASSUME NEW S, IsFiniteSet(S), NEW ch, \A T \in SUBSET S : T # {} => ch[T] \in T,
           NEW Q, {} \in Q, \A T \in SUBSET S : T # {} /\ T \ {ch[T]} \in Q => T \in Q
    PROVE  SUBSET S \subseteq Q
<1> DEFINE C(T) == Cardinality(T)
           P == {k \in 0..C(S) : \A T \in SUBSET S : C(T) <= k => T \in Q}
<1>1. \A T \in SUBSET S : IsFiniteSet(T) /\ C(T) \in Nat /\ C(T) <= C(S)
  BY FS_Subset, FS_CardinalityType
<1>2. C(S) \in Nat
  BY <1>1
<1>3. 0 \in P
  <2>1. ASSUME NEW T \in SUBSET S, C(T) <= 0 PROVE T \in Q
    <3>1. IsFiniteSet(T) /\ Cardinality(T) = 0
      BY <1>1, <2>1
    <3>2. T = {}
      BY <3>1, FS_EmptySet
    <3>3. QED
      BY <3>2
  <2>2. QED
    BY <1>2, <2>1
<1>4. ASSUME NEW k \in 0..(C(S) - 1), k \in P PROVE k + 1 \in P
  <2>1. ASSUME NEW T \in SUBSET S, C(T) <= k + 1, T # {} PROVE T \in Q
    <3>1. ch[T] \in T /\ T \ {ch[T]} \in SUBSET S
      BY <2>1
    <3>2. C(T \ {ch[T]}) = C(T) - 1
      BY <1>1, <3>1, FS_RemoveElement
    <3>3. T \ {ch[T]} \in Q
      <4>1. C(T) \in Nat /\ C(T) - 1 <= k
        BY <1>1, <1>2, <2>1
      <4>2. QED
        BY <1>4, <3>1, <3>2, <4>1
    <3>4. QED
      BY <2>1, <3>3
  <2>2. k + 1 \in 0..C(S)
    BY <1>2, <1>4
  <2>3. QED
    BY <2>1, <2>2
<1>5. C(S) \in P
  <2> HIDE DEF P, C
  <2>1. 0..C(S) \subseteq P
    BY <1>2, <1>3, <1>4, Ate
  <2>2. QED
    BY <1>2, <2>1
<1>6. QED
  BY <1>1, <1>5

\* A fold with a step F, over a finite set and with values in A.
Escolha(ch, S) == \A T \in SUBSET S : T # {} => ch[T] \in T
Dobra(g, S, ch, A, z0, F) ==
    /\ g \in [SUBSET S -> A]
    /\ g = [T \in SUBSET S |-> IF T = {} THEN z0 ELSE F[<<ch[T], g[T \ {ch[T]}]>>]]
DobraDeMax(g, n, A, z0, F) ==
    /\ g \in [SUBSET (1..n) -> A]
    /\ g = [T \in SUBSET (1..n) |-> IF T = {} THEN z0 ELSE F[<<Max(T), g[T \ {Max(T)}]>>]]

\* The recursive function of a fold exists, with its values in A.
LEMMA DobraExiste ==
    ASSUME NEW S, IsFiniteSet(S), NEW ch, Escolha(ch, S),
           NEW A, NEW z0 \in A, NEW F \in [S \X A -> A]
    PROVE  \E g : Dobra(g, S, ch, A, z0, F)
<1>0. \A T \in SUBSET S : T # {} => ch[T] \in T
  BY DEF Escolha
<1> DEFINE C(T) == Cardinality(T)
           D(k) == {T \in SUBSET S : C(T) <= k}
           Vale(T, f) == IF T = {} THEN z0 ELSE F[<<ch[T], f[T \ {ch[T]}]>>]
           E(k, f) == f = [T \in D(k) |-> Vale(T, f)]
           P == {k \in 0..C(S) : \E f \in [D(k) -> A] : E(k, f)}
<1>1. \A T \in SUBSET S : IsFiniteSet(T) /\ C(T) \in Nat /\ C(T) <= C(S)
  BY FS_Subset, FS_CardinalityType
<1>2. C(S) \in Nat
  BY <1>1
<1>3. 0 \in P
  <2> DEFINE f == [T \in D(0) |-> z0]
  <2>1. ASSUME NEW T \in D(0) PROVE T = {}
    <3> HIDE DEF P, E, Vale, f
    <3>1. IsFiniteSet(T) /\ Cardinality(T) = 0
      BY <1>1, <2>1
    <3>2. QED
      BY <3>1, FS_EmptySet
  <2>2. E(0, f) /\ f \in [D(0) -> A]
    BY <2>1
  <2>3. 0 \in 0..C(S)
    BY <1>2
  <2> HIDE DEF f, E, D, C
  <2>4. QED
    BY <2>2, <2>3
<1>4. ASSUME NEW k \in 0..(C(S) - 1), k \in P PROVE k + 1 \in P
  <2>1. PICK f \in [D(k) -> A] : E(k, f)
    BY <1>4
  <2> DEFINE h == [T \in D(k + 1) |-> Vale(T, f)]
  <2>2. ASSUME NEW T \in D(k + 1), T # {}
        PROVE  ch[T] \in T /\ T \ {ch[T]} \in D(k)
    <3> HIDE DEF P, E, Vale, h
    <3>1. ch[T] \in T /\ T \ {ch[T]} \in SUBSET S
      BY <1>0, <2>2
    <3>2. C(T \ {ch[T]}) = C(T) - 1
      BY <1>1, <3>1, FS_RemoveElement
    <3>3. C(T) \in Nat /\ C(T) <= k + 1
      BY <1>1, <2>2
    <3> HIDE DEF C
    <3>4. C(T) - 1 <= k
      BY <1>2, <3>3
    <3>5. QED
      BY <3>1, <3>2, <3>4
  <2>3. ASSUME NEW T \in D(k) PROVE T \in D(k + 1) /\ f[T] = h[T]
    <3>1. T \in D(k + 1)
      <4> HIDE DEF P, E, Vale, h
      <4>1. C(T) \in Nat /\ C(T) <= k /\ k \in Nat
        BY <1>1, <1>2, <2>3
      <4> HIDE DEF C
      <4>2. C(T) <= k + 1
        BY <4>1
      <4>3. QED
        BY <2>3, <4>2
    <3>2. f[T] = Vale(T, f)
      <4> HIDE DEF D, Vale
      <4>1. QED
        BY <2>1, <2>3
    <3>3. QED
      BY <3>1, <3>2
  <2>4. ASSUME NEW T \in D(k + 1) PROVE Vale(T, f) = Vale(T, h) /\ Vale(T, f) \in A
    <3>1. CASE T = {}
      BY <3>1
    <3>2. CASE T # {}
      <4>1. f[T \ {ch[T]}] = h[T \ {ch[T]}] /\ f[T \ {ch[T]}] \in A /\ ch[T] \in S
        BY <2>1, <2>2, <2>3, <2>4, <3>2
      <4> HIDE DEF h
      <4>2. QED
        BY <3>2, <4>1
    <3>3. QED
      BY <3>1, <3>2
  <2>5. E(k + 1, h) /\ h \in [D(k + 1) -> A]
    <3> DEFINE u(T) == Vale(T, f)
    <3>1. h \in [D(k + 1) -> A]
      <4> HIDE DEF D, Vale
      <4>1. QED
        BY <2>4
    <3>2. E(k + 1, h)
      <4> HIDE DEF D, Vale, h
      <4>1. h = [T \in D(k + 1) |-> Vale(T, f)]
        BY DEF h
      <4>2. QED
        BY <2>4, <4>1
    <3>3. QED
      BY <3>1, <3>2
  <2>6. k + 1 \in 0..C(S)
    <3> HIDE DEF C, P
    <3>1. QED
      BY <1>2, <1>4
  <2> HIDE DEF E, D, C, h
  <2>7. QED
    BY <2>5, <2>6
<1>5. C(S) \in P
  <2> HIDE DEF P, C, D, E, Vale
  <2>1. 0..C(S) \subseteq P
    BY <1>2, <1>3, <1>4, Ate
  <2>2. QED
    BY <1>2, <2>1
<1>6. D(C(S)) = SUBSET S
  BY <1>1
<1>7. PICK f \in [SUBSET S -> A] : E(C(S), f)
  <2> HIDE DEF E, D, C
  <2>1. QED
    BY <1>5, <1>6
<1>8. f = [T \in SUBSET S |-> Vale(T, f)]
  <2> HIDE DEF Vale, D, C
  <2>1. QED
    BY <1>6, <1>7
<1>9. QED
  BY <1>8 DEF Dobra

\* A set of positions has its greatest, as FoldLeft walks them.
LEMMA MaxMembro ==
    ASSUME NEW n \in Nat, NEW T, T \subseteq 1..n, T # {}
    PROVE  Max(T) \in T /\ \A y \in T : y <= Max(T)
<1> DEFINE U == {n - x : x \in T}
<1>0. \A x \in T : x \in 1..n /\ n - x \in Nat
  OBVIOUS
<1>1. U \subseteq Nat /\ U # {}
  BY <1>0
<1> HIDE DEF U
<1>2. PICK u \in U : \A w \in U : u <= w
  BY <1>1, TemMenor
<1> USE DEF U
<1>3. PICK x \in T : u = n - x
  OBVIOUS
<1>4. \A y \in T : n - y \in U /\ y \in Int /\ x \in Int
  OBVIOUS
<1>5. \A y \in T : x >= y
  BY <1>2, <1>3, <1>4
<1>6. \A y \in T : Max(T) >= y /\ Max(T) \in T
  BY <1>5 DEF Max
<1>7. QED
  BY <1>6

\* One position more.
LEMMA Prefixo ==
    ASSUME NEW n \in Nat, NEW k \in 0..(n - 1)
    PROVE  /\ 1..(k + 1) \in SUBSET (1..n) /\ 1..(k + 1) # {} /\ 1..k \in SUBSET (1..n)
           /\ Max(1..(k + 1)) = k + 1 /\ (1..(k + 1)) \ {k + 1} = 1..k
<1>1. 1..(k + 1) \subseteq 1..n /\ k + 1 \in 1..(k + 1) /\ 1..k \subseteq 1..n
  OBVIOUS
<1>2. Max(1..(k + 1)) \in 1..(k + 1) /\ k + 1 <= Max(1..(k + 1))
  BY <1>1, MaxMembro
<1>3. Max(1..(k + 1)) = k + 1
  BY <1>2
<1>4. (1..(k + 1)) \ {k + 1} = 1..k
  OBVIOUS
<1>5. QED
  BY <1>1, <1>3, <1>4

\* FoldLeft over n steps: the recursion that takes out the last position exists.
LEMMA DobraSeq ==
    ASSUME NEW n \in Nat, NEW A, NEW z0 \in A, NEW F \in [(1..n) \X A -> A]
    PROVE  \E g : DobraDeMax(g, n, A, z0, F)
<1> DEFINE S == 1..n
           ch == [T \in SUBSET S |-> Max(T)]
<1>1. IsFiniteSet(S)
  BY FS_Interval
<1>2. \A T \in SUBSET S : ch[T] = Max(T) /\ (T # {} => ch[T] \in T)
  BY MaxMembro
<1> HIDE DEF ch
<1>3. Escolha(ch, S)
  BY <1>2 DEF Escolha
<1>4. PICK g : Dobra(g, S, ch, A, z0, F)
  <2>1. F \in [S \X A -> A]
    OBVIOUS
  <2> HIDE DEF S
  <2>2. QED
    BY <1>1, <1>3, <2>1, DobraExiste
<1>5. g = [T \in SUBSET S |-> IF T = {} THEN z0 ELSE F[<<Max(T), g[T \ {Max(T)}]>>]]
  <2> HIDE DEF S
  <2>1. g = [T \in SUBSET S |-> IF T = {} THEN z0 ELSE F[<<ch[T], g[T \ {ch[T]}]>>]]
    BY <1>4 DEF Dobra
  <2>2. QED
    BY <1>2, <2>1
<1>6. QED
  BY <1>4, <1>5 DEF Dobra, DobraDeMax

\* A fold over the positions of a sequence of n members takes out the greatest
\* first: i follows it when its values are those that F makes, and the values h
\* of its prefixes are then each made from the one before.
Dobravel(n, A, z0, F) == n \in Nat /\ z0 \in A /\ F \in [(1..n) \X A -> A]
Segue(i, n, A, z0, F) ==
    /\ i[{}] = z0
    /\ \A T \in SUBSET (1..n) :
          T # {} /\ i[T \ {Max(T)}] \in A => i[T] = F[<<Max(T), i[T \ {Max(T)}]>>]
Valores(h, n, A, z0, F) ==
    /\ h \in [0..n -> A] /\ h[0] = z0
    /\ \A k \in 0..(n - 1) : h[k + 1] = F[<<k + 1, h[k]>>]

\* An invariant of the steps of a fold holds of its result.
LEMMA Percurso ==
    ASSUME NEW n, NEW A, NEW z0, NEW F, NEW i, Dobravel(n, A, z0, F), Segue(i, n, A, z0, F)
    PROVE  \E h : Valores(h, n, A, z0, F) /\ h[n] = i[1..n]
<1>1. n \in Nat /\ z0 \in A /\ F \in [(1..n) \X A -> A]
  BY DEF Dobravel
<1> DEFINE h == [k \in 0..n |-> i[1..k]]
           Q == {k \in 0..n : i[1..k] \in A}
<1>2. i[1..0] = z0
  <2>1. 1..0 = {}
    OBVIOUS
  <2>2. QED
    BY <2>1 DEF Segue
<1>3. ASSUME NEW k \in 0..(n - 1), k \in Q
      PROVE  k + 1 \in Q /\ i[1..(k + 1)] = F[<<k + 1, i[1..k]>>]
  <2>1. /\ 1..(k + 1) \in SUBSET (1..n) /\ 1..(k + 1) # {}
        /\ Max(1..(k + 1)) = k + 1 /\ (1..(k + 1)) \ {k + 1} = 1..k
    BY <1>1, Prefixo
  <2>2. i[1..(k + 1)] = F[<<k + 1, i[1..k]>>]
    BY <1>3, <2>1 DEF Segue
  <2>3. k + 1 \in 1..n /\ k + 1 \in 0..n
    BY <1>1
  <2>4. F[<<k + 1, i[1..k]>>] \in A
    BY <1>1, <1>3, <2>3
  <2>5. QED
    BY <2>2, <2>3, <2>4
<1>4. 0..n \subseteq Q
  <2>1. 0 \in Q
    BY <1>1, <1>2
  <2> HIDE DEF Q
  <2>2. QED
    BY <1>1, <1>3, <2>1, Ate
<1>5. h \in [0..n -> A]
  BY <1>4
<1>6. h[0] = z0 /\ h[n] = i[1..n]
  <2>1. 0 \in 0..n /\ n \in 0..n
    BY <1>1
  <2>2. QED
    BY <1>2, <2>1
<1>7. ASSUME NEW k \in 0..(n - 1) PROVE h[k + 1] = F[<<k + 1, h[k]>>]
  <2>1. k \in 0..n /\ k + 1 \in 0..n
    BY <1>1
  <2>2. k \in Q
    BY <1>4, <2>1
  <2>3. QED
    BY <1>3, <2>1, <2>2
<1>8. QED
  BY <1>5, <1>6, <1>7 DEF Valores

-----------------------------------------------------------------------------
(* Sums of shares.                                                         *)

\* A sum over a finite set of naturals up to m is at most m for each of them.
LEMMA SomaAte ==
    ASSUME NEW f, IsFiniteSet(DOMAIN f), NEW m \in Nat, \A x \in DOMAIN f : f[x] \in 0..m
    PROVE  /\ FoldFunction(+, 0, f) \in Nat
           /\ FoldFunction(+, 0, f) <= m * Cardinality(DOMAIN f)
<1> DEFINE S == DOMAIN f
           ch == [T \in SUBSET S |-> CHOOSE x \in T : TRUE]
           F == [p \in S \X Nat |-> f[p[1]] + p[2]]
           E(g) == g = [T \in SUBSET S |->
                          IF T = {} THEN 0 ELSE LET x == CHOOSE x \in T : TRUE IN f[x] + g[T \ {x}]]
<1>0. \A x \in S : f[x] \in Nat /\ f[x] <= m
  OBVIOUS
<1>1. \A T \in SUBSET S : ch[T] = (CHOOSE x \in T : TRUE) /\ (T # {} => ch[T] \in T)
  OBVIOUS
<1>2. F \in [S \X Nat -> Nat] /\ \A x \in S, t \in Nat : F[<<x, t>>] = f[x] + t
  BY <1>0
<1> HIDE DEF ch, F
<1>3. Escolha(ch, S)
  BY <1>1 DEF Escolha
<1>4. PICK g : Dobra(g, S, ch, Nat, 0, F)
  <2> HIDE DEF S
  <2>1. IsFiniteSet(S) /\ 0 \in Nat
    BY DEF S
  <2>2. QED
    BY <1>2, <1>3, <2>1, DobraExiste
<1>5. E(g)
  <2>1. ASSUME NEW T \in SUBSET S, T # {}
        PROVE  F[<<ch[T], g[T \ {ch[T]}]>>] = f[CHOOSE x \in T : TRUE] + g[T \ {CHOOSE x \in T : TRUE}]
    <3>1. ch[T] \in S /\ g[T \ {ch[T]}] \in Nat
      BY <1>1, <1>4, <2>1 DEF Dobra
    <3>2. QED
      BY <1>1, <1>2, <2>1, <3>1
  <2>2. QED
    BY <1>4, <2>1 DEF Dobra
<1>6. PICK i : E(i) /\ FoldFunction(+, 0, f) = i[S]
  <2>1. \E i : E(i) /\ FoldFunction(+, 0, f) = i[S]
    BY <1>5 DEF FoldFunction, FoldFunctionOnSet, MapThenFoldSet
  <2>2. QED
    BY <2>1
<1> DEFINE Q == {T \in SUBSET S : i[T] \in Nat /\ i[T] <= m * Cardinality(T)}
<1>7. {} \in Q
  <2>1. {} \in SUBSET S
    OBVIOUS
  <2>2. Cardinality({}) = 0
    BY FS_EmptySet
  <2> HIDE DEF S
  <2>3. i[{}] = 0
    BY <1>6, <2>1
  <2>4. QED
    BY <2>1, <2>2, <2>3
<1>8. ASSUME NEW T \in SUBSET S, T # {}, T \ {ch[T]} \in Q PROVE T \in Q
  <2>1. ch[T] \in S /\ ch[T] \in T /\ T \ {ch[T]} \in SUBSET S
    BY <1>1, <1>8
  <2>2. i[T] = f[ch[T]] + i[T \ {ch[T]}]
    BY <1>1, <1>6, <1>8
  <2> DEFINE c == Cardinality(T)
             a == f[ch[T]]
             b == i[T \ {ch[T]}]
  <2>3. c \in Nat /\ Cardinality(T \ {ch[T]}) = c - 1 /\ c - 1 \in Nat
    <3> HIDE DEF S, Q, E
    <3>1. IsFiniteSet(T)
      BY <1>8, FS_Subset DEF S
    <3>2. c \in Nat
      BY <3>1, FS_CardinalityType
    <3>3. IsFiniteSet(T \ {ch[T]}) /\ Cardinality(T \ {ch[T]}) = c - 1
      BY <2>1, <3>1, FS_RemoveElement
    <3>4. Cardinality(T \ {ch[T]}) \in Nat
      BY <3>3, FS_CardinalityType
    <3>5. QED
      BY <3>2, <3>3, <3>4
  <2>4. a \in Nat /\ a <= m /\ b \in Nat /\ b <= m * (c - 1) /\ i[T] = a + b
    <3> HIDE DEF S, E, c
    <3>1. b \in Nat /\ b <= m * Cardinality(T \ {ch[T]})
      BY <1>8
    <3>2. QED
      BY <1>0, <2>1, <2>2, <2>3, <3>1
  <2> HIDE DEF a, b, c, Q, S, E
  <2>5. m * (c - 1) + m = m * c
    BY <2>3
  <2>6. m * (c - 1) \in Int /\ m * c \in Int
    BY <2>3
  <2>7. i[T] \in Nat /\ i[T] <= m * c
    BY <2>4, <2>5, <2>6
  <2>8. QED
    BY <2>7 DEF Q, c
<1>9. SUBSET S \subseteq Q
  <2> HIDE DEF Q, S
  <2>1. IsFiniteSet(S)
    BY DEF S
  <2>2. \A T \in SUBSET S : T # {} => ch[T] \in T
    BY <1>1
  <2>3. QED
    BY <1>7, <1>8, <2>1, <2>2, Tirando
<1>10. S \in Q
  <2> HIDE DEF Q
  <2>1. QED
    BY <1>9
<1>11. QED
  BY <1>6, <1>10

-----------------------------------------------------------------------------
(* The chunks a label needs.                                               *)

\* A chunk that has two provisions has the chunks of both.
LEMMA MesmosTrechos ==
    ASSUME NEW v \in 1..Len(Leis), NEW p, NEW q,
           Carregam(p, Trechos[v]) \cap Carregam(q, Trechos[v]) # {}
    PROVE  Carregam(p, Trechos[v]) = Carregam(q, Trechos[v])
<1> DEFINE T == Trechos[v]
           I(n) == ToSet(T[n].ids)
<1>1. \A n \in DOMAIN T : T[n].ids \in Seq(DOMAIN Leis[v])
  BY TrechosAssumption
<1>2. \A n \in DOMAIN T : \A x : Contains(T[n].ids, x) <=> x \in I(n)
  BY <1>1 DEF Contains, ToSet
<1>3. \A m, n \in DOMAIN T : I(m) \cap I(n) # {} => I(m) = I(n)
  BY TrechosAssumption
<1> HIDE DEF T, I
<1>4. \A x : Carregam(x, T) = {n \in DOMAIN T : x \in I(n)}
  BY <1>2 DEF Carregam
<1>5. PICK n \in DOMAIN T : p \in I(n) /\ q \in I(n)
  BY <1>4 DEF T
<1>6. \A m \in DOMAIN T : p \in I(m) <=> q \in I(m)
  BY <1>3, <1>5
<1>7. QED
  BY <1>4, <1>6 DEF T

\* chunks_needed leaves one group for each set of chunks that is expected.
LEMMA GruposDe ==
    ASSUME NEW v \in 1..Len(Leis), NEW S, IsFiniteSet(S)
    PROVE  Grupados(S, Trechos[v])
             = {Carregam(p, Trechos[v]) : p \in {x \in S : Carregam(x, Trechos[v]) # {}}}
<1> DEFINE T == Trechos[v]
           K(p) == Carregam(p, T)
           G(R) == {K(p) : p \in {x \in R : K(x) # {}}}
           A == SUBSET (SUBSET DOMAIN T)
           ch == [R \in SUBSET S |-> CHOOSE x \in R : TRUE]
           F == [p \in S \X A |-> Junta(T, p[1], p[2])]
           E(g) == g = [R \in SUBSET S |->
                          IF R = {} THEN {}
                          ELSE LET x == CHOOSE x \in R : TRUE IN Junta(T, x, g[R \ {x}])]
<1>1. \A R \in SUBSET S : ch[R] = (CHOOSE x \in R : TRUE) /\ (R # {} => ch[R] \in R)
  OBVIOUS
<1>2. F \in [S \X A -> A] /\ \A x \in S, t \in A : F[<<x, t>>] = Junta(T, x, t)
  <2>1. ASSUME NEW x, NEW t \in A PROVE Junta(T, x, t) \in A
    BY DEF Junta, Carregam
  <2> HIDE DEF A
  <2>2. QED
    BY <2>1
<1>3. {} \in A
  OBVIOUS
<1> HIDE DEF ch, F, A
<1>4. Escolha(ch, S)
  BY <1>1 DEF Escolha
<1>5. PICK g : Dobra(g, S, ch, A, {}, F)
  BY <1>2, <1>3, <1>4, DobraExiste
<1>6. E(g)
  <2>1. ASSUME NEW R \in SUBSET S, R # {}
        PROVE  F[<<ch[R], g[R \ {ch[R]}]>>]
                 = Junta(T, CHOOSE x \in R : TRUE, g[R \ {CHOOSE x \in R : TRUE}])
    <3>1. ch[R] \in S /\ g[R \ {ch[R]}] \in A
      BY <1>1, <1>5, <2>1 DEF Dobra
    <3>2. QED
      BY <1>1, <1>2, <2>1, <3>1
  <2>2. QED
    BY <1>5, <2>1 DEF Dobra
<1>7. PICK i : E(i) /\ Grupados(S, T) = i[S]
  <2> HIDE DEF T
  <2> DEFINE i == CHOOSE i : E(i)
  <2>1. Grupados(S, T) = i[S]
    BY DEF Grupados, FoldSet, MapThenFoldSet
  <2>2. E(i)
    <3> HIDE DEF E
    <3>1. QED
      BY <1>6
  <2> HIDE DEF i
  <2>3. QED
    BY <2>1, <2>2
<1> DEFINE Q == {R \in SUBSET S : i[R] = G(R)}
<1>8. {} \in Q
  <2>1. {} \in SUBSET S /\ G({}) = {}
    OBVIOUS
  <2> HIDE DEF G
  <2>2. i[{}] = {}
    BY <1>7, <2>1
  <2>3. QED
    BY <2>1, <2>2
<1>9. ASSUME NEW R \in SUBSET S, R # {}, R \ {ch[R]} \in Q PROVE R \in Q
  <2> DEFINE x == ch[R]
             B == G(R \ {x})
             toca == {g2 \in B : g2 \cap K(x) # {}}
  <2>1. x \in R /\ i[R] = Junta(T, x, i[R \ {x}])
    <3> HIDE DEF G, K, T, Q, x
    <3>1. i[R] = Junta(T, CHOOSE y \in R : TRUE, i[R \ {CHOOSE y \in R : TRUE}])
      BY <1>7, <1>9
    <3>2. ch[R] = (CHOOSE y \in R : TRUE) /\ ch[R] \in R
      BY <1>1, <1>9
    <3>3. QED
      BY <3>1, <3>2 DEF x
  <2>0. i[R \ {x}] = B
    <3> HIDE DEF G, K, T, E
    <3>1. QED
      BY <1>9
  <2>2. CASE K(x) = {}
    <3>1. i[R] = B
      BY <2>0, <2>1, <2>2 DEF Junta
    <3>2. G(R) = B
      BY <2>1, <2>2
    <3>3. QED
      BY <3>1, <3>2
  <2>3. CASE K(x) # {}
    <3>1. i[R] = (B \ toca) \cup {K(x) \cup UNION toca}
      <4> HIDE DEF B
      <4>1. QED
        BY <2>0, <2>1, <2>3 DEF Junta
    <3>2. \A g2 \in toca : g2 = K(x)
      BY MesmosTrechos
    <3>3. \A g2 \in B : g2 = K(x) => g2 \in toca
      BY <2>3
    <3>4. i[R] = B \cup {K(x)}
      <4> HIDE DEF B, toca, K
      <4>1. K(x) \cup UNION toca = K(x)
        BY <3>2
      <4>2. (B \ toca) \cup {K(x)} = B \cup {K(x)}
        BY <3>2
      <4>3. QED
        BY <3>1, <4>1, <4>2
    <3>5. G(R) = B \cup {K(x)}
      <4> HIDE DEF K, T
      <4>1. QED
        BY <2>1, <2>3
    <3>6. QED
      BY <3>4, <3>5
  <2>4. QED
    BY <2>2, <2>3
<1>10. SUBSET S \subseteq Q
  <2> HIDE DEF Q, E, G
  <2>1. \A R \in SUBSET S : R # {} => ch[R] \in R
    BY <1>1
  <2>2. \A R \in SUBSET S : R # {} /\ R \ {ch[R]} \in Q => R \in Q
    BY <1>9
  <2>3. QED
    BY <1>8, <2>1, <2>2, Tirando
<1>11. QED
  BY <1>7, <1>10

\* The values of a function over a finite set are no more than its arguments.
LEMMA Imagem ==
    ASSUME NEW f, IsFiniteSet(DOMAIN f)
    PROVE  /\ IsFiniteSet({f[x] : x \in DOMAIN f})
           /\ Cardinality({f[x] : x \in DOMAIN f}) <= Cardinality(DOMAIN f)
<1> DEFINE T == {f[x] : x \in DOMAIN f}
           h == [x \in DOMAIN f |-> f[x]]
<1>1. h \in [DOMAIN f -> T] /\ \A t \in T : \E x \in DOMAIN f : h[x] = t
  OBVIOUS
<1>2. h \in Surjection(DOMAIN f, T)
  BY <1>1 DEF Surjection
<1> HIDE DEF h, T
<1>3. QED
  BY <1>2, FS_Surjection DEF T

\* What the assumptions say, one by one.
LEMMA LeisContadas == Len(Leis) \in Nat /\ \A l \in 1..Len(Leis) : l \in 0..Len(Leis) /\ l > 0
<1>1. Len(Leis) \in Nat
  BY MedidaAssumption
<1>2. QED
  BY <1>1

\* Every case has its place in the file.
LEMMA CasosEmOrdem ==
    ASSUME NEW r \in 1..Len(Golden), NEW c \in ToSet(Golden[r].casos)
    PROVE  \E n \in 1..Len(Golden[r].casos) : c = Golden[r].casos[n]
<1> DEFINE s == Golden[r].casos
           X == ToSet(s)
<1>1. s \in Seq(X) /\ c \in X
  BY MedidaAssumption
<1>2. X = {s[n] : n \in DOMAIN s}
  BY DEF ToSet
<1> HIDE DEF s, X
<1>3. \E n \in 1..Len(s) : c = s[n]
  BY <1>1, <1>2
<1>4. QED
  BY <1>3 DEF s

\* The contract found nothing against a case that is not known to fail.
LEMMA SemAchados ==
    ASSUME NEW r \in 1..Len(Golden), NEW l \in 1..Len(Leis), Contratos[l][r],
           NEW c \in ToSet(Golden[r].casos), ~c.conhecido
    PROVE  Achados(c, Leis[l], Trechos[l]) = {}
<1> DEFINE s == Golden[r].casos
           X == ToSet(s)
           A(d) == Achados(d, Leis[l], Trechos[l])
<1>1. \E n \in 1..Len(s) : c = s[n]
  BY CasosEmOrdem
<1>2. l \in 0..Len(Leis)
  BY LeisContadas
<1>3. Check(Golden[r], Leis[l], Trechos[l], l)
  BY <1>2, Zenon DEF Contratos
<1>4. \A n \in 1..Len(s) : (A(s[n]) # {}) = s[n].conhecido
  BY <1>3, Zenon DEF Check
<1> HIDE DEF A
<1>5. QED
  BY <1>1, <1>4, Zenon DEF A

\* A case of the contract with mode = all is covered by one chunk of each group.
LEMMA ContratoBasta ==
    ASSUME NEW l \in 1..Len(Leis), NEW c, IsFiniteSet(c.espera),
           c.rota \in {"vector", "combined"}, c.modo = "all",
           Achados(c, Leis[l], Trechos[l]) = {}
    PROVE  \E S \in SUBSET DOMAIN Trechos[l] :
               /\ Cardinality(S) <= TopK
               /\ c.espera \subseteq UNION {ToSet(Trechos[l][n].ids) : n \in S}
<1> DEFINE T == Trechos[l]
           L == Leis[l]
           K(p) == Carregam(p, T)
           V == {x \in c.espera : K(x) # {}}
           G == {K(p) : p \in V}
<1>1. l \in 1..Len(Leis) /\ IsFiniteSet(c.espera)
  OBVIOUS
<1>4. Achados(c, L, T) = {}
  OBVIOUS
<1>5. c.rota \in {"vector", "combined"}
  OBVIOUS
<1>6. ASSUME NEW p \in c.espera PROVE p \in DOMAIN L /\ K(p) # {}
  <2> HIDE DEF T, L
  <2>1. p \in DOMAIN L
    <3>1. p \notin DOMAIN L => <<"G3_exists", p>> \in Achados(c, L, T)
      BY <1>6 DEF Achados
    <3>2. QED
      BY <1>4, <3>1
  <2>2. K(p) # {}
    <3>1. K(p) = {} => <<"G6_retrievable", p>> \in Achados(c, L, T)
      BY <1>5, <1>6, <2>1 DEF Achados
    <3>2. QED
      BY <1>4, <3>1
  <2>3. QED
    BY <2>1, <2>2
<1>7. ~(ChunksNeeded(c.espera, T) > TopK)
  <2> HIDE DEF T, L
  <2>1. ChunksNeeded(c.espera, T) > TopK => <<"G6_coverage", c.id>> \in Achados(c, L, T)
    BY <1>5 DEF Achados
  <2>2. QED
    BY <1>4, <2>1
<1>8. ChunksNeeded(c.espera, T) = Cardinality(G)
  BY <1>1, GruposDe DEF ChunksNeeded
<1>9. IsFiniteSet(G) /\ Cardinality(G) \in Nat /\ TopK \in Nat
  <2> DEFINE f == [p \in V |-> K(p)]
  <2>1. IsFiniteSet(V)
    BY <1>1, FS_Subset
  <2>2. G = {f[x] : x \in DOMAIN f} /\ DOMAIN f = V
    <3> HIDE DEF K, V
    <3>1. QED
      OBVIOUS
  <2> HIDE DEF f, V, G
  <2>3. IsFiniteSet(G)
    BY <2>1, <2>2, Imagem
  <2>4. TopK \in Nat
    BY MedidasAssumption
  <2>5. QED
    BY <2>3, <2>4, FS_CardinalityType
<1> DEFINE um == [g \in G |-> CHOOSE n2 \in g : TRUE]
           S == {um[g] : g \in DOMAIN um}
<1>10. \A g \in G : g # {} /\ g \in SUBSET DOMAIN T /\ um[g] \in g
  <2>1. \A g \in G : g # {} /\ g \in SUBSET DOMAIN T
    BY DEF Carregam
  <2> HIDE DEF G
  <2>2. QED
    BY <2>1
<1>11. DOMAIN um = G
  OBVIOUS
<1>12. Cardinality(S) <= TopK
  <2> HIDE DEF um, T, G
  <2>1. /\ IsFiniteSet(S) /\ Cardinality(S) <= Cardinality(G)
    BY <1>9, <1>11, Imagem
  <2>2. Cardinality(S) \in Nat
    BY <2>1, FS_CardinalityType
  <2>3. Cardinality(G) <= TopK
    <3>1. ~(Cardinality(G) > TopK)
      BY <1>7, <1>8
    <3> DEFINE k == Cardinality(G)
    <3>2. k \in Nat /\ ~(k > TopK) /\ TopK \in Nat
      BY <1>9, <3>1
    <3> HIDE DEF k
    <3>3. k <= TopK
      BY <3>2
    <3>4. QED
      BY <3>3 DEF k
  <2> DEFINE j == Cardinality(S)
             k == Cardinality(G)
  <2>4. j \in Nat /\ k \in Nat /\ TopK \in Nat /\ j <= k /\ k <= TopK
    BY <1>9, <2>1, <2>2, <2>3
  <2> HIDE DEF j, k
  <2>5. j <= TopK
    BY <2>4
  <2>6. QED
    BY <2>5 DEF j
<1>13. S \in SUBSET DOMAIN T
  <2> HIDE DEF um, T, G
  <2>1. ASSUME NEW g \in G PROVE um[g] \in DOMAIN T
    BY <1>10
  <2>2. QED
    BY <1>11, <2>1
<1>14. ASSUME NEW p \in c.espera PROVE p \in UNION {ToSet(T[n2].ids) : n2 \in S}
  <2>1. K(p) \in G
    BY <1>6
  <2> DEFINE m == um[K(p)]
  <2>2. m \in S /\ m \in K(p)
    <3> HIDE DEF um, G, K
    <3>1. QED
      BY <1>10, <1>11, <2>1
  <2> HIDE DEF um, G, S, m
  <2>3. m \in DOMAIN T /\ Contains(T[m].ids, p)
    BY <2>2 DEF Carregam
  <2>4. T[m].ids \in Seq(DOMAIN L)
    BY <1>1, <2>3, TrechosAssumption
  <2> DEFINE s == T[m].ids
             X == DOMAIN L
  <2>5. p \in ToSet(s)
    <3>1. s \in Seq(X) /\ Contains(s, p)
      BY <2>3, <2>4
    <3> HIDE DEF s, X
    <3>2. QED
      BY <3>1 DEF Contains, ToSet
  <2>6. QED
    BY <2>2, <2>5
<1>15. c.espera \subseteq UNION {ToSet(T[n2].ids) : n2 \in S}
  BY <1>14
<1> HIDE DEF S
<1>16. QED
  BY <1>12, <1>13, <1>15

-----------------------------------------------------------------------------
(* The metrics of a retrieval.                                             *)

\* A subsequence is a sequence.
LEMMA NasTipo ==
    ASSUME NEW B, NEW s \in Seq(B), NEW D
    PROVE  Nas(s, D) \in Seq(B)
<1> DEFINE n == Len(s)
           A == Seq(B)
           z == <<>>
           Op(t, x) == IF x \in D THEN Append(t, s[x]) ELSE t
           F == [p \in (1..n) \X A |-> Op(p[2], p[1])]
           dom == [x \in DOMAIN s |-> x]
           E(f) == f = [T \in SUBSET (DOMAIN dom) |->
                          IF T = {} THEN z ELSE LET x == Max(T) IN Op(f[T \ {x}], dom[x])]
<1>1. n \in Nat /\ DOMAIN s = 1..n /\ DOMAIN dom = 1..n /\ z \in A
  BY DEF z
<1>2. F \in [(1..n) \X A -> A] /\ \A x \in 1..n, t \in A : F[<<x, t>>] = Op(t, x)
  BY DEF z
<1>3. \A T \in SUBSET (1..n) : T # {} => Max(T) \in 1..n /\ dom[Max(T)] = Max(T)
  BY <1>1, MaxMembro
<1> HIDE DEF F, dom, A, n, z
<1>4. Dobravel(n, A, z, F)
  BY <1>1, <1>2 DEF Dobravel
<1>5. PICK i : Segue(i, n, A, z, F) /\ Nas(s, D) = i[1..n]
  <2> HIDE DEF Op
  <2>1. PICK g : DobraDeMax(g, n, A, z, F)
    BY <1>4, DobraSeq DEF Dobravel
  <2>2. ASSUME NEW T \in SUBSET (1..n), T # {}, NEW f, f[T \ {Max(T)}] \in A
        PROVE  Op(f[T \ {Max(T)}], dom[Max(T)]) = F[<<Max(T), f[T \ {Max(T)}]>>]
    BY <1>2, <1>3, <2>2
  <2>3. E(g)
    <3>1. ASSUME NEW T \in SUBSET (1..n), T # {} PROVE g[T \ {Max(T)}] \in A
      BY <2>1 DEF DobraDeMax
    <3>2. QED
      BY <1>1, <2>1, <2>2, <3>1 DEF DobraDeMax
  <2>4. \E i : E(i) /\ Nas(s, D) = i[DOMAIN dom]
    BY <2>3 DEF Nas, FoldLeftDomain, FoldLeft, MapThenFoldSet, Op, dom, z
  <2>5. PICK i : E(i) /\ Nas(s, D) = i[1..n]
    BY <1>1, <2>4
  <2>6. Segue(i, n, A, z, F)
    BY <1>1, <2>2, <2>5 DEF Segue
  <2>7. QED
    BY <2>5, <2>6
<1>6. PICK h : Valores(h, n, A, z, F) /\ h[n] = i[1..n]
  BY <1>4, <1>5, Percurso
<1>7. h[n] \in A
  BY <1>1, <1>6 DEF Valores
<1>8. QED
  BY <1>5, <1>6, <1>7 DEF A

\* The top k are no more than a sequence.
LEMMA TopoTipo ==
    ASSUME NEW T, NEW N, NEW ord \in Seq(N)
    PROVE  Len(Topo(T, ord)) \in Nat
<1> DEFINE nomes == Nas(ord, {n \in DOMAIN ord : ord[n] \in DOMAIN T})
           R == {T[nomes[n]] : n \in 1..Len(nomes)}
           s == Proximos(T, ord)
           m == Min({TopK, Len(s)})
<1>1. nomes \in Seq(N)
  BY NasTipo
<1>2. Proximos(T, ord) = [n \in 1..Len(nomes) |-> T[nomes[n]]]
  BY DEF Proximos
<1> HIDE DEF nomes
<1>3. s \in Seq(R)
  BY <1>1, <1>2
<1>4. Len(s) \in Nat /\ TopK \in Nat
  BY <1>3, MedidasAssumption
<1> HIDE DEF s, R
<1>5. m \in Nat /\ m <= Len(s)
  <2>1. CASE TopK <= Len(s)
    <3>1. m = TopK
      <4>1. \A x \in {TopK, Len(s)} : (\A y \in {TopK, Len(s)} : x <= y) <=> x = TopK
        BY <1>4, <2>1
      <4>2. QED
        BY <4>1 DEF Min
    <3>2. QED
      BY <1>4, <2>1, <3>1
  <2>2. CASE ~(TopK <= Len(s))
    <3>1. m = Len(s)
      <4>1. \A x \in {TopK, Len(s)} : (\A y \in {TopK, Len(s)} : x <= y) <=> x = Len(s)
        BY <1>4, <2>2
      <4>2. QED
        BY <4>1 DEF Min
    <3>2. QED
      BY <1>4, <2>2, <3>1
  <2>3. QED
    BY <2>1, <2>2
<1> HIDE DEF m
<1>6. Len(SubSeq(s, 1, m)) \in Nat
  BY <1>3, <1>5
<1>7. QED
  BY <1>6 DEF Topo, s, m

\* The reciprocal rank of a case is a share.
LEMMA RrParcela ==
    ASSUME NEW c, NEW hits, Len(hits) \in Nat
    PROVE  Rr(c, hits) \in 0..Escala
<1> DEFINE A == Acertos(c, hits)
<1>1. Escala \in Nat
  BY MedidaAssumption
<1>2. A \subseteq 1..Len(hits)
  BY DEF Acertos
<1> HIDE DEF A
<1>3. CASE A = {}
  BY <1>1, <1>3 DEF Rr, A
<1>4. CASE A # {}
  <2>1. A \subseteq Nat
    BY <1>2
  <2>2. PICK x \in A : \A y \in A : x <= y
    BY <1>4, <2>1, TemMenor
  <2>3. Min(A) \in A
    BY <2>2 DEF Min
  <2> DEFINE k == Min(A)
  <2>4. k \in Nat /\ k >= 1
    <3> DEFINE n == Len(hits)
    <3>1. n \in Nat /\ k \in 1..n
      BY <1>2, <2>3
    <3> HIDE DEF n, k
    <3>2. QED
      BY <3>1
  <2> HIDE DEF k
  <2>5. Escala \div k \in 0..Escala
    BY <1>1, <2>4
  <2>6. QED
    BY <1>4, <2>5 DEF Rr, A, k
<1>5. QED
  BY <1>3, <1>4

\* A share of a share.
LEMMA DivisaoParcela ==
    ASSUME NEW e \in Nat, NEW b \in Nat, b > 0, NEW a \in 0..b
    PROVE  (e * a) \div b \in 0..e
<1>1. e * a \in Nat /\ e * b \in Nat
  OBVIOUS
<1>2. e * a <= e * b
  OBVIOUS
<1> DEFINE x == e * a
           y == e * b
           q == x \div b
<1>3. q \in Int /\ q >= 0 /\ b * q <= x
  OBVIOUS
<1>4. b * q <= b * e
  BY <1>1, <1>2, <1>3
<1>5. q <= e
  BY <1>3, <1>4
<1>6. QED
  BY <1>3, <1>5

\* What a context shows of the expected provisions is a share of them.
LEMMA RecallParcela ==
    ASSUME NEW c, IsFiniteSet(c.espera), c.espera # {}, NEW blocos
    PROVE  ContextRecall(c, blocos) \in 0..Escala
<1> DEFINE a == Cardinality(c.espera \cap Mostra(blocos))
           b == Cardinality(c.espera)
<1>1. Escala \in Nat
  BY MedidaAssumption
<1>2. IsFiniteSet(c.espera \cap Mostra(blocos)) /\ a <= b
  BY FS_Subset
<1>3. a \in Nat /\ b \in Nat
  BY <1>2, FS_CardinalityType
<1>4. b # 0
  BY FS_EmptySet
<1> HIDE DEF a, b
<1>5. b > 0 /\ a \in 0..b
  BY <1>2, <1>3, <1>4
<1>6. (Escala * a) \div b \in 0..Escala
  BY <1>1, <1>3, <1>5, DivisaoParcela
<1>7. QED
  BY <1>6 DEF ContextRecall, a, b

\* A rounded mean of shares is a share: the quotient is at most Casas, and it
\* is rounded up only when it is less.
LEMMA MeanParcela ==
    ASSUME NEW d \in Nat, NEW s \in 0..d
    PROVE  Mean(s, d) \in 0..Casas
<1>1. Casas \in Nat
  BY DEF Casas
<1>2. CASE d = 0
  BY <1>1, <1>2 DEF Mean
<1>3. CASE d # 0
  <2> DEFINE x == Casas * s
             q == x \div d
             r == x % d
  <2>1. d > 0 /\ s \in Nat /\ s <= d
    BY <1>3
  <2>2. x \in Nat /\ x <= Casas * d
    BY <1>1, <2>1
  <2>3. q \in Int /\ r \in 0..(d - 1) /\ x = d * q + r
    <3> HIDE DEF x
    <3>1. QED
      BY <2>1, <2>2
  <2>4. q \in 0..Casas
    BY <1>1, <2>1, DivisaoParcela
  <2> HIDE DEF x, q, r
  <2>5. q = Casas => r = 0
    <3>1. SUFFICES ASSUME q = Casas PROVE r = 0
      OBVIOUS
    <3>2. d * q = Casas * d
      BY <1>1, <2>1, <3>1
    <3>3. QED
      BY <1>1, <2>1, <2>2, <2>3, <3>2
  <2>6. (2 * r > d \/ (2 * r = d /\ q % 2 = 1)) => q + 1 \in 0..Casas
    <3>1. r = 0 => ~(2 * r > d) /\ ~(2 * r = d)
      BY <2>1
    <3>2. q # Casas => q + 1 \in 0..Casas
      BY <1>1, <2>4
    <3>3. QED
      BY <2>5, <3>1, <3>2
  <2>7. Round4(s, d) = IF 2 * r > d \/ (2 * r = d /\ q % 2 = 1) THEN q + 1 ELSE q
    BY DEF Round4, x, q, r
  <2>8. Round4(s, d) \in 0..Casas
    BY <2>4, <2>6, <2>7
  <2>9. QED
    BY <1>3, <2>8 DEF Mean
<1>4. QED
  BY <1>2, <1>3

\* Metrics that are shares of their group.
Parcela(b) == b \in Metricas /\ b.n <= b.n_context

\* A group whose cases have shares has metrics that are shares.
LEMMA GrupoParcela ==
    ASSUME NEW ctx, IsFiniteSet(DOMAIN ctx),
           \A n \in DOMAIN ctx :
               /\ Rr(ctx[n].caso, ctx[n].r.hits) \in 0..Escala
               /\ ContextRecall(ctx[n].caso, ctx[n].r.blocos) \in 0..Escala
    PROVE  Parcela(GroupMetrics(ctx))
<1> DEFINE D == DOMAIN ctx
           vec == {n \in D : ctx[n].caso.rota = "vector"}
           ok == {n \in vec : Solved(ctx[n].caso, ctx[n].r.hits)}
           f == [n \in vec |-> Rr(ctx[n].caso, ctx[n].r.hits)]
           h == [n \in D |-> ContextRecall(ctx[n].caso, ctx[n].r.blocos)]
           b == GroupMetrics(ctx)
           nv == Cardinality(vec)
           nd == Cardinality(D)
           no == Cardinality(ok)
           sf == FoldFunction(+, 0, f)
           sh == FoldFunction(+, 0, h)
<1>1. Escala \in Nat
  BY MedidaAssumption
<1>2. vec \in SUBSET D /\ ok \in SUBSET vec
  OBVIOUS
<1>3. DOMAIN f = vec /\ (\A n \in DOMAIN f : f[n] \in 0..Escala)
  OBVIOUS
<1>4. DOMAIN h = D /\ (\A n \in DOMAIN h : h[n] \in 0..Escala)
  OBVIOUS
<1>5. b = [n |-> nv, n_context |-> nd, success |-> Mean(no, nv),
           mrr |-> Mean(sf, Escala * nv), context |-> Mean(sh, Escala * nd)]
  BY DEF GroupMetrics
<1> HIDE DEF vec, ok, f, h, b
<1>6. IsFiniteSet(D) /\ IsFiniteSet(vec) /\ IsFiniteSet(ok) /\ nv <= nd /\ no <= nv
  BY <1>2, FS_Subset
<1>7. nv \in Nat /\ nd \in Nat /\ no \in Nat
  BY <1>6, FS_CardinalityType
<1>8. sf \in Nat /\ sf <= Escala * nv
  BY <1>1, <1>3, <1>6, SomaAte
<1>9. sh \in Nat /\ sh <= Escala * nd
  BY <1>1, <1>4, <1>6, SomaAte
<1> HIDE DEF nv, nd, no, sf, sh
<1>10. Escala * nv \in Nat /\ Escala * nd \in Nat
  BY <1>1, <1>7
<1>11. no \in 0..nv /\ sf \in 0..(Escala * nv) /\ sh \in 0..(Escala * nd)
  BY <1>6, <1>7, <1>8, <1>9, <1>10
<1>12. Mean(no, nv) \in Quota /\ Mean(sf, Escala * nv) \in Quota /\ Mean(sh, Escala * nd) \in Quota
  BY <1>7, <1>10, <1>11, MeanParcela DEF Quota
<1>13. b \in Metricas /\ b.n = nv /\ b.n_context = nd
  BY <1>5, <1>7, <1>12 DEF Metricas
<1>14. QED
  BY <1>6, <1>13 DEF Parcela, b

\* Every retrieval measured has them, on the rows of a law and the vectors of
\* another, or on no rows.
LEMMA MedidaParcela ==
    ASSUME NEW r \in 1..Len(Golden), NEW l \in 0..Len(Leis), NEW v \in Versoes, NEW g \in Grupos
    PROVE  Parcela(Medidas[l][v][r][g])
<1> DEFINE s == Golden[r].casos
           L == LeiDe(l)
           T == Trechos[v]
           ctx == Outcomes(Golden[r], g, L, T)
           D == Agora(Golden[r], g)
           X == ToSet(s)
           N == UNION {DOMAIN Trechos[w] : w \in 1..Len(Trechos)}
<1>1. s \in Seq(X)
  BY MedidaAssumption
<1>2. Len(s) \in Nat /\ \A n \in 1..Len(s) : s[n] \in X
  <2> HIDE DEF s, X
  <2>1. QED
    BY <1>1
<1>3. D \subseteq 1..Len(s) /\ DOMAIN ctx = D
  BY DEF Agora, Outcomes
<1>4. IsFiniteSet(D)
  <2> HIDE DEF D, s
  <2>1. IsFiniteSet(1..Len(s))
    BY <1>2, FS_Interval
  <2>2. QED
    BY <1>3, <2>1, FS_Subset
<1>5. ASSUME NEW n \in D
      PROVE  /\ Rr(ctx[n].caso, ctx[n].r.hits) \in 0..Escala
             /\ ContextRecall(ctx[n].caso, ctx[n].r.blocos) \in 0..Escala
  <2> DEFINE c == s[n]
             q == c.perguntas[g]
             ret == Retrieve(q, DOMAIN L, L, T)
  <2>1. ctx[n] = [caso |-> c, r |-> ret]
    BY DEF Outcomes
  <2>2. c.espera # {} /\ g \in DOMAIN c.perguntas
    BY DEF Agora, Medido
  <2>3. c \in X
    <3> HIDE DEF D, X, s
    <3>1. QED
      BY <1>2, <1>3
  <2>4. IsFiniteSet(c.espera) /\ q.ordem \in Seq(N)
    BY <2>2, <2>3, MedidaAssumption
  <2>5. Len(ret.hits) \in Nat
    <3> DEFINE plano == Rota(q, DOMAIN L)
               N2 == N
    <3>1. Len(Topo(T, q.ordem)) \in Nat
      <4> HIDE DEF T, q, N
      <4>1. QED
        BY <2>4, TopoTipo
    <3>2. ret.hits = IF plano.rota \in {"vector", "combined"} THEN Topo(T, q.ordem) ELSE <<>>
      <4> HIDE DEF T, q, plano
      <4>1. QED
        BY DEF Retrieve, Busca, plano
    <3> HIDE DEF ret, plano, T, q
    <3>3. QED
      BY <3>1, <3>2
  <2> HIDE DEF c, ret, ctx, q
  <2>6. Rr(c, ret.hits) \in 0..Escala
    BY <2>5, RrParcela
  <2>7. ContextRecall(c, ret.blocos) \in 0..Escala
    BY <2>2, <2>4, RecallParcela
  <2>8. QED
    BY <2>1, <2>6, <2>7
<1>6. Parcela(GroupMetrics(ctx))
  <2> HIDE DEF ctx, D
  <2>1. QED
    BY <1>3, <1>4, <1>5, GrupoParcela
<1>7. Medidas[l][v][r][g] = GroupMetrics(ctx)
  <2> DEFINE E(x, y, z) == Evaluate(Golden[z], LeiDe(x), Trechos[y])
  <2>1. Medidas[l][v][r] = E(l, v, r)
    <3> HIDE DEF E
    <3>1. Medidas = [x \in 0..Len(Leis) |-> [y \in Versoes |-> [z \in 1..Len(Golden) |-> E(x, y, z)]]]
      BY DEF Medidas, E
    <3>2. QED
      BY <3>1
  <2>2. E(l, v, r)[g] = GroupMetrics(ctx)
    BY DEF Evaluate
  <2>3. QED
    BY <2>1, <2>2
<1>8. QED
  BY <1>6, <1>7

-----------------------------------------------------------------------------
(* The phrasings of a run are a sequence.                                  *)

\* Each case adds its phrasings to those before it.
LEMMA TodoTipo ==
    ASSUME NEW v, NEW C, v.casos \in Seq(C)
    PROVE  \E B : Todo(v) \in Seq(B)
<1> DEFINE s == v.casos
           B == C \X {"fiscal", "formal"}
           n == Len(s)
           A == Seq(B)
           z == <<>>
           Op(t, c) == IF c \notin DevCases(v) THEN t
                       ELSE t \o <<<<c, "fiscal">>>>
                              \o (IF "formal" \in DOMAIN c.perguntas THEN <<<<c, "formal">>>> ELSE <<>>)
           F == [p \in (1..n) \X A |-> Op(p[2], s[p[1]])]
           E(f) == f = [T \in SUBSET (DOMAIN s) |->
                          IF T = {} THEN z ELSE LET x == Max(T) IN Op(f[T \ {x}], s[x])]
<1>1. n \in Nat /\ DOMAIN s = 1..n /\ z \in A /\ \A x \in 1..n : s[x] \in C
  BY DEF z
<1>2. F \in [(1..n) \X A -> A] /\ \A x \in 1..n, t \in A : F[<<x, t>>] = Op(t, s[x])
  <2>1. ASSUME NEW x \in 1..n, NEW t \in A PROVE Op(t, s[x]) \in A
    <3> DEFINE c == s[x]
    <3>1. c \in C
      BY <1>1
    <3> HIDE DEF c, s, n
    <3>2. <<c, "fiscal">> \in B /\ <<c, "formal">> \in B
      BY <3>1
    <3> HIDE DEF B
    <3>3. t \o <<<<c, "fiscal">>>> \in Seq(B) /\ <<<<c, "formal">>>> \in Seq(B)
      BY <2>1, <3>2
    <3>4. Op(t, c) \in Seq(B)
      BY <2>1, <3>3
    <3>5. QED
      BY <3>4 DEF c
  <2> HIDE DEF Op, A
  <2>2. QED
    BY <2>1
<1>3. \A T \in SUBSET (1..n) : T # {} => Max(T) \in 1..n
  BY <1>1, MaxMembro
<1> HIDE DEF F, A, n, z, s
<1>4. Dobravel(n, A, z, F)
  BY <1>1, <1>2 DEF Dobravel
<1>5. PICK i : Segue(i, n, A, z, F) /\ Todo(v) = i[1..n]
  <2> HIDE DEF Op
  <2>1. PICK g : DobraDeMax(g, n, A, z, F)
    BY <1>4, DobraSeq DEF Dobravel
  <2>2. ASSUME NEW T \in SUBSET (1..n), T # {}, NEW f, f[T \ {Max(T)}] \in A
        PROVE  Op(f[T \ {Max(T)}], s[Max(T)]) = F[<<Max(T), f[T \ {Max(T)}]>>]
    BY <1>2, <1>3, <2>2
  <2>3. E(g)
    <3>1. ASSUME NEW T \in SUBSET (1..n), T # {} PROVE g[T \ {Max(T)}] \in A
      BY <2>1 DEF DobraDeMax
    <3>2. DOMAIN s = 1..n
      BY <1>1
    <3>3. QED
      BY <2>1, <2>2, <3>1, <3>2 DEF DobraDeMax
  <2>4. \E i : E(i) /\ Todo(v) = i[DOMAIN s]
    BY <2>3 DEF Todo, FoldLeft, MapThenFoldSet, Op, z, s
  <2>5. PICK i : E(i) /\ Todo(v) = i[1..n]
    BY <1>1, <2>4
  <2>6. Segue(i, n, A, z, F)
    BY <1>1, <2>2, <2>5 DEF Segue
  <2>7. QED
    BY <2>5, <2>6
<1>6. PICK h : Valores(h, n, A, z, F) /\ h[n] = i[1..n]
  BY <1>4, <1>5, Percurso
<1>7. h[n] \in A
  BY <1>1, <1>6 DEF Valores
<1>8. Todo(v) \in Seq(B)
  BY <1>5, <1>6, <1>7 DEF A
<1> HIDE DEF B
<1>9. QED
  BY <1>8

\* So they can be counted.
LEMMA TodosContados ==
    ASSUME NEW r \in 1..Len(Golden)
    PROVE  Len(Todos[r]) \in Nat
<1>1. \E B : Todo(Golden[r]) \in Seq(B)
  BY MedidaAssumption, TodoTipo
<1>2. Todos[r] = Todo(Golden[r])
  BY DEF Todos
<1>3. QED
  BY <1>1, <1>2

-----------------------------------------------------------------------------
(* The types.                                                              *)

\* A generation under way is of labels that have dev cases, on a law that was
\* extracted, and has answered no more phrasings than it has.
EmCurso(g) ==
    /\ g.rotulo \in 1..Len(Golden) /\ g.pasta \in Versoes /\ DevIds[g.rotulo] # {}
    /\ "outs" \in DOMAIN g /\ \E B : g.outs \in Seq(B)
    /\ Len(g.outs) <= Len(Todos[g.rotulo])

MundoTipado ==
    /\ pdf \in Versoes /\ rotulo \in 1..Len(Golden)
    /\ llm \in DOMAIN Replica /\ decisao \in Regras
DadosTipados ==
    /\ atual \in 0..Len(Leis) /\ tab \in 0..Len(Leis) /\ loja \in 0..Len(Leis)
    /\ loja # 0 => atual # 0
DagTipado == ativo \in BOOLEAN /\ force \in BOOLEAN /\ ultimo \in {"nenhum", "verde", "vermelha"}
GerTipado == \A p \in Procs : ger[p].fase = "gera" => EmCurso(ger[p])
Relatado(x) == x.pasta \in Versoes /\ x.dev # {} /\ x.passou \in BOOLEAN
RelatoriosTipados == \A x \in relatorios : Relatado(x)
BaseTipada == baseBusca.medida => \A g \in Grupos : Parcela(baseBusca.m[g])

Tipado == /\ MundoTipado /\ DadosTipados /\ DagTipado
          /\ GerTipado /\ RelatoriosTipados /\ BaseTipada

\* Versions and labels are counted from 1.
LEMMA Contadas ==
    /\ Len(Leis) \in Nat /\ Len(Golden) \in Nat
    /\ 1 \in Versoes /\ 1 \in 1..Len(Golden)
    /\ Versoes \subseteq 0..Len(Leis) /\ 0 \in 0..Len(Leis) /\ 0 \notin Versoes
    /\ \A v \in 0..Len(Leis) : v # 0 => v \in Versoes
<1>1. /\ Len(Leis) \in Nat /\ Len(Leis) # 0
      /\ Len(Golden) \in Nat /\ Len(Golden) # 0
  BY MedidaAssumption
<1>2. QED
  BY <1>1 DEF Versoes

\* The baselines committed with the first labels were measured.
LEMMA TiposInicio == Init => Tipado
<1> SUFFICES ASSUME Init PROVE Tipado
  OBVIOUS
<1>1. MundoTipado /\ DadosTipados /\ DagTipado
  BY Contadas DEF Init, MundoTipado, DadosTipados, DagTipado, Regras
<1>2. GerTipado
  BY DEF Init, GerTipado, Livre
<1>3. RelatoriosTipados
  BY DEF Init, RelatoriosTipados
<1>4. BaseTipada
  <2>1. CASE baseBusca = SemBase
    BY <2>1, Zenon DEF BaseTipada, SemBase
  <2>2. CASE baseBusca = BaseInicial
    <3>1. baseBusca.m = Medidas[1][1][1]
      BY <2>2 DEF BaseInicial
    <3>2. \A g \in Grupos : Parcela(Medidas[1][1][1][g])
      BY Contadas, MedidaParcela
    <3>3. QED
      BY <3>1, <3>2 DEF BaseTipada
  <2>3. QED
    BY <2>1, <2>2 DEF Init
<1>5. QED
  BY <1>1, <1>2, <1>3, <1>4 DEF Tipado

\* The law, the labels, the LLM and the rule change only for others.
LEMMA MundoTipos ==
    ASSUME Tipado, [Next]_vars
    PROVE  MundoTipado'
<1>1. CASE UNCHANGED mundo
  BY <1>1 DEF Tipado, MundoTipado, mundo
<1>2. CASE \/ \E v \in Versoes : Publica(v)
           \/ \E r \in 1..Len(Golden) : Reetiqueta(r)
           \/ \E m \in DOMAIN Replica : TrocaLlm(m)
           \/ \E d \in Regras : TrocaDecisao(d)
  BY <1>2 DEF Tipado, MundoTipado, Publica, Reetiqueta, TrocaLlm, TrocaDecisao
<1>3. CASE \/ UNCHANGED vars \/ Airflow \/ Mao \/ \E p \in Procs : MataGera(p)
  <2>1. UNCHANGED mundo
    BY <1>3 DEF vars, Airflow, Mao, AbrirRun, RodarDados, RodarCarga, RodarVetores, RodarContrato,
                RodarAval, RodarGera, Propagar, Responde, TerminaGera, FimRun, GerarAMao,
                EscreverBase, MataGera
  <2>2. QED
    BY <1>1, <2>1
<1>4. QED
  BY <1>2, <1>3 DEF Next, Mundo

\* The lake and its projections follow the law published.
LEMMA DadosTipos ==
    ASSUME Tipado, [Next]_vars
    PROVE  DadosTipados'
<1>1. CASE UNCHANGED dados
  BY <1>1 DEF Tipado, DadosTipados, dados
<1>2. CASE RodarDados \/ RodarCarga \/ RodarVetores
  <2>1. pdf \in 0..Len(Leis) /\ pdf # 0
    BY Contadas DEF Tipado, MundoTipado
  <2>2. \/ atual' \in {atual, pdf} /\ UNCHANGED <<tab, loja>>
        \/ tab' \in {tab, atual} /\ UNCHANGED <<atual, loja>>
        \/ loja' \in {loja, atual} /\ UNCHANGED <<atual, tab>>
    BY <1>2 DEF RodarDados, RodarCarga, RodarVetores, Extraida
  <2>3. QED
    BY <2>1, <2>2 DEF Tipado, DadosTipados
<1>3. CASE \/ UNCHANGED vars \/ RodarContrato \/ RodarAval \/ RodarGera \/ FimRun \/ Mao \/ Mundo
           \/ \E f \in BOOLEAN : AbrirRun(f)
           \/ \E t \in Tarefas : Propagar(t)
           \/ Responde("dag") \/ TerminaGera("dag")
  <2>1. UNCHANGED dados
    BY <1>3 DEF vars, Mao, Mundo, Evento, AbrirRun, RodarContrato, RodarAval, RodarGera, Propagar,
                Responde, TerminaGera, FimRun, GerarAMao, EscreverBase, MataGera, Publica,
                Reetiqueta, TrocaLlm, TrocaDecisao
  <2>2. QED
    BY <1>1, <2>1
<1>4. QED
  BY <1>2, <1>3 DEF Next, Airflow

\* The run and its colour.
LEMMA DagTipos ==
    ASSUME Tipado, [Next]_vars
    PROVE  DagTipado'
<1>1. CASE UNCHANGED dag
  BY <1>1 DEF Tipado, DagTipado, dag
<1>2. CASE FimRun \/ \E f \in BOOLEAN : AbrirRun(f)
  BY <1>2 DEF Tipado, DagTipado, FimRun, AbrirRun
<1>3. CASE \/ UNCHANGED vars \/ RodarDados \/ RodarCarga \/ RodarVetores \/ RodarContrato
           \/ RodarAval \/ RodarGera \/ Mao \/ Mundo
           \/ \E t \in Tarefas : Propagar(t)
           \/ Responde("dag") \/ TerminaGera("dag")
  <2>1. UNCHANGED dag
    BY <1>3 DEF vars, Mao, Mundo, Evento, RodarDados, RodarCarga, RodarVetores, RodarContrato,
                RodarAval, RodarGera, Propagar, Responde, TerminaGera, GerarAMao, EscreverBase,
                MataGera, Publica, Reetiqueta, TrocaLlm, TrocaDecisao
  <2>2. QED
    BY <1>1, <2>1
<1>4. QED
  BY <1>2, <1>3 DEF Next, Airflow

\* A retrieval baseline is measured on the vectors of some law.
LEMMA BaseTipos ==
    ASSUME Tipado, [Next]_vars
    PROVE  BaseTipada'
<1>1. CASE UNCHANGED baseBusca
  BY <1>1 DEF Tipado, BaseTipada
<1>2. CASE EscreverBase
  <2>1. baseBusca'.m = Medidas[tab][loja][rotulo] /\ loja # 0
    BY <1>2 DEF EscreverBase, RotulosVelhos
  <2>2. tab \in 0..Len(Leis) /\ loja \in Versoes /\ rotulo \in 1..Len(Golden)
    BY <2>1, Contadas DEF Tipado, DadosTipados, MundoTipado
  <2>3. \A g \in Grupos : Parcela(Medidas[tab][loja][rotulo][g])
    BY <2>2, MedidaParcela
  <2>4. QED
    BY <2>1, <2>3 DEF BaseTipada
<1>3. CASE \/ UNCHANGED vars \/ Airflow \/ Mundo
           \/ \E modo \in {"mede", "gate", "base"} : GerarAMao(modo)
           \/ Responde("mao") \/ TerminaGera("mao")
  <2>1. UNCHANGED baseBusca
    BY <1>3 DEF vars, bases, Airflow, Mundo, Evento, AbrirRun, RodarDados, RodarCarga, RodarVetores,
                RodarContrato, RodarAval, RodarGera, Propagar, Responde, TerminaGera, FimRun,
                GerarAMao, MataGera, Publica, Reetiqueta, TrocaLlm, TrocaDecisao
  <2>2. QED
    BY <1>1, <2>1
<1>4. QED
  BY <1>2, <1>3 DEF Next, Mao

\* A process of lc06 ends, or another goes on: what is under way is as it was.
LEMMA GerSai ==
    ASSUME Quadro, Tipado, NEW p \in Procs, NEW s, Sai(p, s)
    PROVE  GerTipado'
<1>1. ger' = [ger EXCEPT ![p] = Livre]
  BY DEF Sai
<1>2. ger'[p] = Livre /\ \A q \in Procs \ {p} : ger'[q] = ger[q]
  BY <1>1 DEF Quadro
<1>3. QED
  BY <1>2 DEF Tipado, GerTipado, EmCurso, Livre

\* A generation starts with no answer, on a law that was extracted and on labels
\* with dev cases.
LEMMA GerComeca ==
    ASSUME Quadro, Tipado, NEW p \in Procs, NEW modo, ComecaGera(p, modo)
    PROVE  GerTipado'
<1>1. CASE \E s \in {"sem_llm", "falhou", "em_dia"} : Sai(p, s)
  BY <1>1, GerSai
<1>2. CASE \A s \in {"sem_llm", "falhou", "em_dia"} : ~Sai(p, s)
  <2> DEFINE g == [fase |-> "gera", modo |-> modo, rotulo |-> rotulo, pasta |-> atual,
                   indice |-> tab, decisao |-> decisao, chave |-> Chave(loja, rotulo, llm),
                   outs |-> <<>>]
  <2>1. ger' = [ger EXCEPT ![p] = g] /\ ~RotulosVelhos /\ DevIds[rotulo] # {}
    BY <1>2 DEF ComecaGera
  <2>2. g.rotulo = rotulo /\ g.pasta = atual /\ g.outs = <<>> /\ "outs" \in DOMAIN g
    OBVIOUS
  <2> HIDE DEF g
  <2>3. rotulo \in 1..Len(Golden) /\ atual \in Versoes
    BY <2>1, Contadas DEF Tipado, MundoTipado, DadosTipados, RotulosVelhos
  <2>4. <<>> \in Seq({}) /\ Len(<<>>) <= Len(Todos[rotulo])
    BY <2>3, TodosContados
  <2>5. EmCurso(g)
    BY <2>1, <2>2, <2>3, <2>4 DEF EmCurso
  <2>6. ger'[p] = g /\ \A q \in Procs \ {p} : ger'[q] = ger[q]
    BY <2>1 DEF Quadro
  <2>7. QED
    BY <2>5, <2>6 DEF Tipado, GerTipado, EmCurso
<1>3. QED
  BY <1>1, <1>2

\* One phrasing more is answered only where one is missing.
LEMMA GerResponde ==
    ASSUME Quadro, Tipado, NEW p \in Procs, Responde(p)
    PROVE  GerTipado'
<1>1. CASE Sai(p, "sem_llm")
  BY <1>1, GerSai
<1>2. CASE ~Sai(p, "sem_llm")
  <2> DEFINE g == ger[p]
             n == Len(Todos[g.rotulo])
  <2>1. ger[p].fase = "gera" /\ n - Len(g.outs) > 0
    BY DEF Responde, Falta
  <2>2. EmCurso(g)
    BY <2>1 DEF Tipado, GerTipado
  <2>3. PICK o : ger' = [ger EXCEPT ![p].outs = Append(g.outs, o)]
    <3>1. \E o : ger' = [ger EXCEPT ![p].outs = Append(@, o)]
      BY <1>2 DEF Responde
    <3>2. QED
      BY <3>1
  <2> DEFINE t == Append(g.outs, o)
             h == [g EXCEPT !.outs = t]
  <2>4. ger'[p] = h /\ \A q \in Procs \ {p} : ger'[q] = ger[q]
    BY <2>3 DEF Quadro
  <2>5. PICK B : g.outs \in Seq(B)
    BY <2>2 DEF EmCurso
  <2>6. t \in Seq(B \cup {o}) /\ Len(t) = Len(g.outs) + 1 /\ Len(g.outs) \in Nat
    <3> DEFINE u == g.outs
    <3>1. u \in Seq(B) /\ u \in Seq(B \cup {o})
      BY <2>5
    <3> HIDE DEF u
    <3>2. Append(u, o) \in Seq(B \cup {o}) /\ Len(Append(u, o)) = Len(u) + 1 /\ Len(u) \in Nat
      BY <3>1
    <3>3. QED
      BY <3>2 DEF u
  <2>7. n \in Nat
    BY <2>2, TodosContados DEF EmCurso
  <2>8. h.rotulo = g.rotulo /\ h.pasta = g.pasta /\ h.outs = t /\ "outs" \in DOMAIN h
    <3>1. "outs" \in DOMAIN g
      BY <2>2 DEF EmCurso
    <3> HIDE DEF g, t
    <3>2. QED
      BY <3>1
  <2> HIDE DEF h, t, g, n
  <2>9. Len(t) <= n
    BY <2>1, <2>6, <2>7
  <2>10. EmCurso(h)
    BY <2>2, <2>6, <2>8, <2>9 DEF EmCurso, n
  <2>11. QED
    BY <2>4, <2>10 DEF Tipado, GerTipado, EmCurso
<1>3. QED
  BY <1>1, <1>2

\* No other step touches a generation.
LEMMA GerTipos ==
    ASSUME Quadro, Tipado, [Next]_vars
    PROVE  GerTipado'
<1>1. CASE UNCHANGED ger
  BY <1>1 DEF Tipado, GerTipado, EmCurso
<1>2. CASE \/ RodarGera \/ \E modo \in {"mede", "gate", "base"} : GerarAMao(modo)
  BY <1>2, GerComeca DEF RodarGera, GerarAMao, Procs
<1>3. CASE \E p \in Procs : Responde(p) \/ TerminaGera(p) \/ MataGera(p)
  <2>1. PICK p \in Procs : Responde(p) \/ \E s : Sai(p, s)
    BY <1>3 DEF TerminaGera, MataGera
  <2>2. QED
    BY <2>1, GerResponde, GerSai
<1>4. CASE \/ UNCHANGED vars \/ \E f \in BOOLEAN : AbrirRun(f)
           \/ RodarDados \/ RodarCarga \/ RodarVetores \/ RodarContrato \/ RodarAval
           \/ \E t \in Tarefas : Propagar(t)
           \/ FimRun \/ EscreverBase
  <2>1. UNCHANGED ger
    BY <1>4 DEF vars, AbrirRun, RodarDados, RodarCarga, RodarVetores, RodarContrato, RodarAval,
                Propagar, FimRun, EscreverBase
  <2>2. QED
    BY <1>1, <2>1
<1>5. CASE \/ \E v \in Versoes : Publica(v)
           \/ \E r \in 1..Len(Golden) : Reetiqueta(r)
           \/ \E m \in DOMAIN Replica : TrocaLlm(m)
           \/ \E d \in Regras : TrocaDecisao(d)
  <2>1. UNCHANGED ger
    BY <1>5 DEF Publica, Reetiqueta, TrocaLlm, TrocaDecisao, Evento
  <2>2. QED
    BY <1>1, <2>1
<1>6. QED
  BY <1>2, <1>3, <1>4, <1>5 DEF Next, Airflow, Mao, Mundo, Procs

\* Only a generation that answered everything leaves a report.
LEMMA RelataTipo ==
    ASSUME Tipado, NEW p \in Procs, TerminaGera(p)
    PROVE  RelatoriosTipados'
<1> DEFINE g == ger[p]
           passa == GenGate(GenMetrics(g.outs), baseGera.m)
           r(ok) == [pasta |-> g.pasta, chave |-> g.chave, dev |-> DevIds[g.rotulo], passou |-> ok]
<1>1. passa \in BOOLEAN
  BY Zenon DEF GenGate
<1>2. EmCurso(g)
  BY DEF TerminaGera, Tipado, GerTipado
<1>3. \/ UNCHANGED relatorios
      \/ relatorios' = relatorios \cup {r(FALSE)}
      \/ relatorios' = relatorios \cup {r(passa)}
  BY DEF TerminaGera
<1>4. \A ok \in BOOLEAN : Relatado(r(ok))
  BY <1>2 DEF EmCurso, Relatado
<1> HIDE DEF g, passa, r
<1>5. QED
  BY <1>1, <1>3, <1>4 DEF Tipado, RelatoriosTipados

\* No other step leaves a report.
LEMMA RelatoriosTipos ==
    ASSUME Tipado, [Next]_vars
    PROVE  RelatoriosTipados'
<1>1. CASE UNCHANGED relatorios
  BY <1>1 DEF Tipado, RelatoriosTipados
<1>2. CASE \E p \in Procs : TerminaGera(p)
  BY <1>2, RelataTipo
<1>3. CASE \/ UNCHANGED vars \/ \E f \in BOOLEAN : AbrirRun(f)
           \/ RodarDados \/ RodarCarga \/ RodarVetores \/ RodarContrato \/ RodarAval \/ RodarGera
           \/ \E t \in Tarefas : Propagar(t)
           \/ FimRun \/ EscreverBase \/ Mundo
           \/ \E p \in Procs : Responde(p)
           \/ \E modo \in {"mede", "gate", "base"} : GerarAMao(modo)
  <2>1. UNCHANGED relatorios
    BY <1>3 DEF vars, AbrirRun, RodarDados, RodarCarga, RodarVetores, RodarContrato, RodarAval,
                RodarGera, Propagar, FimRun, EscreverBase, Mundo, Evento, Publica, Reetiqueta,
                TrocaLlm, TrocaDecisao, MataGera, Responde, GerarAMao
  <2>2. QED
    BY <1>1, <2>1
<1>4. QED
  BY <1>2, <1>3 DEF Next, Airflow, Mao, Procs

\* The types are kept by every step.
LEMMA TiposPasso ==
    ASSUME IInv, Tipado, [Next]_vars
    PROVE  Tipado'
  BY MundoTipos, DadosTipos, DagTipos, GerTipos, RelatoriosTipos, BaseTipos DEF IInv, Tipado

\* What is missing of a generation is never less than nothing.
LEMMA FaltaTipo ==
    ASSUME Quadro, Tipado, NEW p \in Procs, ger[p] # Livre
    PROVE  Falta(p) \in Nat
<1> DEFINE n == Len(Todos[ger[p].rotulo])
           k == Len(ger[p].outs)
<1>1. EmCurso(ger[p])
  BY DEF Quadro, Tipado, GerTipado
<1>2. n \in Nat
  BY <1>1, TodosContados DEF EmCurso
<1>3. k \in Nat /\ k <= n
  BY <1>1 DEF EmCurso
<1>4. Falta(p) = n - k
  BY DEF Falta
<1> HIDE DEF n, k
<1>5. QED
  BY <1>2, <1>3, <1>4

\* With the board of the tasks they are what TypeOK says.
LEMMA TiposBastam ==
    ASSUME IInv, Tipado
    PROVE  TypeOK
<1>1. /\ pdf \in Versoes /\ rotulo \in 1..Len(Golden) /\ llm \in DOMAIN Replica
      /\ decisao \in Regras /\ {atual, tab, loja} \subseteq 0..Len(Leis)
      /\ ativo \in BOOLEAN /\ force \in BOOLEAN /\ ultimo \in {"nenhum", "verde", "vermelha"}
  BY DEF Tipado, MundoTipado, DadosTipados, DagTipado
<1>2. ti \in [Tarefas -> {"none", "rodando"} \cup Terminais]
  BY DEF IInv, Quadro, Estados
<1>3. (ger["dag"] # Livre) = (ti["gera"] = "rodando")
  BY DEF IInv, Quadro, Livre, Procs
<1>4. \A p \in Procs : ger[p] # Livre => Falta(p) \in Nat
  BY FaltaTipo DEF IInv
<1>5. \A x \in relatorios : x.pasta \in Versoes /\ x.dev # {} /\ x.passou \in BOOLEAN
  BY DEF Tipado, RelatoriosTipados, Relatado
<1>6. baseBusca.medida =>
          \A g \in Grupos :
              baseBusca.m[g] \in Metricas /\ baseBusca.m[g].n <= baseBusca.m[g].n_context
  BY DEF Tipado, BaseTipada, Parcela
<1>7. QED
  BY <1>1, <1>2, <1>3, <1>4, <1>5, <1>6 DEF TypeOK

\* State and baselines keep their types, and every metric of a retrieval
\* baseline is a share of its group, whatever the ranks are.
THEOREM TiposDaAvaliacao == Spec => []TypeOK
<1>1. Init => IInv /\ Tipado
  BY Inicio, TiposInicio
<1>2. IInv /\ Tipado /\ [Next]_vars => IInv' /\ Tipado'
  BY Passo, TiposPasso
<1>3. IInv /\ Tipado => TypeOK
  BY TiposBastam
<1>4. QED
  BY <1>1, <1>2, <1>3, PTL DEF Spec

-----------------------------------------------------------------------------
(* The contract is enough for the metric.                                  *)

\* A case that the contract lets through is solved by the chunks of its groups.
LEMMA CasoSolucionavel ==
    ASSUME NEW r \in 1..Len(Golden), NEW c \in ToSet(Golden[r].casos),
           Contratos[Golden[r].lei][r], ~c.conhecido, Medido(c), c.modo = "all"
    PROVE  \E S \in SUBSET DOMAIN Trechos[Golden[r].lei] :
               /\ Cardinality(S) <= TopK
               /\ c.espera \subseteq UNION {ToSet(Trechos[Golden[r].lei][n].ids) : n \in S}
<1> DEFINE l == Golden[r].lei
<1>1. l \in 1..Len(Leis) /\ IsFiniteSet(c.espera)
  BY MedidaAssumption
<1>2. Contratos[l][r] /\ ~c.conhecido
  OBVIOUS
<1>3. c.rota \in {"vector", "combined"}
  BY DEF Medido
<1> HIDE DEF l
<1>4. Achados(c, Leis[l], Trechos[l]) = {}
  BY <1>1, <1>2, SemAchados, Zenon
<1>5. \E S \in SUBSET DOMAIN Trechos[l] :
          /\ Cardinality(S) <= TopK
          /\ c.espera \subseteq UNION {ToSet(Trechos[l][n].ids) : n \in S}
  BY <1>1, <1>3, <1>4, ContratoBasta
<1>6. QED
  BY <1>5 DEF l

\* Of the labels of the moment, no case that the contract lets through with
\* mode = all is beyond the metric, which looks at TopK chunks.
THEOREM ContratoSempreSolucionavel == Spec => []ContratoSolucionavel
<1>1. Init => IInv /\ Tipado
  BY Inicio, TiposInicio
<1>2. IInv /\ Tipado /\ [Next]_vars => IInv' /\ Tipado'
  BY Passo, TiposPasso
<1>3. IInv /\ Tipado => ContratoSolucionavel
  <2>1. ASSUME rotulo \in 1..Len(Golden), NEW c \in ToSet(Golden[rotulo].casos),
               Contratos[Golden[rotulo].lei][rotulo], ~c.conhecido, Medido(c), c.modo = "all"
        PROVE  \E S \in SUBSET DOMAIN Trechos[Golden[rotulo].lei] :
                   /\ Cardinality(S) <= TopK
                   /\ c.espera \subseteq UNION {ToSet(Trechos[Golden[rotulo].lei][n].ids) : n \in S}
    BY <2>1, CasoSolucionavel, Zenon
  <2>2. QED
    BY <2>1, Zenon DEF Tipado, MundoTipado, ContratoSolucionavel
<1>4. QED
  BY <1>1, <1>2, <1>3, PTL DEF Spec
=============================================================================
