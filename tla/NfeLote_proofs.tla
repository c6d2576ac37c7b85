--------------------------- MODULE NfeLote_proofs ---------------------------
(***************************************************************************)
(* Theorems about the NF-e lot pipeline, for every set of files, every lot *)
(* size and every bound on runs, failures and operator interventions.      *)
(***************************************************************************)
EXTENDS NfeLote, FiniteSetTheorems, WellFoundedInduction, TLAPS

USE DEF Runs, Lotes

-----------------------------------------------------------------------------
(* A task that ends, well or not, leaves the task instances well typed. *)

LEMMA TerminaTi ==
    ASSUME TipoAirflow, TipoLimites, run # 0, NEW t \in Tarefas, Termina(t)
    PROVE  ti' \in [Runs -> [Tarefas -> EstadosTi]] /\ falhas' \in 0..MaxFalhas
<1>1. \E s \in EstadosTi : Marca(t, s)
  BY DEF Termina, Sucesso, Falha, Falhou, EstadosTi, Terminais
<1>2. ti' \in [Runs -> [Tarefas -> EstadosTi]]
  BY <1>1 DEF Marca, TipoAirflow
<1>3. falhas' \in 0..MaxFalhas
  BY NfeAssumption DEF Termina, Sucesso, Falha, TipoLimites
<1>4. QED
  BY <1>2, <1>3

LEMMA TerminaTipo ==
    ASSUME TipoAirflow, TipoLimites, run # 0, NEW t \in Tarefas,
           Termina(t), UNCHANGED <<run, xcom, reprocessos, limpezas>>
    PROVE  TipoAirflow' /\ TipoLimites'
BY TerminaTi DEF TipoAirflow, TipoLimites

\* ... and so does a task whose state is set without an attempt.
LEMMA MarcaTipo ==
    ASSUME TipoAirflow, run # 0, NEW t \in Tarefas, NEW s \in EstadosTi,
           Marca(t, s), UNCHANGED <<run, xcom>>
    PROVE  TipoAirflow'
BY DEF TipoAirflow, Marca

\* A run that has not loaded its lot yet finds a free lote_id.
LEMMA ProximoLoteLivre ==
    ASSUME TipoLotes, NEW r \in Runs, lote[r] = 0
    PROVE  ProximoLote \in Lotes
<1> DEFINE U == {q \in Runs : lote[q] # 0}
<1>1. IsFiniteSet(Runs) /\ Cardinality(Runs) = MaxRuns
  BY NfeAssumption, FS_Interval
<1>2. U \subseteq Runs \ {r}
  OBVIOUS
<1>3. IsFiniteSet(Runs \ {r}) /\ Cardinality(Runs \ {r}) = MaxRuns - 1
  BY <1>1, FS_RemoveElement
<1>4. IsFiniteSet(U) /\ Cardinality(U) <= MaxRuns - 1 /\ Cardinality(U) \in Nat
  BY <1>2, <1>3, FS_Subset, FS_CardinalityType
<1>5. QED
  BY <1>4, NfeAssumption DEF ProximoLote
-----------------------------------------------------------------------------
(* Tables *)

LEMMA MergeTipo ==
    /\ \A T : \A novas \in SUBSET T : \A tab \in SUBSET T :
          MergePorChave(tab, novas) \subseteq T /\ MergePorItem(tab, novas) \subseteq T
    /\ \A tab, L : DoLote(tab, L) \subseteq tab
    /\ XmlVigente \subseteq bronze
BY DEF MergePorChave, MergePorItem, DoLote, XmlVigente, Distintas

\* The item rows nfe_item takes from the pending files.
ItensVigentes ==
    UNION {[lote : {x.lote}, arq : {x.arq}, n : Itens[x.arq]] : x \in XmlVigente}

LEMMA ItensVigentesTipo ==
    ASSUME TipoTabelas
    PROVE  ItensVigentes \subseteq LinhaItem
<1>1. XmlVigente \subseteq Linha
  BY MergeTipo DEF TipoTabelas
<1>2. ASSUME NEW x \in XmlVigente
      PROVE  [lote : {x.lote}, arq : {x.arq}, n : Itens[x.arq]] \subseteq LinhaItem
  BY <1>1, <1>2 DEF Linha, LinhaItem
<1>3. QED
  BY <1>2 DEF ItensVigentes

\* What the load of a lot leaves in bronze and in the rejected files.
LEMMA CargaTipo ==
    ASSUME TipoTabelas, TipoArquivos, run \in Runs, NEW l \in Lotes,
           NEW S \in SUBSET ArquivosDoLote
    PROVE  /\ ApagaLote(bronze, l) \cup [lote : {l}, arq : S] \subseteq Linha
           /\ ApagaLote(rejeitados, l) \cup [lote : {l}, arq : S] \subseteq Linha
<1>1. S \subseteq Arquivos
  BY DEF TipoArquivos, ArquivosDoLote
<1>2. [lote : {l}, arq : S] \subseteq Linha
  BY <1>1 DEF Linha
<1>3. QED
  BY <1>2 DEF TipoTabelas, ApagaLote

-----------------------------------------------------------------------------
(* Type correctness *)

LEMMA TipoInicial == Init => TypeOK
BY NfeAssumption DEF Init, TypeOK, TipoArquivos, TipoLotes, TipoTabelas,
   TipoAirflow, TipoLimites, Status, EstadosTi

LEMMA TipoPasso == TypeOK /\ [Next]_vars => TypeOK'
<1> SUFFICES ASSUME TypeOK, [Next]_vars PROVE TypeOK'
  OBVIOUS
<1> USE DEF TypeOK
<1> USE DEF arquivosVars, loteVars, bronzeVars, silverVars, goldVars, operador
<1> DEFINE Arq == TipoArquivos'
           Lot == TipoLotes'
           Tab == TipoTabelas'
           Air == TipoAirflow'
           Lim == TipoLimites'
<1>0. Tarefas = {"aguardar", "reservar", "ingerir", "nota", "item", "ft", "doc",
                 "ag", "finalizar", "marcar_erro", "arquivar"}
  BY DEF Tarefas
<1>1. ASSUME NEW a \in Arquivos, Chega(a) PROVE TypeOK'
  BY <1>1 DEF Chega, airflowVars, TipoArquivos, TipoLotes, TipoTabelas,
     TipoAirflow, TipoLimites
<1>2. ASSUME NEW r \in Runs, AbrirRun(r) PROVE TypeOK'
  BY <1>2 DEF AbrirRun, TipoArquivos, TipoLotes, TipoTabelas,
     TipoAirflow, TipoLimites
<1>3. CASE AguardarXml
  <2>1. Air
    BY <1>0, <1>3, MarcaTipo DEF AguardarXml, Pronta, EstadosTi, Terminais
  <2>2. QED
    BY <1>3, <2>1 DEF AguardarXml, TipoArquivos, TipoLotes, TipoTabelas, TipoLimites
<1>4. ASSUME NEW S \in SUBSET inbox, run \in Runs, Move(S)
      PROVE  Arq /\ Lot /\ Tab
  BY <1>4 DEF Move, TipoArquivos, TipoLotes, TipoTabelas
<1>5. CASE ReservarLote
  <2>1. run \in Runs /\ run # 0
    BY <1>5 DEF ReservarLote, Pronta, TipoAirflow
  <2>2. PICK S \in SUBSET inbox :
          /\ Move(S)
          /\ \/ Marca("reservar", "skipped") /\ UNCHANGED falhas
             \/ Termina("reservar")
    BY <1>5 DEF ReservarLote
  <2>3. CASE Termina("reservar")
    BY <2>1, <2>2, <2>3, <1>0, <1>4, TerminaTipo DEF Move
  <2>4. CASE Marca("reservar", "skipped") /\ UNCHANGED falhas
    <3>1. Air
      BY <2>1, <2>2, <2>4, <1>0, MarcaTipo DEF Move, EstadosTi, Terminais
    <3>2. QED
      BY <2>1, <2>2, <2>4, <1>4, <3>1 DEF Move, TipoLimites
  <2>5. QED
    BY <2>2, <2>3, <2>4
<1>6. CASE ReservarParte
  <2>1. run \in Runs /\ run # 0
    BY <1>6 DEF ReservarParte, Pronta, TipoAirflow
  <2>2. PICK S \in SUBSET inbox : Move(S) /\ Termina("reservar")
    BY <1>6 DEF ReservarParte, Termina
  <2>3. QED
    BY <2>1, <2>2, <1>0, <1>4, TerminaTipo DEF Move
<1>7. CASE IngerirBronze
  <2>1. run \in Runs /\ run # 0
    BY <1>7 DEF IngerirBronze, Pronta, TipoAirflow
  <2> DEFINE l == IF lote[run] = 0 THEN ProximoLote ELSE lote[run]
             bons == ArquivosDoLote \ Invalidos
             ruins == ArquivosDoLote \cap Invalidos
  <2>2. l \in Lotes
    BY <2>1, ProximoLoteLivre DEF TipoLotes
  <2>3. Termina("ingerir") /\ xcom' \in {xcom, [xcom EXCEPT ![run] = l]}
    BY <1>7 DEF IngerirBronze, Termina
  <2>4. Air /\ Lim
    <3>1. xcom' \in [Runs -> Lotes \cup {0}]
      BY <2>2, <2>3 DEF TipoAirflow
    <3>2. run' = run /\ UNCHANGED <<reprocessos, limpezas>>
      BY <1>7 DEF IngerirBronze
    <3>3. QED
      BY <2>1, <2>3, <3>1, <3>2, <1>0, TerminaTi DEF TipoAirflow, TipoLimites
  <2>5. Lot
    <3>1. \/ UNCHANGED <<lote, status>>
          \/ /\ lote' = [lote EXCEPT ![run] = l]
             /\ status' = [status EXCEPT ![l] = StatusDaCarga(bons)]
      BY <1>7 DEF IngerirBronze
    <3>2. StatusDaCarga(bons) \in Status
      BY DEF StatusDaCarga, Status
    <3>3. QED
      BY <2>1, <2>2, <3>1, <3>2 DEF TipoLotes
  <2>6. Tab
    <3>1. \/ UNCHANGED <<bronze, rejeitados>>
          \/ /\ bronze' = ApagaLote(bronze, l) \cup [lote : {l}, arq : bons]
             /\ rejeitados' = ApagaLote(rejeitados, l) \cup [lote : {l}, arq : ruins]
      BY <1>7 DEF IngerirBronze
    <3>2. bons \in SUBSET ArquivosDoLote /\ ruins \in SUBSET ArquivosDoLote
      OBVIOUS
    <3>3. bronze' \subseteq Linha /\ rejeitados' \subseteq Linha
      <4> HIDE DEF l, bons, ruins
      <4>1. QED
        BY <2>1, <2>2, <3>1, <3>2, CargaTipo DEF TipoTabelas
    <3>4. QED
      BY <1>7, <3>3 DEF IngerirBronze, TipoTabelas
  <2>7. QED
    BY <1>7, <2>4, <2>5, <2>6 DEF IngerirBronze, TipoArquivos
<1>8. ASSUME run # 0, DbtUnchanged, NEW t \in Tarefas, Termina(t)
      PROVE  Arq /\ Lot /\ Air /\ Lim
  BY <1>8, TerminaTipo DEF DbtUnchanged, TipoArquivos, TipoLotes
<1>9. CASE RodarNota
  <2>1. nota' \subseteq Linha
    BY <1>9, MergeTipo DEF RodarNota, TipoTabelas
  <2>2. Tab
    BY <1>9, <2>1 DEF RodarNota, DbtUnchanged, TipoTabelas
  <2>3. QED
    BY <1>0, <1>8, <1>9, <2>2 DEF RodarNota, Pronta
<1>10. CASE RodarItem
  <2>1. item' = MergePorItem(item, ItensVigentes)
    BY <1>10 DEF RodarItem, ItensVigentes
  <2>2. item' \subseteq LinhaItem
    BY <2>1, MergeTipo, ItensVigentesTipo DEF TipoTabelas
  <2>3. Tab
    BY <1>10, <2>2 DEF RodarItem, DbtUnchanged, TipoTabelas
  <2>4. QED
    BY <1>0, <1>8, <1>10, <2>3 DEF RodarItem, Pronta
<1>11. CASE RodarFtItem
  <2>1. ft' \subseteq LinhaFato
    BY <1>11, MergeTipo DEF RodarFtItem, TipoTabelas
  <2>2. Tab
    BY <1>11, <2>1 DEF RodarFtItem, DbtUnchanged, TipoTabelas
  <2>3. QED
    BY <1>0, <1>8, <1>11, <2>2 DEF RodarFtItem, Pronta
<1>12. CASE RodarFtDocumento
  <2>1. doc' \subseteq Linha
    BY <1>12, MergeTipo DEF RodarFtDocumento, TipoTabelas
  <2>2. Tab
    BY <1>12, <2>1 DEF RodarFtDocumento, DbtUnchanged, TipoTabelas
  <2>3. QED
    BY <1>0, <1>8, <1>12, <2>2 DEF RodarFtDocumento, Pronta
<1>13. CASE RodarAgregado
  <2>1. Tab
    BY <1>13 DEF RodarAgregado, LinhasDosMeses, DbtUnchanged, TipoTabelas
  <2>2. QED
    BY <1>0, <1>8, <1>13, <2>1 DEF RodarAgregado, Pronta
<1>14. ASSUME NEW s \in {"PROCESSADO", "ERRO"}, NEW t \in Tarefas,
              run # 0, FechaLotes(s), Termina(t)
       PROVE  TypeOK'
  <2>1. Air /\ Lim
    BY <1>14, TerminaTipo DEF FechaLotes
  <2>2. QED
    BY <1>14, <2>1 DEF FechaLotes, TipoArquivos, TipoLotes, TipoTabelas, Status
<1>15. CASE FinalizarLote
  BY <1>0, <1>14, <1>15 DEF FinalizarLote, Pronta
<1>16. CASE MarcarErro
  BY <1>0, <1>14, <1>16 DEF MarcarErro, Pronta
<1>17. CASE ArquivarLote
  <2>1. run \in Runs /\ run # 0
    BY <1>17 DEF ArquivarLote, Pronta, TipoAirflow
  <2>2. Arq /\ Lot /\ Tab
    BY <1>17, <2>1 DEF ArquivarLote, TipoArquivos, TipoLotes, TipoTabelas
  <2>3. CASE Termina("arquivar")
    BY <1>0, <1>17, <2>1, <2>2, <2>3, TerminaTipo DEF ArquivarLote
  <2>4. CASE Falhou("arquivar") /\ UNCHANGED falhas
    <3>1. Air
      BY <1>0, <1>17, <2>1, <2>4, MarcaTipo DEF ArquivarLote, Falhou, EstadosTi, Terminais
    <3>2. QED
      BY <1>17, <2>2, <2>4, <3>1 DEF ArquivarLote, TipoLimites
  <2>5. QED
    BY <1>17, <2>3, <2>4 DEF ArquivarLote
<1>18. ASSUME NEW t \in Tarefas, FalhaAntes(t) PROVE TypeOK'
  BY <1>18, TerminaTipo DEF FalhaAntes, Pronta, Termina, TipoArquivos, TipoLotes,
     TipoTabelas
<1>19. ASSUME NEW t \in Tarefas, Propagar(t) PROVE TypeOK'
  <2>1. \E s \in {"upstream_failed", "skipped"} : Marca(t, s)
    BY <1>19 DEF Propagar
  <2>2. Air
    BY <1>19, <2>1, MarcaTipo DEF Propagar, EstadosTi, Terminais
  <2>3. QED
    BY <1>19, <2>2 DEF Propagar, TipoArquivos, TipoLotes, TipoTabelas, TipoLimites
<1>20. CASE FimRun
  BY <1>20 DEF FimRun, TipoArquivos, TipoLotes, TipoTabelas, TipoAirflow, TipoLimites
<1>21. ASSUME NEW l \in Lotes, Reprocessar(l) PROVE TypeOK'
  BY <1>21, NfeAssumption DEF Reprocessar, airflowVars, TipoArquivos, TipoLotes,
     TipoTabelas, TipoAirflow, TipoLimites, Status
<1>22. ASSUME NEW r \in Runs, LimparRun(r) PROVE TypeOK'
  <2>1. PICK T : /\ ti' = [ti EXCEPT ![r] = [t \in Tarefas |-> IF t \in T THEN "none" ELSE @[t]]]
                 /\ xcom' = IF "ingerir" \in T THEN [xcom EXCEPT ![r] = 0] ELSE xcom
    BY <1>22 DEF LimparRun
  <2>2. Air
    BY <1>22, <2>1 DEF LimparRun, TipoAirflow, EstadosTi
  <2>3. QED
    BY <1>22, <2>2, NfeAssumption DEF LimparRun, TipoArquivos, TipoLotes, TipoTabelas,
       TipoLimites
<1>23. CASE UNCHANGED vars
  BY <1>23 DEF vars, airflowVars, TipoArquivos, TipoLotes, TipoTabelas, TipoAirflow,
     TipoLimites
<1>24. QED
  BY <1>1, <1>2, <1>3, <1>5, <1>6, <1>7, <1>9, <1>10, <1>11, <1>12, <1>13, <1>15,
     <1>16, <1>17, <1>18, <1>19, <1>20, <1>21, <1>22, <1>23
     DEF Next, Tarefa, Scheduler, Operador, Pronta

\* No retry, reload, requeue or clear leaves the state outside its types.
THEOREM Tipos == Spec => []TypeOK
<1>1. Init => TypeOK
  BY TipoInicial
<1>2. TypeOK /\ [Next]_vars => TypeOK'
  BY TipoPasso
<1>3. QED
  BY <1>1, <1>2, PTL DEF Spec

-----------------------------------------------------------------------------
(* Where the files are *)

Arquiva ==
    /\ processados' = [processados EXCEPT ![run] = @ \cup processando[run]]
    /\ processando' = [processando EXCEPT ![run] = {}]
    /\ UNCHANGED <<entregues, inbox>>

\* The only steps that touch the directories: an arrival and the two mv.
LEMMA PassoDosArquivos ==
    ASSUME TypeOK, [Next]_vars
    PROVE  \/ \E a \in Arquivos : Chega(a)
           \/ run \in Runs /\ \E S \in SUBSET inbox : Move(S)
           \/ run \in Runs /\ Arquiva
           \/ UNCHANGED arquivosVars
<1> USE DEF arquivosVars
<1>1. CASE \E a \in Arquivos : Chega(a)
  BY <1>1
<1>2. CASE ReservarLote \/ ReservarParte
  BY <1>2 DEF ReservarLote, ReservarParte, Pronta, TypeOK, TipoAirflow
<1>3. CASE ArquivarLote
  BY <1>3 DEF ArquivarLote, Arquiva, Pronta, TypeOK, TipoAirflow
<1>4. CASE AguardarXml \/ IngerirBronze \/ FinalizarLote \/ MarcarErro
           \/ \E t \in Tarefas : FalhaAntes(t)
  BY <1>4 DEF AguardarXml, IngerirBronze, FinalizarLote, MarcarErro, FechaLotes, FalhaAntes
<1>5. CASE RodarNota \/ RodarItem \/ RodarFtItem \/ RodarFtDocumento \/ RodarAgregado
  BY <1>5 DEF RodarNota, RodarItem, RodarFtItem, RodarFtDocumento, RodarAgregado, DbtUnchanged
<1>6. CASE Scheduler
  BY <1>6 DEF Scheduler, AbrirRun, Propagar, FimRun
<1>7. CASE Operador
  BY <1>7 DEF Operador, Reprocessar, LimparRun
<1>8. CASE UNCHANGED vars
  BY <1>8 DEF vars
<1>9. QED
  BY <1>1, <1>2, <1>3, <1>4, <1>5, <1>6, <1>7, <1>8 DEF Next, Tarefa

LEMMA UmLugarPasso ==
    ASSUME TypeOK, UmLugarSo, [Next]_vars
    PROVE  UmLugarSo'
<1> USE DEF UmLugarSo, Pasta
<1>1. ASSUME NEW a \in Arquivos, Chega(a) PROVE UmLugarSo'
  <2>1. \A r \in Runs : a \notin Pasta(r)
    BY <1>1 DEF Chega
  <2>2. /\ entregues' = entregues \cup {a} /\ inbox' = inbox \cup {a}
        /\ UNCHANGED <<processando, processados>>
    BY <1>1 DEF Chega
  <2>3. QED
    BY <2>1, <2>2
<1>2. ASSUME run \in Runs, NEW S \in SUBSET inbox, Move(S) PROVE UmLugarSo'
  <2>1. \A r \in Runs :
          /\ Pasta(r)' = IF r = run THEN Pasta(r) \cup S ELSE Pasta(r)
          /\ processados'[r] = processados[r]
          /\ processando'[r] = IF r = run THEN processando[r] \cup S ELSE processando[r]
    BY <1>2 DEF Move, TypeOK, TipoArquivos
  <2>2. inbox' = inbox \ S /\ entregues' = entregues
    BY <1>2 DEF Move
  <2>3. entregues' = inbox' \cup UNION {Pasta(r)' : r \in Runs}
    <3>1. \A a : (\E r \in Runs : a \in Pasta(r)') <=> a \in S \/ \E r \in Runs : a \in Pasta(r)
      BY <1>2, <2>1
    <3>2. QED
      BY <2>2, <3>1
  <2>4. QED
    BY <1>2, <2>1, <2>2, <2>3
<1>3. ASSUME run \in Runs, Arquiva PROVE UmLugarSo'
  <2>1. \A r \in Runs :
          /\ Pasta(r)' = Pasta(r)
          /\ processando'[r] \cap processados'[r] = {}
    BY <1>3 DEF Arquiva, TypeOK, TipoArquivos
  <2>2. \A a : (\E r \in Runs : a \in Pasta(r)') <=> \E r \in Runs : a \in Pasta(r)
    BY <2>1
  <2>3. QED
    BY <1>3, <2>1, <2>2 DEF Arquiva
<1>4. CASE UNCHANGED arquivosVars
  BY <1>4 DEF arquivosVars
<1>5. QED
  BY <1>1, <1>2, <1>3, <1>4, PassoDosArquivos

\* Whatever fails between two mv, is retried or cleared, every delivered file is
\* in exactly one place: the inbox or the directories of one run.
THEOREM ArquivosConservados == Spec => []UmLugarSo
<1>1. Init => UmLugarSo
  BY DEF Init, UmLugarSo, Pasta
<1>2. TypeOK /\ UmLugarSo /\ [Next]_vars => UmLugarSo'
  BY UmLugarPasso
<1>3. QED
  BY <1>1, <1>2, Tipos, PTL DEF Spec

-----------------------------------------------------------------------------
(* Where the rows of bronze come from *)

\* The two directories of a run, taken together, only gain files.
LEMMA PastaCresce ==
    ASSUME TypeOK, [Next]_vars
    PROVE  \A r \in Runs : Pasta(r) \subseteq Pasta(r)'
<1>1. ASSUME NEW a \in Arquivos, Chega(a) PROVE \A r \in Runs : Pasta(r) \subseteq Pasta(r)'
  BY <1>1 DEF Chega, Pasta
<1>2. ASSUME run \in Runs, NEW S \in SUBSET inbox, Move(S)
      PROVE  \A r \in Runs : Pasta(r) \subseteq Pasta(r)'
  BY <1>2 DEF Move, Pasta, TypeOK, TipoArquivos
<1>3. ASSUME run \in Runs, Arquiva PROVE \A r \in Runs : Pasta(r) \subseteq Pasta(r)'
  BY <1>3 DEF Arquiva, Pasta, TypeOK, TipoArquivos
<1>4. CASE UNCHANGED arquivosVars
  BY <1>4 DEF arquivosVars, Pasta
<1>5. QED
  BY <1>1, <1>2, <1>3, <1>4, PassoDosArquivos

LoteDoRun == IF lote[run] = 0 THEN ProximoLote ELSE lote[run]

\* What ingerir_bronze does when the lot is not loaded yet.
Carga(l) ==
    /\ status[l] \notin {"CARREGADO", "PROCESSADO"}
    /\ lote' = [lote EXCEPT ![run] = l]
    /\ bronze' = ApagaLote(bronze, l) \cup [lote : {l}, arq : ArquivosDoLote \ Invalidos]
    /\ rejeitados' = ApagaLote(rejeitados, l)
                       \cup [lote : {l}, arq : ArquivosDoLote \cap Invalidos]
    /\ status' = [status EXCEPT ![l] = StatusDaCarga(ArquivosDoLote \ Invalidos)]
    /\ UNCHANGED arquivosVars

\* The only step that writes bronze or numbers a lot is a load.
LEMMA PassoDaBronze ==
    ASSUME TypeOK, [Next]_vars
    PROVE  \/ /\ run \in Runs /\ LoteDoRun \in Lotes
              /\ Carga(LoteDoRun)
           \/ UNCHANGED <<lote, bronze, rejeitados>>
<1> USE DEF loteVars, bronzeVars
<1>1. CASE IngerirBronze
  <2>1. run \in Runs
    BY <1>1 DEF IngerirBronze, Pronta, TypeOK, TipoAirflow
  <2>2. LoteDoRun \in Lotes
    BY <2>1, ProximoLoteLivre DEF LoteDoRun, TypeOK, TipoLotes
  <2>3. QED
    BY <1>1, <2>1, <2>2 DEF IngerirBronze, LoteDoRun, Carga
<1>2. CASE \E a \in Arquivos : Chega(a)
  BY <1>2 DEF Chega
<1>3. CASE ReservarLote \/ ReservarParte \/ ArquivarLote
  BY <1>3 DEF ReservarLote, ReservarParte, Move, ArquivarLote
<1>4. CASE AguardarXml \/ FinalizarLote \/ MarcarErro \/ \E t \in Tarefas : FalhaAntes(t)
  BY <1>4 DEF AguardarXml, FinalizarLote, MarcarErro, FechaLotes, FalhaAntes
<1>5. CASE RodarNota \/ RodarItem \/ RodarFtItem \/ RodarFtDocumento \/ RodarAgregado
  BY <1>5 DEF RodarNota, RodarItem, RodarFtItem, RodarFtDocumento, RodarAgregado, DbtUnchanged
<1>6. CASE Scheduler
  BY <1>6 DEF Scheduler, AbrirRun, Propagar, FimRun
<1>7. CASE Operador
  BY <1>7 DEF Operador, Reprocessar, LimparRun
<1>8. CASE UNCHANGED vars
  BY <1>8 DEF vars
<1>9. QED
  BY <1>1, <1>2, <1>3, <1>4, <1>5, <1>6, <1>7, <1>8 DEF Next, Tarefa

LEMMA OrigemPasso ==
    ASSUME TypeOK, OrigemDaLinha, [Next]_vars
    PROVE  OrigemDaLinha'
<1>1. CASE UNCHANGED <<lote, bronze, rejeitados>>
  <2> SUFFICES ASSUME NEW b \in bronze \cup rejeitados
               PROVE  \E r \in Runs : lote[r] = b.lote /\ b.arq \in Pasta(r)'
    BY <1>1 DEF OrigemDaLinha, Pasta
  <2>1. PICK r \in Runs : lote[r] = b.lote /\ b.arq \in Pasta(r)
    BY DEF OrigemDaLinha
  <2>2. QED
    BY <2>1, PastaCresce
<1>2. CASE run \in Runs /\ LoteDoRun \in Lotes /\ Carga(LoteDoRun)
  <2> DEFINE l == LoteDoRun
  <2>1. lote' = [lote EXCEPT ![run] = l] /\ (lote[run] = 0 \/ lote[run] = l)
    BY <1>2 DEF Carga, LoteDoRun
  <2>2. \A r \in Runs : Pasta(r)' = Pasta(r)
    BY <1>2 DEF Carga, arquivosVars, Pasta
  <2> SUFFICES ASSUME NEW b \in bronze' \cup rejeitados'
               PROVE  \E r \in Runs : lote'[r] = b.lote /\ b.arq \in Pasta(r)
    BY <2>2 DEF OrigemDaLinha
  <2>3. CASE b \in [lote : {l}, arq : ArquivosDoLote]
    <3>1. b.lote = l /\ b.arq \in Pasta(run)
      BY <2>3 DEF ArquivosDoLote, Pasta
    <3>2. lote'[run] = l
      BY <1>2, <2>1 DEF TypeOK, TipoLotes
    <3>3. QED
      BY <1>2, <3>1, <3>2
  <2>4. CASE b \in bronze \cup rejeitados
    <3>1. PICK r \in Runs : lote[r] = b.lote /\ b.arq \in Pasta(r)
      BY <2>4 DEF OrigemDaLinha
    <3>2. b.lote # 0
      BY <2>4 DEF TypeOK, TipoTabelas, Linha
    <3>3. lote'[r] = lote[r]
      BY <2>1, <3>1, <3>2 DEF TypeOK, TipoLotes
    <3>4. QED
      BY <3>1, <3>3
  <2>5. QED
    BY <1>2, <2>3, <2>4 DEF Carga, ApagaLote
<1>3. QED
  BY <1>1, <1>2, PassoDaBronze

\* Retries, reloads after an error and cleared runs never file a row under a lot
\* whose run did not hold the file.
THEOREM OrigemPreservada == Spec => []OrigemDaLinha
<1>1. Init => OrigemDaLinha
  BY DEF Init, OrigemDaLinha
<1>2. TypeOK /\ OrigemDaLinha /\ [Next]_vars => OrigemDaLinha'
  BY OrigemPasso
<1>3. QED
  BY <1>1, <1>2, Tipos, PTL DEF Spec

-----------------------------------------------------------------------------
(* One row per key *)

UnicaPorChave(tab) == \A x, y \in tab : MesmaChave(x, y) => x = y
UnicaPorItem(tab)  == \A x, y \in tab : MesmoItem(x, y) => x = y

LEMMA Numeros == Lotes \subseteq Int /\ \A a \in Arquivos : a \in Int
<1>1. MaxRuns \in Int /\ Arquivos \subseteq Nat
  BY NfeAssumption
<1>2. QED
  BY <1>1

\* distinct on leaves one row per key: the order by is a strict order.
LEMMA DistintasUnica ==
    ASSUME TipoTabelas
    PROVE  UnicaPorChave(XmlVigente)
<1> SUFFICES ASSUME NEW x \in XmlVigente, NEW y \in XmlVigente, MesmaChave(x, y), x # y
             PROVE  FALSE
  BY DEF UnicaPorChave
<1>1. x \in Linha /\ y \in Linha
  BY MergeTipo DEF TipoTabelas
<1>2. MaisRecente(x, y) /\ MaisRecente(y, x)
  BY DEF XmlVigente, Distintas, MesmaChave
<1>3. x.lote \in Int /\ y.lote \in Int /\ x.arq \in Int /\ y.arq \in Int
  <2>1. x.lote \in Lotes /\ y.lote \in Lotes /\ x.arq \in Arquivos /\ y.arq \in Arquivos
    BY <1>1 DEF Linha
  <2>2. QED
    BY <2>1, Numeros
<1>4. QED
  BY <1>2, <1>3 DEF MaisRecente

\* A merge of rows without repeated keys keeps the table without repeated keys.
LEMMA MergeUnica ==
    /\ \A tab, novas : UnicaPorChave(tab) /\ UnicaPorChave(novas)
                         => UnicaPorChave(MergePorChave(tab, novas))
    /\ \A tab, novas : UnicaPorItem(tab) /\ UnicaPorItem(novas)
                         => UnicaPorItem(MergePorItem(tab, novas))
<1>1. ASSUME NEW tab, NEW novas, UnicaPorChave(tab), UnicaPorChave(novas),
             NEW x \in MergePorChave(tab, novas), NEW y \in MergePorChave(tab, novas),
             MesmaChave(x, y)
      PROVE  x = y
  BY <1>1 DEF UnicaPorChave, MergePorChave, MesmaChave
<1>2. ASSUME NEW tab, NEW novas, UnicaPorItem(tab), UnicaPorItem(novas),
             NEW x \in MergePorItem(tab, novas), NEW y \in MergePorItem(tab, novas),
             MesmoItem(x, y)
      PROVE  x = y
  BY <1>2 DEF UnicaPorItem, MergePorItem, MesmoItem, MesmaChave
<1>3. QED
  BY <1>1, <1>2 DEF UnicaPorChave, UnicaPorItem

LEMMA ItensVigentesUnica ==
    ASSUME TipoTabelas
    PROVE  UnicaPorItem(ItensVigentes)
<1> SUFFICES ASSUME NEW x \in ItensVigentes, NEW y \in ItensVigentes, MesmoItem(x, y)
             PROVE  x = y
  BY DEF UnicaPorItem
<1>1. PICK v \in XmlVigente : x \in [lote : {v.lote}, arq : {v.arq}, n : Itens[v.arq]]
  BY DEF ItensVigentes
<1>2. PICK w \in XmlVigente : y \in [lote : {w.lote}, arq : {w.arq}, n : Itens[w.arq]]
  BY DEF ItensVigentes
<1>3. MesmaChave(v, w)
  BY <1>1, <1>2 DEF MesmoItem, MesmaChave
<1>4. v = w
  BY <1>3, DistintasUnica DEF UnicaPorChave
<1>5. QED
  BY <1>1, <1>2, <1>4 DEF MesmoItem

\* The rows ft_nfe_item takes: pending items joined with pending headers.
FatosVigentes ==
    {f \in LinhaFato :
       /\ [lote |-> f.lote, arq |-> f.arq, n |-> f.n] \in DoLote(item, Pendentes)
       /\ \E c \in DoLote(nota, Pendentes) : MesmaChave(c, f) /\ c.arq = f.cab}

\* The join multiplies no item: the header it finds is the only one of its key.
LEMMA FatosVigentesUnica ==
    ASSUME UnicaPorChave(nota), UnicaPorItem(item)
    PROVE  UnicaPorItem(FatosVigentes)
<1> SUFFICES ASSUME NEW f \in FatosVigentes, NEW g \in FatosVigentes, MesmoItem(f, g)
             PROVE  f = g
  BY DEF UnicaPorItem
<1> DEFINE i == [lote |-> f.lote, arq |-> f.arq, n |-> f.n]
           j == [lote |-> g.lote, arq |-> g.arq, n |-> g.n]
<1>1. i \in item /\ j \in item
  BY DEF FatosVigentes, DoLote
<1>2. MesmoItem(i, j)
  BY DEF MesmoItem, MesmaChave
<1>3. i = j
  BY <1>1, <1>2 DEF UnicaPorItem
<1>4. f.lote = g.lote /\ f.arq = g.arq /\ f.n = g.n
  BY <1>3
<1>5. f.cab = g.cab
  <2>1. PICK c \in nota : MesmaChave(c, f) /\ c.arq = f.cab
    BY DEF FatosVigentes, DoLote
  <2>2. PICK d \in nota : MesmaChave(d, g) /\ d.arq = g.cab
    BY DEF FatosVigentes, DoLote
  <2>3. MesmaChave(c, d)
    BY <2>1, <2>2, <1>4 DEF MesmaChave
  <2>4. QED
    BY <2>1, <2>2, <2>3 DEF UnicaPorChave
<1>6. QED
  BY <1>4, <1>5 DEF FatosVigentes, LinhaFato

LEMMA ChavesUnicasDef ==
    ChavesUnicas <=> /\ UnicaPorChave(nota) /\ UnicaPorChave(doc)
                     /\ UnicaPorItem(item) /\ UnicaPorItem(ft)
BY DEF ChavesUnicas, UnicaPorChave, UnicaPorItem

LEMMA ChavesUnicasPasso ==
    ASSUME TypeOK, ChavesUnicas, [Next]_vars
    PROVE  ChavesUnicas'
<1> USE DEF silverVars, goldVars
<1>1. /\ UnicaPorChave(nota) /\ UnicaPorChave(doc)
      /\ UnicaPorItem(item) /\ UnicaPorItem(ft)
  BY ChavesUnicasDef
<1>2. TipoTabelas
  BY DEF TypeOK
<1>3. CASE RodarNota
  <2>1. UnicaPorChave(MergePorChave(nota, XmlVigente))
    BY <1>1, <1>2, DistintasUnica, MergeUnica
  <2>2. nota' = MergePorChave(nota, XmlVigente) /\ UNCHANGED <<item, ft, doc>>
    BY <1>3 DEF RodarNota
  <2>3. QED
    BY <1>1, <2>1, <2>2 DEF ChavesUnicas, UnicaPorChave, UnicaPorItem
<1>4. CASE RodarItem
  <2>1. UnicaPorItem(MergePorItem(item, ItensVigentes))
    BY <1>1, <1>2, ItensVigentesUnica, MergeUnica
  <2>2. item' = MergePorItem(item, ItensVigentes) /\ UNCHANGED <<nota, ft, doc>>
    BY <1>4 DEF RodarItem, ItensVigentes
  <2>3. QED
    BY <1>1, <2>1, <2>2 DEF ChavesUnicas, UnicaPorChave, UnicaPorItem
<1>5. CASE RodarFtItem
  <2>1. UnicaPorItem(MergePorItem(ft, FatosVigentes))
    BY <1>1, FatosVigentesUnica, MergeUnica
  <2>2. ft' = MergePorItem(ft, FatosVigentes) /\ UNCHANGED <<nota, item, doc>>
    BY <1>5 DEF RodarFtItem, FatosVigentes
  <2>3. QED
    BY <1>1, <2>1, <2>2 DEF ChavesUnicas, UnicaPorChave, UnicaPorItem
<1>6. CASE RodarFtDocumento
  <2> DEFINE novas == DoLote(nota, Pendentes)
  <2>1. UnicaPorChave(novas)
    BY <1>1 DEF UnicaPorChave, DoLote
  <2>2. UnicaPorChave(MergePorChave(doc, novas))
    BY <1>1, <2>1, MergeUnica
  <2>3. doc' = MergePorChave(doc, novas) /\ UNCHANGED <<nota, item, ft>>
    BY <1>6 DEF RodarFtDocumento
  <2>4. QED
    BY <1>1, <2>2, <2>3 DEF ChavesUnicas, UnicaPorChave, UnicaPorItem
<1>7. ASSUME UNCHANGED <<nota, item, ft, doc>> PROVE ChavesUnicas'
  BY <1>7 DEF ChavesUnicas
<1>8. CASE RodarAgregado
  BY <1>7, <1>8 DEF RodarAgregado
<1>9. CASE \E a \in Arquivos : Chega(a)
  BY <1>7, <1>9 DEF Chega
<1>10. CASE ReservarLote \/ ReservarParte \/ ArquivarLote
  BY <1>7, <1>10 DEF ReservarLote, ReservarParte, Move, ArquivarLote
<1>11. CASE AguardarXml \/ IngerirBronze \/ FinalizarLote \/ MarcarErro
            \/ \E t \in Tarefas : FalhaAntes(t)
  BY <1>7, <1>11 DEF AguardarXml, IngerirBronze, FinalizarLote, MarcarErro, FechaLotes,
     FalhaAntes
<1>12. CASE Scheduler
  BY <1>7, <1>12 DEF Scheduler, AbrirRun, Propagar, FimRun
<1>13. CASE Operador
  BY <1>7, <1>13 DEF Operador, Reprocessar, LimparRun
<1>14. CASE UNCHANGED vars
  BY <1>7, <1>14 DEF vars
<1>15. QED
  BY <1>3, <1>4, <1>5, <1>6, <1>8, <1>9, <1>10, <1>11, <1>12, <1>13, <1>14
     DEF Next, Tarefa

\* The unique tests of the silver and fact tables cannot fail: the join of
\* ft_nfe_item rests on nfe_nota having one header per key.
THEOREM ChavesSempreUnicas == Spec => []ChavesUnicas
<1>1. Init => ChavesUnicas
  BY DEF Init, ChavesUnicas
<1>2. TypeOK /\ ChavesUnicas /\ [Next]_vars => ChavesUnicas'
  BY ChavesUnicasPasso
<1>3. QED
  BY <1>1, <1>2, Tipos, PTL DEF Spec

-----------------------------------------------------------------------------
(* The control table implements FilaLotes *)

\* nfe_lote numbers its lots 1, 2, ... without a gap, and no run names a lot
\* that is not there: what makes ProximoLote a lot nobody has used.
QtdLotes == Cardinality({r \in Runs : lote[r] # 0})

IdsEmOrdem ==
    /\ \A l \in Lotes : status[l] # "ausente" <=> l <= QtdLotes
    /\ \A r \in Runs : lote[r] <= QtdLotes

\* A step loads a lot, closes or requeues lots, or leaves the control table alone.
LEMMA PassoDoControle ==
    ASSUME TypeOK, [Next]_vars
    PROVE  \/ run \in Runs /\ LoteDoRun \in Lotes /\ Carga(LoteDoRun)
           \/ run \in Runs /\ \E s \in {"PROCESSADO", "ERRO"} : FechaLotes(s)
           \/ \E l \in Lotes : Reprocessar(l)
           \/ UNCHANGED <<lote, status, bronze>>
<1> USE DEF loteVars, bronzeVars
<1>1. CASE IngerirBronze
  <2>1. run \in Runs
    BY <1>1 DEF IngerirBronze, Pronta, TypeOK, TipoAirflow
  <2>2. LoteDoRun \in Lotes
    BY <2>1, ProximoLoteLivre DEF LoteDoRun, TypeOK, TipoLotes
  <2>3. QED
    BY <1>1, <2>1, <2>2 DEF IngerirBronze, LoteDoRun, Carga
<1>2. CASE \E a \in Arquivos : Chega(a)
  BY <1>2 DEF Chega
<1>3. CASE ReservarLote \/ ReservarParte \/ ArquivarLote
  BY <1>3 DEF ReservarLote, ReservarParte, Move, ArquivarLote
<1>4. CASE AguardarXml \/ \E t \in Tarefas : FalhaAntes(t)
  BY <1>4 DEF AguardarXml, FalhaAntes
<1>5. CASE FinalizarLote \/ MarcarErro
  BY <1>5 DEF FinalizarLote, MarcarErro, Pronta, TypeOK, TipoAirflow
<1>6. CASE RodarNota \/ RodarItem \/ RodarFtItem \/ RodarFtDocumento \/ RodarAgregado
  BY <1>6 DEF RodarNota, RodarItem, RodarFtItem, RodarFtDocumento, RodarAgregado, DbtUnchanged
<1>7. CASE Scheduler
  BY <1>7 DEF Scheduler, AbrirRun, Propagar, FimRun
<1>8. CASE \E l \in Lotes : Reprocessar(l)
  BY <1>8
<1>9. CASE \E r \in Runs : LimparRun(r)
  BY <1>9 DEF LimparRun
<1>10. CASE UNCHANGED vars
  BY <1>10 DEF vars
<1>11. QED
  BY <1>1, <1>2, <1>3, <1>4, <1>5, <1>6, <1>7, <1>8, <1>9, <1>10 DEF Next, Tarefa, Operador

LEMMA QtdLotesTipo == ASSUME TypeOK PROVE QtdLotes \in Nat
<1>1. IsFiniteSet(Runs)
  BY NfeAssumption, FS_Interval
<1>2. QED
  BY <1>1, FS_Subset, FS_CardinalityType DEF QtdLotes

\* Numbering the lot of one more run counts one more lot.
LEMMA MaisUmLote ==
    ASSUME TypeOK, run \in Runs, lote[run] = 0, NEW l \in Lotes,
           lote' = [lote EXCEPT ![run] = l]
    PROVE  QtdLotes' = QtdLotes + 1
<1> DEFINE U == {r \in Runs : lote[r] # 0}
<1>1. IsFiniteSet(U)
  <2>1. IsFiniteSet(Runs)
    BY NfeAssumption, FS_Interval
  <2>2. QED
    BY <2>1, FS_Subset
<1>2. {r \in Runs : lote'[r] # 0} = U \cup {run}
  BY DEF TypeOK, TipoLotes
<1>3. Cardinality(U \cup {run}) = Cardinality(U) + 1
  <2>1. run \notin U
    OBVIOUS
  <2>2. QED
    BY <1>1, <2>1, FS_AddElement
<1>4. QED
  BY <1>2, <1>3 DEF QtdLotes

LEMMA IdsPasso ==
    ASSUME TypeOK, IdsEmOrdem, [Next]_vars
    PROVE  IdsEmOrdem'
<1>0. QtdLotes \in Nat
  BY QtdLotesTipo
<1>1. CASE run \in Runs /\ LoteDoRun \in Lotes /\ Carga(LoteDoRun)
  <2> DEFINE l == LoteDoRun
  <2>1. /\ lote' = [lote EXCEPT ![run] = l]
        /\ status' = [status EXCEPT ![l] = StatusDaCarga(ArquivosDoLote \ Invalidos)]
    BY <1>1 DEF Carga
  <2>2. StatusDaCarga(ArquivosDoLote \ Invalidos) # "ausente"
    BY DEF StatusDaCarga
  <2>3. \A k \in Lotes : status'[k] # "ausente" <=> (k = l \/ status[k] # "ausente")
    BY <1>1, <2>1, <2>2 DEF TypeOK, TipoLotes
  <2>4. CASE lote[run] = 0
    <3>1. l = QtdLotes + 1
      BY <2>4, <1>0 DEF LoteDoRun, ProximoLote, QtdLotes
    <3>2. QtdLotes' = QtdLotes + 1
      BY <1>1, <2>1, <2>4, MaisUmLote
    <3>3. \A k \in Lotes : status'[k] # "ausente" <=> k <= QtdLotes + 1
      BY <1>0, <2>3, <3>1, Numeros DEF IdsEmOrdem
    <3>4. \A r \in Runs : lote'[r] <= QtdLotes + 1
      BY <1>0, <2>1, <3>1, Numeros DEF IdsEmOrdem, TypeOK, TipoLotes
    <3>5. QED
      BY <3>2, <3>3, <3>4 DEF IdsEmOrdem
  <2>5. CASE lote[run] # 0
    <3>1. l = lote[run] /\ lote' = lote
      BY <1>1, <2>1, <2>5 DEF LoteDoRun, TypeOK, TipoLotes
    <3>2. l <= QtdLotes
      BY <1>1, <3>1 DEF IdsEmOrdem
    <3>3. QtdLotes' = QtdLotes
      BY <3>1 DEF QtdLotes
    <3>4. \A k \in Lotes : status'[k] # "ausente" <=> k <= QtdLotes
      BY <2>3, <3>2 DEF IdsEmOrdem
    <3>5. QED
      BY <3>1, <3>3, <3>4 DEF IdsEmOrdem
  <2>6. QED
    BY <2>4, <2>5
<1>2. ASSUME lote' = lote,
             \A l \in Lotes : status'[l] # "ausente" <=> status[l] # "ausente"
      PROVE  IdsEmOrdem'
  <2>1. QtdLotes' = QtdLotes
    BY <1>2 DEF QtdLotes
  <2>2. QED
    BY <1>2, <2>1 DEF IdsEmOrdem
<1>3. ASSUME NEW s \in {"PROCESSADO", "ERRO"}, FechaLotes(s) PROVE IdsEmOrdem'
  <2>1. \A l \in Lotes : status'[l] # "ausente" <=> status[l] # "ausente"
    BY <1>3 DEF FechaLotes, AFechar, Pendentes
  <2>2. QED
    BY <1>2, <1>3, <2>1 DEF FechaLotes
<1>4. ASSUME NEW l \in Lotes, Reprocessar(l) PROVE IdsEmOrdem'
  <2>1. \A k \in Lotes : status'[k] # "ausente" <=> status[k] # "ausente"
    BY <1>4 DEF Reprocessar, TypeOK, TipoLotes
  <2>2. QED
    BY <1>2, <1>4, <2>1 DEF Reprocessar
<1>5. CASE UNCHANGED <<lote, status, bronze>>
  BY <1>2, <1>5
<1>6. QED
  BY <1>1, <1>3, <1>4, <1>5, PassoDoControle

LEMMA IdsInicial == Init => IdsEmOrdem
<1> SUFFICES ASSUME Init PROVE IdsEmOrdem
  OBVIOUS
<1>1. {r \in Runs : lote[r] # 0} = {}
  BY DEF Init
<1>2. QtdLotes = 0
  BY <1>1, FS_EmptySet DEF QtdLotes
<1>3. QED
  BY <1>2, Numeros DEF Init, IdsEmOrdem

Conteudo == [l \in Lotes |-> {b.arq : b \in DoLote(bronze, {l})}]

LEMMA ArquivosDasLinhas ==
    \A l, B : {b.arq : b \in [lote : {l}, arq : B]} = B
<1> SUFFICES ASSUME NEW l, NEW B
             PROVE  {b.arq : b \in [lote : {l}, arq : B]} = B
  OBVIOUS
<1>1. ASSUME NEW b \in [lote : {l}, arq : B] PROVE b.arq \in B
  OBVIOUS
<1>2. ASSUME NEW a \in B PROVE a \in {b.arq : b \in [lote : {l}, arq : B]}
  <2>1. [lote |-> l, arq |-> a] \in [lote : {l}, arq : B] /\ [lote |-> l, arq |-> a].arq = a
    BY <1>2
  <2>2. QED
    BY <2>1
<1>3. QED
  BY <1>1, <1>2

LEMMA FilaPasso ==
    ASSUME TypeOK, IdsEmOrdem, [Next]_vars
    PROVE  [Fila!Next]_<<status, Conteudo>>
<1>1. ASSUME run \in Runs, NEW l \in Lotes, l = LoteDoRun, Carga(LoteDoRun)
      PROVE  Fila!Next
  <2> DEFINE bons == ArquivosDoLote \ Invalidos
  <2>1. \/ status[l] = "ausente" /\ \A k \in Lotes : k < l => status[k] # "ausente"
        \/ status[l] = "ERRO"
    <3>1. status[l] \in {"ausente", "ERRO"}
      BY <1>1 DEF Carga, TypeOK, TipoLotes, Status
    <3>2. CASE lote[run] = 0
      <4>1. l = QtdLotes + 1 /\ QtdLotes \in Nat
        BY <1>1, <3>2, QtdLotesTipo DEF LoteDoRun, ProximoLote, QtdLotes
      <4>2. \A k \in Lotes : k < l => status[k] # "ausente"
        BY <4>1, Numeros DEF IdsEmOrdem
      <4>3. QED
        BY <3>1, <4>2
    <3>3. CASE lote[run] # 0
      <4>1. l <= QtdLotes
        BY <1>1, <3>3 DEF LoteDoRun, IdsEmOrdem
      <4>2. QED
        BY <1>1, <3>1, <4>1 DEF IdsEmOrdem
    <3>4. QED
      BY <3>2, <3>3
  <2>2. bronze' = {b \in bronze : b.lote # l} \cup [lote : {l}, arq : bons]
    BY <1>1 DEF Carga, ApagaLote
  <2>3. Conteudo' = [Conteudo EXCEPT ![l] = bons]
    <3>1. {b.arq : b \in DoLote(bronze', {l})} = bons
      <4>1. DoLote(bronze', {l}) = [lote : {l}, arq : bons]
        BY <2>2 DEF DoLote
      <4>2. QED
        BY <4>1, ArquivosDasLinhas
    <3>2. ASSUME NEW k \in Lotes, k # l
          PROVE  DoLote(bronze', {k}) = DoLote(bronze, {k})
      BY <2>2, <3>2 DEF DoLote
    <3>3. QED
      BY <1>1, <3>1, <3>2 DEF Conteudo
  <2>4. status' = [status EXCEPT ![l] = IF bons = {} THEN "PROCESSADO" ELSE "CARREGADO"]
    BY <1>1 DEF Carga, StatusDaCarga
  <2>5. bons \in SUBSET Arquivos
    BY <1>1 DEF ArquivosDoLote, TypeOK, TipoArquivos
  <2>6. Fila!Carregar(l)
    BY <2>1, <2>3, <2>4, <2>5 DEF Fila!Carregar, Conteudo
  <2>7. QED
    BY <2>6 DEF Fila!Next
<1>2. ASSUME run \in Runs, NEW s \in {"PROCESSADO", "ERRO"}, FechaLotes(s)
      PROVE  Fila!Next
  <2>1. status' = [l \in Lotes |-> IF status[l] = "CARREGADO" /\ l <= xcom[run]
                                   THEN s ELSE status[l]]
    BY <1>2 DEF FechaLotes, AFechar, Pendentes
  <2>2. bronze' = bronze
    BY <1>2 DEF FechaLotes, bronzeVars
  <2>3. Fila!Fechar(xcom[run], s)
    BY <2>1, <2>2 DEF Fila!Fechar
  <2>4. xcom[run] \in Lotes \cup {0}
    BY <1>2 DEF TypeOK, TipoAirflow
  <2>5. QED
    BY <2>3, <2>4 DEF Fila!Next
<1>3. ASSUME NEW l \in Lotes, Reprocessar(l) PROVE Fila!Next
  <2>1. Fila!Devolver(l)
    BY <1>3 DEF Reprocessar, bronzeVars, Fila!Devolver
  <2>2. QED
    BY <2>1 DEF Fila!Next
<1>4. CASE UNCHANGED <<lote, status, bronze>>
  BY <1>4 DEF Conteudo
<1>5. QED
  BY <1>1, <1>2, <1>3, <1>4, PassoDoControle

\* Behind every interleaving of tasks, failures and operator actions, the
\* control table is the queue of FilaLotes.
THEOREM ImplementaFila == Spec => FilaSpec
<1>1. Init => IdsEmOrdem
  BY IdsInicial
<1>2. TypeOK /\ IdsEmOrdem /\ [Next]_vars => IdsEmOrdem'
  BY IdsPasso
<1>3. Init => Fila!Init
  BY DEF Init, Fila!Init, DoLote
<1>4. TypeOK /\ IdsEmOrdem /\ [Next]_vars => [Fila!Next]_<<status, Conteudo>>
  BY FilaPasso
<1>5. QED
  BY <1>1, <1>2, <1>3, <1>4, Tipos, PTL DEF Spec, FilaSpec, Fila!Spec, Conteudo

-----------------------------------------------------------------------------
(* What is archived has been loaded, as long as no run is cleared *)

Iniciado == {"success", "up_for_retry", "failed"}

\* A task has been attempted only after those above it have succeeded.
OrdemRun ==
    \A r \in Runs : \A t \in Tarefas \ {"marcar_erro"} :
        ti[r][t] \in Iniciado => \A u \in Acima[t] : ti[r][u] = "success"

\* Every file of the run has a row, in bronze or among the rejected ones.
Conta(r) ==
    \A a \in Pasta(r) : \E b \in bronze \cup rejeitados : b.lote = lote[r] /\ b.arq = a

ContaDe(r) ==
    /\ lote[r] # 0 => ti[r]["reservar"] = "success" /\ Conta(r)
    /\ processados[r] # {} => ti[r]["finalizar"] = "success"
    /\ ti[r]["ingerir"] = "success" => lote[r] # 0

\* No two runs name the same lot.
LotesDistintos == \A q, r \in Runs : lote[q] = lote[r] /\ lote[q] # 0 => q = r

Contas == OrdemRun /\ LotesDistintos /\ \A r \in Runs : ContaDe(r)

LEMMA NomesDasTarefas ==
    /\ {"aguardar", "reservar", "ingerir", "nota", "item", "ft", "doc", "ag", "finalizar",
        "marcar_erro", "arquivar"} = Tarefas
    /\ \A t \in Tarefas : Acima[t] \subseteq Tarefas /\ t \notin Acima[t]
    /\ Acima["reservar"] = {"aguardar"} /\ Acima["ingerir"] = {"reservar"}
    /\ Acima["nota"] = {"ingerir"} /\ Acima["doc"] = {"nota"}
    /\ "doc" \in Acima["finalizar"] /\ Acima["arquivar"] = {"finalizar"}
BY DEF Tarefas, Acima, PaisFtItem, FolhasDbt, PaisArquivar

\* A task instance of the active run changes as the scheduler or its own
\* attempt may do.
MudaTi(t) ==
    /\ run \in Runs /\ ti[run][t] \in {"none", "up_for_retry"}
    /\ \E s \in EstadosTi :
         /\ Marca(t, s)
         /\ s \in Iniciado /\ t # "marcar_erro" => \A u \in Acima[t] : ti[run][u] = "success"

LEMMA TentativaMuda ==
    ASSUME TypeOK, NEW t \in Tarefas, Pronta(t), Termina(t) \/ Falhou(t)
    PROVE  MudaTi(t)
<1>1. run \in Runs /\ ti[run][t] \in {"none", "up_for_retry"}
      /\ (t # "marcar_erro" => \A u \in Acima[t] : ti[run][u] = "success")
  BY DEF Pronta, DepsOk, TypeOK, TipoAirflow
<1>2. \E s \in {"success", "up_for_retry", "failed"} : Marca(t, s)
  BY DEF Termina, Sucesso, Falha, Falhou
<1>3. {"success", "up_for_retry", "failed"} \subseteq EstadosTi
  BY DEF EstadosTi, Terminais
<1>4. QED
  BY <1>1, <1>2, <1>3 DEF MudaTi

LEMMA PassoTi ==
    ASSUME TypeOK, MaxLimpezas = 0, [Next]_vars
    PROVE  UNCHANGED ti \/ \E t \in Tarefas : MudaTi(t)
<1> USE NomesDasTarefas
<1>0. "success" \in EstadosTi /\ "skipped" \in EstadosTi /\ "upstream_failed" \in EstadosTi
      /\ "skipped" \notin Iniciado /\ "upstream_failed" \notin Iniciado
  BY DEF EstadosTi, Terminais, Iniciado
<1>1. CASE AguardarXml
  <2>1. Pronta("aguardar") /\ \E s \in {"success", "skipped"} : Marca("aguardar", s)
    BY <1>1 DEF AguardarXml
  <2>2. MudaTi("aguardar")
    BY <1>0, <2>1 DEF MudaTi, Pronta, DepsOk, TypeOK, TipoAirflow
  <2>3. QED
    BY <2>2
<1>2. CASE ReservarLote
  <2>1. Pronta("reservar") /\ (Marca("reservar", "skipped") \/ Termina("reservar"))
    BY <1>2 DEF ReservarLote
  <2>2. MudaTi("reservar")
    <3>1. CASE Termina("reservar")
      BY <2>1, <3>1, TentativaMuda
    <3>2. CASE Marca("reservar", "skipped")
      BY <1>0, <2>1, <3>2 DEF MudaTi, Pronta, TypeOK, TipoAirflow
    <3>3. QED
      BY <2>1, <3>1, <3>2
  <2>3. QED
    BY <2>2
<1>3. CASE ReservarParte
  BY <1>3, TentativaMuda DEF ReservarParte, Termina
<1>4. CASE IngerirBronze
  <2>1. Pronta("ingerir") /\ Termina("ingerir")
    BY <1>4 DEF IngerirBronze, Termina
  <2>2. QED
    BY <2>1, TentativaMuda
<1>5. CASE RodarNota \/ RodarItem \/ RodarFtItem \/ RodarFtDocumento \/ RodarAgregado
  BY <1>5, TentativaMuda DEF RodarNota, RodarItem, RodarFtItem, RodarFtDocumento, RodarAgregado
<1>6. CASE FinalizarLote \/ MarcarErro
  BY <1>6, TentativaMuda DEF FinalizarLote, MarcarErro
<1>7. CASE ArquivarLote
  BY <1>7, TentativaMuda DEF ArquivarLote
<1>8. ASSUME NEW t \in Tarefas, FalhaAntes(t) PROVE MudaTi(t)
  BY <1>8, TentativaMuda DEF FalhaAntes, Termina
<1>9. ASSUME NEW t \in Tarefas, Propagar(t) PROVE MudaTi(t)
  <2>1. ti[run][t] = "none" /\ run \in Runs /\ \E s \in {"skipped", "upstream_failed"} : Marca(t, s)
    BY <1>9 DEF Propagar, TypeOK, TipoAirflow
  <2>2. QED
    BY <1>0, <2>1 DEF MudaTi
<1>10. CASE FimRun \/ \E r \in Runs : AbrirRun(r)
  BY <1>10 DEF FimRun, AbrirRun
<1>11. CASE (\E a \in Arquivos : Chega(a)) \/ (\E l \in Lotes : Reprocessar(l)) \/ UNCHANGED vars
  BY <1>11 DEF Chega, Reprocessar, vars, airflowVars
<1>12. ASSUME NEW r \in Runs, LimparRun(r) PROVE FALSE
  BY <1>12 DEF LimparRun, TypeOK, TipoLimites
<1>13. QED
  BY <1>1, <1>2, <1>3, <1>4, <1>5, <1>6, <1>7, <1>8, <1>9, <1>10, <1>11, <1>12
     DEF Next, Tarefa, Scheduler, Operador

\* What has succeeded stays so.
LEMMA SucessoFica ==
    ASSUME TypeOK, MaxLimpezas = 0, [Next]_vars, NEW r \in Runs, NEW t \in Tarefas,
           ti[r][t] = "success"
    PROVE  ti'[r][t] = "success"
<1>1. CASE UNCHANGED ti
  BY <1>1
<1>2. ASSUME NEW u \in Tarefas, MudaTi(u) PROVE ti'[r][t] = "success"
  <2>1. PICK s : ti' = [ti EXCEPT ![run][u] = s]
    BY <1>2 DEF MudaTi, Marca
  <2>2. r # run \/ t # u
    BY <1>2 DEF MudaTi
  <2>3. ti'[r][t] = ti[r][t]
    BY <2>1, <2>2 DEF TypeOK, TipoAirflow
  <2>4. QED
    BY <2>3
<1>3. QED
  BY <1>1, <1>2, PassoTi

LEMMA OrdemRunPasso ==
    ASSUME TypeOK, MaxLimpezas = 0, OrdemRun, [Next]_vars
    PROVE  OrdemRun'
<1> SUFFICES ASSUME NEW r \in Runs, NEW t \in Tarefas \ {"marcar_erro"}, ti'[r][t] \in Iniciado,
                    NEW u \in Acima[t]
             PROVE  ti'[r][u] = "success"
  BY DEF OrdemRun
<1>1. u \in Tarefas
  BY NomesDasTarefas
<1>2. ti[r][u] = "success"
  <2>1. CASE ti'[r][t] = ti[r][t]
    BY <2>1 DEF OrdemRun
  <2>2. CASE ti'[r][t] # ti[r][t]
    <3>1. PICK x \in Tarefas : MudaTi(x)
      BY <2>2, PassoTi
    <3>2. PICK s \in EstadosTi :
            /\ ti' = [ti EXCEPT ![run][x] = s]
            /\ s \in Iniciado /\ x # "marcar_erro" => \A v \in Acima[x] : ti[run][v] = "success"
      BY <3>1 DEF MudaTi, Marca
    <3>3. r = run /\ t = x /\ ti'[r][t] = s
      BY <2>2, <3>2 DEF TypeOK, TipoAirflow
    <3>4. QED
      BY <3>2, <3>3
  <2>3. QED
    BY <2>1, <2>2
<1>3. QED
  BY <1>1, <1>2, SucessoFica

\* A run that has closed its lots has loaded its own.
LEMMA FinalizadoIngerido ==
    ASSUME OrdemRun, NEW r \in Runs, ti[r]["finalizar"] = "success"
    PROVE  ti[r]["ingerir"] = "success"
<1>1. ti[r]["doc"] = "success"
  BY NomesDasTarefas DEF OrdemRun, Iniciado
<1>2. ti[r]["nota"] = "success"
  BY <1>1, NomesDasTarefas DEF OrdemRun, Iniciado
<1>3. QED
  BY <1>2, NomesDasTarefas DEF OrdemRun, Iniciado

\* The directories of a run only change while it reserves, or when it archives.
LEMMA PastaFica ==
    ASSUME TypeOK, [Next]_vars, NEW r \in Runs
    PROVE  /\ ti[r]["reservar"] = "success" => Pasta(r)' = Pasta(r)
           /\ processados'[r] # processados[r] => ti[r]["finalizar"] = "success"
<1>1. CASE UNCHANGED arquivosVars
  BY <1>1 DEF arquivosVars, Pasta
<1>2. CASE \E a \in Arquivos : Chega(a)
  BY <1>2 DEF Chega, Pasta
<1>3. CASE ReservarLote \/ ReservarParte
  <2>1. run \in Runs /\ ti[run]["reservar"] # "success"
    BY <1>3 DEF ReservarLote, ReservarParte, Pronta, TypeOK, TipoAirflow
  <2>2. PICK S : Move(S)
    BY <1>3 DEF ReservarLote, ReservarParte
  <2>3. processados' = processados /\ (r # run => processando'[r] = processando[r])
    BY <2>1, <2>2 DEF Move, TypeOK, TipoArquivos
  <2>4. QED
    BY <2>1, <2>3 DEF Pasta
<1>4. CASE ArquivarLote
  <2>1. run \in Runs /\ ti[run]["finalizar"] = "success"
    BY <1>4, NomesDasTarefas DEF ArquivarLote, Pronta, DepsOk, TypeOK, TipoAirflow
  <2>2. CASE Arquiva
    <3>1. r # run => processando'[r] = processando[r] /\ processados'[r] = processados[r]
      BY <2>2 DEF Arquiva, TypeOK, TipoArquivos
    <3>2. r = run => processando'[r] = {} /\ processados'[r] = processados[r] \cup processando[r]
      BY <2>2 DEF Arquiva, TypeOK, TipoArquivos
    <3>3. QED
      BY <2>1, <3>1, <3>2 DEF Pasta
  <2>3. CASE UNCHANGED <<processando, processados>>
    BY <2>3 DEF Pasta
  <2>4. QED
    BY <1>4, <2>2, <2>3 DEF ArquivarLote, Arquiva
<1>5. CASE AguardarXml \/ IngerirBronze \/ FinalizarLote \/ MarcarErro
           \/ \E t \in Tarefas : FalhaAntes(t)
  BY <1>1, <1>5 DEF AguardarXml, IngerirBronze, FinalizarLote, MarcarErro, FechaLotes, FalhaAntes
<1>6. CASE RodarNota \/ RodarItem \/ RodarFtItem \/ RodarFtDocumento \/ RodarAgregado
  BY <1>1, <1>6 DEF RodarNota, RodarItem, RodarFtItem, RodarFtDocumento, RodarAgregado, DbtUnchanged
<1>7. CASE Scheduler \/ Operador
  BY <1>1, <1>7 DEF Scheduler, AbrirRun, Propagar, FimRun, Operador, Reprocessar, LimparRun
<1>8. CASE UNCHANGED vars
  BY <1>1, <1>8 DEF vars
<1>9. QED
  BY <1>2, <1>3, <1>4, <1>5, <1>6, <1>7, <1>8 DEF Next, Tarefa

\* ingerir is the only task that names a lot, and what it leaves named.
LEMMA CargaEfeito ==
    ASSUME TypeOK, IdsEmOrdem, IngerirBronze
    PROVE  /\ run \in Runs /\ ti[run]["reservar"] = "success" /\ ti[run]["ingerir"] # "success"
           /\ UNCHANGED <<processando, processados, run>>
           /\ \/ UNCHANGED <<lote, bronze, rejeitados>> /\ lote[run] # 0
              \/ LoteDoRun \in Lotes /\ Carga(LoteDoRun)
<1>1. /\ run \in Runs /\ ti[run]["reservar"] = "success" /\ ti[run]["ingerir"] # "success"
      /\ UNCHANGED <<processando, processados, run>>
  BY NomesDasTarefas DEF IngerirBronze, Pronta, DepsOk, TypeOK, TipoAirflow, arquivosVars
<1>2. LoteDoRun \in Lotes
  BY <1>1, ProximoLoteLivre DEF LoteDoRun, TypeOK, TipoLotes
<1>3. CASE status[LoteDoRun] \in {"CARREGADO", "PROCESSADO"}
  <2>1. UNCHANGED <<lote, bronze, rejeitados>>
    BY <1>3 DEF IngerirBronze, LoteDoRun, loteVars, bronzeVars
  <2>2. LoteDoRun <= QtdLotes
    BY <1>2, <1>3 DEF IdsEmOrdem
  <2>3. lote[run] = 0 => LoteDoRun = QtdLotes + 1 /\ QtdLotes \in Nat
    BY QtdLotesTipo DEF LoteDoRun, ProximoLote, QtdLotes
  <2>4. lote[run] # 0
    BY <2>2, <2>3
  <2>5. QED
    BY <1>1, <2>1, <2>4
<1>4. CASE status[LoteDoRun] \notin {"CARREGADO", "PROCESSADO"}
  BY <1>1, <1>2, <1>4 DEF IngerirBronze, LoteDoRun, Carga
<1>5. QED
  BY <1>3, <1>4

\* A load leaves every file of the directory accounted for, and takes no row of
\* another lot away.
LEMMA ContaCarga ==
    ASSUME TypeOK, IdsEmOrdem, OrdemRun, LotesDistintos, \A q \in Runs : ContaDe(q),
           run \in Runs, ti[run]["reservar"] = "success", ti[run]["ingerir"] # "success",
           UNCHANGED <<processando, processados, run>>, LoteDoRun \in Lotes, Carga(LoteDoRun)
    PROVE  /\ LotesDistintos'
           /\ lote'[run] # 0
           /\ \A r \in Runs : lote'[r] # 0 => ti[r]["reservar"] = "success" /\ Conta(r)'
<1> DEFINE l == LoteDoRun
<1>1. lote'[run] = l /\ l # 0 /\ \A r \in Runs : r # run => lote'[r] = lote[r]
  BY DEF Carga, TypeOK, TipoLotes
<1>2. \A r \in Runs : r # run => lote[r] # l \/ lote[r] = 0
  <2> SUFFICES ASSUME NEW r \in Runs, r # run, lote[r] # 0 PROVE lote[r] # l
    OBVIOUS
  <2>1. CASE lote[run] = 0
    <3>1. l = QtdLotes + 1 /\ QtdLotes \in Nat
      BY <2>1, QtdLotesTipo DEF LoteDoRun, ProximoLote, QtdLotes
    <3>2. lote[r] <= QtdLotes /\ lote[r] \in Lotes
      BY DEF IdsEmOrdem, TypeOK, TipoLotes
    <3>3. QED
      BY <3>1, <3>2
  <2>2. CASE lote[run] # 0
    BY <2>2 DEF LoteDoRun, LotesDistintos
  <2>3. QED
    BY <2>1, <2>2
<1>3. LotesDistintos'
  BY <1>1, <1>2 DEF LotesDistintos
<1>4. Conta(run)'
  <2>1. processados[run] = {}
    BY FinalizadoIngerido DEF ContaDe
  <2>2. Pasta(run)' = ArquivosDoLote
    BY <2>1 DEF Pasta, ArquivosDoLote
  <2>3. \A a \in ArquivosDoLote : [lote |-> l, arq |-> a] \in bronze' \cup rejeitados'
    BY DEF Carga
  <2>4. \A a \in ArquivosDoLote : [lote |-> l, arq |-> a].lote = l /\ [lote |-> l, arq |-> a].arq = a
    OBVIOUS
  <2> HIDE DEF l
  <2>5. ASSUME NEW a \in Pasta(run)' PROVE \E b \in bronze' \cup rejeitados' : b.lote = lote'[run] /\ b.arq = a
    BY <1>1, <2>2, <2>3, <2>4, <2>5
  <2>6. QED
    BY <2>5 DEF Conta
<1>5. ASSUME NEW r \in Runs, r # run, lote[r] # 0 PROVE Conta(r)'
  <2>1. Conta(r) /\ lote'[r] = lote[r] /\ lote[r] # l
    BY <1>1, <1>2, <1>5 DEF ContaDe
  <2>2. Pasta(r)' = Pasta(r)
    BY DEF Pasta
  <2>3. \A b \in bronze \cup rejeitados : b.lote # l => b \in bronze' \cup rejeitados'
    BY DEF Carga, ApagaLote
  <2> HIDE DEF l
  <2>4. QED
    BY <2>1, <2>2, <2>3 DEF Conta
<1>6. ASSUME NEW r \in Runs, lote'[r] # 0 PROVE ti[r]["reservar"] = "success" /\ Conta(r)'
  <2>1. CASE r = run
    <3>1. Conta(run)' <=> Conta(r)'
      BY <2>1 DEF Conta, Pasta
    <3>2. QED
      BY <1>4, <2>1, <3>1
  <2>2. CASE r # run
    BY <1>1, <1>5, <1>6, <2>2 DEF ContaDe
  <2>3. QED
    BY <2>1, <2>2
<1>7. QED
  BY <1>1, <1>3, <1>6

\* Steps other than ingerir leave the rows, the lots and its success alone.
LEMMA SemCarga ==
    ASSUME TypeOK, MaxLimpezas = 0, [Next]_vars, ~IngerirBronze
    PROVE  /\ UNCHANGED <<lote, bronze, rejeitados>>
           /\ \A r \in Runs : ti'[r]["ingerir"] = "success" => ti[r]["ingerir"] = "success"
<1> USE DEF loteVars, bronzeVars
<1>0. ASSUME NEW t \in Tarefas, t # "ingerir", NEW s, Marca(t, s)
      PROVE  \A r \in Runs : ti'[r]["ingerir"] = ti[r]["ingerir"]
  BY <1>0 DEF Marca, TypeOK, TipoAirflow
<1>1. ASSUME NEW t \in Tarefas, t # "ingerir", Termina(t) \/ Falhou(t)
      PROVE  \A r \in Runs : ti'[r]["ingerir"] = ti[r]["ingerir"]
  <2>1. \E s \in {"success", "up_for_retry", "failed"} : Marca(t, s)
    BY <1>1 DEF Termina, Sucesso, Falha, Falhou
  <2>2. QED
    BY <1>0, <1>1, <2>1
<1>2. ASSUME NEW t \in Tarefas, NEW s, s # "success", Marca(t, s)
      PROVE  \A r \in Runs : ti'[r]["ingerir"] = "success" => ti[r]["ingerir"] = "success"
  <2>1. \A r \in Runs : ti'[r]["ingerir"] = s \/ ti'[r]["ingerir"] = ti[r]["ingerir"]
    BY <1>2 DEF Marca, TypeOK, TipoAirflow
  <2>2. QED
    BY <1>2, <2>1
<1>3. CASE AguardarXml
  <2>1. \E s : Marca("aguardar", s)
    BY <1>3 DEF AguardarXml
  <2>2. UNCHANGED <<lote, bronze, rejeitados>>
    BY <1>3 DEF AguardarXml
  <2>3. QED
    BY <1>0, <2>1, <2>2, NomesDasTarefas
<1>4. CASE ReservarLote \/ ReservarParte
  <2>1. \E s : Marca("reservar", s)
    BY <1>4 DEF ReservarLote, ReservarParte, Termina, Sucesso, Falha, Falhou
  <2>2. UNCHANGED <<lote, bronze, rejeitados>>
    BY <1>4 DEF ReservarLote, ReservarParte, Move
  <2>3. QED
    BY <1>0, <2>1, <2>2, NomesDasTarefas
<1>5. CASE RodarNota \/ RodarItem \/ RodarFtItem \/ RodarFtDocumento \/ RodarAgregado
  <2>1. \E t \in {"nota", "item", "ft", "doc", "ag"} : Termina(t)
    BY <1>5 DEF RodarNota, RodarItem, RodarFtItem, RodarFtDocumento, RodarAgregado
  <2>2. UNCHANGED <<lote, bronze, rejeitados>>
    BY <1>5 DEF RodarNota, RodarItem, RodarFtItem, RodarFtDocumento, RodarAgregado, DbtUnchanged
  <2>3. QED
    BY <1>1, <2>1, <2>2, NomesDasTarefas
<1>6. CASE FinalizarLote \/ MarcarErro
  <2>1. \E t \in {"finalizar", "marcar_erro"} : Termina(t)
    BY <1>6 DEF FinalizarLote, MarcarErro
  <2>2. UNCHANGED <<lote, bronze, rejeitados>>
    BY <1>6 DEF FinalizarLote, MarcarErro, FechaLotes
  <2>3. QED
    BY <1>1, <2>1, <2>2, NomesDasTarefas
<1>7. CASE ArquivarLote
  <2>1. Termina("arquivar") \/ Falhou("arquivar")
    BY <1>7 DEF ArquivarLote
  <2>2. UNCHANGED <<lote, bronze, rejeitados>>
    BY <1>7 DEF ArquivarLote
  <2>3. QED
    BY <1>1, <2>1, <2>2, NomesDasTarefas
<1>8. ASSUME NEW t \in Tarefas, FalhaAntes(t) \/ Propagar(t)
      PROVE  /\ UNCHANGED <<lote, bronze, rejeitados>>
             /\ \A r \in Runs : ti'[r]["ingerir"] = "success" => ti[r]["ingerir"] = "success"
  <2>1. \E s \in {"up_for_retry", "failed", "upstream_failed", "skipped"} : Marca(t, s)
    BY <1>8 DEF FalhaAntes, Falha, Falhou, Propagar
  <2>2. UNCHANGED <<lote, bronze, rejeitados>>
    BY <1>8 DEF FalhaAntes, Propagar
  <2>3. QED
    BY <1>2, <2>1, <2>2
<1>9. CASE FimRun \/ \E r \in Runs : AbrirRun(r)
  BY <1>9 DEF FimRun, AbrirRun
<1>10. CASE (\E a \in Arquivos : Chega(a)) \/ (\E l \in Lotes : Reprocessar(l)) \/ UNCHANGED vars
  BY <1>10 DEF Chega, Reprocessar, vars, airflowVars
<1>11. ASSUME NEW r \in Runs, LimparRun(r) PROVE FALSE
  BY <1>11 DEF LimparRun, TypeOK, TipoLimites
<1>12. QED
  BY <1>3, <1>4, <1>5, <1>6, <1>7, <1>8, <1>9, <1>10, <1>11 DEF Next, Tarefa, Scheduler, Operador

LEMMA ContasPasso ==
    ASSUME TypeOK, MaxLimpezas = 0, IdsEmOrdem, Contas, [Next]_vars
    PROVE  Contas'
<1>0. OrdemRun /\ LotesDistintos /\ \A r \in Runs : ContaDe(r)
  BY DEF Contas
<1>1. OrdemRun'
  BY <1>0, OrdemRunPasso
<1>2. ASSUME NEW r \in Runs PROVE processados'[r] # {} => ti'[r]["finalizar"] = "success"
  <2>1. processados'[r] # {} => ti[r]["finalizar"] = "success"
    BY <1>0, PastaFica DEF ContaDe
  <2>2. QED
    BY <2>1, SucessoFica, NomesDasTarefas
<1>3. CASE IngerirBronze
  <2>1. /\ run \in Runs /\ ti[run]["reservar"] = "success" /\ ti[run]["ingerir"] # "success"
        /\ UNCHANGED <<processando, processados, run>>
    BY <1>3, CargaEfeito
  <2>2. /\ LotesDistintos' /\ lote'[run] # 0
        /\ \A r \in Runs : lote'[r] # 0 => ti[r]["reservar"] = "success" /\ Conta(r)'
    <3>1. CASE UNCHANGED <<lote, bronze, rejeitados>> /\ lote[run] # 0
      <4>1. \A r \in Runs : Conta(r)' <=> Conta(r)
        BY <2>1, <3>1 DEF Conta, Pasta
      <4>2. LotesDistintos'
        BY <1>0, <3>1 DEF LotesDistintos
      <4>3. QED
        BY <1>0, <3>1, <4>1, <4>2 DEF ContaDe
    <3>2. CASE LoteDoRun \in Lotes /\ Carga(LoteDoRun)
      BY <1>0, <2>1, <3>2, ContaCarga
    <3>3. QED
      BY <1>3, <3>1, <3>2, CargaEfeito
  <2>3. \A r \in Runs : ti'[r]["ingerir"] = "success" => lote'[r] # 0
    <3>1. \E s \in EstadosTi : Marca("ingerir", s)
      BY <1>3 DEF IngerirBronze, Sucesso, Falha, Falhou, EstadosTi, Terminais
    <3>2. \A r \in Runs : r # run => ti'[r]["ingerir"] = ti[r]["ingerir"]
      BY <3>1 DEF Marca, TypeOK, TipoAirflow
    <3>3. \A r \in Runs : lote[r] # 0 => lote'[r] # 0
      <4>1. UNCHANGED lote \/ lote' = [lote EXCEPT ![run] = LoteDoRun]
        BY <1>3, CargaEfeito DEF Carga
      <4>2. QED
        BY <2>2, <4>1 DEF TypeOK, TipoLotes
    <3>4. QED
      BY <1>0, <2>2, <3>2, <3>3 DEF ContaDe
  <2>4. \A r \in Runs : ti[r]["reservar"] = "success" => ti'[r]["reservar"] = "success"
    BY SucessoFica, NomesDasTarefas
  <2>5. \A r \in Runs : ContaDe(r)'
    BY <1>2, <2>2, <2>3, <2>4 DEF ContaDe
  <2>6. QED
    BY <1>1, <2>2, <2>5 DEF Contas
<1>4. CASE ~IngerirBronze
  <2>1. /\ UNCHANGED <<lote, bronze, rejeitados>>
        /\ \A r \in Runs : ti'[r]["ingerir"] = "success" => ti[r]["ingerir"] = "success"
    BY <1>4, SemCarga
  <2>2. LotesDistintos'
    BY <1>0, <2>1 DEF LotesDistintos
  <2>3. ASSUME NEW r \in Runs PROVE ContaDe(r)'
    <3>1. ContaDe(r)
      BY <1>0
    <3>2. lote'[r] # 0 => ti'[r]["reservar"] = "success" /\ Conta(r)'
      <4>1. SUFFICES ASSUME lote[r] # 0 PROVE ti'[r]["reservar"] = "success" /\ Conta(r)'
        BY <2>1
      <4>2. ti[r]["reservar"] = "success" /\ Conta(r)
        BY <3>1, <4>1 DEF ContaDe
      <4>3. Pasta(r)' = Pasta(r)
        BY <4>2, PastaFica
      <4>4. Conta(r)'
        BY <2>1, <4>2, <4>3 DEF Conta
      <4>5. QED
        BY <4>2, <4>4, SucessoFica, NomesDasTarefas
    <3>3. ti'[r]["ingerir"] = "success" => lote'[r] # 0
      BY <2>1, <3>1 DEF ContaDe
    <3>4. QED
      BY <1>2, <3>2, <3>3 DEF ContaDe
  <2>4. QED
    BY <1>1, <2>2, <2>3 DEF Contas
<1>5. QED
  BY <1>3, <1>4

LEMMA ContasInicial == Init => Contas
<1> SUFFICES ASSUME Init PROVE Contas
  OBVIOUS
<1>1. \A r \in Runs : \A t \in Tarefas : ti[r][t] = "none"
  BY DEF Init
<1>2. OrdemRun
  BY <1>1 DEF OrdemRun, Iniciado
<1>3. LotesDistintos /\ \A r \in Runs : lote[r] = 0 /\ processados[r] = {}
  BY DEF Init, LotesDistintos
<1>4. \A r \in Runs : ti[r]["ingerir"] # "success"
  BY <1>1, NomesDasTarefas
<1>5. QED
  BY <1>2, <1>3, <1>4 DEF Contas, ContaDe

\* As long as nobody clears a run, arquivar_lote only puts away files that
\* fn_nfe_ingerir_lote has loaded or rejected, for any file, size of lot, failure
\* and requeue.  (A cleared run reserves again and finds its lot loaded already.)
THEOREM ArquivadosIngeridos ==
    ASSUME MaxLimpezas = 0
    PROVE  Spec => []SoArquivaIngerido
<1>1. Init => Contas
  BY ContasInicial
<1>2. TypeOK /\ IdsEmOrdem /\ Contas /\ [Next]_vars => Contas'
  BY ContasPasso
<1>3. Contas => SoArquivaIngerido
  <2> SUFFICES ASSUME Contas, NEW r \in Runs, NEW a \in processados[r]
               PROVE  \E b \in bronze \cup rejeitados : b.lote = lote[r] /\ b.arq = a
    BY DEF SoArquivaIngerido
  <2>1. ti[r]["ingerir"] = "success"
    BY FinalizadoIngerido DEF Contas, ContaDe
  <2>2. Conta(r)
    BY <2>1 DEF Contas, ContaDe
  <2>3. QED
    BY <2>2 DEF Conta, Pasta
<1>4. QED
  BY <1>1, <1>2, <1>3, IdsInicial, IdsPasso, Tipos, PTL DEF Spec

-----------------------------------------------------------------------------
(* The layers, when the operator waits for the run to end *)

Dbt == {"nota", "item", "ft", "doc", "ag"}

\* The active run has built the model of task t.
Feita(t) == run # 0 /\ ti[run][t] = "success"

Roda(t) ==
    \/ t = "nota" /\ RodarNota
    \/ t = "item" /\ RodarItem
    \/ t = "ft" /\ RodarFtItem
    \/ t = "doc" /\ RodarFtDocumento
    \/ t = "ag" /\ RodarAgregado

LEMMA NomesDbt ==
    /\ Dbt \subseteq Tarefas
    /\ \A t \in Dbt : t \notin {"aguardar", "reservar", "ingerir", "finalizar", "marcar_erro", "arquivar"}
    /\ Acima["nota"] = {"ingerir"} /\ Acima["item"] = {"ingerir"}
    /\ Acima["ft"] = {"nota", "item"} /\ Acima["doc"] = {"nota"} /\ Acima["ag"] = {"ft"}
    /\ Acima["finalizar"] = {"doc", "ag"} /\ Acima["ingerir"] = {"reservar"}
BY DEF Dbt, Tarefas, Acima, PaisFtItem, FolhasDbt

\* What a model that is built tells of the tasks above it.
LEMMA AcimaDeDbt ==
    ASSUME OrdemRun, NEW r \in Runs, NEW t \in Dbt, ti[r][t] = "success"
    PROVE  /\ ti[r]["ingerir"] = "success"
           /\ t = "ft" => ti[r]["nota"] = "success" /\ ti[r]["item"] = "success"
           /\ t = "doc" => ti[r]["nota"] = "success"
           /\ t = "ag" => ti[r]["ft"] = "success"
<1>1. \A u \in Tarefas \ {"marcar_erro"} : ti[r][u] = "success" => \A v \in Acima[u] : ti[r][v] = "success"
  BY DEF OrdemRun, Iniciado
<1>2. Dbt \subseteq Tarefas \ {"marcar_erro"}
  BY NomesDbt
<1>3. /\ "nota" \in Dbt /\ "item" \in Dbt /\ "ft" \in Dbt
  BY DEF Dbt
<1>4. \A u \in Dbt : ti[r][u] = "success" => \A v \in Acima[u] : ti[r][v] = "success"
  BY <1>1, <1>2
<1>5. /\ t = "ft" => ti[r]["nota"] = "success" /\ ti[r]["item"] = "success"
      /\ t = "doc" => ti[r]["nota"] = "success"
      /\ t = "ag" => ti[r]["ft"] = "success"
  BY <1>4, NomesDbt
<1>6. ti[r]["ft"] = "success" => ti[r]["nota"] = "success"
  BY <1>3, <1>4, NomesDbt
<1>7. ti[r]["nota"] = "success" \/ ti[r]["item"] = "success"
  BY <1>5, <1>6 DEF Dbt
<1>8. QED
  BY <1>3, <1>4, <1>5, <1>7, NomesDbt

\* Setting one task to a state leaves the others, and makes none a success
\* unless the state is one.
LEMMA MarcaOutra ==
    ASSUME TypeOK, run \in Runs, NEW u \in Tarefas, NEW s, Marca(u, s),
           NEW t \in Tarefas, t # u \/ s # "success", ti'[run][t] = "success"
    PROVE  ti[run][t] = "success"
BY DEF Marca, TypeOK, TipoAirflow

LEMMA TerminaOutra ==
    ASSUME TypeOK, run \in Runs, NEW u \in Tarefas, Termina(u) \/ Falhou(u),
           NEW t \in Tarefas, t # u, ti'[run][t] = "success"
    PROVE  ti[run][t] = "success"
<1>1. \E s : Marca(u, s)
  BY DEF Termina, Sucesso, Falha, Falhou
<1>2. QED
  BY <1>1, MarcaOutra

\* The run only moves on: what is built in the next state was built, or is being
\* built by the step, in the same run over the same bronze and the same LOTE_ID.
LEMMA FeitaAntes ==
    ASSUME TypeOK, OrdemRun, MaxLimpezas = 0, OperadorEspera, [Next]_vars,
           NEW t \in Dbt, Feita(t)'
    PROVE  /\ run \in Runs /\ run' = run /\ xcom' = xcom /\ bronze' = bronze
           /\ ti[run]["ingerir"] = "success"
           /\ Feita(t) \/ Roda(t)
           /\ status' = status \/ FinalizarLote \/ MarcarErro
<1> DEFINE Mesmo == run' = run /\ xcom' = xcom /\ bronze' = bronze
<1> USE DEF loteVars, bronzeVars
<1>0. t \in Tarefas /\ run \in Runs \cup {0} /\ 0 \notin Runs
  <2>1. t \in Tarefas
    BY NomesDbt
  <2>2. 0 \notin Runs
    BY NfeAssumption DEF Runs
  <2>3. QED
    BY <2>1, <2>2 DEF TypeOK, TipoAirflow
<1>a. SUFFICES /\ run \in Runs /\ Mesmo
               /\ Feita(t) \/ Roda(t)
               /\ status' = status \/ FinalizarLote \/ MarcarErro
  <2>1. CASE Feita(t)
    BY <1>0, <1>a, <2>1, AcimaDeDbt DEF Feita
  <2>2. CASE Roda(t)
    <3>1. Pronta(t) /\ t # "marcar_erro"
      BY <2>2, NomesDbt DEF Roda, RodarNota, RodarItem, RodarFtItem, RodarFtDocumento, RodarAgregado
    <3>2. \A u \in Acima[t] : ti[run][u] = "success"
      BY <3>1 DEF Pronta, DepsOk
    <3>3. \/ ti[run]["ingerir"] = "success" \/ ti[run]["nota"] = "success" \/ ti[run]["ft"] = "success"
      BY <3>2, NomesDbt DEF Dbt
    <3>4. "nota" \in Dbt /\ "ft" \in Dbt
      BY DEF Dbt
    <3>5. ti[run]["ingerir"] = "success"
      BY <1>a, <3>3, <3>4, AcimaDeDbt
    <3>6. QED
      BY <1>a, <3>5
  <2>3. QED
    BY <1>a, <2>1, <2>2
<1>1. CASE AguardarXml
  <2>1. run \in Runs /\ \E s : Marca("aguardar", s)
    BY <1>0, <1>1 DEF AguardarXml, Pronta
  <2>2. Mesmo /\ status' = status
    BY <1>1 DEF AguardarXml
  <2>3. ti[run][t] = "success"
    BY <1>0, <2>1, <2>2, MarcaOutra, NomesDbt, NomesDasTarefas DEF Feita
  <2>4. QED
    BY <1>0, <2>1, <2>2, <2>3 DEF Feita
<1>2. CASE ReservarLote \/ ReservarParte
  <2>1. run \in Runs /\ \E s : Marca("reservar", s)
    BY <1>0, <1>2 DEF ReservarLote, ReservarParte, Pronta, Termina, Sucesso, Falha, Falhou
  <2>2. Mesmo /\ status' = status
    BY <1>2 DEF ReservarLote, ReservarParte, Move
  <2>3. ti[run][t] = "success"
    BY <1>0, <2>1, <2>2, MarcaOutra, NomesDbt, NomesDasTarefas DEF Feita
  <2>4. QED
    BY <1>0, <2>1, <2>2, <2>3 DEF Feita
<1>3. CASE IngerirBronze
  <2>1. run \in Runs /\ ti[run]["ingerir"] # "success" /\ run' = run /\ Termina("ingerir")
    BY <1>0, <1>3 DEF IngerirBronze, Pronta, Termina
  <2>2. ti[run][t] = "success"
    BY <1>0, <2>1, TerminaOutra, NomesDbt, NomesDasTarefas DEF Feita
  <2>3. QED
    BY <2>1, <2>2, AcimaDeDbt
<1>4. CASE RodarNota \/ RodarItem \/ RodarFtItem \/ RodarFtDocumento \/ RodarAgregado
  <2>1. PICK u \in Dbt : Pronta(u) /\ Termina(u) /\ Roda(u)
    BY <1>4 DEF RodarNota, RodarItem, RodarFtItem, RodarFtDocumento, RodarAgregado, Roda, Dbt
  <2>2. Mesmo /\ status' = status
    BY <1>4 DEF RodarNota, RodarItem, RodarFtItem, RodarFtDocumento, RodarAgregado, DbtUnchanged
  <2>3. run \in Runs
    BY <1>0, <2>1 DEF Pronta
  <2>4. CASE u = t
    BY <2>1, <2>2, <2>3, <2>4
  <2>5. CASE u # t
    <3>1. ti[run][t] = "success"
      BY <1>0, <2>1, <2>2, <2>3, <2>5, TerminaOutra, NomesDbt DEF Feita
    <3>2. QED
      BY <1>0, <2>2, <2>3, <3>1 DEF Feita
  <2>6. QED
    BY <2>4, <2>5
<1>5. CASE FinalizarLote \/ MarcarErro
  <2>1. PICK u \in {"finalizar", "marcar_erro"} : Pronta(u) /\ Termina(u)
    BY <1>5 DEF FinalizarLote, MarcarErro
  <2>2. Mesmo
    BY <1>5 DEF FinalizarLote, MarcarErro, FechaLotes
  <2>3. run \in Runs
    BY <1>0, <2>1 DEF Pronta
  <2>4. ti[run][t] = "success"
    BY <1>0, <2>1, <2>2, <2>3, TerminaOutra, NomesDbt, NomesDasTarefas DEF Feita
  <2>5. QED
    BY <1>0, <1>5, <2>2, <2>3, <2>4 DEF Feita
<1>6. CASE ArquivarLote
  <2>1. Pronta("arquivar") /\ (Termina("arquivar") \/ Falhou("arquivar"))
    BY <1>6 DEF ArquivarLote
  <2>2. Mesmo /\ status' = status
    BY <1>6 DEF ArquivarLote
  <2>3. run \in Runs
    BY <1>0, <2>1 DEF Pronta
  <2>4. ti[run][t] = "success"
    BY <1>0, <2>1, <2>2, <2>3, TerminaOutra, NomesDbt, NomesDasTarefas DEF Feita
  <2>5. QED
    BY <1>0, <2>2, <2>3, <2>4 DEF Feita
<1>7. ASSUME NEW u \in Tarefas, FalhaAntes(u) \/ Propagar(u)
      PROVE  run \in Runs /\ Mesmo /\ Feita(t) /\ status' = status
  <2>1. run \in Runs /\ \E s : s # "success" /\ Marca(u, s)
    BY <1>0, <1>7 DEF FalhaAntes, Falha, Falhou, Propagar, Pronta
  <2>2. Mesmo /\ status' = status
    BY <1>7 DEF FalhaAntes, Propagar
  <2>3. ti[run][t] = "success"
    BY <1>0, <2>1, <2>2, MarcaOutra DEF Feita
  <2>4. QED
    BY <1>0, <2>1, <2>2, <2>3 DEF Feita
<1>8. ASSUME NEW r \in Runs, AbrirRun(r) PROVE FALSE
  BY <1>0, <1>8 DEF AbrirRun, Nova, Feita
<1>9. ~FimRun
  BY DEF FimRun, Feita
<1>10. ASSUME NEW l \in Lotes, Reprocessar(l) PROVE FALSE
  BY <1>10 DEF Reprocessar, PodeIntervir, airflowVars, Feita
<1>11. CASE (\E a \in Arquivos : Chega(a)) \/ UNCHANGED vars
  BY <1>0, <1>11 DEF Chega, vars, airflowVars, Feita
<1>12. ASSUME NEW r \in Runs, LimparRun(r) PROVE FALSE
  BY <1>12 DEF LimparRun, TypeOK, TipoLimites
<1>13. QED
  BY <1>1, <1>2, <1>3, <1>4, <1>5, <1>6, <1>7, <1>8, <1>9, <1>10, <1>11, <1>12
     DEF Next, Tarefa, Scheduler, Operador

\* Every table is written by the task of its own model only.
LEMMA PassoDasTabelas ==
    ASSUME [Next]_vars
    PROVE  /\ nota' = nota \/ RodarNota
           /\ item' = item \/ RodarItem
           /\ ft' = ft \/ RodarFtItem
           /\ doc' = doc \/ RodarFtDocumento
           /\ ag' = ag \/ RodarAgregado
<1> USE DEF silverVars, goldVars
<1>1. CASE RodarNota \/ RodarItem \/ RodarFtItem \/ RodarFtDocumento \/ RodarAgregado
  BY <1>1 DEF RodarNota, RodarItem, RodarFtItem, RodarFtDocumento, RodarAgregado
<1>2. CASE (\E a \in Arquivos : Chega(a)) \/ UNCHANGED vars
  BY <1>2 DEF Chega, vars
<1>3. CASE AguardarXml \/ ReservarLote \/ ReservarParte \/ IngerirBronze \/ ArquivarLote
  BY <1>3 DEF AguardarXml, ReservarLote, ReservarParte, Move, IngerirBronze, ArquivarLote
<1>4. CASE FinalizarLote \/ MarcarErro \/ \E t \in Tarefas : FalhaAntes(t)
  BY <1>4 DEF FinalizarLote, MarcarErro, FechaLotes, FalhaAntes
<1>5. CASE Scheduler
  BY <1>5 DEF Scheduler, AbrirRun, Propagar, FimRun
<1>6. CASE Operador
  BY <1>6 DEF Operador, Reprocessar, LimparRun
<1>7. QED
  BY <1>1, <1>2, <1>3, <1>4, <1>5, <1>6 DEF Next, Tarefa

\* LOTE_ID is set by ingerir_bronze, and until that task succeeds the lot it has
\* named is not in error.
Abertura ==
    /\ \A r \in Runs : xcom[r] # 0 => ti[r]["ingerir"] = "success"
    /\ run # 0 /\ lote[run] # 0 /\ ti[run]["ingerir"] # "success"
         => status[lote[run]] \in {"CARREGADO", "PROCESSADO"}

\* A load numbers a lot nobody has used and appends its rows.
NovoLote(l) ==
    /\ status[l] = "ausente"
    /\ \A k \in Lotes : k > l => status[k] = "ausente"
    /\ \A b \in bronze : b.lote # l
    /\ \E S : /\ bronze' = bronze \cup [lote : {l}, arq : S]
              /\ status' = [status EXCEPT ![l] = StatusDaCarga(S)]

\* The rows of bronze are of lots that are in the control table.
LEMMA LotesDaBronze ==
    ASSUME TypeOK, IdsEmOrdem, OrigemDaLinha
    PROVE  \A b \in bronze : b.lote \in Lotes /\ b.arq \in Arquivos /\ status[b.lote] # "ausente"
<1> SUFFICES ASSUME NEW b \in bronze
             PROVE  b.lote \in Lotes /\ b.arq \in Arquivos /\ status[b.lote] # "ausente"
  OBVIOUS
<1>1. b.lote \in Lotes /\ b.arq \in Arquivos
  BY DEF TypeOK, TipoTabelas, Linha
<1>2. PICK r \in Runs : lote[r] = b.lote
  BY DEF OrigemDaLinha
<1>3. b.lote <= QtdLotes
  BY <1>2 DEF IdsEmOrdem
<1>4. QED
  BY <1>1, <1>3 DEF IdsEmOrdem

LEMMA IngerirNovo ==
    ASSUME TypeOK, IdsEmOrdem, OrigemDaLinha, Abertura, IngerirBronze
    PROVE  /\ run \in Runs /\ ti[run]["ingerir"] # "success"
           /\ \/ UNCHANGED <<lote, status, bronze>> /\ status[LoteDoRun] \in {"CARREGADO", "PROCESSADO"}
                 /\ lote[run] = LoteDoRun
              \/ lote[run] = 0 /\ LoteDoRun \in Lotes /\ lote' = [lote EXCEPT ![run] = LoteDoRun] /\ NovoLote(LoteDoRun)
<1> DEFINE l == LoteDoRun
<1>1. run \in Runs /\ run # 0 /\ ti[run]["ingerir"] # "success"
  BY DEF IngerirBronze, Pronta, TypeOK, TipoAirflow
<1>2. l \in Lotes
  BY <1>1, ProximoLoteLivre DEF LoteDoRun, TypeOK, TipoLotes
<1>3. QtdLotes \in Nat /\ (lote[run] = 0 => l = QtdLotes + 1)
  BY QtdLotesTipo DEF LoteDoRun, ProximoLote, QtdLotes
<1>4. CASE status[l] \in {"CARREGADO", "PROCESSADO"}
  <2>1. l <= QtdLotes
    BY <1>2, <1>4 DEF IdsEmOrdem
  <2>2. lote[run] # 0
    BY <1>3, <2>1
  <2>3. QED
    BY <1>1, <1>4, <2>2 DEF IngerirBronze, LoteDoRun, loteVars, bronzeVars
<1>5. CASE status[l] \notin {"CARREGADO", "PROCESSADO"}
  <2>1. lote[run] = 0
    BY <1>1, <1>5 DEF Abertura, LoteDoRun
  <2>2. l \in Int /\ ~(l <= QtdLotes) /\ \A k \in Lotes : k \in Int /\ (k > l => ~(k <= QtdLotes))
    BY <1>2, <1>3, <2>1, Numeros
  <2>3. status[l] = "ausente" /\ \A k \in Lotes : k > l => status[k] = "ausente"
    BY <1>2, <2>2 DEF IdsEmOrdem
  <2>4. \A b \in bronze : b.lote # l
    BY <2>3, LotesDaBronze
  <2>5. Carga(l)
    BY <1>5 DEF IngerirBronze, LoteDoRun, Carga
  <2>6. bronze' = bronze \cup [lote : {l}, arq : ArquivosDoLote \ Invalidos]
    BY <2>4, <2>5 DEF Carga, ApagaLote
  <2>7. NovoLote(l)
    BY <2>3, <2>4, <2>5, <2>6 DEF NovoLote, Carga
  <2>8. QED
    BY <1>1, <1>2, <2>1, <2>5, <2>7 DEF Carga
<1>6. QED
  BY <1>4, <1>5

\* What a step does to bronze and to the states of the lots.
LEMMA PassoDoStatus ==
    ASSUME TypeOK, IdsEmOrdem, OrigemDaLinha, Abertura, MaxLimpezas = 0, OperadorEspera,
           [Next]_vars
    PROVE  \/ /\ IngerirBronze
              /\ \E l \in Lotes : NovoLote(l) /\ UNCHANGED <<silverVars, goldVars, reprocessos>>
           \/ FinalizarLote \/ MarcarErro
           \/ \E l \in Lotes : Reprocessar(l) /\ run = 0
           \/ UNCHANGED <<status, bronze, reprocessos>>
<1> USE DEF loteVars, bronzeVars, operador
<1>1. CASE IngerirBronze
  BY <1>1, IngerirNovo DEF IngerirBronze
<1>2. CASE FinalizarLote \/ MarcarErro
  BY <1>2
<1>3. CASE RodarNota \/ RodarItem \/ RodarFtItem \/ RodarFtDocumento \/ RodarAgregado
  BY <1>3 DEF RodarNota, RodarItem, RodarFtItem, RodarFtDocumento, RodarAgregado, DbtUnchanged
<1>4. CASE AguardarXml \/ ReservarLote \/ ReservarParte \/ ArquivarLote \/ \E t \in Tarefas : FalhaAntes(t)
  BY <1>4 DEF AguardarXml, ReservarLote, ReservarParte, Move, ArquivarLote, FalhaAntes
<1>5. CASE (\E a \in Arquivos : Chega(a)) \/ UNCHANGED vars
  BY <1>5 DEF Chega, vars
<1>6. CASE Scheduler
  BY <1>6 DEF Scheduler, AbrirRun, Propagar, FimRun
<1>7. ASSUME NEW l \in Lotes, Reprocessar(l) PROVE run = 0
  BY <1>7 DEF Reprocessar, PodeIntervir
<1>8. ASSUME NEW r \in Runs, LimparRun(r) PROVE FALSE
  BY <1>8 DEF LimparRun, TypeOK, TipoLimites
<1>9. QED
  BY <1>1, <1>2, <1>3, <1>4, <1>5, <1>6, <1>7, <1>8 DEF Next, Tarefa, Operador

\* LOTE_ID only changes when ingerir_bronze succeeds.
LEMMA PassoDoXcom ==
    ASSUME TypeOK, MaxLimpezas = 0, [Next]_vars
    PROVE  xcom' = xcom \/ (IngerirBronze /\ Sucesso("ingerir") /\ \A r \in Runs : r # run => xcom'[r] = xcom[r])
<1> USE DEF airflowVars
<1>1. CASE IngerirBronze
  BY <1>1 DEF IngerirBronze, TypeOK, TipoAirflow
<1>2. CASE FinalizarLote \/ MarcarErro
  BY <1>2 DEF FinalizarLote, MarcarErro, FechaLotes
<1>3. CASE RodarNota \/ RodarItem \/ RodarFtItem \/ RodarFtDocumento \/ RodarAgregado
  BY <1>3 DEF RodarNota, RodarItem, RodarFtItem, RodarFtDocumento, RodarAgregado, DbtUnchanged
<1>4. CASE AguardarXml \/ ReservarLote \/ ReservarParte \/ ArquivarLote \/ \E t \in Tarefas : FalhaAntes(t)
  BY <1>4 DEF AguardarXml, ReservarLote, ReservarParte, Move, ArquivarLote, FalhaAntes
<1>5. CASE (\E a \in Arquivos : Chega(a)) \/ UNCHANGED vars
  BY <1>5 DEF Chega, vars
<1>6. CASE Scheduler
  BY <1>6 DEF Scheduler, AbrirRun, Propagar, FimRun
<1>7. CASE \E l \in Lotes : Reprocessar(l)
  BY <1>7 DEF Reprocessar
<1>8. ASSUME NEW r \in Runs, LimparRun(r) PROVE FALSE
  BY <1>8 DEF LimparRun, TypeOK, TipoLimites
<1>9. QED
  BY <1>1, <1>2, <1>3, <1>4, <1>5, <1>6, <1>7, <1>8 DEF Next, Tarefa, Operador

\* The active run changes when it opens, still untouched, or ends.
LEMMA PassoDoRun ==
    ASSUME TypeOK, MaxLimpezas = 0, [Next]_vars
    PROVE  \/ run' = run
           \/ run' = 0
           \/ run = 0 /\ run' \in Runs /\ Nova(run')
<1> USE DEF airflowVars
<1>1. CASE IngerirBronze \/ FinalizarLote \/ MarcarErro
  BY <1>1 DEF IngerirBronze, FinalizarLote, MarcarErro, FechaLotes
<1>3. CASE RodarNota \/ RodarItem \/ RodarFtItem \/ RodarFtDocumento \/ RodarAgregado
  BY <1>3 DEF RodarNota, RodarItem, RodarFtItem, RodarFtDocumento, RodarAgregado, DbtUnchanged
<1>4. CASE AguardarXml \/ ReservarLote \/ ReservarParte \/ ArquivarLote \/ \E t \in Tarefas : FalhaAntes(t)
  BY <1>4 DEF AguardarXml, ReservarLote, ReservarParte, Move, ArquivarLote, FalhaAntes
<1>5. CASE (\E a \in Arquivos : Chega(a)) \/ UNCHANGED vars
  BY <1>5 DEF Chega, vars
<1>6. CASE Scheduler
  BY <1>6 DEF Scheduler, AbrirRun, Propagar, FimRun
<1>7. CASE \E l \in Lotes : Reprocessar(l)
  BY <1>7 DEF Reprocessar
<1>8. ASSUME NEW r \in Runs, LimparRun(r) PROVE FALSE
  BY <1>8 DEF LimparRun, TypeOK, TipoLimites
<1>9. QED
  BY <1>1, <1>3, <1>4, <1>5, <1>6, <1>7, <1>8 DEF Next, Tarefa, Operador

LEMMA AberturaPasso ==
    ASSUME TypeOK, IdsEmOrdem, OrigemDaLinha, Contas, Abertura, MaxLimpezas = 0, OperadorEspera,
           [Next]_vars
    PROVE  Abertura'
<1>1. ASSUME NEW r \in Runs, xcom'[r] # 0 PROVE ti'[r]["ingerir"] = "success"
  <2>1. CASE xcom'[r] = xcom[r]
    BY <1>1, <2>1, SucessoFica, NomesDasTarefas DEF Abertura
  <2>2. CASE xcom'[r] # xcom[r]
    <3>1. r = run /\ Sucesso("ingerir")
      BY <2>2, PassoDoXcom
    <3>2. QED
      BY <3>1, NomesDasTarefas DEF Sucesso, Marca, TypeOK, TipoAirflow
  <2>3. QED
    BY <2>1, <2>2
<1>2. ASSUME run' # 0, lote'[run'] # 0, ti'[run']["ingerir"] # "success"
      PROVE  status'[lote'[run']] \in {"CARREGADO", "PROCESSADO"}
  <2>0. "ingerir" \in Tarefas /\ "reservar" \in Tarefas
    BY NomesDasTarefas
  <2>1. CASE IngerirBronze
    <3>1. run' = run
      BY <2>1 DEF IngerirBronze
    <3>2. CASE UNCHANGED <<lote, status, bronze>> /\ status[LoteDoRun] \in {"CARREGADO", "PROCESSADO"}
               /\ lote[run] = LoteDoRun
      BY <3>1, <3>2
    <3>3. CASE LoteDoRun \in Lotes /\ lote' = [lote EXCEPT ![run] = LoteDoRun] /\ NovoLote(LoteDoRun)
      <4>1. run \in Runs
        BY <2>1, IngerirNovo
      <4>2. lote'[run'] = LoteDoRun
        BY <3>1, <3>3, <4>1 DEF TypeOK, TipoLotes
      <4>3. status'[LoteDoRun] \in {"CARREGADO", "PROCESSADO"}
        BY <3>3 DEF NovoLote, StatusDaCarga, TypeOK, TipoLotes
      <4>4. QED
        BY <4>2, <4>3
    <3>4. QED
      BY <2>1, <3>2, <3>3, IngerirNovo
  <2>2. CASE ~IngerirBronze
    <3>1. UNCHANGED <<lote, bronze>>
      BY <2>2, SemCarga
    <3>2. run' = run
      <4>1. SUFFICES ASSUME run = 0, run' \in Runs, Nova(run') PROVE FALSE
        BY <1>2, PassoDoRun
      <4>2. PICK r \in Runs : r = run'
        BY <4>1
      <4>3. lote[r] # 0
        BY <1>2, <3>1, <4>2
      <4>4. ti[r]["reservar"] = "success"
        BY <4>3 DEF Contas, ContaDe
      <4>5. ti[r]["reservar"] = "none"
        BY <2>0, <4>1, <4>2 DEF Nova
      <4>6. QED
        BY <4>4, <4>5
    <3>3. run \in Runs /\ lote[run] # 0
      BY <1>2, <3>1, <3>2 DEF TypeOK, TipoAirflow
    <3>4. ti[run]["ingerir"] # "success"
      BY <1>2, <2>0, <3>2, <3>3, SucessoFica
    <3>5. status[lote[run]] \in {"CARREGADO", "PROCESSADO"} /\ xcom[run] = 0
      BY <1>2, <3>2, <3>3, <3>4 DEF Abertura
    <3>6. status' = status
      <4>1. Pendentes = {}
        <5>1. \A l \in Lotes : l \in Int /\ ~(l <= 0)
          BY NfeAssumption DEF Lotes
        <5>2. QED
          BY <3>5, <5>1 DEF Pendentes
      <4>2. ASSUME NEW s, FechaLotes(s) PROVE status' = status
        BY <4>1, <4>2 DEF FechaLotes, AFechar, TypeOK, TipoLotes
      <4>3. FinalizarLote \/ MarcarErro => status' = status
        BY <4>2 DEF FinalizarLote, MarcarErro
      <4>4. run # 0
        BY <1>2, <3>2
      <4>5. QED
        BY <2>2, <4>3, <4>4, PassoDoStatus
    <3>7. QED
      BY <3>1, <3>2, <3>5, <3>6
  <2>3. QED
    BY <2>1, <2>2
<1>3. QED
  BY <1>1, <1>2 DEF Abertura

\* Only finitely many files have been delivered: their names are bounded.
Limitado == \E N \in Nat : \A a \in entregues : a <= N

LEMMA LimitadoPasso ==
    ASSUME TypeOK, Limitado, [Next]_vars
    PROVE  Limitado'
<1>1. PICK N \in Nat : \A a \in entregues : a <= N
  BY DEF Limitado
<1>2. ASSUME NEW a \in Arquivos, Chega(a) PROVE Limitado'
  <2>1. a \in Nat /\ entregues \subseteq Nat
    BY NfeAssumption DEF TypeOK, TipoArquivos
  <2>2. entregues' = entregues \cup {a}
    BY <1>2 DEF Chega
  <2>3. CASE a <= N
    BY <1>1, <2>2, <2>3 DEF Limitado
  <2>4. CASE ~(a <= N)
    <3>1. \A c \in entregues \cup {a} : c <= a
      BY <1>1, <2>1, <2>4
    <3>2. QED
      BY <2>1, <2>2, <3>1 DEF Limitado
  <2>5. QED
    BY <2>3, <2>4
<1>3. CASE entregues' = entregues
  BY <1>3 DEF Limitado
<1>4. QED
  BY <1>2, <1>3, PassoDosArquivos DEF Move, Arquiva, arquivosVars

LEMMA ArquivosDaBronze ==
    ASSUME TypeOK, OrigemDaLinha, UmLugarSo
    PROVE  \A b \in bronze : b.arq \in entregues
BY DEF OrigemDaLinha, UmLugarSo

\* Every nonempty set of naturals has a least member.
LEMMA TemMenor ==
    ASSUME NEW T, T \subseteq Nat, T # {}
    PROVE  \E x \in T : \A y \in T : x <= y
<1>1. \A x, y \in Nat : x < y => <<x, y>> \in OpToRel(<, Nat)
  BY DEF OpToRel
<1>2. PICK x \in T : \A y \in T : ~(<<y, x>> \in OpToRel(<, Nat))
  BY NatLessThanWellFounded, WFMin
<1>3. \A y \in T : x \in Nat /\ y \in Nat /\ ~(y < x)
  BY <1>1, <1>2
<1>4. QED
  BY <1>3

\* ... and, when it is bounded, a greatest.
LEMMA TemMaior ==
    ASSUME NEW T, T \subseteq Nat, T # {}, NEW N \in Nat, \A x \in T : x <= N
    PROVE  \E x \in T : \A y \in T : y <= x
<1> DEFINE U == {N - x : x \in T}
<1>1. \A x \in T : x \in Nat /\ N - x \in Nat
  OBVIOUS
<1>2. U \subseteq Nat /\ U # {}
  BY <1>1
<1> HIDE DEF U
<1>3. PICK u \in U : \A w \in U : u <= w
  BY <1>2, TemMenor
<1> USE DEF U
<1>4. PICK x \in T : u = N - x
  OBVIOUS
<1>5. ASSUME NEW y \in T PROVE y <= x
  <2>1. N - y \in U
    OBVIOUS
  <2>2. N - x <= N - y
    BY <1>3, <1>4, <2>1
  <2>3. QED
    BY <1>1, <2>2
<1>6. QED
  BY <1>5

\* The distinct on of int_nfe__xml_vigente has a row for every key of the queue.
LEMMA VigenteExiste ==
    ASSUME TypeOK, OrigemDaLinha, UmLugarSo, Limitado, NEW b \in DoLote(bronze, Pendentes)
    PROVE  \E v \in XmlVigente : MesmaChave(v, b)
<1> DEFINE D == DoLote(bronze, Pendentes)
           R == {y \in D : Chave[y.arq] = Chave[b.arq]}
           L == {y.lote : y \in R}
<1>1. \A y \in D : y \in Linha /\ y.arq \in entregues /\ y.lote \in Nat /\ y.arq \in Nat /\ y.lote <= MaxRuns
  <2>1. \A y \in D : y \in bronze /\ y \in Linha
    BY DEF DoLote, TypeOK, TipoTabelas
  <2>2. \A y \in D : y.lote \in Lotes /\ y.arq \in Arquivos
    BY <2>1 DEF Linha
  <2>3. \A l \in Lotes : l \in Nat /\ l <= MaxRuns
    BY NfeAssumption DEF Lotes
  <2>4. Arquivos \subseteq Nat
    BY NfeAssumption
  <2> HIDE DEF D
  <2>5. QED
    BY <2>1, <2>2, <2>3, <2>4, ArquivosDaBronze
<1>2. MaxRuns \in Nat
  BY NfeAssumption
<1> HIDE DEF D
<1>3. PICK m \in L : \A k \in L : k <= m
  <2>1. L \subseteq Nat /\ L # {} /\ \A k \in L : k <= MaxRuns
    BY <1>1 DEF D
  <2> HIDE DEF L
  <2>2. QED
    BY <1>2, <2>1, TemMaior
<1> DEFINE Q == {y \in R : y.lote = m}
           F == {y.arq : y \in Q}
<1>4. PICK a \in F : \A c \in F : c <= a
  <2>1. PICK N \in Nat : \A c \in entregues : c <= N
    BY DEF Limitado
  <2>2. F \subseteq Nat /\ F # {} /\ \A c \in F : c <= N
    BY <1>1, <1>3, <2>1
  <2> HIDE DEF F
  <2>3. QED
    BY <2>1, <2>2, TemMaior
<1>5. PICK v \in Q : v.arq = a
  OBVIOUS
<1>6. v \in D /\ v.lote = m /\ Chave[v.arq] = Chave[b.arq]
  BY <1>5
<1>7. ASSUME NEW y \in D \ {v}, MesmaChave(v, y) PROVE MaisRecente(v, y)
  <2>1. y \in R /\ y.lote <= m
    BY <1>3, <1>6, <1>7 DEF MesmaChave
  <2>2. CASE y.lote # m
    <3>1. y.lote \in Nat /\ m \in Nat
      BY <1>1, <1>6
    <3>2. QED
      BY <1>6, <2>1, <2>2, <3>1 DEF MaisRecente
  <2>3. CASE y.lote = m
    <3>1. y.arq <= a
      BY <1>4, <2>1, <2>3
    <3>2. y.arq # a
      BY <1>1, <1>5, <1>6, <1>7, <2>3 DEF Linha
    <3>3. y.arq \in Nat /\ a \in Nat
      BY <1>1, <1>5, <1>6
    <3>4. QED
      BY <1>5, <1>6, <2>3, <3>1, <3>2, <3>3 DEF MaisRecente
  <2>4. QED
    BY <2>2, <2>3
<1>8. v \in XmlVigente
  BY <1>6, <1>7 DEF XmlVigente, Distintas, D
<1>9. QED
  BY <1>6, <1>8 DEF MesmaChave

-----------------------------------------------------------------------------
(* Silver: where its rows come from *)

\* The bronze row of an item or of a fact.
LinhaDe(x) == [lote |-> x.lote, arq |-> x.arq]

\* The silver row of a fact.
ItemDe(f) == [lote |-> f.lote, arq |-> f.arq, n |-> f.n]

\* Nothing in silver or in the item fact is of a file bronze does not have.
Proveniencia ==
    /\ nota \subseteq bronze
    /\ \A i \in item : LinhaDe(i) \in bronze
    /\ \A f \in ft : LinhaDe(f) \in bronze

LEMMA BronzeCresce ==
    ASSUME TypeOK, IdsEmOrdem, OrigemDaLinha, Abertura, MaxLimpezas = 0, OperadorEspera,
           [Next]_vars
    PROVE  bronze \subseteq bronze'
<1>1. CASE \E l \in Lotes : NovoLote(l)
  BY <1>1 DEF NovoLote
<1>2. CASE FinalizarLote \/ MarcarErro \/ (\E l \in Lotes : Reprocessar(l)) \/ bronze' = bronze
  BY <1>2 DEF FinalizarLote, MarcarErro, FechaLotes, Reprocessar, bronzeVars
<1>3. QED
  BY <1>1, <1>2, PassoDoStatus

LEMMA ItemVigente ==
    \A i : i \in ItensVigentes <=>
        \E v \in XmlVigente : \E n \in Itens[v.arq] : i = [lote |-> v.lote, arq |-> v.arq, n |-> n]
<1>1. ASSUME NEW i, NEW v \in XmlVigente, i \in [lote : {v.lote}, arq : {v.arq}, n : Itens[v.arq]]
      PROVE  i.n \in Itens[v.arq] /\ i = [lote |-> v.lote, arq |-> v.arq, n |-> i.n]
  BY <1>1
<1>2. ASSUME NEW i, NEW v \in XmlVigente, NEW n \in Itens[v.arq], i = [lote |-> v.lote, arq |-> v.arq, n |-> n]
      PROVE  i \in [lote : {v.lote}, arq : {v.arq}, n : Itens[v.arq]]
  BY <1>2
<1>3. QED
  BY <1>1, <1>2 DEF ItensVigentes

LEMMA VigenteDaBronze ==
    /\ XmlVigente \subseteq DoLote(bronze, Pendentes)
    /\ DoLote(bronze, Pendentes) = {b \in bronze : b.lote \in Pendentes}
    /\ \A v \in XmlVigente : v \in bronze /\ v.lote \in Pendentes
    /\ Pendentes \subseteq Lotes /\ \A l \in Pendentes : status[l] = "CARREGADO"
BY DEF XmlVigente, Distintas, DoLote, Pendentes

LEMMA ProvenienciaPasso ==
    ASSUME TypeOK, IdsEmOrdem, OrigemDaLinha, Abertura, Proveniencia, MaxLimpezas = 0, OperadorEspera,
           [Next]_vars
    PROVE  Proveniencia'
<1>1. bronze \subseteq bronze'
  BY BronzeCresce
<1>2. nota' \subseteq bronze
  <2>1. CASE RodarNota
    BY <2>1, VigenteDaBronze DEF RodarNota, MergePorChave, Proveniencia
  <2>2. QED
    BY <2>1, PassoDasTabelas DEF Proveniencia
<1>3. \A i \in item' : LinhaDe(i) \in bronze
  <2>1. CASE RodarItem
    <3>1. item' = MergePorItem(item, ItensVigentes)
      BY <2>1 DEF RodarItem, ItensVigentes
    <3>2. ASSUME NEW i \in ItensVigentes PROVE LinhaDe(i) \in bronze
      <4>1. PICK v \in XmlVigente : \E n \in Itens[v.arq] : i = [lote |-> v.lote, arq |-> v.arq, n |-> n]
        BY ItemVigente
      <4>2. v \in Linha /\ v \in bronze
        BY VigenteDaBronze DEF TypeOK, TipoTabelas
      <4>3. LinhaDe(i) = v
        BY <4>1, <4>2 DEF LinhaDe, Linha
      <4>4. QED
        BY <4>2, <4>3
    <3>3. QED
      BY <3>1, <3>2 DEF MergePorItem, Proveniencia
  <2>2. QED
    BY <2>1, PassoDasTabelas DEF Proveniencia
<1>4. \A f \in ft' : LinhaDe(f) \in bronze
  <2>1. CASE RodarFtItem
    <3>1. ft' = MergePorItem(ft, FatosVigentes)
      BY <2>1 DEF RodarFtItem, FatosVigentes
    <3>2. ASSUME NEW f \in FatosVigentes PROVE LinhaDe(f) \in bronze
      <4>1. ItemDe(f) \in item
        BY DEF FatosVigentes, DoLote, ItemDe
      <4>2. LinhaDe(ItemDe(f)) = LinhaDe(f)
        BY DEF LinhaDe, ItemDe
      <4>3. QED
        BY <4>1, <4>2 DEF Proveniencia
    <3>3. QED
      BY <3>1, <3>2 DEF MergePorItem, Proveniencia
  <2>2. QED
    BY <2>1, PassoDasTabelas DEF Proveniencia
<1>5. QED
  BY <1>1, <1>2, <1>3, <1>4 DEF Proveniencia

-----------------------------------------------------------------------------
(* The models a run has built *)

MesEmDia(m) == {f \in ag : MesDe(f) = m} = {f \in ft : MesDe(f) = m}

\* A model that has been built holds what the queue asks of it until the lots of
\* the queue close: the queue only empties, and nobody rebuilds what it reads.
Construido ==
    /\ Feita("nota") => XmlVigente \subseteq nota
    /\ Feita("item") => ItensVigentes \subseteq item
    /\ Feita("ft") => \A i \in DoLote(item, Pendentes) : \E f \in ft : ItemDe(f) = i
    /\ Feita("doc") => DoLote(nota, Pendentes) \subseteq doc
    /\ Feita("ag") => \A f \in DoLote(ft, Pendentes) : MesEmDia(MesDe(f))

\* What has been proved of every state.
Alicerce ==
    /\ TypeOK /\ IdsEmOrdem /\ Contas
    /\ UmLugarSo /\ OrigemDaLinha /\ ChavesUnicas
    /\ Abertura /\ Limitado /\ Proveniencia

LEMMA FechaEfeito ==
    ASSUME TypeOK, NEW s \in Status, s # "CARREGADO", FechaLotes(s)
    PROVE  /\ Pendentes' = {} /\ bronze' = bronze /\ UNCHANGED <<silverVars, goldVars, reprocessos>>
           /\ \A l \in Pendentes : status'[l] = s
           /\ \A l \in Lotes \ Pendentes : status'[l] = status[l]
<1>1. /\ bronze' = bronze /\ xcom' = xcom /\ run' = run /\ UNCHANGED <<silverVars, goldVars, reprocessos>>
  BY DEF FechaLotes, bronzeVars, operador
<1>2. /\ \A l \in Pendentes : status'[l] = s
      /\ \A l \in Lotes \ Pendentes : status'[l] = status[l]
  BY DEF FechaLotes, AFechar, Pendentes
<1>3. ASSUME NEW l \in Lotes, status'[l] = "CARREGADO", l <= xcom'[run'] PROVE FALSE
  <2>1. status[l] = "CARREGADO" /\ l <= xcom[run]
    BY <1>1, <1>2, <1>3
  <2>2. l \in Pendentes
    BY <2>1 DEF Pendentes
  <2>3. QED
    BY <1>2, <1>3, <2>2
<1>4. Pendentes' = {}
  BY <1>3 DEF Pendentes
<1>5. QED
  BY <1>1, <1>2, <1>4

\* The closing of a run comes after all its models.
LEMMA AntesDeFinalizar ==
    ASSUME TypeOK, OrdemRun, FinalizarLote
    PROVE  \A t \in Dbt : Feita(t)
<1>1. run \in Runs /\ run # 0 /\ ti[run]["doc"] = "success" /\ ti[run]["ag"] = "success"
  BY NomesDbt DEF FinalizarLote, Pronta, DepsOk, TypeOK, TipoAirflow
<1>2. {"nota", "item", "ft", "doc", "ag"} = Dbt
  BY DEF Dbt
<1>3. ti[run]["ft"] = "success"
  BY <1>1, <1>2, AcimaDeDbt
<1>4. ti[run]["nota"] = "success" /\ ti[run]["item"] = "success"
  BY <1>1, <1>2, <1>3, AcimaDeDbt
<1>5. QED
  BY <1>1, <1>2, <1>3, <1>4 DEF Feita

\* A model is not built twice in a run ...
LEMMA SoUmaVez ==
    ASSUME NEW t \in Dbt, Feita(t)
    PROVE  ~Roda(t)
BY DEF Feita, Roda, RodarNota, RodarItem, RodarFtItem, RodarFtDocumento, RodarAgregado, Pronta

\* ... and once it is built the queue is the one it saw, or empty.
LEMMA FilaDepois ==
    ASSUME TypeOK, OrdemRun, MaxLimpezas = 0, OperadorEspera, [Next]_vars,
           NEW t \in Dbt, Feita(t)'
    PROVE  Pendentes' = Pendentes \/ Pendentes' = {}
<1>1. run' = run /\ xcom' = xcom /\ (status' = status \/ FinalizarLote \/ MarcarErro)
  BY FeitaAntes
<1>2. CASE status' = status
  BY <1>1, <1>2 DEF Pendentes
<1>3. CASE FinalizarLote \/ MarcarErro
  <2>1. "PROCESSADO" \in Status /\ "ERRO" \in Status
    BY DEF Status
  <2>2. QED
    BY <1>3, <2>1, FechaEfeito DEF FinalizarLote, MarcarErro
<1>4. QED
  BY <1>1, <1>2, <1>3

LEMMA RodaFila ==
    ASSUME NEW t \in Dbt, Roda(t)
    PROVE  /\ Pendentes' = Pendentes /\ bronze' = bronze /\ status' = status
           /\ XmlVigente' = XmlVigente /\ ItensVigentes' = ItensVigentes
           /\ t \notin {"nota", "item"} => UNCHANGED <<nota, item>>
           /\ t # "nota" => UNCHANGED nota
           /\ t # "item" => UNCHANGED item
           /\ t # "ft" => UNCHANGED ft
           /\ t # "doc" => UNCHANGED doc
           /\ t # "ag" => UNCHANGED ag
           /\ \A u \in Acima[t] : run # 0 /\ ti[run][u] = "success"
<1>0. UNCHANGED <<lote, status, bronze, run, xcom>>
  BY DEF Roda, RodarNota, RodarItem, RodarFtItem, RodarFtDocumento, RodarAgregado, DbtUnchanged, loteVars, bronzeVars
<1>1. Pendentes' = Pendentes
  BY <1>0 DEF Pendentes
<1>2. XmlVigente' = XmlVigente
  BY <1>0, <1>1 DEF XmlVigente, Distintas, DoLote
<1>3. ItensVigentes' = ItensVigentes
  BY <1>2 DEF ItensVigentes
<1>4. /\ t # "nota" => UNCHANGED nota
      /\ t # "item" => UNCHANGED item
      /\ t # "ft" => UNCHANGED ft
      /\ t # "doc" => UNCHANGED doc
      /\ t # "ag" => UNCHANGED ag
  BY DEF Roda, RodarNota, RodarItem, RodarFtItem, RodarFtDocumento, RodarAgregado, silverVars, goldVars
<1>5. Pronta(t) /\ t # "marcar_erro"
  BY NomesDbt DEF Roda, RodarNota, RodarItem, RodarFtItem, RodarFtDocumento, RodarAgregado
<1>6. \A u \in Acima[t] : run # 0 /\ ti[run][u] = "success"
  BY <1>5 DEF Pronta, DepsOk
<1>7. QED
  BY <1>0, <1>1, <1>2, <1>3, <1>4, <1>6

\* With an empty queue there is nothing to hold.
LEMMA FilaVazia ==
    ASSUME Pendentes' = {}
    PROVE  XmlVigente' = {} /\ ItensVigentes' = {} /\ \A tab : \A x \in tab : x.lote \notin Pendentes'
BY DEF XmlVigente, ItensVigentes, Distintas, DoLote

LEMMA ConstruidoPasso ==
    ASSUME Alicerce, Construido, MaxLimpezas = 0, OperadorEspera, [Next]_vars
    PROVE  Construido'
<1> USE DEF Alicerce
<1>0. OrdemRun
  BY DEF Contas
<1>a. {"nota", "item", "ft", "doc", "ag"} = Dbt
  BY DEF Dbt
<1>b. ASSUME NEW t \in Dbt, Feita(t)'
      PROVE  /\ Feita(t) \/ Roda(t)
             /\ run \in Runs /\ run # 0 /\ bronze' = bronze
             /\ Pendentes' = Pendentes \/ Pendentes' = {}
  BY <1>0, <1>b, FeitaAntes, FilaDepois DEF Feita
<1>c. ASSUME NEW t \in Dbt, Feita(t)
      PROVE  /\ t = "ft" => Feita("nota") /\ Feita("item")
             /\ t = "doc" => Feita("nota")
             /\ t = "ag" => Feita("ft")
  BY <1>0, <1>c, AcimaDeDbt DEF Feita, TypeOK, TipoAirflow
<1>d. /\ ~RodarNota => nota' = nota
      /\ ~RodarItem => item' = item
      /\ ~RodarFtItem => ft' = ft
      /\ ~RodarFtDocumento => doc' = doc
      /\ ~RodarAgregado => ag' = ag
  BY PassoDasTabelas
<1>e. /\ Roda("nota") <=> RodarNota
      /\ Roda("item") <=> RodarItem
      /\ Roda("ft") <=> RodarFtItem
      /\ Roda("doc") <=> RodarFtDocumento
      /\ Roda("ag") <=> RodarAgregado
  BY DEF Roda
<1>f. ASSUME Pendentes' = Pendentes, bronze' = bronze PROVE XmlVigente' = XmlVigente /\ ItensVigentes' = ItensVigentes
  <2>1. XmlVigente' = XmlVigente
    BY <1>f DEF XmlVigente, Distintas, DoLote
  <2>2. QED
    BY <2>1 DEF ItensVigentes
<1>1. ASSUME Feita("nota")' PROVE XmlVigente' \subseteq nota'
  <2>1. CASE Pendentes' = {}
    BY <2>1, FilaVazia
  <2>2. CASE RodarNota
    <3>1. XmlVigente' = XmlVigente
      BY <1>a, <1>e, <2>2, RodaFila
    <3>2. nota' = MergePorChave(nota, XmlVigente)
      BY <2>2 DEF RodarNota
    <3>3. QED
      BY <3>1, <3>2 DEF MergePorChave
  <2>3. CASE ~RodarNota /\ Pendentes' = Pendentes
    <3>1. Feita("nota") /\ bronze' = bronze
      BY <1>1, <1>a, <1>b, <1>e, <2>3
    <3>2. QED
      BY <1>d, <1>f, <2>3, <3>1 DEF Construido
  <2>4. QED
    BY <1>1, <1>a, <1>b, <2>1, <2>2, <2>3
<1>2. ASSUME Feita("item")' PROVE ItensVigentes' \subseteq item'
  <2>1. CASE Pendentes' = {}
    BY <2>1, FilaVazia
  <2>2. CASE RodarItem
    <3>1. ItensVigentes' = ItensVigentes
      BY <1>a, <1>e, <2>2, RodaFila
    <3>2. item' = MergePorItem(item, ItensVigentes)
      BY <2>2 DEF RodarItem, ItensVigentes
    <3>3. QED
      BY <3>1, <3>2 DEF MergePorItem
  <2>3. CASE ~RodarItem /\ Pendentes' = Pendentes
    <3>1. Feita("item") /\ bronze' = bronze
      BY <1>2, <1>a, <1>b, <1>e, <2>3
    <3>2. QED
      BY <1>d, <1>f, <2>3, <3>1 DEF Construido
  <2>4. QED
    BY <1>2, <1>a, <1>b, <2>1, <2>2, <2>3
<1>3. ASSUME Feita("ft")', NEW i \in item', i.lote \in Pendentes' PROVE \E f \in ft' : ItemDe(f) = i
  <2>0. Pendentes' = Pendentes
    BY <1>3, <1>a, <1>b
  <2>1. CASE RodarFtItem
    <3>1. item' = item /\ Feita("nota")
      BY <1>a, <1>e, <2>1, RodaFila, NomesDbt DEF Feita
    <3>2. i \in item /\ i \in LinhaItem /\ i.lote \in Pendentes
      BY <1>3, <2>0, <3>1 DEF TypeOK, TipoTabelas
    <3>3. LinhaDe(i) \in DoLote(bronze, Pendentes)
      BY <3>2 DEF Proveniencia, LinhaDe, DoLote
    <3>4. PICK v \in XmlVigente : MesmaChave(v, LinhaDe(i))
      BY <3>3, VigenteExiste
    <3>5. v \in DoLote(nota, Pendentes) /\ Chave[v.arq] = Chave[i.arq] /\ v.arq \in Arquivos
      BY <3>1, <3>4, VigenteDaBronze DEF Construido, DoLote, MesmaChave, LinhaDe, TypeOK, TipoTabelas, Linha
    <3> DEFINE g == [lote |-> i.lote, arq |-> i.arq, n |-> i.n, cab |-> v.arq]
    <3>6. g \in LinhaFato /\ ItemDe(g) = i
      <4>1. i.lote \in Lotes /\ i.arq \in Arquivos /\ i.n \in UNION {Itens[a] : a \in Arquivos}
            /\ i = [lote |-> i.lote, arq |-> i.arq, n |-> i.n]
        BY <3>2 DEF LinhaItem
      <4>2. QED
        BY <3>5, <4>1 DEF LinhaFato, ItemDe
    <3>7. g \in FatosVigentes
      <4>1. [lote |-> g.lote, arq |-> g.arq, n |-> g.n] \in DoLote(item, Pendentes)
        BY <3>2, <3>6 DEF ItemDe, DoLote
      <4>2. MesmaChave(v, g) /\ v.arq = g.cab
        BY <3>5 DEF MesmaChave
      <4> HIDE DEF g
      <4>3. QED
        BY <3>5, <3>6, <4>1, <4>2 DEF FatosVigentes
    <3>8. ft' = MergePorItem(ft, FatosVigentes)
      BY <2>1 DEF RodarFtItem, FatosVigentes
    <3> HIDE DEF g
    <3>9. QED
      BY <3>6, <3>7, <3>8 DEF MergePorItem
  <2>2. CASE ~RodarFtItem
    <3>1. Feita("ft")
      BY <1>3, <1>a, <1>b, <1>e, <2>2
    <3>2. item' = item
      BY <1>a, <1>c, <1>d, <1>e, <3>1, SoUmaVez
    <3>3. QED
      BY <1>3, <1>d, <2>0, <2>2, <3>1, <3>2 DEF Construido, DoLote
  <2>3. QED
    BY <2>1, <2>2
<1>4. ASSUME Feita("doc")', NEW x \in nota', x.lote \in Pendentes' PROVE x \in doc'
  <2>0. Pendentes' = Pendentes
    BY <1>4, <1>a, <1>b
  <2>1. CASE RodarFtDocumento
    <3>1. nota' = nota /\ doc' = MergePorChave(doc, DoLote(nota, Pendentes))
      BY <1>a, <1>e, <2>1, RodaFila DEF RodarFtDocumento
    <3>2. QED
      BY <1>4, <2>0, <3>1 DEF MergePorChave, DoLote
  <2>2. CASE ~RodarFtDocumento
    <3>1. Feita("doc")
      BY <1>4, <1>a, <1>b, <1>e, <2>2
    <3>2. nota' = nota
      BY <1>a, <1>c, <1>d, <1>e, <3>1, SoUmaVez
    <3>3. QED
      BY <1>4, <1>d, <2>0, <2>2, <3>1, <3>2 DEF Construido, DoLote
  <2>3. QED
    BY <2>1, <2>2
<1>5. ASSUME Feita("ag")', NEW f \in ft', f.lote \in Pendentes' PROVE MesEmDia(MesDe(f))'
  <2>0. Pendentes' = Pendentes
    BY <1>5, <1>a, <1>b
  <2>1. CASE RodarAgregado
    <3>1. ft' = ft
      BY <1>a, <1>e, <2>1, RodaFila
    <3>2. MesDe(f) \in MesesAfetados
      BY <1>5, <2>0, <3>1 DEF MesesAfetados, DoLote
    <3>3. ag' = {g \in ag : MesDe(g) \notin MesesAfetados} \cup LinhasDosMeses
      BY <2>1 DEF RodarAgregado
    <3>4. \A g : g \in ag' /\ MesDe(g) = MesDe(f) <=> g \in ft /\ MesDe(g) = MesDe(f)
      BY <3>2, <3>3 DEF LinhasDosMeses
    <3>5. QED
      BY <3>1, <3>4 DEF MesEmDia, MesDe
  <2>2. CASE ~RodarAgregado
    <3>1. Feita("ag")
      BY <1>5, <1>a, <1>b, <1>e, <2>2
    <3>2. ft' = ft /\ ag' = ag
      BY <1>a, <1>c, <1>d, <1>e, <2>2, <3>1, SoUmaVez
    <3>3. MesEmDia(MesDe(f))
      BY <1>5, <2>0, <3>1, <3>2 DEF Construido, DoLote
    <3>4. QED
      BY <3>2, <3>3 DEF MesEmDia, MesDe
  <2>3. QED
    BY <2>1, <2>2
<1>6. QED
  BY <1>1, <1>2, <1>3, <1>4, <1>5 DEF Construido, DoLote

-----------------------------------------------------------------------------
(* What a closed lot promises *)

\* A row is of a closed lot only if it was before, or its lot closes with the run.
LEMMA ProcessadoAntes ==
    ASSUME Alicerce, MaxLimpezas = 0, OperadorEspera, [Next]_vars,
           NEW b \in bronze', status'[b.lote] = "PROCESSADO"
    PROVE  /\ b \in bronze
           /\ status[b.lote] = "PROCESSADO" \/ (FinalizarLote /\ b.lote \in Pendentes)
<1> USE DEF Alicerce
<1>1. ASSUME NEW l \in Lotes, NovoLote(l)
      PROVE  b \in bronze /\ status[b.lote] = "PROCESSADO"
  <2>1. PICK S : /\ bronze' = bronze \cup [lote : {l}, arq : S]
                 /\ status' = [status EXCEPT ![l] = StatusDaCarga(S)]
    BY <1>1 DEF NovoLote
  <2>2. CASE b \in bronze
    <3>1. b.lote # l
      BY <1>1, <2>2 DEF NovoLote
    <3>2. b.lote \in Lotes
      BY <2>2, LotesDaBronze
    <3>3. QED
      BY <2>1, <2>2, <3>1, <3>2 DEF TypeOK, TipoLotes
  <2>3. CASE b \in [lote : {l}, arq : S]
    <3>1. b.lote = l /\ b.arq \in S
      BY <2>3
    <3>2. status'[l] = "CARREGADO"
      BY <2>1, <3>1 DEF StatusDaCarga, TypeOK, TipoLotes
    <3>3. QED
      BY <3>1, <3>2
  <2>4. QED
    BY <2>1, <2>2, <2>3
<1>2. CASE FinalizarLote \/ MarcarErro
  <2>1. PICK s \in {"PROCESSADO", "ERRO"} : FechaLotes(s) /\ (s = "PROCESSADO" => FinalizarLote)
    BY <1>2 DEF FinalizarLote, MarcarErro
  <2>2. s \in Status /\ s # "CARREGADO"
    BY <2>1 DEF Status
  <2>3. b \in bronze
    BY <2>1, <2>2, FechaEfeito
  <2>4. b.lote \in Lotes
    BY <2>3, LotesDaBronze
  <2>5. QED
    BY <2>1, <2>2, <2>3, <2>4, FechaEfeito
<1>3. ASSUME NEW l \in Lotes, Reprocessar(l) PROVE b \in bronze /\ status[b.lote] = "PROCESSADO"
  <2>1. bronze' = bronze /\ status' = [status EXCEPT ![l] = "CARREGADO"]
    BY <1>3 DEF Reprocessar, bronzeVars
  <2>2. b.lote \in Lotes
    BY <2>1, LotesDaBronze
  <2>3. QED
    BY <2>1, <2>2 DEF TypeOK, TipoLotes
<1>4. QED
  BY <1>1, <1>2, <1>3, PassoDoStatus

\* A key is only at rest if it was, or one of its lots closes with the run.
LEMMA QuietaAntes ==
    ASSUME Alicerce, MaxLimpezas = 0, OperadorEspera, [Next]_vars,
           NEW c, ChaveQuieta(c)'
    PROVE  \/ ChaveQuieta(c)
           \/ FinalizarLote /\ \E b \in DoLote(bronze, Pendentes) : Chave[b.arq] = c
<1>1. \A b \in bronze : Chave[b.arq] = c => status'[b.lote] = "PROCESSADO" /\ b \in bronze'
  BY BronzeCresce DEF ChaveQuieta, Alicerce
<1>2. \A b \in bronze : Chave[b.arq] = c =>
        status[b.lote] = "PROCESSADO" \/ (FinalizarLote /\ b.lote \in Pendentes)
  BY <1>1, ProcessadoAntes
<1>3. QED
  BY <1>2 DEF ChaveQuieta, DoLote

\* When a run closes, the row of each key of its queue is the one in nfe_nota,
\* and its items are in nfe_item.
LEMMA VigenteNaNota ==
    ASSUME Alicerce, Construido, FinalizarLote, NEW b \in DoLote(bronze, Pendentes)
    PROVE  /\ \E v \in nota : MesmaChave(v, b)
           /\ \A x \in nota : MesmaChave(x, b) =>
                x \in XmlVigente /\ \A n \in Itens[x.arq] : [lote |-> x.lote, arq |-> x.arq, n |-> n] \in item
<1> USE DEF Alicerce
<1>1. Feita("nota") /\ Feita("item")
  BY AntesDeFinalizar DEF Dbt, Contas
<1>2. PICK v \in XmlVigente : MesmaChave(v, b)
  BY VigenteExiste
<1>3. v \in nota
  BY <1>1, <1>2 DEF Construido
<1>4. ASSUME NEW x \in nota, MesmaChave(x, b) PROVE x = v
  <2>1. MesmaChave(x, v)
    BY <1>2, <1>4 DEF MesmaChave
  <2>2. QED
    BY <1>3, <2>1 DEF ChavesUnicas
<1>5. \A n \in Itens[v.arq] : [lote |-> v.lote, arq |-> v.arq, n |-> n] \in item
  BY <1>1, <1>2, ItemVigente DEF Construido
<1>6. QED
  BY <1>2, <1>3, <1>4, <1>5

\* A run that is building does not touch the keys at rest.
LEMMA QuietaForaDaFila ==
    ASSUME Alicerce, NEW v \in XmlVigente
    PROVE  ~ChaveQuieta(Chave[v.arq])
BY VigenteDaBronze DEF ChaveQuieta

\* nfe_nota never loses a key.
LEMMA ChaveDaNotaFica ==
    ASSUME [Next]_vars, NEW x \in nota
    PROVE  \E y \in nota' : MesmaChave(y, x)
<1>1. MesmaChave(x, x)
  BY DEF MesmaChave
<1>2. CASE RodarNota
  <2>1. nota' = MergePorChave(nota, XmlVigente)
    BY <1>2 DEF RodarNota
  <2>2. CASE \E y \in XmlVigente : MesmaChave(x, y)
    BY <2>1, <2>2 DEF MergePorChave, MesmaChave
  <2>3. CASE \A y \in XmlVigente : ~MesmaChave(x, y)
    BY <1>1, <2>1, <2>3 DEF MergePorChave
  <2>4. QED
    BY <2>2, <2>3
<1>3. QED
  BY <1>1, <1>2, PassoDasTabelas

LEMMA InteiraPasso ==
    ASSUME Alicerce, Construido, SilverInteira, MaxLimpezas = 0, OperadorEspera, [Next]_vars
    PROVE  SilverInteira'
<1> SUFFICES ASSUME NEW b \in bronze', status'[b.lote] = "PROCESSADO"
             PROVE  \E x \in nota' : MesmaChave(x, b)
  BY DEF SilverInteira, MesmaChave
<1>1. b \in bronze
  BY ProcessadoAntes
<1>2. PICK x \in nota : MesmaChave(x, b)
  <2>1. CASE status[b.lote] = "PROCESSADO"
    BY <1>1, <2>1 DEF SilverInteira
  <2>2. CASE FinalizarLote /\ b.lote \in Pendentes
    BY <1>1, <2>2, VigenteNaNota DEF DoLote
  <2>3. QED
    BY <2>1, <2>2, ProcessadoAntes
<1>3. QED
  BY <1>2, ChaveDaNotaFica DEF MesmaChave

LEMMA FinalizarTabelas ==
    ASSUME TypeOK, FinalizarLote
    PROVE  UNCHANGED <<nota, item, ft, doc, ag, bronze, reprocessos>>
<1>1. "PROCESSADO" \in Status
  BY DEF Status
<1>2. QED
  BY <1>1, FechaEfeito DEF FinalizarLote, silverVars, goldVars

LEMMA NotaComItensPasso ==
    ASSUME Alicerce, Construido, NotaComItens, MaxLimpezas = 0, OperadorEspera, [Next]_vars
    PROVE  NotaComItens'
<1> SUFFICES ASSUME NEW x \in nota', ChaveQuieta(Chave[x.arq])', NEW n \in Itens[x.arq]
             PROVE  [lote |-> x.lote, arq |-> x.arq, n |-> n] \in item'
  BY DEF NotaComItens
<1> DEFINE c == Chave[x.arq]
           i == [lote |-> x.lote, arq |-> x.arq, n |-> n]
<1>0. \/ ChaveQuieta(c)
      \/ FinalizarLote /\ \E b \in DoLote(bronze, Pendentes) : Chave[b.arq] = c
  BY QuietaAntes
<1>1. CASE FinalizarLote /\ \E b \in DoLote(bronze, Pendentes) : Chave[b.arq] = c
  <2>1. nota' = nota /\ item' = item
    BY <1>1, FinalizarTabelas DEF Alicerce
  <2>2. PICK b \in DoLote(bronze, Pendentes) : Chave[b.arq] = c
    BY <1>1
  <2>3. MesmaChave(x, b)
    BY <2>2 DEF MesmaChave
  <2>4. i \in item
    BY <1>1, <2>1, <2>2, <2>3, VigenteNaNota
  <2>5. QED
    BY <2>1, <2>4
<1>2. CASE ChaveQuieta(c)
  <2>1. x \in nota
    <3>1. CASE RodarNota
      <4>1. nota' = MergePorChave(nota, XmlVigente)
        BY <3>1 DEF RodarNota
      <4>2. x \notin XmlVigente
        BY <1>2, QuietaForaDaFila
      <4>3. QED
        BY <4>1, <4>2 DEF MergePorChave
    <3>2. QED
      BY <3>1, PassoDasTabelas
  <2>2. i \in item
    BY <1>2, <2>1 DEF NotaComItens
  <2>3. CASE RodarItem
    <3>1. item' = MergePorItem(item, ItensVigentes)
      BY <2>3 DEF RodarItem, ItensVigentes
    <3>2. ASSUME NEW y \in ItensVigentes, MesmoItem(i, y) PROVE FALSE
      <4>1. PICK v \in XmlVigente : \E k \in Itens[v.arq] : y = [lote |-> v.lote, arq |-> v.arq, n |-> k]
        BY ItemVigente
      <4>2. Chave[v.arq] = c
        BY <3>2, <4>1 DEF MesmoItem, MesmaChave
      <4>3. QED
        BY <1>2, <4>2, QuietaForaDaFila
    <3> HIDE DEF i
    <3>3. i \in item'
      BY <2>2, <3>1, <3>2 DEF MergePorItem
    <3>4. QED
      BY <3>3 DEF i
  <2>4. CASE ~RodarItem
    <3>1. item' = item
      BY <2>4, PassoDasTabelas
    <3>2. QED
      BY <2>2, <3>1
  <2>5. QED
    BY <2>3, <2>4
<1>3. QED
  BY <1>0, <1>1, <1>2

-----------------------------------------------------------------------------
(* The latest file of a key, as long as no lot is put back *)

\* Lots with rows are closed in the order of their numbers.
FechadosEmOrdem ==
    reprocessos = 0 =>
        \A b \in bronze : status[b.lote] = "PROCESSADO" =>
            \A l \in Lotes : l < b.lote => status[l] # "CARREGADO"

LEMMA SemReprocessoAntes ==
    ASSUME Alicerce, MaxLimpezas = 0, OperadorEspera, [Next]_vars, reprocessos' = 0
    PROVE  /\ reprocessos = 0
           /\ \A l \in Lotes : ~Reprocessar(l)
<1> USE DEF Alicerce
<1>1. ASSUME NEW l \in Lotes PROVE ~Reprocessar(l)
  <2>1. reprocessos \in 0..MaxReprocessos /\ MaxReprocessos \in Nat
    BY NfeAssumption DEF TypeOK, TipoLimites
  <2>2. reprocessos + 1 # 0
    BY <2>1
  <2>3. QED
    BY <2>2 DEF Reprocessar
<1>2. FinalizarLote \/ MarcarErro => reprocessos' = reprocessos
  BY DEF FinalizarLote, MarcarErro, FechaLotes, operador
<1>3. QED
  BY <1>1, <1>2, PassoDoStatus

LEMMA FechadosPasso ==
    ASSUME Alicerce, FechadosEmOrdem, MaxLimpezas = 0, OperadorEspera, [Next]_vars
    PROVE  FechadosEmOrdem'
<1> USE DEF Alicerce
<1> SUFFICES ASSUME reprocessos' = 0, NEW b \in bronze', status'[b.lote] = "PROCESSADO",
                    NEW l \in Lotes, l < b.lote, status'[l] = "CARREGADO"
             PROVE  FALSE
  BY DEF FechadosEmOrdem
<1>1. reprocessos = 0 /\ \A k \in Lotes : ~Reprocessar(k)
  BY SemReprocessoAntes
<1>2. b \in bronze /\ (status[b.lote] = "PROCESSADO" \/ (FinalizarLote /\ b.lote \in Pendentes))
  BY ProcessadoAntes
<1>3. b.lote \in Lotes /\ b.lote \in Int /\ l \in Int /\ status[b.lote] # "ausente"
  BY <1>2, LotesDaBronze, Numeros
<1>4. ASSUME NEW k \in Lotes, NovoLote(k) PROVE FALSE
  <2>1. k \in Int /\ k # b.lote
    BY <1>2, <1>4, Numeros DEF NovoLote
  <2>2. ~(b.lote > k)
    BY <1>3, <1>4 DEF NovoLote
  <2>3. l # k
    BY <1>3, <2>1, <2>2
  <2>4. status'[l] = status[l] /\ status'[b.lote] = status[b.lote]
    BY <1>3, <1>4, <2>1, <2>3 DEF NovoLote, TypeOK, TipoLotes
  <2>5. QED
    BY <1>1, <1>2, <2>4 DEF FechadosEmOrdem
<1>5. CASE FinalizarLote \/ MarcarErro
  <2>1. PICK s \in {"PROCESSADO", "ERRO"} : FechaLotes(s)
    BY <1>5 DEF FinalizarLote, MarcarErro
  <2>2. s \in Status /\ s # "CARREGADO"
    BY <2>1 DEF Status
  <2>3. l \notin Pendentes /\ status[l] = "CARREGADO"
    BY <2>1, <2>2, FechaEfeito
  <2>4. CASE status[b.lote] = "PROCESSADO"
    BY <1>1, <1>2, <2>3, <2>4 DEF FechadosEmOrdem
  <2>5. CASE b.lote \in Pendentes
    <3>1. b.lote <= xcom[run] /\ xcom[run] \in Int
      <4>1. run \in Runs
        BY <1>5 DEF FinalizarLote, MarcarErro, Pronta, TypeOK, TipoAirflow
      <4>2. xcom[run] \in Int
        <5>1. xcom[run] \in Lotes \cup {0}
          BY <4>1 DEF TypeOK, TipoAirflow
        <5>2. 0 \in Int /\ \A k \in Lotes : k \in Int
          BY Numeros
        <5>3. QED
          BY <5>1, <5>2
      <4>3. QED
        BY <2>5, <4>2 DEF Pendentes
    <3>2. l <= xcom[run]
      BY <1>3, <3>1
    <3>3. QED
      BY <2>3, <3>2 DEF Pendentes
  <2>6. QED
    BY <1>2, <2>4, <2>5
<1>6. CASE status' = status
  BY <1>1, <1>2, <1>6, ProcessadoAntes, FinalizarTabelas DEF FechadosEmOrdem
<1>7. QED
  BY <1>1, <1>4, <1>5, <1>6, PassoDoStatus

LEMMA MaisRecentePasso ==
    ASSUME Alicerce, Construido, FechadosEmOrdem, MaisRecenteSemReprocesso,
           MaxLimpezas = 0, OperadorEspera, [Next]_vars
    PROVE  MaisRecenteSemReprocesso'
<1> USE DEF Alicerce
<1> SUFFICES ASSUME reprocessos' = 0, NEW x \in nota', ChaveQuieta(Chave[x.arq])',
                    NEW b \in bronze', MesmaChave(b, x)
             PROVE  b = x \/ MaisRecente(x, b)
  BY DEF MaisRecenteSemReprocesso, SilverMaisRecente, MesmaChave, MaisRecente
<1> DEFINE c == Chave[x.arq]
<1>1. reprocessos = 0
  BY SemReprocessoAntes
<1>2. b \in bronze /\ Chave[b.arq] = c
      /\ (status[b.lote] = "PROCESSADO" \/ (FinalizarLote /\ b.lote \in Pendentes))
  BY ProcessadoAntes DEF ChaveQuieta, MesmaChave
<1>3. CASE FinalizarLote /\ \E d \in DoLote(bronze, Pendentes) : Chave[d.arq] = c
  <2>1. x \in nota
    BY <1>3, FinalizarTabelas
  <2>2. PICK d \in DoLote(bronze, Pendentes) : Chave[d.arq] = c
    BY <1>3
  <2>3. x \in XmlVigente
    BY <1>3, <2>1, <2>2, VigenteNaNota DEF MesmaChave
  <2>4. x \in bronze /\ x.lote \in Lotes /\ x.lote \in Int /\ status[x.lote] = "CARREGADO"
    BY <2>3, VigenteDaBronze, LotesDaBronze, Numeros
  <2>5. CASE b.lote \in Pendentes
    <3>1. b \in DoLote(bronze, Pendentes) /\ MesmaChave(x, b)
      BY <1>2, <2>5 DEF DoLote, MesmaChave
    <3>2. QED
      BY <2>3, <3>1 DEF XmlVigente, Distintas
  <2>6. CASE status[b.lote] = "PROCESSADO"
    <3>1. b.lote \in Lotes /\ b.lote \in Int
      BY <1>2, LotesDaBronze, Numeros
    <3>2. ~(x.lote < b.lote)
      BY <1>1, <1>2, <2>4, <2>6 DEF FechadosEmOrdem
    <3>3. x.lote # b.lote
      BY <2>4, <2>6
    <3>4. QED
      BY <2>4, <3>1, <3>2, <3>3 DEF MaisRecente
  <2>7. QED
    BY <1>2, <2>5, <2>6
<1>4. CASE ChaveQuieta(c)
  <2>1. x \in nota
    <3>1. CASE RodarNota
      <4>1. nota' = MergePorChave(nota, XmlVigente)
        BY <3>1 DEF RodarNota
      <4>2. x \notin XmlVigente
        BY <1>4, QuietaForaDaFila
      <4>3. QED
        BY <4>1, <4>2 DEF MergePorChave
    <3>2. QED
      BY <3>1, PassoDasTabelas
  <2>2. QED
    BY <1>1, <1>2, <1>4, <2>1 DEF MaisRecenteSemReprocesso, SilverMaisRecente, MesmaChave
<1>5. QED
  BY <1>3, <1>4, QuietaAntes

-----------------------------------------------------------------------------
(* Gold *)

\* The document fact has the header of every key at rest.
DocEmDia == \A x \in nota : ChaveQuieta(Chave[x.arq]) => x \in doc

\* The item fact has the items of the closed lots, and no item silver lacks.
FatosEmDia ==
    /\ \A i \in item : status[i.lote] = "PROCESSADO" => \E f \in ft : ItemDe(f) = i
    /\ \A f \in ft : \E i \in item : MesmoItem(i, f)

\* A month the aggregate has wrong still has a fact of a lot that is not closed.
MesesPorFazer ==
    \A m \in {Mes[c] : c \in DOMAIN Mes} :
        ~MesEmDia(m) => \E f \in ft : MesDe(f) = m /\ status[f.lote] # "PROCESSADO"

LEMMA DocPasso ==
    ASSUME Alicerce, Construido, DocEmDia, MaxLimpezas = 0, OperadorEspera, [Next]_vars
    PROVE  DocEmDia'
<1> USE DEF Alicerce
<1> SUFFICES ASSUME NEW x \in nota', ChaveQuieta(Chave[x.arq])' PROVE x \in doc'
  BY DEF DocEmDia
<1> DEFINE c == Chave[x.arq]
<1>1. CASE FinalizarLote /\ \E b \in DoLote(bronze, Pendentes) : Chave[b.arq] = c
  <2>1. x \in nota /\ doc' = doc
    BY <1>1, FinalizarTabelas
  <2>2. PICK b \in DoLote(bronze, Pendentes) : Chave[b.arq] = c
    BY <1>1
  <2>3. x \in XmlVigente
    BY <1>1, <2>1, <2>2, VigenteNaNota DEF MesmaChave
  <2>4. x \in DoLote(nota, Pendentes)
    BY <2>1, <2>3, VigenteDaBronze DEF DoLote
  <2>5. Feita("doc")
    BY <1>1, AntesDeFinalizar DEF Dbt, Contas
  <2>6. QED
    BY <2>1, <2>4, <2>5 DEF Construido
<1>2. CASE ChaveQuieta(c)
  <2>1. x \in nota
    <3>1. CASE RodarNota
      <4>1. nota' = MergePorChave(nota, XmlVigente)
        BY <3>1 DEF RodarNota
      <4>2. x \notin XmlVigente
        BY <1>2, QuietaForaDaFila
      <4>3. QED
        BY <4>1, <4>2 DEF MergePorChave
    <3>2. QED
      BY <3>1, PassoDasTabelas
  <2>2. x \in doc
    BY <1>2, <2>1 DEF DocEmDia
  <2>3. CASE RodarFtDocumento
    <3>1. doc' = MergePorChave(doc, DoLote(nota, Pendentes))
      BY <2>3 DEF RodarFtDocumento
    <3>2. ASSUME NEW y \in DoLote(nota, Pendentes), MesmaChave(x, y) PROVE FALSE
      <4>1. y \in nota /\ y.lote \in Pendentes
        BY DEF DoLote
      <4>2. x = y
        BY <2>1, <3>2, <4>1 DEF ChavesUnicas
      <4>3. x \in bronze /\ status[x.lote] = "CARREGADO"
        BY <4>1, <4>2, VigenteDaBronze DEF Proveniencia
      <4>4. QED
        BY <1>2, <4>3 DEF ChaveQuieta
    <3>3. QED
      BY <2>2, <3>1, <3>2 DEF MergePorChave
  <2>4. QED
    BY <2>2, <2>3, PassoDasTabelas
<1>3. QED
  BY <1>1, <1>2, QuietaAntes

LEMMA DaFila ==
    ASSUME Alicerce
    PROVE  \A f \in FatosVigentes :
              /\ ItemDe(f) \in item /\ f.lote \in Pendentes /\ status[f.lote] = "CARREGADO"
              /\ MesmoItem(ItemDe(f), f)
<1> SUFFICES ASSUME NEW f \in FatosVigentes
             PROVE  /\ ItemDe(f) \in item /\ f.lote \in Pendentes /\ status[f.lote] = "CARREGADO"
                    /\ MesmoItem(ItemDe(f), f)
  OBVIOUS
<1>1. ItemDe(f) \in DoLote(item, Pendentes)
  BY DEF FatosVigentes, ItemDe
<1>2. ItemDe(f).lote = f.lote /\ ItemDe(f).arq = f.arq /\ ItemDe(f).n = f.n
  BY DEF ItemDe
<1>3. ItemDe(f) \in item /\ f.lote \in Pendentes
  BY <1>1, <1>2 DEF DoLote
<1>4. QED
  BY <1>2, <1>3, VigenteDaBronze DEF MesmoItem, MesmaChave

\* An item, or a fact, is only of a closed lot if it was, or its lot closes.
LEMMA ItemProcessadoAntes ==
    ASSUME Alicerce, Proveniencia', MaxLimpezas = 0, OperadorEspera, [Next]_vars,
           NEW x \in item' \cup ft', status'[x.lote] = "PROCESSADO"
    PROVE  status[x.lote] = "PROCESSADO" \/ (FinalizarLote /\ x.lote \in Pendentes)
<1>1. LinhaDe(x) \in bronze' /\ LinhaDe(x).lote = x.lote
  BY DEF Proveniencia, LinhaDe
<1>2. QED
  BY <1>1, ProcessadoAntes

LEMMA FatosPasso ==
    ASSUME Alicerce, Proveniencia', Construido, FatosEmDia, MaxLimpezas = 0, OperadorEspera, [Next]_vars
    PROVE  FatosEmDia'
<1> USE DEF Alicerce
<1>a. RodarItem => item' = MergePorItem(item, ItensVigentes) /\ ft' = ft
  BY DEF RodarItem, ItensVigentes, goldVars
<1>b. RodarFtItem => ft' = MergePorItem(ft, FatosVigentes) /\ item' = item
  BY DEF RodarFtItem, FatosVigentes, silverVars
<1>1. ASSUME NEW i \in item', status'[i.lote] = "PROCESSADO" PROVE \E f \in ft' : ItemDe(f) = i
  <2>1. CASE FinalizarLote /\ i.lote \in Pendentes
    <3>1. ft' = ft /\ item' = item
      BY <2>1, FinalizarTabelas
    <3>2. Feita("ft")
      BY <2>1, AntesDeFinalizar DEF Dbt, Contas
    <3>3. QED
      BY <2>1, <3>1, <3>2 DEF Construido, DoLote
  <2>2. CASE status[i.lote] = "PROCESSADO"
    <3>1. i \in item
      <4>1. CASE RodarItem
        <5>1. ASSUME i \in ItensVigentes PROVE FALSE
          <6>1. PICK v \in XmlVigente : \E n \in Itens[v.arq] : i = [lote |-> v.lote, arq |-> v.arq, n |-> n]
            BY <5>1, ItemVigente
          <6>2. i.lote = v.lote
            BY <6>1
          <6>3. QED
            BY <2>2, <6>2, VigenteDaBronze
        <5>2. QED
          BY <1>a, <4>1, <5>1 DEF MergePorItem
      <4>2. QED
        BY <4>1, PassoDasTabelas
    <3>2. PICK f \in ft : ItemDe(f) = i
      BY <2>2, <3>1 DEF FatosEmDia
    <3>3. CASE RodarFtItem
      <4>1. CASE \E g \in FatosVigentes : MesmoItem(f, g)
        <5>1. PICK g \in FatosVigentes : MesmoItem(f, g)
          BY <4>1
        <5>2. ItemDe(g) \in item /\ MesmoItem(ItemDe(g), g)
          BY DaFila
        <5>3. i.arq = f.arq /\ i.n = f.n
          BY <3>2 DEF ItemDe
        <5>4. MesmoItem(i, ItemDe(g))
          BY <5>1, <5>2, <5>3 DEF MesmoItem, MesmaChave
        <5>5. i = ItemDe(g)
          BY <3>1, <5>2, <5>4 DEF ChavesUnicas
        <5>6. QED
          BY <1>b, <3>3, <5>5 DEF MergePorItem
      <4>2. CASE \A g \in FatosVigentes : ~MesmoItem(f, g)
        BY <1>b, <3>2, <3>3, <4>2 DEF MergePorItem
      <4>3. QED
        BY <4>1, <4>2
    <3>4. QED
      BY <3>2, <3>3, PassoDasTabelas
  <2>3. QED
    BY <1>1, <2>1, <2>2, ItemProcessadoAntes
<1>2. ASSUME NEW f \in ft' PROVE \E i \in item' : MesmoItem(i, f)
  <2>1. PICK i \in item : MesmoItem(i, f)
    <3>1. CASE RodarFtItem
      BY <1>b, <3>1, DaFila DEF FatosEmDia, MergePorItem
    <3>2. QED
      BY <3>1, PassoDasTabelas DEF FatosEmDia
  <2>2. CASE RodarItem
    <3>1. CASE \E y \in ItensVigentes : MesmoItem(i, y)
      <4>1. PICK y \in ItensVigentes : MesmoItem(i, y)
        BY <3>1
      <4>2. y \in item' /\ MesmoItem(y, f)
        BY <1>a, <2>1, <2>2, <4>1 DEF MergePorItem, MesmoItem, MesmaChave
      <4>3. QED
        BY <4>2
    <3>2. CASE \A y \in ItensVigentes : ~MesmoItem(i, y)
      BY <1>a, <2>1, <2>2, <3>2 DEF MergePorItem
    <3>3. QED
      BY <3>1, <3>2
  <2>3. QED
    BY <2>1, <2>2, PassoDasTabelas
<1>3. QED
  BY <1>1, <1>2 DEF FatosEmDia, ItemDe, MesmoItem, MesmaChave

LEMMA MesesPasso ==
    ASSUME Alicerce, Proveniencia', Construido, MesesPorFazer, MaxLimpezas = 0, OperadorEspera, [Next]_vars
    PROVE  MesesPorFazer'
<1> USE DEF Alicerce
<1> SUFFICES ASSUME NEW m \in {Mes[c] : c \in DOMAIN Mes}, ~MesEmDia(m)'
             PROVE  \E f \in ft' : MesDe(f) = m /\ status'[f.lote] # "PROCESSADO"
  BY DEF MesesPorFazer, MesDe
<1>a. /\ Roda("ft") <=> RodarFtItem
      /\ Roda("ag") <=> RodarAgregado
      /\ "ft" \in Dbt /\ "ag" \in Dbt
  BY DEF Roda, Dbt
<1>1. CASE RodarAgregado
  <2>1. ft' = ft /\ status' = status
    BY <1>1, <1>a, RodaFila
  <2>2. ag' = {g \in ag : MesDe(g) \notin MesesAfetados} \cup LinhasDosMeses
    BY <1>1 DEF RodarAgregado
  <2>3. m \notin MesesAfetados
    <3>1. SUFFICES ASSUME m \in MesesAfetados PROVE FALSE
      OBVIOUS
    <3>2. \A g : g \in ag' /\ MesDe(g) = m <=> g \in ft /\ MesDe(g) = m
      BY <2>2, <3>1 DEF LinhasDosMeses
    <3>3. QED
      BY <2>1, <3>2 DEF MesEmDia, MesDe
  <2>4. \A g : g \in ag' /\ MesDe(g) = m <=> g \in ag /\ MesDe(g) = m
    BY <2>2, <2>3 DEF LinhasDosMeses
  <2>5. ~MesEmDia(m)
    BY <2>1, <2>4 DEF MesEmDia, MesDe
  <2>6. QED
    BY <2>1, <2>5 DEF MesesPorFazer
<1>2. CASE RodarFtItem
  <2>1. ag' = ag /\ status' = status
    BY <1>2, <1>a, RodaFila
  <2>2. ft' = MergePorItem(ft, FatosVigentes)
    BY <1>2 DEF RodarFtItem, FatosVigentes
  <2>3. CASE \E g \in FatosVigentes : MesDe(g) = m
    <3>1. PICK g \in FatosVigentes : MesDe(g) = m
      BY <2>3
    <3>2. status'[g.lote] # "PROCESSADO"
      BY <2>1, DaFila
    <3>3. QED
      BY <2>2, <3>1, <3>2 DEF MergePorItem
  <2>4. CASE \A g \in FatosVigentes : MesDe(g) # m
    <3>1. \A f : MesDe(f) = m => \A g \in FatosVigentes : ~MesmoItem(f, g)
      BY <2>4 DEF MesDe, MesmoItem, MesmaChave
    <3>2. \A f : f \in ft' /\ MesDe(f) = m <=> f \in ft /\ MesDe(f) = m
      BY <2>2, <2>4, <3>1 DEF MergePorItem
    <3>3. ~MesEmDia(m)
      BY <2>1, <3>2 DEF MesEmDia, MesDe
    <3>4. PICK f \in ft : MesDe(f) = m /\ status[f.lote] # "PROCESSADO"
      BY <3>3 DEF MesesPorFazer
    <3>5. QED
      BY <2>1, <3>2, <3>4
  <2>5. QED
    BY <2>3, <2>4
<1>3. CASE ~RodarAgregado /\ ~RodarFtItem
  <2>1. ft' = ft /\ ag' = ag
    BY <1>3, PassoDasTabelas
  <2>2. ~MesEmDia(m)
    BY <2>1 DEF MesEmDia, MesDe
  <2>3. PICK f \in ft : MesDe(f) = m /\ status[f.lote] # "PROCESSADO"
    BY <2>2 DEF MesesPorFazer
  <2>4. status'[f.lote] # "PROCESSADO"
    <3>1. SUFFICES ASSUME FinalizarLote, f.lote \in Pendentes PROVE FALSE
      BY <2>1, <2>3, ItemProcessadoAntes
    <3>2. Feita("ag")
      BY <3>1, AntesDeFinalizar DEF Dbt, Contas
    <3>3. MesEmDia(m)
      BY <2>3, <3>1, <3>2 DEF Construido, DoLote
    <3>4. QED
      BY <2>2, <3>3
  <2>5. QED
    BY <2>1, <2>3, <2>4
<1>4. QED
  BY <1>1, <1>2, <1>3

\* What gold holds of the keys at rest follows.
LEMMA OuroDaquiSai ==
    ASSUME Alicerce, DocEmDia, FatosEmDia, MesesPorFazer
    PROVE  OuroEmDia
<1> USE DEF Alicerce
<1>1. ASSUME NEW x \in item \cup ft, ChaveQuieta(Chave[x.arq]) PROVE status[x.lote] = "PROCESSADO"
  <2>1. LinhaDe(x) \in bronze /\ LinhaDe(x).lote = x.lote /\ LinhaDe(x).arq = x.arq
    BY DEF Proveniencia, LinhaDe
  <2>2. QED
    BY <1>1, <2>1 DEF ChaveQuieta
<1>2. ASSUME NEW x \in nota, ChaveQuieta(Chave[x.arq])
      PROVE  {i \in item : MesmaChave(i, x)} = {ItemDe(f) : f \in {g \in ft : MesmaChave(g, x)}}
  <2>1. ASSUME NEW i \in item, MesmaChave(i, x)
        PROVE  \E f \in ft : MesmaChave(f, x) /\ ItemDe(f) = i
    <3>1. status[i.lote] = "PROCESSADO"
      BY <1>1, <1>2, <2>1 DEF MesmaChave
    <3>2. PICK f \in ft : ItemDe(f) = i
      BY <3>1 DEF FatosEmDia
    <3>3. i.arq = f.arq
      BY <3>2 DEF ItemDe
    <3>4. QED
      BY <2>1, <3>2, <3>3 DEF MesmaChave
  <2>2. ASSUME NEW f \in ft, MesmaChave(f, x)
        PROVE  ItemDe(f) \in item /\ MesmaChave(ItemDe(f), x)
    <3>1. PICK i \in item : MesmoItem(i, f)
      BY DEF FatosEmDia
    <3>2. MesmaChave(i, x)
      BY <2>2, <3>1 DEF MesmoItem, MesmaChave
    <3>3. PICK g \in ft : ItemDe(g) = i
      BY <2>1, <3>2
    <3>4. i.arq = g.arq /\ i.n = g.n
      BY <3>3 DEF ItemDe
    <3>5. f = g
      BY <3>1, <3>4 DEF MesmoItem, MesmaChave, ChavesUnicas
    <3>6. QED
      BY <3>2, <3>3, <3>5
  <2>3. QED
    BY <2>1, <2>2
<1>3. OuroEspelhaSilver
  <2>1. \A x \in nota : {[lote |-> f.lote, arq |-> f.arq, n |-> f.n] : f \in {g \in ft : MesmaChave(g, x)}}
                          = {ItemDe(f) : f \in {g \in ft : MesmaChave(g, x)}}
    BY DEF ItemDe
  <2>2. QED
    BY <1>2, <2>1 DEF OuroEspelhaSilver, DocEmDia
<1>4. AgregadoEmDia
  <2> SUFFICES ASSUME NEW m \in {Mes[c] : c \in DOMAIN Mes},
                      \A c \in DOMAIN Mes : Mes[c] = m => ChaveQuieta(c), ~MesEmDia(m)
               PROVE  FALSE
    BY DEF AgregadoEmDia, MesEmDia
  <2>1. PICK f \in ft : MesDe(f) = m /\ status[f.lote] # "PROCESSADO"
    BY DEF MesesPorFazer
  <2>2. f.arq \in Arquivos
    BY DEF TypeOK, TipoTabelas, LinhaFato
  <2>3. Chave[f.arq] \in DOMAIN Mes
    BY <2>2, NfeAssumption
  <2>4. ChaveQuieta(Chave[f.arq])
    BY <2>1, <2>3 DEF MesDe
  <2>5. QED
    BY <1>1, <2>1, <2>4
<1>5. QED
  BY <1>3, <1>4 DEF OuroEmDia

-----------------------------------------------------------------------------
Camadas ==
    /\ Construido
    /\ SilverInteira /\ NotaComItens /\ FechadosEmOrdem /\ MaisRecenteSemReprocesso
    /\ DocEmDia /\ FatosEmDia /\ MesesPorFazer

LEMMA CamadasInicial == Init => Camadas
<1> SUFFICES ASSUME Init PROVE Camadas
  OBVIOUS
<1>1. /\ bronze = {} /\ nota = {} /\ item = {} /\ ft = {} /\ ag = {} /\ doc = {} /\ run = 0
  BY DEF Init
<1>2. Construido /\ FechadosEmOrdem /\ DocEmDia /\ FatosEmDia
  BY <1>1 DEF Construido, Feita, FechadosEmOrdem, DocEmDia, FatosEmDia
<1>3. SilverInteira /\ NotaComItens /\ MaisRecenteSemReprocesso
  BY <1>1 DEF SilverInteira, NotaComItens, MaisRecenteSemReprocesso, SilverMaisRecente
<1>4. MesesPorFazer
  BY <1>1 DEF MesesPorFazer, MesEmDia
<1>5. QED
  BY <1>2, <1>3, <1>4 DEF Camadas

LEMMA CamadasPasso ==
    ASSUME Alicerce, Alicerce', Camadas, MaxLimpezas = 0, OperadorEspera, [Next]_vars
    PROVE  Camadas'
<1> USE DEF Camadas
<1>1. Proveniencia'
  BY DEF Alicerce
<1>2. Construido' /\ SilverInteira' /\ NotaComItens'
  BY ConstruidoPasso, InteiraPasso, NotaComItensPasso
<1>3. FechadosEmOrdem' /\ MaisRecenteSemReprocesso'
  BY FechadosPasso, MaisRecentePasso
<1>4. DocEmDia' /\ FatosEmDia' /\ MesesPorFazer'
  BY <1>1, DocPasso, FatosPasso, MesesPasso
<1>5. QED
  BY <1>2, <1>3, <1>4

\* What every state of the pipeline satisfies when nobody clears a run and the
\* operator requeues lots between runs only.
LEMMA AlicerceSempre ==
    ASSUME MaxLimpezas = 0, OperadorEspera
    PROVE  Spec => []Alicerce
<1> DEFINE Antes == TypeOK /\ IdsEmOrdem /\ Contas /\ OrigemDaLinha
           Resto == Abertura /\ Limitado /\ Proveniencia
<1>1. Init => Contas /\ Resto
  <2> SUFFICES ASSUME Init PROVE Contas /\ Resto
    OBVIOUS
  <2>1. Contas
    BY ContasInicial
  <2>2. Abertura /\ Proveniencia
    BY DEF Init, Abertura, Proveniencia
  <2>3. Limitado
    BY DEF Init, Limitado
  <2>4. QED
    BY <2>1, <2>2, <2>3
<1>2. TypeOK /\ IdsEmOrdem /\ Contas /\ [Next]_vars => Contas'
  BY ContasPasso
<1>3. Antes /\ Resto /\ [Next]_vars => Resto'
  BY AberturaPasso, LimitadoPasso, ProvenienciaPasso
<1>4. Antes /\ UmLugarSo /\ ChavesUnicas /\ Resto => Alicerce
  BY DEF Alicerce
<1>5. QED
  BY <1>1, <1>2, <1>3, <1>4, IdsInicial, IdsPasso, Tipos, ArquivosConservados,
     OrigemPreservada, ChavesSempreUnicas, PTL DEF Spec

LEMMA CamadasSempre ==
    ASSUME MaxLimpezas = 0, OperadorEspera
    PROVE  Spec => [](Alicerce /\ Camadas)
<1>1. Init => Camadas
  BY CamadasInicial
<1>2. Alicerce /\ Alicerce' /\ Camadas /\ [Next]_vars => Camadas'
  BY CamadasPasso
<1>3. QED
  BY <1>1, <1>2, AlicerceSempre, PTL DEF Spec

\* A closed lot has its notes in silver, each note at rest has the items of its
\* own file and, while no lot is put back, is the latest file of its key: for
\* any files, keys, items and failures, although nfe_nota and nfe_item are
\* separate tasks.  The operator requeues lots between runs and clears none.
THEOREM SilverSempreFiel ==
    ASSUME MaxLimpezas = 0, OperadorEspera
    PROVE  Spec => []SilverFiel
<1>1. Camadas => SilverFiel
  BY DEF Camadas, SilverFiel
<1>2. QED
  BY <1>1, CamadasSempre, PTL

\* Under the same conditions the facts hold exactly the silver rows of the keys
\* at rest, and the aggregate exactly the facts of a month whose lots are closed.
THEOREM OuroSempreEmDia ==
    ASSUME MaxLimpezas = 0, OperadorEspera
    PROVE  Spec => []OuroEmDia
<1>1. Alicerce /\ Camadas => OuroEmDia
  BY OuroDaquiSai DEF Camadas
<1>2. QED
  BY <1>1, CamadasSempre, PTL
=============================================================================
