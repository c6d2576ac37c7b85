-------------------------- MODULE RfbIngest_proofs --------------------------
(***************************************************************************)
(* The layers of the RFB pipeline and its gold tables, for every set of    *)
(* files, months and entities and any number of runs and failures.         *)
(***************************************************************************)
EXTENDS RfbIngest, FiniteSetTheorems, WellFoundedInduction, TLAPS

Estados == Pendente \cup Correndo \cup Terminais
Vivos   == Correndo \cup {"up_for_retry", "success"}

\* A task has been started only after those above it have succeeded.
Ordem ==
    /\ ti \in [Tarefas -> Estados]
    /\ \A t \in Tarefas : ti[t] \in Vivos => EstadosAcima(t) \subseteq {"success"}

-----------------------------------------------------------------------------
(* Airflow. *)

LEMMA AcimaDe ==
    /\ Acima(Download) = {} /\ Acima(Bronze) = {Download}
    /\ Acima(Landed) = {Landing(g) : g \in Grupos}
    /\ \A g \in Grupos : Acima(Silver(g)) = {Bronze} /\ Acima(Landing(g)) = {Silver(g)}
<1>1. Download[1] = "download" /\ Bronze[1] = "bronze" /\ Landed[1] = "landed"
  BY DEF Download, Bronze, Landed
<1>2. \A g : Silver(g)[1] = "silver" /\ Landing(g)[1] = "landing" /\ Landing(g)[2] = g
  BY DEF Silver, Landing
<1>3. Acima(Download) = {}
  BY <1>1 DEF Acima
<1>4. Acima(Bronze) = {Download}
  BY <1>1 DEF Acima
<1>5. Acima(Landed) = {Landing(g) : g \in Grupos}
  BY <1>1 DEF Acima
<1>6. ASSUME NEW g \in Grupos PROVE Acima(Silver(g)) = {Bronze}
  BY <1>1, <1>2 DEF Acima
<1>7. ASSUME NEW g \in Grupos PROVE Acima(Landing(g)) = {Silver(g)}
  BY <1>1, <1>2 DEF Acima
<1>8. QED
  BY <1>3, <1>4, <1>5, <1>6, <1>7

\* The tasks are all different.
LEMMA Distintas ==
    /\ Download # Bronze /\ Download # Landed /\ Bronze # Landed
    /\ \A g \in Grupos :
         /\ {Silver(g), Landing(g)} \cap {Download, Bronze, Landed} = {}
         /\ \A h \in Grupos : /\ Silver(g) # Landing(h)
                              /\ g # h => Silver(g) # Silver(h) /\ Landing(g) # Landing(h)
<1>1. Download[1] = "download" /\ Bronze[1] = "bronze" /\ Landed[1] = "landed"
  BY DEF Download, Bronze, Landed
<1>2. \A g : /\ Silver(g)[1] = "silver" /\ Landing(g)[1] = "landing"
             /\ Landing(g)[2] = g /\ Silver(g)[2] = g
  BY DEF Silver, Landing
<1>3. QED
  BY <1>1, <1>2

LEMMA AcimaTipo ==
    ASSUME NEW t \in Tarefas
    PROVE  Acima(t) \subseteq Tarefas /\ t \notin Acima(t)
<1>1. CASE t \in {Download, Bronze, Landed}
  BY <1>1, AcimaDe, Distintas DEF Tarefas
<1>2. CASE \E g \in Grupos : t = Silver(g) \/ t = Landing(g)
  BY <1>2, AcimaDe, Distintas DEF Tarefas
<1>3. QED
  BY <1>1, <1>2 DEF Tarefas

Muda(t) ==
    /\ ti[t] # "success"
    /\ \E s \in Estados : Marca(t, s) /\ (s \in Vivos => EstadosAcima(t) \subseteq {"success"})

LEMMA AtivaMuda ==
    ASSUME Ordem, NEW t \in Tarefas, Pronta(t) \/ Rodando(t), NEW s \in Estados, Marca(t, s)
    PROVE  Muda(t)
BY DEF Ordem, Pronta, Rodando, Vivos, Pendente, Correndo, Muda

LEMMA TerminaMarca ==
    ASSUME NEW t \in Tarefas, NEW c \in BOOLEAN, Termina(t, c) \/ Falhou(t)
    PROVE  \E s \in {"success", "up_for_retry", "failed"} :
             Marca(t, s) /\ (s = "success" => Termina(t, c) /\ c)
BY DEF Termina, Falhou, AposFalha

LEMMA OrdemMuda ==
    ASSUME Ordem, NEW t \in Tarefas, Muda(t)
    PROVE  Ordem'
<1>1. PICK s \in Estados : Marca(t, s) /\ (s \in Vivos => EstadosAcima(t) \subseteq {"success"})
  BY DEF Muda
<1>2. ti' \in [Tarefas -> Estados] /\ ti'[t] = s
      /\ \A u \in Tarefas : u # t => ti'[u] = ti[u]
  BY <1>1 DEF Marca, Ordem
<1>3. ASSUME NEW u \in Tarefas, ti'[u] \in Vivos PROVE EstadosAcima(u)' \subseteq {"success"}
  <2>1. EstadosAcima(u) \subseteq {"success"}
    <3>1. CASE u = t
      BY <1>1, <1>2, <1>3, <3>1
    <3>2. CASE u # t
      BY <1>2, <1>3, <3>2 DEF Ordem
    <3>3. QED
      BY <3>1, <3>2
  <2>2. t \notin Acima(u)
    BY <2>1 DEF EstadosAcima, Muda
  <2>3. \A v \in Acima(u) : ti'[v] = ti[v]
    BY <1>2, <2>2, AcimaTipo
  <2>4. QED
    BY <2>1, <2>3 DEF EstadosAcima
<1>4. QED
  BY <1>2, <1>3 DEF Ordem

-----------------------------------------------------------------------------
(* The invariant. *)

\* The run may still emit the event of its landing.
EmAberto == ativo /\ ti[Landed] # "success"

TipoRun ==
    /\ publicado \in 0..MaxMes /\ mes \in Meses /\ runs \in 0..MaxRuns
    /\ ativo \in BOOLEAN /\ dev \in BOOLEAN /\ dbtAtivo \in BOOLEAN
    /\ dti \in [Entidades -> Pendente \cup Terminais]
    /\ falhas \in 0..MaxFalhas
    /\ eventos \in 0..runs /\ (EmAberto => eventos < runs)

\* Each parquet of the lake is a whole file or its sample, and has the layer
\* below it; bronze may have been made again since silver was.
Lago ==
    /\ relogio \in Nat
    /\ zips \subseteq Meses \X Arquivos
    /\ DOMAIN bronze \subseteq zips /\ DOMAIN silver \subseteq DOMAIN bronze
    /\ \A p \in DOMAIN bronze : bronze[p] \in {Conteudo[p], Amostra[p]}
    /\ \A p \in DOMAIN silver :
         silver[p].linhas \in {Conteudo[p], Amostra[p]} /\ silver[p].ts \in 1..relogio

Tabelas ==
    /\ IsABag(landing) /\ BagToSet(landing) \subseteq Linha
    /\ gold \in [Entidades -> SUBSET Linha]
    /\ preparadas \in [Grupos -> SUBSET Entidades]
    /\ copiados \in [Grupos -> SUBSET Arquivos]
    /\ \A g \in Grupos : preparadas[g] \subseteq g /\ copiados[g] \subseteq ArquivosDe(g)

\* A green step of the run has done all the files of the month.
Passos ==
    /\ ti[Download] = "success" => Faltam = {}
    /\ ti[Bronze] = "success" => DoMes(Arquivos) \subseteq DOMAIN bronze
    /\ \A g \in Grupos : ti[Silver(g)] = "success" => DoMes(ArquivosDe(g)) \subseteq DOMAIN silver

DoArquivo(f) == {r \in BagToSet(landing) : r.arq = f /\ r.mes = mes}

Inteiro(f) == DoArquivo(f) = Linhas(f) /\ \A r \in Linhas(f) : landing[r] = 1

\* What a landing attempt has copied is in its table once and whole, what it
\* has not is not there in part, and a green one has copied every file.
CargaDe(g) ==
    /\ Rodando(Landing(g)) =>
         /\ \A f \in copiados[g] : Entidade[f] \in preparadas[g] /\ Inteiro(f)
         /\ \A f \in Arquivos \ copiados[g] :
              Entidade[f] \in preparadas[g] => DoArquivo(f) = {}
    /\ ti[Landing(g)] = "success" => \A f \in ArquivosDe(g) : Inteiro(f)

Cargas == \A g \in Grupos : CargaDe(g)

IInv == TipoRun /\ Lago /\ Tabelas /\ Ordem /\ Passos /\ Cargas

\* The lake only grows, and no silver object is written twice.
Cresce ==
    /\ zips \subseteq zips'
    /\ DOMAIN bronze \subseteq DOMAIN bronze' /\ DOMAIN silver \subseteq DOMAIN silver'
    /\ \A p \in DOMAIN silver : silver'[p] = silver[p]

-----------------------------------------------------------------------------
(* Groups and files. *)

LEMMA GruposDisjuntos ==
    /\ \A g \in Grupos : g \subseteq Entidades
    /\ \A g, h \in Grupos : g # h => g \cap h = {}
    /\ \A f \in Arquivos : \E g \in Grupos : f \in ArquivosDe(g)
<1>1. \A g \in Grupos : g \subseteq Entidades
  BY DEF Grupos, Entidades
<1>2. ASSUME NEW g \in Grupos, NEW h \in Grupos, g # h PROVE g \cap h = {}
  BY <1>2, RfbAssumption DEF Grupos
<1>3. ASSUME NEW f \in Arquivos PROVE \E g \in Grupos : f \in ArquivosDe(g)
  <2>1. Entidade[f] \in Grandes \cup Dominios
    BY RfbAssumption DEF Entidades
  <2>2. CASE Entidade[f] \in Grandes
    <3>1. {Entidade[f]} \in Grupos /\ f \in ArquivosDe({Entidade[f]})
      BY <2>2 DEF Grupos, ArquivosDe
    <3>2. QED
      BY <3>1
  <2>3. CASE Entidade[f] \in Dominios
    <3>1. Dominios \in Grupos /\ f \in ArquivosDe(Dominios)
      BY <2>3 DEF Grupos, ArquivosDe
    <3>2. QED
      BY <3>1
  <2>4. QED
    BY <2>1, <2>2, <2>3
<1>4. QED
  BY <1>1, <1>2, <1>3

LEMMA EmTarefas ==
    /\ Download \in Tarefas /\ Bronze \in Tarefas /\ Landed \in Tarefas
    /\ \A g \in Grupos : Silver(g) \in Tarefas /\ Landing(g) \in Tarefas
BY DEF Tarefas

\* The silver step above a landing task that has been started is done.
LEMMA SilverPronto ==
    ASSUME Ordem, Passos, NEW g \in Grupos, ti[Landing(g)] \in Vivos
    PROVE  DoMes(ArquivosDe(g)) \subseteq DOMAIN silver
<1>1. EstadosAcima(Landing(g)) \subseteq {"success"}
  BY EmTarefas DEF Ordem
<1>2. ti[Silver(g)] \in EstadosAcima(Landing(g))
  BY AcimaDe DEF EstadosAcima
<1>3. QED
  BY <1>1, <1>2 DEF Passos

LEMMA ACopiarDe ==
    ASSUME Ordem, Passos, Tabelas, NEW g \in Grupos, ti[Landing(g)] \in Vivos
    PROVE  ACopiar(g) = ArquivosDe(g) \ copiados[g]
<1>1. DoMes(ArquivosDe(g)) \subseteq DOMAIN silver
  BY SilverPronto
<1>2. \A f \in ArquivosDe(g) : <<mes, f>> \in DOMAIN silver
  BY <1>1 DEF DoMes
<1>3. QED
  BY <1>2 DEF ACopiar

\* Every nonempty set of naturals has a least member.
LEMMA TemMenor ==
    ASSUME NEW T, T \subseteq Nat, T # {}
    PROVE  \E x \in T : \A y \in T : x <= y
<1>1. \A x, y \in Nat : x < y => <<x, y>> \in OpToRel(<, Nat)
  BY DEF OpToRel
<1>2. PICK x \in T : \A y \in T : ~(<<y, x>> \in OpToRel(<, Nat))
  BY NatLessThanWellFounded, WFMin
<1>3. \A y \in T : x \in Nat /\ y \in Nat /\ ~(y < x)
  BY <1>1, <1>2
<1>4. QED
  BY <1>3

LEMMA ProximoDe ==
    ASSUME NEW g \in Grupos, ACopiar(g) # {}
    PROVE  Proximo(g) \in ACopiar(g) /\ Proximo(g) \in ArquivosDe(g) /\ Proximo(g) \notin copiados[g]
<1>1. ACopiar(g) \subseteq Nat
  BY RfbAssumption DEF ACopiar, ArquivosDe
<1>2. \E f \in ACopiar(g) : \A x \in ACopiar(g) : f <= x
  BY <1>1, TemMenor
<1>3. Proximo(g) \in ACopiar(g)
  BY <1>2 DEF Proximo
<1>4. QED
  BY <1>3 DEF ACopiar

\* The rows a file gives to its landing table.
LEMMA LinhasDe ==
    ASSUME Lago, TipoRun, NEW f \in Arquivos, <<mes, f>> \in DOMAIN silver
    PROVE  /\ Linhas(f) \subseteq Linha
           /\ \A r \in Linhas(f) : r.arq = f /\ r.mes = mes /\ r.ts = silver[<<mes, f>>].ts
           /\ {r.chave : r \in Linhas(f)} \in {Conteudo[<<mes, f>>], Amostra[<<mes, f>>]}
<1> DEFINE s == silver[<<mes, f>>]
<1>1. s.linhas \in {Conteudo[<<mes, f>>], Amostra[<<mes, f>>]} /\ s.ts \in Nat
  BY DEF Lago
<1>2. mes \in Meses /\ <<mes, f>> \in Meses \X Arquivos
  BY DEF TipoRun
<1>3. s.linhas \subseteq Chaves
  BY <1>1, <1>2, RfbAssumption
<1>5. \A r \in Linhas(f) : \E c \in s.linhas : r = [chave |-> c, mes |-> mes, arq |-> f, ts |-> s.ts]
  BY DEF Linhas
<1>4. \A c \in s.linhas : [chave |-> c, mes |-> mes, arq |-> f, ts |-> s.ts] \in Linhas(f)
  BY DEF Linhas
<1> HIDE DEF s
<1>9. {r.chave : r \in Linhas(f)} = s.linhas
  <2>1. \A r \in Linhas(f) : r.chave \in s.linhas
    BY <1>5
  <2>2. \A c \in s.linhas : \E r \in Linhas(f) : r.chave = c
    BY <1>4
  <2>3. QED
    BY <2>1, <2>2
<1>6. Linhas(f) \subseteq Linha
  BY <1>1, <1>2, <1>3, <1>5 DEF Linha
<1>7. \A r \in Linhas(f) : r.arq = f /\ r.mes = mes /\ r.ts = s.ts
  BY <1>5
<1>8. QED
  BY <1>1, <1>6, <1>7, <1>9 DEF s

-----------------------------------------------------------------------------
(* The lake. *)

LEMMA SobreDe ==
    ASSUME NEW novos, NEW bucket
    PROVE  /\ DOMAIN Sobre(novos, bucket) = DOMAIN novos \cup DOMAIN bucket
           /\ \A p \in DOMAIN novos : Sobre(novos, bucket)[p] = novos[p]
           /\ \A p \in DOMAIN bucket \ DOMAIN novos : Sobre(novos, bucket)[p] = bucket[p]
BY DEF Sobre

LEMMA LagoParado ==
    ASSUME Lago, UNCHANGED <<zips, bronze, silver, relogio>>
    PROVE  Lago' /\ Cresce
BY DEF Lago, Cresce

LEMMA LagoBaixar ==
    ASSUME Lago, TipoRun, BaixarMes
    PROVE  Lago' /\ Cresce
<1>1. UNCHANGED <<bronze, silver, relogio>>
  BY DEF BaixarMes
<1>2. zips' = zips \/ \E A \in SUBSET Faltam : zips' = zips \cup DoMes(A)
  BY DEF BaixarMes
<1>3. mes \in Meses /\ Faltam \subseteq Arquivos
  BY DEF TipoRun, Faltam
<1>4. zips \subseteq zips' /\ zips' \subseteq Meses \X Arquivos
  BY <1>2, <1>3 DEF Lago, DoMes
<1>5. QED
  BY <1>1, <1>4 DEF Lago, Cresce

LEMMA LagoExtrair ==
    ASSUME Lago, TipoRun, ExtrairBronze
    PROVE  Lago' /\ Cresce
<1>1. UNCHANGED <<zips, silver, relogio>>
  BY DEF ExtrairBronze
<1>2. PICK A \in SUBSET ComZip : bronze' = Sobre(Sobe(A), bronze)
  BY DEF ExtrairBronze, Pendentes
<1>3. DOMAIN Sobe(A) = DoMes(A) /\ \A p \in DoMes(A) : Sobe(A)[p] \in {Conteudo[p], Amostra[p]}
  BY DEF Sobe
<1>4. DoMes(A) \subseteq zips
  BY DEF ComZip, DoMes
<1>5. /\ DOMAIN bronze' = DoMes(A) \cup DOMAIN bronze
      /\ \A p \in DoMes(A) : bronze'[p] = Sobe(A)[p]
      /\ \A p \in DOMAIN bronze \ DoMes(A) : bronze'[p] = bronze[p]
  <2> DEFINE N == Sobe(A)
  <2>1. /\ DOMAIN Sobre(N, bronze) = DOMAIN N \cup DOMAIN bronze
        /\ \A p \in DOMAIN N : Sobre(N, bronze)[p] = N[p]
        /\ \A p \in DOMAIN bronze \ DOMAIN N : Sobre(N, bronze)[p] = bronze[p]
    BY SobreDe
  <2>2. bronze' = Sobre(N, bronze) /\ DOMAIN N = DoMes(A)
    BY <1>2, <1>3
  <2> HIDE DEF N
  <2>3. /\ DOMAIN bronze' = DoMes(A) \cup DOMAIN bronze
        /\ \A p \in DoMes(A) : bronze'[p] = N[p]
        /\ \A p \in DOMAIN bronze \ DoMes(A) : bronze'[p] = bronze[p]
    BY <2>1, <2>2
  <2>4. QED
    BY <2>3 DEF N
<1>6. \A p \in DOMAIN bronze' : bronze'[p] \in {Conteudo[p], Amostra[p]}
  BY <1>3, <1>5 DEF Lago
<1>8. DOMAIN bronze' \subseteq zips /\ DOMAIN silver \subseteq DOMAIN bronze'
  BY <1>4, <1>5 DEF Lago
<1>9. Lago'
  BY <1>1, <1>6, <1>8 DEF Lago
<1>10. QED
  BY <1>1, <1>5, <1>9 DEF Cresce

LEMMA AteLimita ==
    ASSUME NEW A \in SUBSET Arquivos, NEW f \in A
    PROVE  Cardinality(A) \in Nat /\ Ate(f, A) \in 1..Cardinality(A)
<1> DEFINE B == {x \in A : x <= f}
<1>1. IsFiniteSet(A)
  BY RfbAssumption, FS_Subset
<1>2. IsFiniteSet(B) /\ Cardinality(B) <= Cardinality(A)
  BY <1>1, FS_Subset
<1>3. f \in B
  BY RfbAssumption
<1>4. Cardinality(A) \in Nat /\ Cardinality(B) \in Nat /\ Cardinality(B) # 0
  BY <1>1, <1>2, <1>3, FS_CardinalityType, FS_EmptySet
<1>5. Ate(f, A) = Cardinality(B)
  BY DEF Ate
<1> HIDE DEF B
<1>6. QED
  BY <1>2, <1>4, <1>5

LEMMA LagoTransformar ==
    ASSUME Lago, TipoRun, NEW g \in Grupos, TransformarSilver(g)
    PROVE  Lago' /\ Cresce
<1>1. UNCHANGED <<zips, bronze>>
  BY DEF TransformarSilver
<1> DEFINE N(A) == [p \in DoMes(A) |-> [linhas |-> bronze[p], ts |-> relogio + Ate(p[2], A)]]
<1>2. PICK A \in SUBSET SemSilver(g) :
        silver' = Sobre(N(A), silver) /\ relogio' = relogio + Cardinality(A)
  BY DEF TransformarSilver
<1>3. A \in SUBSET Arquivos /\ DoMes(A) \cap DOMAIN silver = {} /\ DoMes(A) \subseteq DOMAIN bronze
  <2>1. \A f \in A : f \in Arquivos /\ <<mes, f>> \in DOMAIN bronze /\ <<mes, f>> \notin DOMAIN silver
    BY DEF SemSilver, ArquivosDe
  <2>2. \A p \in DoMes(A) : \E f \in A : p = <<mes, f>>
    BY DEF DoMes
  <2>3. QED
    BY <2>1, <2>2
<1>4. \A p \in DoMes(A) : p[2] \in A
  BY DEF DoMes
<1>5. IsFiniteSet(A) /\ Cardinality(A) \in Nat /\ relogio \in Nat /\ relogio' \in Nat
  <2>1. IsFiniteSet(A)
    BY <1>3, RfbAssumption, FS_Subset
  <2>2. Cardinality(A) \in Nat /\ relogio \in Nat
    BY <2>1, FS_CardinalityType DEF Lago
  <2>3. QED
    BY <1>2, <2>1, <2>2
<1>6. DOMAIN N(A) = DoMes(A) /\ \A p \in DoMes(A) :
        N(A)[p].linhas = bronze[p] /\ N(A)[p].ts = relogio + Ate(p[2], A)
  OBVIOUS
<1> HIDE DEF N
<1>7. \A p \in DoMes(A) : N(A)[p].ts \in 1..relogio'
  <2> TAKE p \in DoMes(A)
  <2>1. Ate(p[2], A) \in 1..Cardinality(A)
    BY <1>3, <1>4, AteLimita
  <2>2. QED
    BY <1>2, <1>5, <1>6, <2>1
<1>8. /\ DOMAIN silver' = DoMes(A) \cup DOMAIN silver
      /\ \A p \in DoMes(A) : silver'[p] = N(A)[p]
      /\ \A p \in DOMAIN silver : silver'[p] = silver[p]
  <2> DEFINE M == N(A)
  <2>1. /\ DOMAIN Sobre(M, silver) = DOMAIN M \cup DOMAIN silver
        /\ \A p \in DOMAIN M : Sobre(M, silver)[p] = M[p]
        /\ \A p \in DOMAIN silver \ DOMAIN M : Sobre(M, silver)[p] = silver[p]
    BY SobreDe
  <2>2. silver' = Sobre(M, silver) /\ DOMAIN M = DoMes(A)
    BY <1>2, <1>6
  <2> HIDE DEF M
  <2>3. /\ DOMAIN silver' = DoMes(A) \cup DOMAIN silver
        /\ \A p \in DoMes(A) : silver'[p] = M[p]
        /\ \A p \in DOMAIN silver : silver'[p] = silver[p]
    BY <1>3, <2>1, <2>2
  <2>4. QED
    BY <2>3 DEF M
<1>9. \A p \in DOMAIN silver :
        silver[p].linhas \in {Conteudo[p], Amostra[p]} /\ silver[p].ts \in 1..relogio'
  BY <1>2, <1>5 DEF Lago
<1>13. \A p \in DoMes(A) : bronze[p] \in {Conteudo[p], Amostra[p]}
  BY <1>3 DEF Lago
<1>10. \A p \in DOMAIN silver' :
         silver'[p].linhas \in {Conteudo[p], Amostra[p]} /\ silver'[p].ts \in 1..relogio'
  BY <1>6, <1>7, <1>8, <1>9, <1>13
<1>11. Lago'
  BY <1>1, <1>3, <1>5, <1>8, <1>10 DEF Lago
<1>12. QED
  BY <1>1, <1>8, <1>11 DEF Cresce

LEMMA LagoPasso ==
    ASSUME Lago, TipoRun, [Next]_vars
    PROVE  Lago' /\ Cresce
<1>1. CASE UNCHANGED vars
  BY <1>1, LagoParado DEF vars, lago
<1>2. CASE Publica
  BY <1>2, LagoParado DEF Publica, lago
<1>3. CASE Operador
  BY <1>3, LagoParado DEF Operador, AbrirRun, lago
<1>4. CASE Dbt
  BY <1>4, LagoParado DEF Dbt, AbrirDbt, FimDbt, RodarModelo, FalhaModelo, DbtUnchanged, lago
<1>5. CASE BaixarMes
  BY <1>5, LagoBaixar
<1>6. CASE ExtrairBronze
  BY <1>6, LagoExtrair
<1>7. CASE EmitirAsset \/ FimRun
  BY <1>7, LagoParado DEF EmitirAsset, FimRun, lago
<1>8. ASSUME NEW g \in Grupos, TransformarSilver(g) PROVE Lago' /\ Cresce
  BY <1>8, LagoTransformar
<1>9. ASSUME NEW g \in Grupos, \/ IniciarLanding(g) \/ PrepararTabela(g) \/ CopiarArquivo(g)
                               \/ FimLanding(g) \/ MorreLanding(g)
      PROVE  Lago' /\ Cresce
  <2>1. LandingUnchanged
    BY <1>9 DEF IniciarLanding, PrepararTabela, CopiarArquivo, FimLanding, MorreLanding
  <2>2. QED
    BY <2>1, LagoParado DEF LandingUnchanged, lago
<1>10. ASSUME NEW t \in Tarefas, Propagar(t) PROVE Lago' /\ Cresce
  BY <1>10, LagoParado DEF Propagar, LandingUnchanged, lago
<1>11. QED
  BY <1>1, <1>2, <1>3, <1>4, <1>5, <1>6, <1>7, <1>8, <1>9, <1>10 DEF Next, Rfb

-----------------------------------------------------------------------------
(* The run. *)

LEMMA MarcaDe ==
    ASSUME Ordem, NEW t \in Tarefas, NEW s, Marca(t, s)
    PROVE  ti'[t] = s /\ \A u \in Tarefas : u # t => ti'[u] = ti[u]
BY DEF Marca, Ordem

LEMMA TarefaMuda ==
    ASSUME Ordem, NEW t \in Tarefas, Pronta(t) \/ Rodando(t),
           NEW c \in BOOLEAN, Termina(t, c) \/ Falhou(t)
    PROVE  Muda(t)
<1>1. PICK s \in {"success", "up_for_retry", "failed"} : Marca(t, s)
  BY TerminaMarca
<1>2. s \in Estados
  BY DEF Estados, Pendente, Terminais, Falhados
<1>3. QED
  BY <1>1, <1>2, AtivaMuda

LEMMA BaixarMuda ==
    ASSUME Ordem, BaixarMes
    PROVE  Muda(Download) /\ (UNCHANGED falhas \/ Falha)
<1>1. Pronta(Download) /\ Download \in Tarefas /\ "skipped" \in Estados
  BY EmTarefas DEF BaixarMes, Estados, Terminais
<1>2. CASE \E A \in SUBSET Faltam : Termina(Download, A = Faltam)
  BY <1>1, <1>2, TarefaMuda DEF Termina
<1>3. CASE (Marca(Download, "skipped") \/ Falhou(Download)) /\ UNCHANGED falhas
  BY <1>1, <1>3, TarefaMuda, AtivaMuda
<1>4. QED
  BY <1>2, <1>3 DEF BaixarMes

LEMMA ExtrairMuda ==
    ASSUME Ordem, ExtrairBronze
    PROVE  Muda(Bronze) /\ (UNCHANGED falhas \/ Falha)
<1>1. Pronta(Bronze) /\ Bronze \in Tarefas
  BY EmTarefas DEF ExtrairBronze
<1>2. \E P \in Pendentes : \E A \in SUBSET P : Termina(Bronze, A = P)
  BY DEF ExtrairBronze
<1>3. QED
  BY <1>1, <1>2, TarefaMuda DEF Termina

LEMMA TransformarMuda ==
    ASSUME Ordem, NEW g \in Grupos, TransformarSilver(g)
    PROVE  Muda(Silver(g)) /\ (UNCHANGED falhas \/ Falha)
<1>1. Pronta(Silver(g)) /\ Silver(g) \in Tarefas
  BY EmTarefas DEF TransformarSilver
<1>2. PICK A \in SUBSET SemSilver(g) : Termina(Silver(g), A = SemSilver(g))
  BY DEF TransformarSilver
<1>3. QED
  BY <1>1, <1>2, TarefaMuda DEF Termina

LEMMA LandingMuda ==
    ASSUME Ordem, NEW g \in Grupos, IniciarLanding(g) \/ FimLanding(g) \/ MorreLanding(g)
    PROVE  Muda(Landing(g)) /\ (UNCHANGED falhas \/ Falha)
<1>1. Landing(g) \in Tarefas
  BY EmTarefas
<1>2. CASE IniciarLanding(g)
  <2>1. Pronta(Landing(g)) /\ UNCHANGED falhas
        /\ \E s \in {"running", "rerunning"} : Marca(Landing(g), s)
    BY <1>2 DEF IniciarLanding
  <2>2. {"running", "rerunning"} \subseteq Estados
    BY DEF Estados, Correndo
  <2>3. QED
    BY <1>1, <2>1, <2>2, AtivaMuda
<1>3. CASE FimLanding(g)
  <2>1. Rodando(Landing(g)) /\ Termina(Landing(g), TRUE)
    BY <1>3 DEF FimLanding
  <2>2. QED
    BY <1>1, <2>1, TarefaMuda DEF Termina
<1>4. CASE MorreLanding(g)
  <2>1. Rodando(Landing(g)) /\ Falhou(Landing(g)) /\ Falha
    BY <1>4 DEF MorreLanding
  <2>2. QED
    BY <1>1, <2>1, TarefaMuda
<1>5. QED
  BY <1>2, <1>3, <1>4

LEMMA EmitirMuda ==
    ASSUME Ordem, EmitirAsset
    PROVE  Muda(Landed)
<1>1. Pronta(Landed) /\ Marca(Landed, "success") /\ Landed \in Tarefas /\ "success" \in Estados
  BY EmTarefas DEF EmitirAsset, Estados, Terminais
<1>2. QED
  BY <1>1, AtivaMuda

LEMMA PropagarMuda ==
    ASSUME Ordem, NEW t \in Tarefas, Propagar(t)
    PROVE  Muda(t) /\ ti[t] = "none" /\ \E s \in {"upstream_failed", "skipped"} : Marca(t, s)
<1>1. ti[t] = "none" /\ \E s \in {"upstream_failed", "skipped"} : Marca(t, s)
  BY DEF Propagar
<1>2. \A s \in {"upstream_failed", "skipped"} : s \in Estados /\ s \notin Vivos
  BY DEF Estados, Vivos, Correndo, Terminais, Falhados
<1>3. QED
  BY <1>1, <1>2 DEF Muda

\* Steps that leave the tasks alone.
Alheio == Publica \/ FimRun \/ Dbt \/ UNCHANGED vars
            \/ \E g \in Grupos : PrepararTabela(g) \/ CopiarArquivo(g)

LEMMA AlheioTi ==
    ASSUME Alheio
    PROVE  UNCHANGED <<ti, mes>>
<1>1. CASE Publica \/ FimRun \/ UNCHANGED vars
  BY <1>1 DEF Publica, FimRun, vars, rfbVars
<1>2. CASE Dbt
  BY <1>2 DEF Dbt, AbrirDbt, FimDbt, RodarModelo, FalhaModelo, DbtUnchanged, rfbVars
<1>3. ASSUME NEW g \in Grupos, PrepararTabela(g) \/ CopiarArquivo(g) PROVE UNCHANGED <<ti, mes>>
  BY <1>3 DEF PrepararTabela, CopiarArquivo, LandingUnchanged, rfbVars
<1>4. QED
  BY <1>1, <1>2, <1>3 DEF Alheio

LEMMA Passo ==
    ASSUME [Next]_vars
    PROVE  \/ Alheio \/ Operador \/ BaixarMes \/ ExtrairBronze \/ EmitirAsset
           \/ \E g \in Grupos : TransformarSilver(g) \/ IniciarLanding(g) \/ FimLanding(g)
                                \/ MorreLanding(g)
           \/ \E t \in Tarefas : Propagar(t)
BY DEF Next, Rfb, Alheio

LEMMA OrdemPasso ==
    ASSUME Ordem, [Next]_vars
    PROVE  Ordem'
<1>1. CASE Alheio
  <2>1. ti' = ti
    BY <1>1, AlheioTi
  <2>2. QED
    BY <2>1 DEF Ordem, EstadosAcima
<1>2. CASE Operador
  <2>1. ti' = [t \in Tarefas |-> "none"]
    BY <1>2 DEF Operador, AbrirRun
  <2>2. "none" \in Estados /\ "none" \notin Vivos
    BY DEF Estados, Vivos, Pendente, Correndo
  <2>3. QED
    BY <2>1, <2>2 DEF Ordem
<1>3. CASE BaixarMes
  BY <1>3, BaixarMuda, OrdemMuda, EmTarefas
<1>4. CASE ExtrairBronze
  BY <1>4, ExtrairMuda, OrdemMuda, EmTarefas
<1>5. CASE EmitirAsset
  BY <1>5, EmitirMuda, OrdemMuda, EmTarefas
<1>6. ASSUME NEW g \in Grupos, TransformarSilver(g) PROVE Ordem'
  BY <1>6, TransformarMuda, OrdemMuda, EmTarefas
<1>7. ASSUME NEW g \in Grupos, IniciarLanding(g) \/ FimLanding(g) \/ MorreLanding(g) PROVE Ordem'
  BY <1>7, LandingMuda, OrdemMuda, EmTarefas
<1>8. ASSUME NEW t \in Tarefas, Propagar(t) PROVE Ordem'
  BY <1>8, PropagarMuda, OrdemMuda
<1>9. QED
  BY <1>1, <1>2, <1>3, <1>4, <1>5, <1>6, <1>7, <1>8, Passo

\* A step of a task other than "landed" leaves what is owed to the dbt run.
LEMMA TipoTarefa ==
    ASSUME TipoRun, Ordem, Ordem', UNCHANGED <<rfbVars, eventos, dbtAtivo, dti>>,
           UNCHANGED falhas \/ Falha,
           ti'[Landed] = "success" <=> ti[Landed] = "success"
    PROVE  TipoRun'
<1>1. UNCHANGED <<publicado, mes, runs, ativo, dev, dbtAtivo, dti, eventos>>
  BY DEF rfbVars
<1>2. falhas' \in 0..MaxFalhas
  BY RfbAssumption DEF TipoRun, Falha
<1>3. EmAberto' <=> EmAberto
  BY <1>1 DEF EmAberto
<1>4. QED
  BY <1>1, <1>2, <1>3 DEF TipoRun

LEMMA OutraTarefa ==
    ASSUME Ordem, NEW t \in Tarefas, Muda(t), t # Landed
    PROVE  ti'[Landed] = ti[Landed]
BY MarcaDe, EmTarefas DEF Muda

LEMMA TipoDbt ==
    ASSUME TipoRun, Dbt
    PROVE  TipoRun'
<1>1. UNCHANGED <<publicado, mes, runs, ativo, dev, ti>>
  BY DEF Dbt, AbrirDbt, FimDbt, RodarModelo, FalhaModelo, DbtUnchanged, rfbVars
<1>2. EmAberto' <=> EmAberto
  BY <1>1 DEF EmAberto
<1>3. eventos' \in Nat /\ eventos' <= eventos /\ eventos \in Nat /\ runs \in Nat
  <2>1. eventos' = eventos \/ (eventos > 0 /\ eventos' \in {0, eventos - 1})
    BY DEF Dbt, AbrirDbt, FimDbt, RodarModelo, FalhaModelo
  <2>2. eventos \in Nat /\ runs \in Nat
    BY RfbAssumption DEF TipoRun
  <2>3. QED
    BY <2>1, <2>2
<1>4. dbtAtivo' \in BOOLEAN
  BY DEF Dbt, AbrirDbt, FimDbt, RodarModelo, FalhaModelo, TipoRun
<1>5. falhas' \in 0..MaxFalhas
  <2>1. UNCHANGED falhas \/ Falha
    BY DEF Dbt, AbrirDbt, FimDbt, RodarModelo, FalhaModelo
  <2>2. QED
    BY <2>1, RfbAssumption DEF TipoRun, Falha
<1>6. dti' \in [Entidades -> Pendente \cup Terminais]
  <2>1. {"none", "success", "up_for_retry", "failed"} \subseteq Pendente \cup Terminais
    BY DEF Pendente, Terminais, Falhados
  <2>2. ASSUME NEW e \in Entidades, dti' = [dti EXCEPT ![e] = "success"] \/ ModeloFalhou(e)
        PROVE  dti' \in [Entidades -> Pendente \cup Terminais]
    BY <2>1, <2>2 DEF ModeloFalhou, AposFalha, TipoRun
  <2>3. CASE AbrirDbt
    BY <2>1, <2>3 DEF AbrirDbt
  <2>4. CASE FimDbt
    BY <2>4 DEF FimDbt, TipoRun
  <2>5. ASSUME NEW e \in Entidades, RodarModelo(e) \/ FalhaModelo(e)
        PROVE  dti' \in [Entidades -> Pendente \cup Terminais]
    BY <2>2, <2>5 DEF RodarModelo, FalhaModelo
  <2>6. QED
    BY <2>3, <2>4, <2>5 DEF Dbt
<1>7. eventos' \in 0..runs' /\ (EmAberto' => eventos' < runs')
  <2>1. eventos <= runs /\ (EmAberto => eventos < runs)
    BY <1>3, RfbAssumption DEF TipoRun
  <2>2. QED
    BY <1>1, <1>2, <1>3, <2>1
<1>8. QED
  BY <1>1, <1>3, <1>4, <1>5, <1>6, <1>7 DEF TipoRun

LEMMA TipoRunPasso ==
    ASSUME TipoRun, Ordem, [Next]_vars
    PROVE  TipoRun'
<1>0. Ordem'
  BY OrdemPasso
<1>1. CASE Publica
  <2>1. publicado' \in 0..MaxMes
    BY <1>1, RfbAssumption DEF Publica, TipoRun
  <2>2. UNCHANGED <<mes, runs, ativo, dev, dbtAtivo, dti, falhas, eventos, ti>>
    BY <1>1 DEF Publica, dbtVars
  <2>3. QED
    BY <2>1, <2>2 DEF TipoRun, EmAberto
<1>2. CASE Operador
  <2>1. PICK m \in Meses, d \in BOOLEAN : AbrirRun(m, d)
    BY <1>2 DEF Operador
  <2>2. UNCHANGED <<publicado, eventos, dbtAtivo, dti, falhas>>
    BY <2>1 DEF AbrirRun, dbtVars
  <2>3. /\ ~ativo /\ runs < MaxRuns /\ ativo' = TRUE /\ runs' = runs + 1
        /\ mes' = m /\ dev' = d
    BY <2>1 DEF AbrirRun
  <2>4. runs' \in 0..MaxRuns /\ eventos' \in 0..runs' /\ eventos' < runs'
    <3>1. eventos \in 0..runs /\ runs \in Nat /\ MaxRuns \in Nat
      BY RfbAssumption DEF TipoRun
    <3>2. QED
      BY <2>2, <2>3, <3>1
  <2>5. QED
    BY <2>2, <2>3, <2>4 DEF TipoRun
<1>3. CASE FimRun
  <2>1. UNCHANGED <<publicado, mes, runs, dev, dbtAtivo, dti, falhas, eventos>> /\ ativo' = FALSE
    BY <1>3 DEF FimRun, dbtVars
  <2>2. ~EmAberto'
    BY <2>1 DEF EmAberto
  <2>3. QED
    BY <2>1, <2>2 DEF TipoRun
<1>4. CASE Dbt
  BY <1>4, TipoDbt
<1>5. CASE UNCHANGED vars
  BY <1>5 DEF TipoRun, EmAberto, vars, rfbVars, dbtVars
<1>6. ASSUME NEW g \in Grupos, PrepararTabela(g) \/ CopiarArquivo(g) PROVE TipoRun'
  BY <1>6 DEF PrepararTabela, CopiarArquivo, LandingUnchanged, rfbVars, dbtVars, TipoRun, EmAberto
<1>7. CASE EmitirAsset
  <2>1. UNCHANGED <<publicado, mes, runs, ativo, dev, dbtAtivo, dti, falhas>> /\ eventos' = eventos + 1
    BY <1>7 DEF EmitirAsset, rfbVars, dbtVars
  <2>2. EmAberto
    BY <1>7 DEF EmitirAsset, Pronta, Pendente, EmAberto
  <2>3. ti'[Landed] = "success"
    BY <1>7, MarcaDe, EmTarefas DEF EmitirAsset
  <2>4. ~EmAberto'
    BY <2>3 DEF EmAberto
  <2>5. eventos' \in 0..runs'
    <3>1. eventos \in 0..runs /\ eventos < runs /\ runs \in Nat
      BY <2>2, RfbAssumption DEF TipoRun
    <3>2. QED
      BY <2>1, <3>1
  <2>6. QED
    BY <2>1, <2>4, <2>5 DEF TipoRun
<1>8. CASE BaixarMes
  <2>1. ti'[Landed] = ti[Landed] /\ (UNCHANGED falhas \/ Falha)
    BY <1>8, BaixarMuda, OutraTarefa, EmTarefas, Distintas
  <2>2. QED
    BY <1>0, <1>8, <2>1, TipoTarefa DEF BaixarMes, dbtVars
<1>9. CASE ExtrairBronze
  <2>1. ti'[Landed] = ti[Landed] /\ (UNCHANGED falhas \/ Falha)
    BY <1>9, ExtrairMuda, OutraTarefa, EmTarefas, Distintas
  <2>2. QED
    BY <1>0, <1>9, <2>1, TipoTarefa DEF ExtrairBronze, dbtVars
<1>10. ASSUME NEW g \in Grupos, TransformarSilver(g) PROVE TipoRun'
  <2>1. Silver(g) # Landed
    BY Distintas
  <2>2. ti'[Landed] = ti[Landed] /\ (UNCHANGED falhas \/ Falha)
    BY <1>10, <2>1, TransformarMuda, OutraTarefa, EmTarefas
  <2>3. QED
    BY <1>0, <1>10, <2>2, TipoTarefa DEF TransformarSilver, dbtVars
<1>11. ASSUME NEW g \in Grupos, IniciarLanding(g) \/ FimLanding(g) \/ MorreLanding(g) PROVE TipoRun'
  <2>1. Landing(g) # Landed
    BY Distintas
  <2>2. ti'[Landed] = ti[Landed] /\ (UNCHANGED falhas \/ Falha)
    BY <1>11, <2>1, LandingMuda, OutraTarefa, EmTarefas
  <2>3. UNCHANGED <<rfbVars, eventos, dbtVars>>
    BY <1>11 DEF IniciarLanding, FimLanding, MorreLanding, LandingUnchanged
  <2>4. QED
    BY <1>0, <2>2, <2>3, TipoTarefa DEF dbtVars
<1>12. ASSUME NEW t \in Tarefas, Propagar(t) PROVE TipoRun'
  <2>1. ti[t] = "none" /\ \E s \in {"upstream_failed", "skipped"} : Marca(t, s)
    BY <1>12, PropagarMuda
  <2>2. ti'[Landed] = "success" <=> ti[Landed] = "success"
    BY <2>1, MarcaDe, EmTarefas
  <2>3. UNCHANGED <<rfbVars, eventos, dbtVars, falhas>>
    BY <1>12 DEF Propagar, LandingUnchanged
  <2>4. QED
    BY <1>0, <2>2, <2>3, TipoTarefa DEF dbtVars
<1>13. QED
  BY <1>1, <1>2, <1>3, <1>4, <1>5, <1>6, <1>7, <1>8, <1>9, <1>10, <1>11, <1>12, Passo DEF Alheio

-----------------------------------------------------------------------------
(* The tables. *)

LEMMA TabelasParadas ==
    ASSUME Tabelas, UNCHANGED <<cargaVars, gold>>
    PROVE  Tabelas'
BY DEF Tabelas, cargaVars

LEMMA TabelasModelo ==
    ASSUME Tabelas, NEW e \in Entidades, RodarModelo(e)
    PROVE  Tabelas'
<1>1. UNCHANGED <<landing, preparadas, copiados>>
  BY DEF RodarModelo, DbtUnchanged, cargaVars
<1>2. Novas(e) \subseteq BagToSet(landing)
  BY DEF Novas, DaTabela
<1>3. Constroi(e, Novas(e)) \subseteq gold[e] \cup Novas(e)
  BY DEF Constroi
<1>4. gold[e] \in SUBSET Linha /\ BagToSet(landing) \subseteq Linha
  BY DEF Tabelas
<1>5. Constroi(e, Novas(e)) \in SUBSET Linha
  BY <1>2, <1>3, <1>4
<1>6. gold' \in [Entidades -> SUBSET Linha]
  BY <1>5 DEF RodarModelo, Tabelas
<1>7. QED
  BY <1>1, <1>6 DEF Tabelas

\* What is left of a table once its partition is deleted.
LEMMA SemParticaoDe ==
    ASSUME NEW e, IsABag(landing), landing' = SemParticao(e)
    PROVE  /\ BagToSet(landing') = {r \in BagToSet(landing) : ~(Entidade[r.arq] = e /\ r.mes = mes)}
           /\ \A r \in BagToSet(landing') : landing'[r] = landing[r]
           /\ IsABag(landing')
BY DEF SemParticao, BagToSet, IsABag

\* A COPY of rows that are not there.
LEMMA CopiaDe ==
    ASSUME NEW S, IsABag(landing), landing' = landing (+) SetToBag(S),
           S \cap BagToSet(landing) = {}
    PROVE  /\ BagToSet(landing') = BagToSet(landing) \cup S
           /\ \A r \in BagToSet(landing) : landing'[r] = landing[r]
           /\ \A r \in S : landing'[r] = 1
           /\ IsABag(landing')
<1>1. DOMAIN SetToBag(S) = S /\ \A r \in S : SetToBag(S)[r] = 1
  BY DEF SetToBag
<1>2. /\ DOMAIN landing' = DOMAIN landing \cup S
      /\ \A r \in DOMAIN landing' :
           landing'[r] = (IF r \in DOMAIN landing THEN landing[r] ELSE 0)
                           + (IF r \in S THEN SetToBag(S)[r] ELSE 0)
      /\ landing' = [r \in DOMAIN landing' |-> landing'[r]]
  BY <1>1 DEF (+)
<1>3. landing \in [DOMAIN landing -> {n \in Nat : n > 0}]
  BY DEF IsABag
<1>4. \A r \in DOMAIN landing : landing[r] \in Nat /\ landing[r] > 0 /\ r \notin S
  BY <1>3 DEF BagToSet
<1>5. \A r \in DOMAIN landing : landing'[r] = landing[r]
  BY <1>2, <1>4
<1>6. \A r \in S : landing'[r] = 1
  BY <1>1, <1>2, <1>4
<1>7. \A r \in DOMAIN landing' : landing'[r] \in {n \in Nat : n > 0}
  BY <1>2, <1>4, <1>5, <1>6
<1>8. IsABag(landing')
  BY <1>2, <1>7 DEF IsABag
<1>9. QED
  BY <1>2, <1>5, <1>6, <1>8 DEF BagToSet

LEMMA PrepararEfeito ==
    ASSUME Tabelas, Ordem, Passos, NEW g \in Grupos, PrepararTabela(g)
    PROVE  /\ ti[Landing(g)] \in Vivos /\ Rodando(Landing(g))
           /\ \E e \in g :
                /\ e \notin preparadas[g] /\ e \in Entidades
                /\ landing' = SemParticao(e)
                /\ preparadas' = [preparadas EXCEPT ![g] = @ \cup {e}]
           /\ UNCHANGED <<copiados, gold, mes, ti>>
<1>1. Rodando(Landing(g)) /\ ti[Landing(g)] \in Vivos
  BY DEF PrepararTabela, Rodando, Vivos
<1>2. Proximo(g) \in ArquivosDe(g)
  BY ProximoDe DEF PrepararTabela
<1>3. Entidade[Proximo(g)] \in g /\ Entidade[Proximo(g)] \in Entidades
  BY <1>2, GruposDisjuntos DEF ArquivosDe
<1>4. QED
  BY <1>1, <1>3 DEF PrepararTabela, LandingUnchanged, dbtVars, rfbVars

LEMMA CopiarEfeito ==
    ASSUME TipoRun, Lago, Tabelas, Ordem, Passos, Cargas, NEW g \in Grupos, CopiarArquivo(g)
    PROVE  /\ ti[Landing(g)] \in Vivos /\ Rodando(Landing(g))
           /\ \E f \in ArquivosDe(g) \ copiados[g] :
                /\ Entidade[f] \in preparadas[g] /\ Linhas(f) \subseteq Linha
                /\ DoArquivo(f) = {} /\ Linhas(f) \cap BagToSet(landing) = {}
                /\ \A r \in Linhas(f) : r.arq = f /\ r.mes = mes
                /\ landing' = landing (+) SetToBag(Linhas(f))
                /\ copiados' = [copiados EXCEPT ![g] = @ \cup {f}]
           /\ UNCHANGED <<preparadas, gold, mes, ti, silver>>
<1> DEFINE f == Proximo(g)
<1>1. Rodando(Landing(g)) /\ ti[Landing(g)] \in Vivos
  BY DEF CopiarArquivo, Rodando, Vivos
<1>2. f \in ACopiar(g) /\ f \in ArquivosDe(g) /\ f \notin copiados[g] /\ f \in Arquivos
  BY ProximoDe DEF CopiarArquivo, ArquivosDe
<1>3. Entidade[f] \in preparadas[g]
  BY DEF CopiarArquivo
<1>4. <<mes, f>> \in DOMAIN silver
  BY <1>2 DEF ACopiar
<1>5. /\ landing' = landing (+) SetToBag(Linhas(f))
      /\ copiados' = [copiados EXCEPT ![g] = @ \cup {f}]
      /\ UNCHANGED <<preparadas, gold, mes, ti, silver>>
  BY DEF CopiarArquivo, LandingUnchanged, dbtVars, rfbVars, lago
<1> HIDE DEF f
<1>6. DoArquivo(f) = {}
  BY <1>1, <1>2, <1>3 DEF Cargas, CargaDe
<1>7. Linhas(f) \subseteq Linha /\ \A r \in Linhas(f) : r.arq = f /\ r.mes = mes
  BY <1>2, <1>4, LinhasDe
<1>8. Linhas(f) \cap BagToSet(landing) = {}
  BY <1>6, <1>7 DEF DoArquivo
<1>9. QED
  BY <1>1, <1>2, <1>3, <1>5, <1>6, <1>7, <1>8

LEMMA TabelasPasso ==
    ASSUME TipoRun, Lago, Tabelas, Ordem, Passos, Cargas, [Next]_vars
    PROVE  Tabelas'
<1>1. ASSUME NEW g \in Grupos, PrepararTabela(g) PROVE Tabelas'
  <2>1. PICK e \in g : /\ e \in Entidades /\ landing' = SemParticao(e)
                       /\ preparadas' = [preparadas EXCEPT ![g] = @ \cup {e}]
    BY <1>1, PrepararEfeito
  <2>2. UNCHANGED <<copiados, gold>>
    BY <1>1, PrepararEfeito
  <2>3. IsABag(landing') /\ BagToSet(landing') \subseteq BagToSet(landing)
    BY <2>1, SemParticaoDe DEF Tabelas
  <2>4. preparadas' \in [Grupos -> SUBSET Entidades] /\ \A h \in Grupos : preparadas'[h] \subseteq h
    BY <2>1 DEF Tabelas
  <2>5. QED
    BY <2>2, <2>3, <2>4 DEF Tabelas
<1>2. ASSUME NEW g \in Grupos, CopiarArquivo(g) PROVE Tabelas'
  <2>1. PICK f \in ArquivosDe(g) :
          /\ Linhas(f) \subseteq Linha /\ Linhas(f) \cap BagToSet(landing) = {}
          /\ landing' = landing (+) SetToBag(Linhas(f))
          /\ copiados' = [copiados EXCEPT ![g] = @ \cup {f}]
    BY <1>2, CopiarEfeito
  <2>2. UNCHANGED <<preparadas, gold>>
    BY <1>2, CopiarEfeito
  <2>3. IsABag(landing') /\ BagToSet(landing') = BagToSet(landing) \cup Linhas(f)
    BY <2>1, CopiaDe DEF Tabelas
  <2>4. f \in Arquivos
    BY DEF ArquivosDe
  <2>5. copiados' \in [Grupos -> SUBSET Arquivos] /\ \A h \in Grupos : copiados'[h] \subseteq ArquivosDe(h)
    BY <2>1, <2>4 DEF Tabelas
  <2>6. QED
    BY <2>1, <2>2, <2>3, <2>5 DEF Tabelas
<1>3. ASSUME NEW g \in Grupos, IniciarLanding(g) PROVE Tabelas'
  <2>1. /\ preparadas' = [preparadas EXCEPT ![g] = {}] /\ copiados' = [copiados EXCEPT ![g] = {}]
        /\ UNCHANGED <<landing, gold>>
    BY <1>3 DEF IniciarLanding, LandingUnchanged, dbtVars
  <2>2. QED
    BY <2>1 DEF Tabelas
<1>4. ASSUME NEW g \in Grupos, TransformarSilver(g) \/ FimLanding(g) \/ MorreLanding(g) PROVE Tabelas'
  BY <1>4, TabelasParadas DEF TransformarSilver, FimLanding, MorreLanding, LandingUnchanged, dbtVars
<1>5. CASE Dbt
  <2>1. ASSUME NEW e \in Entidades, RodarModelo(e) PROVE Tabelas'
    BY <2>1, TabelasModelo
  <2>2. CASE AbrirDbt \/ FimDbt \/ \E e \in Entidades : FalhaModelo(e)
    BY <2>2, TabelasParadas DEF AbrirDbt, FimDbt, FalhaModelo, DbtUnchanged
  <2>3. QED
    BY <1>5, <2>1, <2>2 DEF Dbt
<1>6. CASE Publica \/ FimRun \/ UNCHANGED vars
  BY <1>6, TabelasParadas DEF Publica, FimRun, vars, dbtVars
<1>7. CASE Operador \/ BaixarMes \/ ExtrairBronze \/ EmitirAsset
  BY <1>7, TabelasParadas DEF Operador, AbrirRun, BaixarMes, ExtrairBronze, EmitirAsset, dbtVars
<1>8. ASSUME NEW t \in Tarefas, Propagar(t) PROVE Tabelas'
  BY <1>8, TabelasParadas DEF Propagar, LandingUnchanged, dbtVars
<1>9. QED
  BY <1>1, <1>2, <1>3, <1>4, <1>5, <1>6, <1>7, <1>8, Passo DEF Alheio

-----------------------------------------------------------------------------
(* The steps of the run. *)

\* No task but t changes, and t is not one that a step of the lake waits for.
LEMMA PassosFicam ==
    ASSUME Passos, Cresce, mes' = mes,
           ti'[Download] = "success" => ti[Download] = "success",
           ti'[Bronze] = "success" => ti[Bronze] = "success",
           \A g \in Grupos : ti'[Silver(g)] = "success" => ti[Silver(g)] = "success"
    PROVE  Passos'
<1>1. ti'[Download] = "success" => Faltam' = {}
  BY DEF Passos, Faltam, Cresce
<1>2. DoMes(Arquivos)' = DoMes(Arquivos) /\ \A g \in Grupos : DoMes(ArquivosDe(g))' = DoMes(ArquivosDe(g))
  BY DEF DoMes, ArquivosDe
<1>3. ti'[Bronze] = "success" => DoMes(Arquivos)' \subseteq DOMAIN bronze'
  BY <1>2 DEF Passos, Cresce
<1>4. \A g \in Grupos : ti'[Silver(g)] = "success" => DoMes(ArquivosDe(g))' \subseteq DOMAIN silver'
  BY <1>2 DEF Passos, Cresce
<1>5. QED
  BY <1>1, <1>3, <1>4 DEF Passos

LEMMA PassosBaixar ==
    ASSUME Passos, Ordem, Cresce, BaixarMes
    PROVE  Passos'
<1>1. mes' = mes
  BY DEF BaixarMes, rfbVars
<1>2. ti'[Bronze] = ti[Bronze] /\ \A g \in Grupos : ti'[Silver(g)] = ti[Silver(g)]
  BY BaixarMuda, MarcaDe, EmTarefas, Distintas DEF Muda
<1>3. ti'[Download] = "success" => Faltam' = {}
  <2>1. ASSUME NEW A \in SUBSET Faltam, zips' = zips \cup DoMes(A), Termina(Download, A = Faltam),
               ti'[Download] = "success"
        PROVE  Faltam' = {}
    <3>1. A = Faltam
      <4>1. Falhou(Download) => \E s \in {"up_for_retry", "failed"} : Marca(Download, s)
        BY DEF Falhou, AposFalha
      <4>2. Falhou(Download) => ti'[Download] # "success"
        BY <4>1, MarcaDe, EmTarefas
      <4>3. QED
        BY <2>1, <4>2 DEF Termina
    <3>2. \A f \in Arquivos : <<mes, f>> \in zips'
      BY <2>1, <3>1 DEF Faltam, DoMes
    <3>3. QED
      BY <1>1, <3>2 DEF Faltam
  <2>2. CASE Marca(Download, "skipped") \/ Falhou(Download)
    <3>1. \E s \in {"skipped", "up_for_retry", "failed"} : Marca(Download, s)
      BY <2>2 DEF Falhou, AposFalha
    <3>2. QED
      BY <3>1, MarcaDe, EmTarefas
  <2>3. QED
    BY <2>1, <2>2 DEF BaixarMes
<1>4. DoMes(Arquivos)' = DoMes(Arquivos) /\ \A g \in Grupos : DoMes(ArquivosDe(g))' = DoMes(ArquivosDe(g))
  BY <1>1 DEF DoMes, ArquivosDe
<1>5. QED
  BY <1>2, <1>3, <1>4 DEF Passos, Cresce

LEMMA PassosExtrair ==
    ASSUME Passos, Ordem, Lago, Cresce, ExtrairBronze
    PROVE  Passos'
<1>1. mes' = mes
  BY DEF ExtrairBronze, rfbVars
<1>2. ti'[Download] = ti[Download] /\ \A g \in Grupos : ti'[Silver(g)] = ti[Silver(g)]
  BY ExtrairMuda, MarcaDe, EmTarefas, Distintas DEF Muda
<1>3. \A f \in Arquivos : <<mes, f>> \in zips
  <2>1. ti[Download] \in EstadosAcima(Bronze)
    BY AcimaDe DEF EstadosAcima
  <2>2. Faltam = {}
    BY <2>1 DEF ExtrairBronze, Pronta, Passos
  <2>3. QED
    BY <2>2 DEF Faltam
<1>4. ti'[Bronze] = "success" => DoMes(Arquivos) \subseteq DOMAIN bronze'
  <2>0. PICK P \in Pendentes :
          \E A \in SUBSET P : bronze' = Sobre(Sobe(A), bronze) /\ Termina(Bronze, A = P)
    BY DEF ExtrairBronze
  <2>1. PICK A \in SUBSET P : bronze' = Sobre(Sobe(A), bronze) /\ Termina(Bronze, A = P)
    BY <2>0
  <2>2. ASSUME ti'[Bronze] = "success" PROVE A = P
    <3>1. Falhou(Bronze) => \E s \in {"up_for_retry", "failed"} : Marca(Bronze, s)
      BY DEF Falhou, AposFalha
    <3>2. Falhou(Bronze) => ti'[Bronze] # "success"
      BY <3>1, MarcaDe, EmTarefas
    <3>3. QED
      BY <2>1, <2>2, <3>2 DEF Termina
  <2>3. DOMAIN Sobe(A) = DoMes(A)
    BY DEF Sobe
  <2>4. DOMAIN bronze' = DoMes(A) \cup DOMAIN bronze
    BY <2>1, <2>3 DEF Sobre
  <2>5. \A f \in Arquivos : f \in P \/ <<mes, f>> \in DOMAIN bronze
    BY <1>3 DEF Pendentes, SemParquet, ComZip
  <2>6. ASSUME A = P, NEW f \in Arquivos PROVE <<mes, f>> \in DOMAIN bronze'
    BY <2>4, <2>5, <2>6 DEF DoMes
  <2>7. QED
    BY <2>2, <2>6 DEF DoMes
<1>5. DoMes(Arquivos)' = DoMes(Arquivos) /\ \A g \in Grupos : DoMes(ArquivosDe(g))' = DoMes(ArquivosDe(g))
  BY <1>1 DEF DoMes, ArquivosDe
<1>6. ti'[Download] = "success" => Faltam' = {}
  BY <1>1, <1>2 DEF Passos, Faltam, Cresce
<1>7. QED
  BY <1>2, <1>4, <1>5, <1>6 DEF Passos, Cresce

LEMMA PassosTransformar ==
    ASSUME Passos, Ordem, Lago, Cresce, NEW g \in Grupos, TransformarSilver(g)
    PROVE  Passos'
<1>1. mes' = mes
  BY DEF TransformarSilver, rfbVars
<1>2. /\ ti'[Download] = ti[Download] /\ ti'[Bronze] = ti[Bronze]
      /\ \A h \in Grupos : h # g => ti'[Silver(h)] = ti[Silver(h)]
  BY TransformarMuda, MarcaDe, EmTarefas, Distintas DEF Muda
<1>3. DoMes(Arquivos) \subseteq DOMAIN bronze
  <2>1. ti[Bronze] \in EstadosAcima(Silver(g))
    BY AcimaDe DEF EstadosAcima
  <2>2. QED
    BY <2>1 DEF TransformarSilver, Pronta, Passos
<1>4. ti'[Silver(g)] = "success" => DoMes(ArquivosDe(g)) \subseteq DOMAIN silver'
  <2> DEFINE N(A) == [p \in DoMes(A) |-> [linhas |-> bronze[p], ts |-> relogio + Ate(p[2], A)]]
  <2>1. PICK A \in SUBSET SemSilver(g) :
          silver' = Sobre(N(A), silver) /\ Termina(Silver(g), A = SemSilver(g))
    BY DEF TransformarSilver
  <2>2. ASSUME ti'[Silver(g)] = "success" PROVE A = SemSilver(g)
    <3>1. Falhou(Silver(g)) => \E s \in {"up_for_retry", "failed"} : Marca(Silver(g), s)
      BY DEF Falhou, AposFalha
    <3>2. Falhou(Silver(g)) => ti'[Silver(g)] # "success"
      BY <3>1, MarcaDe, EmTarefas
    <3>3. QED
      BY <2>1, <2>2, <3>2 DEF Termina
  <2>3. DOMAIN N(A) = DoMes(A)
    OBVIOUS
  <2> HIDE DEF N
  <2>4. DOMAIN silver' = DoMes(A) \cup DOMAIN silver
    BY <2>1, <2>3 DEF Sobre
  <2>5. \A f \in ArquivosDe(g) : f \in Arquivos /\ <<mes, f>> \in DOMAIN bronze
    BY <1>3 DEF ArquivosDe, DoMes
  <2>6. \A f \in ArquivosDe(g) : f \in SemSilver(g) \/ <<mes, f>> \in DOMAIN silver
    BY <2>5 DEF SemSilver
  <2>7. ASSUME A = SemSilver(g), NEW f \in ArquivosDe(g) PROVE <<mes, f>> \in DOMAIN silver'
    BY <2>4, <2>6, <2>7 DEF DoMes
  <2>8. QED
    BY <2>2, <2>7 DEF DoMes
<1>5. DoMes(Arquivos)' = DoMes(Arquivos) /\ \A h \in Grupos : DoMes(ArquivosDe(h))' = DoMes(ArquivosDe(h))
  BY <1>1 DEF DoMes, ArquivosDe
<1>6. ti'[Download] = "success" => Faltam' = {}
  BY <1>1, <1>2 DEF Passos, Faltam, Cresce
<1>7. QED
  BY <1>2, <1>4, <1>5, <1>6 DEF Passos, Cresce

LEMMA PassosPasso ==
    ASSUME Passos, Ordem, Lago, TipoRun, [Next]_vars
    PROVE  Passos'
<1>0. Cresce
  BY LagoPasso
<1>1. CASE Alheio
  BY <1>0, <1>1, AlheioTi, PassosFicam
<1>2. CASE Operador
  <2>1. \A t \in Tarefas : ti'[t] = "none"
    BY <1>2 DEF Operador, AbrirRun
  <2>2. QED
    BY <2>1, EmTarefas DEF Passos
<1>3. CASE BaixarMes
  BY <1>0, <1>3, PassosBaixar
<1>4. CASE ExtrairBronze
  BY <1>0, <1>4, PassosExtrair
<1>5. CASE EmitirAsset
  <2>1. mes' = mes
    BY <1>5 DEF EmitirAsset, rfbVars
  <2>2. /\ ti'[Download] = ti[Download] /\ ti'[Bronze] = ti[Bronze]
        /\ \A g \in Grupos : ti'[Silver(g)] = ti[Silver(g)]
    BY <1>5, EmitirMuda, MarcaDe, EmTarefas, Distintas DEF Muda
  <2>3. QED
    BY <1>0, <2>1, <2>2, PassosFicam
<1>6. ASSUME NEW g \in Grupos, TransformarSilver(g) PROVE Passos'
  BY <1>0, <1>6, PassosTransformar
<1>7. ASSUME NEW g \in Grupos, IniciarLanding(g) \/ FimLanding(g) \/ MorreLanding(g) PROVE Passos'
  <2>1. mes' = mes
    BY <1>7 DEF IniciarLanding, FimLanding, MorreLanding, LandingUnchanged, rfbVars
  <2>2. /\ ti'[Download] = ti[Download] /\ ti'[Bronze] = ti[Bronze]
        /\ \A h \in Grupos : ti'[Silver(h)] = ti[Silver(h)]
    BY <1>7, LandingMuda, MarcaDe, EmTarefas, Distintas DEF Muda
  <2>3. QED
    BY <1>0, <2>1, <2>2, PassosFicam
<1>8. ASSUME NEW t \in Tarefas, Propagar(t) PROVE Passos'
  <2>1. mes' = mes
    BY <1>8 DEF Propagar, LandingUnchanged, rfbVars
  <2>2. \A u \in Tarefas : ti'[u] = "success" => ti[u] = "success"
    BY <1>8, PropagarMuda, MarcaDe
  <2>3. QED
    BY <1>0, <2>1, <2>2, PassosFicam, EmTarefas
<1>9. QED
  BY <1>1, <1>2, <1>3, <1>4, <1>5, <1>6, <1>7, <1>8, Passo

-----------------------------------------------------------------------------
(* The loads. *)

LEMMA LinhasFicam ==
    ASSUME Cresce, mes' = mes, NEW f \in Arquivos, <<mes, f>> \in DOMAIN silver
    PROVE  Linhas(f)' = Linhas(f)
BY DEF Linhas, Cresce

\* A step that keeps the rows of the files of a group, and does not move its
\* landing task forward, keeps what is known of its load.
LEMMA CargaFica ==
    ASSUME Ordem, Passos, Tabelas, Cresce, NEW g \in Grupos, CargaDe(g), mes' = mes,
           preparadas'[g] = preparadas[g], copiados'[g] = copiados[g],
           ti'[Landing(g)] \in Correndo => ti[Landing(g)] \in Correndo,
           ti'[Landing(g)] = "success" =>
               \/ ti[Landing(g)] = "success"
               \/ Rodando(Landing(g)) /\ copiados[g] = ArquivosDe(g),
           \A f \in ArquivosDe(g) : /\ DoArquivo(f)' = DoArquivo(f)
                                    /\ \A r \in DoArquivo(f) : landing'[r] = landing[r]
    PROVE  CargaDe(g)'
<1>1. ASSUME NEW f \in ArquivosDe(g), ti[Landing(g)] \in Vivos, Inteiro(f) PROVE Inteiro(f)'
  <2>1. f \in Arquivos /\ <<mes, f>> \in DOMAIN silver
    BY <1>1, SilverPronto DEF ArquivosDe, DoMes
  <2>2. Linhas(f)' = Linhas(f)
    BY <2>1, LinhasFicam
  <2>3. DoArquivo(f)' = Linhas(f)' /\ \A r \in Linhas(f)' : landing'[r] = 1
    BY <1>1, <2>2 DEF Inteiro
  <2>4. QED
    BY <2>3 DEF Inteiro
<1>2. ASSUME ti'[Landing(g)] \in Correndo, NEW f \in copiados[g]
      PROVE  Entidade[f] \in preparadas[g] /\ Inteiro(f)'
  <2>1. ti[Landing(g)] \in Correndo
    BY <1>2
  <2>2. Entidade[f] \in preparadas[g] /\ Inteiro(f)
    BY <1>2, <2>1 DEF CargaDe, Rodando
  <2>3. f \in ArquivosDe(g) /\ ti[Landing(g)] \in Vivos
    BY <1>2, <2>1 DEF Tabelas, Vivos
  <2>4. QED
    BY <1>1, <2>2, <2>3
<1>3. ASSUME ti'[Landing(g)] \in Correndo, NEW f \in Arquivos \ copiados[g], Entidade[f] \in preparadas[g]
      PROVE  DoArquivo(f)' = {}
  <2>1. DoArquivo(f) = {}
    BY <1>3 DEF CargaDe, Rodando
  <2>2. f \in ArquivosDe(g)
    BY <1>3 DEF Tabelas, ArquivosDe
  <2>3. QED
    BY <2>1, <2>2
<1>4. ASSUME ti'[Landing(g)] = "success", NEW f \in ArquivosDe(g) PROVE Inteiro(f)'
  <2>1. Inteiro(f) /\ ti[Landing(g)] \in Vivos
    BY <1>4 DEF CargaDe, Vivos, Rodando
  <2>2. QED
    BY <1>1, <2>1
<1>5. QED
  BY <1>2, <1>3, <1>4 DEF CargaDe, Rodando

LEMMA MesmasLinhas ==
    ASSUME UNCHANGED <<landing, mes>>, NEW f
    PROVE  DoArquivo(f)' = DoArquivo(f) /\ \A r \in DoArquivo(f) : landing'[r] = landing[r]
BY DEF DoArquivo

\* A step that leaves the landing tables and the landing tasks alone.
LEMMA CargasFicam ==
    ASSUME Ordem, Passos, Tabelas, Cresce, Cargas, UNCHANGED <<cargaVars, mes>>,
           \A g \in Grupos : ti'[Landing(g)] \in Correndo \cup {"success"} =>
                             ti'[Landing(g)] = ti[Landing(g)]
    PROVE  Cargas'
<1>1. ASSUME NEW g \in Grupos PROVE CargaDe(g)'
  <2>1. CargaDe(g)
    BY DEF Cargas
  <2>2. UNCHANGED <<landing, preparadas, copiados, mes>>
    BY DEF cargaVars
  <2>3. \A f \in ArquivosDe(g) : /\ DoArquivo(f)' = DoArquivo(f)
                                 /\ \A r \in DoArquivo(f) : landing'[r] = landing[r]
    BY <2>2, MesmasLinhas
  <2>4. /\ ti'[Landing(g)] \in Correndo => ti[Landing(g)] \in Correndo
        /\ ti'[Landing(g)] = "success" => ti[Landing(g)] = "success"
    OBVIOUS
  <2>5. QED
    BY <2>1, <2>2, <2>3, <2>4, CargaFica
<1>2. QED
  BY <1>1 DEF Cargas

\* Files of a group have their entities in it.
LEMMA OutroGrupo ==
    ASSUME NEW g \in Grupos, NEW h \in Grupos, g # h, NEW f \in ArquivosDe(h)
    PROVE  Entidade[f] \notin g /\ f \notin ArquivosDe(g)
BY GruposDisjuntos DEF ArquivosDe

LEMMA CargasIniciar ==
    ASSUME Ordem, Passos, Tabelas, Cresce, Cargas, NEW g \in Grupos, IniciarLanding(g)
    PROVE  Cargas'
<1>1. /\ preparadas' = [preparadas EXCEPT ![g] = {}] /\ copiados' = [copiados EXCEPT ![g] = {}]
      /\ UNCHANGED <<landing, mes>>
  BY DEF IniciarLanding, LandingUnchanged, rfbVars
<1>2. preparadas'[g] = {} /\ \A h \in Grupos : h # g => preparadas'[h] = preparadas[h]
  BY <1>1 DEF Tabelas
<1>3. copiados'[g] = {} /\ \A h \in Grupos : h # g => copiados'[h] = copiados[h]
  BY <1>1 DEF Tabelas
<1>4. \E s \in {"running", "rerunning"} : Marca(Landing(g), s)
  BY DEF IniciarLanding
<1>5. ti'[Landing(g)] # "success" /\ \A h \in Grupos : h # g => ti'[Landing(h)] = ti[Landing(h)]
  BY <1>4, MarcaDe, EmTarefas, Distintas
<1>6. CargaDe(g)'
  BY <1>2, <1>3, <1>5 DEF CargaDe
<1>7. ASSUME NEW h \in Grupos, h # g PROVE CargaDe(h)'
  <2>1. CargaDe(h) /\ mes' = mes
    BY <1>1 DEF Cargas
  <2>2. \A f \in ArquivosDe(h) : /\ DoArquivo(f)' = DoArquivo(f)
                                 /\ \A r \in DoArquivo(f) : landing'[r] = landing[r]
    BY <1>1, MesmasLinhas
  <2>3. /\ preparadas'[h] = preparadas[h] /\ copiados'[h] = copiados[h]
        /\ ti'[Landing(h)] = ti[Landing(h)]
    BY <1>2, <1>3, <1>5, <1>7
  <2>4. QED
    BY <2>1, <2>2, <2>3, CargaFica
<1>8. QED
  BY <1>6, <1>7 DEF Cargas

LEMMA CargasFim ==
    ASSUME Ordem, Passos, Tabelas, Cresce, Cargas, NEW g \in Grupos, FimLanding(g) \/ MorreLanding(g)
    PROVE  Cargas'
<1>1. UNCHANGED <<landing, preparadas, copiados, mes>> /\ Rodando(Landing(g))
  BY DEF FimLanding, MorreLanding, LandingUnchanged, cargaVars, rfbVars
<1>2. PICK s \in {"success", "up_for_retry", "failed"} :
        Marca(Landing(g), s) /\ (s = "success" => FimLanding(g))
  <2>1. CASE FimLanding(g)
    BY <2>1, TerminaMarca, EmTarefas DEF FimLanding
  <2>2. CASE MorreLanding(g)
    BY <2>2 DEF MorreLanding, Falhou, AposFalha
  <2>3. QED
    BY <2>1, <2>2
<1>3. ti'[Landing(g)] = s /\ \A h \in Grupos : h # g => ti'[Landing(h)] = ti[Landing(h)]
  BY <1>2, MarcaDe, EmTarefas, Distintas
<1>4. s = "success" => copiados[g] = ArquivosDe(g)
  <2>1. ti[Landing(g)] \in Vivos
    BY <1>1 DEF Rodando, Vivos
  <2>2. ACopiar(g) = ArquivosDe(g) \ copiados[g]
    BY <2>1, ACopiarDe
  <2>3. FimLanding(g) => ACopiar(g) = {}
    BY DEF FimLanding
  <2>4. QED
    BY <1>2, <2>2, <2>3 DEF Tabelas
<1>5. s \notin Correndo
  BY DEF Correndo
<1>6. ASSUME NEW h \in Grupos PROVE CargaDe(h)'
  <2>1. CargaDe(h) /\ mes' = mes /\ preparadas'[h] = preparadas[h] /\ copiados'[h] = copiados[h]
    BY <1>1 DEF Cargas
  <2>2. \A f \in ArquivosDe(h) : /\ DoArquivo(f)' = DoArquivo(f)
                                 /\ \A r \in DoArquivo(f) : landing'[r] = landing[r]
    BY <1>1, MesmasLinhas
  <2>3. /\ ti'[Landing(h)] \in Correndo => ti[Landing(h)] \in Correndo
        /\ ti'[Landing(h)] = "success" =>
               \/ ti[Landing(h)] = "success"
               \/ Rodando(Landing(h)) /\ copiados[h] = ArquivosDe(h)
    BY <1>1, <1>3, <1>4, <1>5
  <2>4. QED
    BY <2>1, <2>2, <2>3, CargaFica
<1>7. QED
  BY <1>6 DEF Cargas

LEMMA CargasPreparar ==
    ASSUME Ordem, Passos, Tabelas, Cresce, Cargas, NEW g \in Grupos, PrepararTabela(g)
    PROVE  Cargas'
<1>1. PICK e \in g : /\ e \notin preparadas[g] /\ landing' = SemParticao(e)
                     /\ preparadas' = [preparadas EXCEPT ![g] = @ \cup {e}]
  BY PrepararEfeito
<1>2. UNCHANGED <<copiados, mes, ti>> /\ Rodando(Landing(g)) /\ ti[Landing(g)] \in Vivos
  BY PrepararEfeito
<1>3. /\ BagToSet(landing') = {r \in BagToSet(landing) : ~(Entidade[r.arq] = e /\ r.mes = mes)}
      /\ \A r \in BagToSet(landing') : landing'[r] = landing[r]
  BY <1>1, SemParticaoDe DEF Tabelas
<1>4. ASSUME NEW f, Entidade[f] # e
      PROVE  DoArquivo(f)' = DoArquivo(f) /\ \A r \in DoArquivo(f) : landing'[r] = landing[r]
  BY <1>2, <1>3, <1>4 DEF DoArquivo
<1>5. ASSUME NEW f, Entidade[f] = e PROVE DoArquivo(f)' = {}
  BY <1>2, <1>3, <1>5 DEF DoArquivo
<1>6. /\ preparadas'[g] = preparadas[g] \cup {e}
      /\ \A h \in Grupos : h # g => preparadas'[h] = preparadas[h]
  BY <1>1 DEF Tabelas
<1>7. ASSUME NEW h \in Grupos, h # g PROVE CargaDe(h)'
  <2>1. \A f \in ArquivosDe(h) : Entidade[f] # e
    BY <1>7, OutroGrupo
  <2>2. \A f \in ArquivosDe(h) : /\ DoArquivo(f)' = DoArquivo(f)
                                 /\ \A r \in DoArquivo(f) : landing'[r] = landing[r]
    BY <1>4, <2>1
  <2>3. /\ CargaDe(h) /\ mes' = mes /\ preparadas'[h] = preparadas[h]
        /\ copiados'[h] = copiados[h] /\ ti'[Landing(h)] = ti[Landing(h)]
    BY <1>2, <1>6, <1>7 DEF Cargas
  <2>4. QED
    BY <2>2, <2>3, CargaFica
<1>8. CargaDe(g)'
  <2>1. ASSUME NEW f \in copiados[g] PROVE Entidade[f] \in preparadas[g] /\ Inteiro(f)'
    <3>1. Entidade[f] \in preparadas[g] /\ Inteiro(f) /\ f \in ArquivosDe(g)
      BY <1>2, <2>1 DEF Cargas, CargaDe, Tabelas
    <3>2. f \in Arquivos /\ <<mes, f>> \in DOMAIN silver
      BY <1>2, <3>1, SilverPronto DEF ArquivosDe, DoMes
    <3>3. Linhas(f)' = Linhas(f)
      BY <1>2, <3>2, LinhasFicam
    <3>4. Entidade[f] # e
      BY <1>1, <3>1
    <3>5. DoArquivo(f)' = DoArquivo(f) /\ \A r \in DoArquivo(f) : landing'[r] = landing[r]
      BY <1>4, <3>4
    <3>6. DoArquivo(f)' = Linhas(f)' /\ \A r \in Linhas(f)' : landing'[r] = 1
      BY <3>1, <3>3, <3>5 DEF Inteiro
    <3>7. QED
      BY <3>1, <3>6 DEF Inteiro
  <2>2. ASSUME NEW f \in Arquivos \ copiados[g], Entidade[f] \in preparadas[g] \cup {e}
        PROVE  DoArquivo(f)' = {}
    <3>1. CASE Entidade[f] = e
      BY <1>5, <3>1
    <3>2. CASE Entidade[f] # e
      <4>1. DoArquivo(f) = {}
        BY <1>2, <2>2, <3>2 DEF Cargas, CargaDe
      <4>2. QED
        BY <1>4, <3>2, <4>1
    <3>3. QED
      BY <3>1, <3>2
  <2>3. ti'[Landing(g)] # "success"
    BY <1>2 DEF Rodando, Correndo
  <2>4. QED
    BY <1>2, <1>6, <2>1, <2>2, <2>3 DEF CargaDe
<1>9. QED
  BY <1>7, <1>8 DEF Cargas

LEMMA CargasCopiar ==
    ASSUME TipoRun, Lago, Ordem, Passos, Tabelas, Cresce, Cargas, NEW g \in Grupos, CopiarArquivo(g)
    PROVE  Cargas'
<1>1. PICK f \in ArquivosDe(g) \ copiados[g] :
        /\ Entidade[f] \in preparadas[g] /\ DoArquivo(f) = {}
        /\ Linhas(f) \cap BagToSet(landing) = {} /\ \A r \in Linhas(f) : r.arq = f /\ r.mes = mes
        /\ landing' = landing (+) SetToBag(Linhas(f))
        /\ copiados' = [copiados EXCEPT ![g] = @ \cup {f}]
  BY CopiarEfeito
<1>2. UNCHANGED <<preparadas, mes, ti>> /\ Rodando(Landing(g)) /\ ti[Landing(g)] \in Vivos
  BY CopiarEfeito
<1>3. /\ BagToSet(landing') = BagToSet(landing) \cup Linhas(f)
      /\ \A r \in BagToSet(landing) : landing'[r] = landing[r]
      /\ \A r \in Linhas(f) : landing'[r] = 1
  BY <1>1, CopiaDe DEF Tabelas
<1>4. ASSUME NEW x, x # f
      PROVE  DoArquivo(x)' = DoArquivo(x) /\ \A r \in DoArquivo(x) : landing'[r] = landing[r]
  BY <1>1, <1>2, <1>3, <1>4 DEF DoArquivo
<1>5. /\ copiados'[g] = copiados[g] \cup {f}
      /\ \A h \in Grupos : h # g => copiados'[h] = copiados[h]
  BY <1>1 DEF Tabelas
<1>6. \A x \in ArquivosDe(g) : x \in Arquivos /\ <<mes, x>> \in DOMAIN silver
  BY <1>2, SilverPronto DEF ArquivosDe, DoMes
<1>7. ASSUME NEW h \in Grupos, h # g PROVE CargaDe(h)'
  <2>1. \A x \in ArquivosDe(h) : x # f
    BY <1>1, <1>7, OutroGrupo
  <2>2. \A x \in ArquivosDe(h) : /\ DoArquivo(x)' = DoArquivo(x)
                                 /\ \A r \in DoArquivo(x) : landing'[r] = landing[r]
    BY <1>4, <2>1
  <2>3. /\ CargaDe(h) /\ mes' = mes /\ preparadas'[h] = preparadas[h]
        /\ copiados'[h] = copiados[h] /\ ti'[Landing(h)] = ti[Landing(h)]
    BY <1>2, <1>5, <1>7 DEF Cargas
  <2>4. QED
    BY <2>2, <2>3, CargaFica
<1>8. CargaDe(g)'
  <2>1. ASSUME NEW x \in copiados[g] PROVE Entidade[x] \in preparadas[g] /\ Inteiro(x)'
    <3>1. Entidade[x] \in preparadas[g] /\ Inteiro(x) /\ x \in ArquivosDe(g)
      BY <1>2, <2>1 DEF Cargas, CargaDe, Tabelas
    <3>2. Linhas(x)' = Linhas(x)
      BY <1>2, <1>6, <3>1, LinhasFicam
    <3>3. DoArquivo(x)' = DoArquivo(x) /\ \A r \in DoArquivo(x) : landing'[r] = landing[r]
      BY <1>1, <1>4, <2>1
    <3>4. DoArquivo(x)' = Linhas(x)' /\ \A r \in Linhas(x)' : landing'[r] = 1
      BY <3>1, <3>2, <3>3 DEF Inteiro
    <3>5. QED
      BY <3>1, <3>4 DEF Inteiro
  <2>2. Inteiro(f)'
    <3>1. Linhas(f)' = Linhas(f)
      BY <1>1, <1>2, <1>6, LinhasFicam
    <3>2. DoArquivo(f)' = Linhas(f)
      BY <1>1, <1>2, <1>3 DEF DoArquivo
    <3>3. QED
      BY <1>3, <3>1, <3>2 DEF Inteiro
  <2>3. ASSUME NEW x \in Arquivos \ (copiados[g] \cup {f}), Entidade[x] \in preparadas[g]
        PROVE  DoArquivo(x)' = {}
    <3>1. DoArquivo(x) = {}
      BY <1>2, <2>3 DEF Cargas, CargaDe
    <3>2. QED
      BY <1>4, <2>3, <3>1
  <2>4. ti'[Landing(g)] # "success"
    BY <1>2 DEF Rodando, Correndo
  <2>5. QED
    BY <1>1, <1>2, <1>5, <2>1, <2>2, <2>3, <2>4 DEF CargaDe
<1>9. QED
  BY <1>7, <1>8 DEF Cargas

LEMMA CargasPasso ==
    ASSUME IInv, [Next]_vars
    PROVE  Cargas'
<1>0. TipoRun /\ Lago /\ Tabelas /\ Ordem /\ Passos /\ Cargas /\ Cresce
  BY LagoPasso DEF IInv
<1>1. CASE Publica \/ FimRun \/ UNCHANGED vars
  <2>1. UNCHANGED <<cargaVars, mes, ti>>
    BY <1>1 DEF Publica, FimRun, vars, rfbVars
  <2>2. QED
    BY <1>0, <2>1, CargasFicam
<1>2. CASE Dbt
  <2>1. UNCHANGED <<cargaVars, mes, ti>>
    BY <1>2 DEF Dbt, AbrirDbt, FimDbt, RodarModelo, FalhaModelo, DbtUnchanged, rfbVars
  <2>2. QED
    BY <1>0, <2>1, CargasFicam
<1>3. CASE Operador
  <2>1. \A t \in Tarefas : ti'[t] = "none"
    BY <1>3 DEF Operador, AbrirRun
  <2>2. \A g \in Grupos : ti'[Landing(g)] \notin Correndo \cup {"success"}
    BY <2>1, EmTarefas DEF Correndo
  <2>3. QED
    BY <2>2 DEF Cargas, CargaDe, Rodando
<1>4. CASE BaixarMes
  <2>1. UNCHANGED <<cargaVars, mes>>
    BY <1>4 DEF BaixarMes, rfbVars
  <2>2. \A g \in Grupos : ti'[Landing(g)] = ti[Landing(g)]
    BY <1>0, <1>4, BaixarMuda, MarcaDe, EmTarefas, Distintas DEF Muda
  <2>3. QED
    BY <1>0, <2>1, <2>2, CargasFicam
<1>5. CASE ExtrairBronze
  <2>1. UNCHANGED <<cargaVars, mes>>
    BY <1>5 DEF ExtrairBronze, rfbVars
  <2>2. \A g \in Grupos : ti'[Landing(g)] = ti[Landing(g)]
    BY <1>0, <1>5, ExtrairMuda, MarcaDe, EmTarefas, Distintas DEF Muda
  <2>3. QED
    BY <1>0, <2>1, <2>2, CargasFicam
<1>6. CASE EmitirAsset
  <2>1. UNCHANGED <<cargaVars, mes>>
    BY <1>6 DEF EmitirAsset, rfbVars
  <2>2. \A g \in Grupos : ti'[Landing(g)] = ti[Landing(g)]
    BY <1>0, <1>6, EmitirMuda, MarcaDe, EmTarefas, Distintas DEF Muda
  <2>3. QED
    BY <1>0, <2>1, <2>2, CargasFicam
<1>7. ASSUME NEW g \in Grupos, TransformarSilver(g) PROVE Cargas'
  <2>1. UNCHANGED <<cargaVars, mes>>
    BY <1>7 DEF TransformarSilver, rfbVars
  <2>2. \A h \in Grupos : ti'[Landing(h)] = ti[Landing(h)]
    BY <1>0, <1>7, TransformarMuda, MarcaDe, EmTarefas, Distintas DEF Muda
  <2>3. QED
    BY <1>0, <2>1, <2>2, CargasFicam
<1>8. ASSUME NEW g \in Grupos, IniciarLanding(g) PROVE Cargas'
  BY <1>0, <1>8, CargasIniciar
<1>9. ASSUME NEW g \in Grupos, FimLanding(g) \/ MorreLanding(g) PROVE Cargas'
  BY <1>0, <1>9, CargasFim
<1>10. ASSUME NEW g \in Grupos, PrepararTabela(g) PROVE Cargas'
  BY <1>0, <1>10, CargasPreparar
<1>11. ASSUME NEW g \in Grupos, CopiarArquivo(g) PROVE Cargas'
  BY <1>0, <1>11, CargasCopiar
<1>12. ASSUME NEW t \in Tarefas, Propagar(t) PROVE Cargas'
  <2>1. UNCHANGED <<cargaVars, mes>>
    BY <1>12 DEF Propagar, LandingUnchanged, rfbVars
  <2>2. \A u \in Tarefas : ti'[u] \in {"upstream_failed", "skipped"} \/ ti'[u] = ti[u]
    BY <1>0, <1>12, PropagarMuda, MarcaDe
  <2>3. \A g \in Grupos : ti'[Landing(g)] \in Correndo \cup {"success"} =>
                          ti'[Landing(g)] = ti[Landing(g)]
    BY <2>2, EmTarefas DEF Correndo
  <2>4. QED
    BY <1>0, <2>1, <2>3, CargasFicam
<1>13. QED
  BY <1>1, <1>2, <1>3, <1>4, <1>5, <1>6, <1>7, <1>8, <1>9, <1>10, <1>11, <1>12, Passo DEF Alheio

-----------------------------------------------------------------------------
(* Theorems. *)

LEMMA Inicio == Init => IInv
<1> SUFFICES ASSUME Init PROVE IInv
  OBVIOUS
<1>1. \A t \in Tarefas : ti[t] = "none"
  BY DEF Init
<1>2. "none" \in Estados /\ "none" \notin Vivos /\ "none" \notin Correndo
  BY DEF Estados, Vivos, Pendente, Correndo
<1>3. Ordem
  BY <1>1, <1>2 DEF Init, Ordem
<1>4. Passos
  BY <1>1, EmTarefas DEF Passos
<1>5. Cargas
  BY <1>1, <1>2, EmTarefas DEF Cargas, CargaDe, Rodando
<1>6. TipoRun
  <2>1. mes \in Meses /\ publicado \in 0..MaxMes /\ runs \in 0..MaxRuns /\ falhas \in 0..MaxFalhas
    BY RfbAssumption DEF Init, Meses
  <2>2. dti \in [Entidades -> Pendente \cup Terminais]
    BY DEF Init, Pendente
  <2>3. eventos \in 0..runs /\ ~EmAberto
    BY DEF Init, EmAberto
  <2>4. ativo \in BOOLEAN /\ dev \in BOOLEAN /\ dbtAtivo \in BOOLEAN
    BY DEF Init
  <2>5. QED
    BY <2>1, <2>2, <2>3, <2>4 DEF TipoRun
<1>7. Lago
  BY DEF Init, Lago
<1>8. Tabelas
  BY DEF Init, Tabelas, EmptyBag, SetToBag, BagToSet, IsABag
<1>9. QED
  BY <1>3, <1>4, <1>5, <1>6, <1>7, <1>8 DEF IInv

LEMMA Invariante == Spec => []IInv
<1>1. IInv /\ [Next]_vars => IInv'
  <2> SUFFICES ASSUME IInv, [Next]_vars PROVE IInv'
    OBVIOUS
  <2>1. TipoRun /\ Lago /\ Tabelas /\ Ordem /\ Passos /\ Cargas
    BY DEF IInv
  <2>2. TipoRun' /\ Lago' /\ Ordem'
    BY <2>1, TipoRunPasso, LagoPasso, OrdemPasso
  <2>3. Tabelas' /\ Passos' /\ Cargas'
    BY <2>1, TabelasPasso, PassosPasso, CargasPasso
  <2>4. QED
    BY <2>2, <2>3 DEF IInv
<1>2. QED
  BY <1>1, Inicio, PTL DEF Spec

\* The state keeps its shape for every month, file and entity and any number of
\* runs and failures: no layer has an object the one below it lacks, and no run
\* emits more than one landing event (EmitirAsset).
THEOREM Tipos == Spec => []TypeOK
<1>1. IInv => TypeOK
  <2> SUFFICES ASSUME IInv PROVE TypeOK
    OBVIOUS
  <2>1. TipoRun /\ Lago /\ Tabelas /\ Ordem
    BY DEF IInv
  <2>2. eventos \in 0..MaxRuns
    <3>1. runs \in 0..MaxRuns /\ eventos \in 0..runs /\ MaxRuns \in Nat
      BY <2>1, RfbAssumption DEF TipoRun
    <3>2. QED
      BY <3>1
  <2>3. \A p \in DOMAIN silver : silver[p].linhas \subseteq Chaves
    <3> TAKE p \in DOMAIN silver
    <3>1. p \in Meses \X Arquivos /\ silver[p].linhas \in {Conteudo[p], Amostra[p]}
      BY <2>1 DEF Lago
    <3>2. QED
      BY <3>1, RfbAssumption
  <2>4. {ativo, dev, dbtAtivo} \subseteq BOOLEAN
    BY <2>1 DEF TipoRun
  <2>5. QED
    BY <2>1, <2>2, <2>3, <2>4 DEF TypeOK, TipoRun, Lago, Tabelas, Ordem, Estados
<1>2. QED
  BY <1>1, Invariante, PTL

\* When a run reaches "landed" every file of its month is in the landing tables
\* once and whole, or as the sample dev_mode took of it, with the rows and the
\* time of its silver object, whatever failed or was retried in it and in the
\* runs before (PrepararTabela, CopiarArquivo) and whatever bronze objects were
\* made again over others (ExtrairBronze, rfb02_s3_unzip_bronze.py:91-96).
THEOREM CamadasSempreInteiras == Spec => []CamadasInteiras
<1>1. IInv => CamadasInteiras
  <2> SUFFICES ASSUME IInv PROVE CamadasInteiras
    OBVIOUS
  <2>1. TipoRun /\ Lago /\ Tabelas /\ Ordem /\ Passos /\ Cargas
    BY DEF IInv
  <2>2. LagoInteiro
    BY <2>1 DEF LagoInteiro, Inteira, Lago
  <2>3. ASSUME ti[Landed] = "success", NEW f \in Arquivos
        PROVE  LET rs == {r \in BagToSet(landing) : r.arq = f /\ r.mes = mes}
               IN  /\ rs = Linhas(f) /\ Inteira(<<mes, f>>, {r.chave : r \in rs})
                   /\ \A r \in rs : landing[r] = 1
    <3>1. PICK g \in Grupos : f \in ArquivosDe(g)
      BY GruposDisjuntos
    <3>2. ti[Landing(g)] = "success"
      <4>1. EstadosAcima(Landed) \subseteq {"success"}
        BY <2>1, <2>3, EmTarefas DEF Ordem, Vivos
      <4>2. ti[Landing(g)] \in EstadosAcima(Landed)
        BY AcimaDe DEF EstadosAcima
      <4>3. QED
        BY <4>1, <4>2
    <3>3. Inteiro(f)
      BY <2>1, <3>1, <3>2 DEF Cargas, CargaDe
    <3>4. <<mes, f>> \in DOMAIN silver
      <4>1. DoMes(ArquivosDe(g)) \subseteq DOMAIN silver
        BY <2>1, <3>2, SilverPronto DEF Vivos
      <4>2. QED
        BY <3>1, <4>1 DEF DoMes
    <3>5. Inteira(<<mes, f>>, {r.chave : r \in Linhas(f)})
      BY <2>1, <3>4, LinhasDe DEF Inteira
    <3>6. {r \in BagToSet(landing) : r.arq = f /\ r.mes = mes} = Linhas(f)
      BY <3>3 DEF Inteiro, DoArquivo
    <3>7. \A r \in Linhas(f) : landing[r] = 1
      BY <3>3 DEF Inteiro
    <3>8. QED
      BY <3>5, <3>6, <3>7
  <2>4. QED
    BY <2>2, <2>3 DEF CamadasInteiras, MesInteiro
<1>2. QED
  BY <1>1, Invariante, PTL
-----------------------------------------------------------------------------
(* The gold tables, of which the watermark is right while the lake has one  *)
(* month: a second month landed out of order falls under it.                *)

\* The rows that a silver object gives to its landing table.
LinhasEm(p) ==
    {[chave |-> c, mes |-> p[1], arq |-> p[2], ts |-> silver[p].ts] : c \in silver[p].linhas}

\* A landing row is that of the silver object of its file.
DoSilver ==
    \A r \in BagToSet(landing) :
        <<r.mes, r.arq>> \in DOMAIN silver /\ r \in LinhasEm(<<r.mes, r.arq>>)

\* Within a month the files of a group are transformed in order, over all runs.
EmOrdem ==
    \A g \in Grupos : \A m \in Meses, f, x \in ArquivosDe(g) :
        f < x /\ <<m, x>> \in DOMAIN silver =>
            <<m, f>> \in DOMAIN silver /\ silver[<<m, f>>].ts < silver[<<m, x>>].ts

\* A table has the whole of each file it has rows of, and of those before it.
Prefixo ==
    \A r \in BagToSet(landing), f \in Arquivos :
        f <= r.arq /\ Entidade[f] = Entidade[r.arq] =>
            LinhasEm(<<r.mes, f>>) \subseteq BagToSet(landing)

GoldDatado == \A e \in Entidades : \A x \in gold[e] : x.ts \in 0..relogio

UmMes == \A p, q \in DOMAIN silver : p[1] = q[1]

\* The file is in gold, from that load or a later one.
Coberto(e, p) ==
    \A c \in silver[p].linhas : \E x \in gold[e] : x.chave = c /\ x.ts >= silver[p].ts

\* What the watermark hides from a model is in gold, loaded or yet to be loaded.
Cobre ==
    \A e \in Grandes : \A p \in DOMAIN silver :
        Entidade[p[2]] = e /\ silver[p].ts <= MaxTs(gold[e]) => Coberto(e, p)

EmDia(e) == \A r \in DaTabela(e) : \E x \in gold[e] : x.chave = r.chave /\ x.ts >= r.ts

\* A green model of the dbt run that took the last event has read the whole load.
Fresco ==
    ti[Landed] = "success" /\ eventos = 0 =>
        \A e \in Entidades : dti[e] = "success" => EmDia(e)

Ordenado == DoSilver /\ EmOrdem /\ Prefixo /\ GoldDatado

GInv == Ordenado /\ (UmMes => Cobre /\ Fresco)

LEMMA MaxTsDe ==
    ASSUME NEW S, NEW n \in Nat, \A r \in S : r.ts \in 0..n
    PROVE  /\ S = {} => MaxTs(S) = 0
           /\ S # {} => \E r \in S : r.ts = MaxTs(S)
           /\ \A r \in S : r.ts <= MaxTs(S)
           /\ MaxTs(S) \in 0..n
<1> DEFINE T == {r.ts : r \in S}
<1> DEFINE D == {n - t : t \in T}
<1>1. CASE S = {}
  BY <1>1 DEF MaxTs
<1>2. CASE S # {}
  <2>1. T # {} /\ T \subseteq 0..n
    BY <1>2
  <2>2. D # {} /\ D \subseteq Nat
    <3>1. \A t \in T : n - t \in Nat
      BY <2>1
    <3>2. QED
      BY <2>1, <3>1
  <2>3. PICK d \in D : \A y \in D : d <= y
    BY <2>2, TemMenor
  <2>4. PICK t \in T : d = n - t
    BY <2>3
  <2>5. \A u \in T : n - t <= n - u
    BY <2>3, <2>4
  <2> HIDE DEF D, T
  <2>6. \A u \in T : u <= t
    BY <2>1, <2>4, <2>5
  <2> USE DEF T
  <2>7. \E u \in T : \A r \in S : r.ts <= u
    BY <2>4, <2>6
  <2>8. MaxTs(S) \in T /\ \A r \in S : r.ts <= MaxTs(S)
    BY <1>2, <2>7 DEF MaxTs
  <2>9. QED
    BY <1>2, <2>1, <2>8
<1>3. QED
  BY <1>1, <1>2

LEMMA LinhasEmDe ==
    ASSUME NEW p, NEW r \in LinhasEm(p)
    PROVE  r.chave \in silver[p].linhas /\ r.mes = p[1] /\ r.arq = p[2] /\ r.ts = silver[p].ts
BY DEF LinhasEm

LEMMA LinhasEmTem ==
    ASSUME NEW p, NEW c \in silver[p].linhas
    PROVE  \E r \in LinhasEm(p) : r.chave = c /\ r.ts = silver[p].ts
<1> DEFINE r == [chave |-> c, mes |-> p[1], arq |-> p[2], ts |-> silver[p].ts]
<1>1. r \in LinhasEm(p)
  BY DEF LinhasEm
<1>2. r.chave = c /\ r.ts = silver[p].ts
  OBVIOUS
<1>3. QED
  BY <1>1, <1>2

LEMMA LinhasEmFicam ==
    ASSUME Cresce, NEW p \in DOMAIN silver
    PROVE  LinhasEm(p)' = LinhasEm(p)
BY DEF LinhasEm, Cresce

LEMMA UmMesAntes ==
    ASSUME Cresce, UmMes'
    PROVE  UmMes
BY DEF UmMes, Cresce

\* The files before one that is in a table are in silver.
LEMMA AnteriorEmSilver ==
    ASSUME Tabelas, DoSilver, EmOrdem, NEW r \in BagToSet(landing), NEW f \in Arquivos,
           f <= r.arq, Entidade[f] = Entidade[r.arq]
    PROVE  <<r.mes, f>> \in DOMAIN silver
<1>1. r.mes \in Meses /\ r.arq \in Arquivos /\ <<r.mes, r.arq>> \in DOMAIN silver
  BY DEF Tabelas, Linha, DoSilver
<1>2. PICK g \in Grupos : r.arq \in ArquivosDe(g)
  BY <1>1, GruposDisjuntos
<1>3. f \in ArquivosDe(g)
  BY <1>2 DEF ArquivosDe
<1>4. CASE f = r.arq
  BY <1>1, <1>4
<1>5. CASE f # r.arq
  <2>1. f < r.arq
    BY <1>1, <1>5, RfbAssumption
  <2>2. QED
    BY <1>1, <1>2, <1>3, <2>1 DEF EmOrdem
<1>6. QED
  BY <1>4, <1>5

\* A step of no table but those of the lake.
LEMMA OrdenadoTabelas ==
    ASSUME Tabelas, Cresce, DoSilver, EmOrdem, Prefixo, landing' = landing
    PROVE  DoSilver' /\ Prefixo'
<1>1. DoSilver'
  <2> SUFFICES ASSUME NEW r \in BagToSet(landing)
               PROVE  <<r.mes, r.arq>> \in DOMAIN silver' /\ r \in LinhasEm(<<r.mes, r.arq>>)'
    BY DEF DoSilver
  <2>1. <<r.mes, r.arq>> \in DOMAIN silver /\ r \in LinhasEm(<<r.mes, r.arq>>)
    BY DEF DoSilver
  <2>2. QED
    BY <2>1, LinhasEmFicam DEF Cresce
<1>2. Prefixo'
  <2> SUFFICES ASSUME NEW r \in BagToSet(landing), NEW f \in Arquivos,
                      f <= r.arq, Entidade[f] = Entidade[r.arq]
               PROVE  LinhasEm(<<r.mes, f>>)' \subseteq BagToSet(landing)
    BY DEF Prefixo
  <2>1. <<r.mes, f>> \in DOMAIN silver
    BY AnteriorEmSilver
  <2>2. QED
    BY <2>1, LinhasEmFicam DEF Prefixo
<1>3. QED
  BY <1>1, <1>2

LEMMA AteCresce ==
    ASSUME NEW A \in SUBSET Arquivos, NEW f \in A, NEW x \in A, f < x
    PROVE  Ate(f, A) < Ate(x, A)
<1> DEFINE B == {y \in A : y <= f}
           C == {y \in A : y <= x}
<1>1. IsFiniteSet(A) /\ A \subseteq Nat
  BY RfbAssumption, FS_Subset
<1>2. IsFiniteSet(C)
  BY <1>1, FS_Subset
<1>3. B \subseteq C /\ x \in C /\ x \notin B
  <2>1. f \in Nat /\ x \in Nat
    BY <1>1
  <2>2. \A y \in Nat : y <= f => y <= x
    BY <2>1
  <2>3. x <= x /\ ~(x <= f)
    BY <2>1
  <2>4. QED
    BY <1>1, <2>2, <2>3
<1>4. Cardinality(B) \in Nat /\ Cardinality(C) \in Nat /\ Cardinality(B) < Cardinality(C)
  <2> HIDE DEF B, C
  <2>1. IsFiniteSet(B) /\ Cardinality(B) <= Cardinality(C)
        /\ (Cardinality(B) = Cardinality(C) => B = C)
    BY <1>2, <1>3, FS_Subset
  <2>2. Cardinality(B) \in Nat /\ Cardinality(C) \in Nat
    BY <1>2, <2>1, FS_CardinalityType
  <2>3. QED
    BY <1>3, <2>1, <2>2
<1>5. QED
  BY <1>4 DEF Ate

\* The silver step adds files after those it had, dated after all the rest.
LEMMA TransformarEfeito ==
    ASSUME Lago, TipoRun, NEW g \in Grupos, TransformarSilver(g)
    PROVE  \E A \in SUBSET SemSilver(g) :
             /\ \A x \in A, y \in SemSilver(g) \ A : x < y
             /\ DOMAIN silver' = DoMes(A) \cup DOMAIN silver
             /\ \A f \in A : silver'[<<mes, f>>].ts = relogio + Ate(f, A)
             /\ relogio' >= relogio /\ relogio' \in Nat
<1> DEFINE N(A) == [p \in DoMes(A) |-> [linhas |-> bronze[p], ts |-> relogio + Ate(p[2], A)]]
<1>1. PICK A \in SUBSET SemSilver(g) :
        /\ \A x \in A, y \in SemSilver(g) \ A : x < y
        /\ silver' = Sobre(N(A), silver) /\ relogio' = relogio + Cardinality(A)
  BY DEF TransformarSilver
<1>2. \A f \in A : <<mes, f>> \in DoMes(A) /\ N(A)[<<mes, f>>].ts = relogio + Ate(f, A)
  BY DEF DoMes
<1>3. DOMAIN N(A) = DoMes(A)
  OBVIOUS
<1>4. Cardinality(A) \in Nat /\ relogio \in Nat
  <2>1. IsFiniteSet(A)
    BY RfbAssumption, FS_Subset DEF SemSilver, ArquivosDe
  <2>2. QED
    BY <2>1, FS_CardinalityType DEF Lago
<1> HIDE DEF N
<1>5. /\ DOMAIN silver' = DoMes(A) \cup DOMAIN silver
      /\ \A p \in DoMes(A) : silver'[p] = N(A)[p]
  <2> DEFINE M == N(A)
  <2>1. /\ DOMAIN Sobre(M, silver) = DOMAIN M \cup DOMAIN silver
        /\ \A p \in DOMAIN M : Sobre(M, silver)[p] = M[p]
    BY SobreDe
  <2>2. silver' = Sobre(M, silver) /\ DOMAIN M = DoMes(A)
    BY <1>1, <1>3
  <2> HIDE DEF M
  <2>3. /\ DOMAIN silver' = DoMes(A) \cup DOMAIN silver
        /\ \A p \in DoMes(A) : silver'[p] = M[p]
    BY <2>1, <2>2
  <2>4. QED
    BY <2>3 DEF M
<1>6. \A f \in A : silver'[<<mes, f>>].ts = relogio + Ate(f, A)
  BY <1>2, <1>5
<1>7. relogio' >= relogio /\ relogio' \in Nat
  BY <1>1, <1>4
<1>8. QED
  BY <1>1, <1>5, <1>6, <1>7

LEMMA BronzeCompleto ==
    ASSUME Ordem, Passos, NEW g \in Grupos, TransformarSilver(g)
    PROVE  DoMes(Arquivos) \subseteq DOMAIN bronze
<1>1. ti[Bronze] \in EstadosAcima(Silver(g))
  BY AcimaDe DEF EstadosAcima
<1>2. QED
  BY <1>1 DEF TransformarSilver, Pronta, Passos

LEMMA EmOrdemTransformar ==
    ASSUME Lago, TipoRun, Ordem, Passos, Cresce, EmOrdem, NEW g \in Grupos, TransformarSilver(g)
    PROVE  EmOrdem'
<1>1. PICK A \in SUBSET SemSilver(g) :
        /\ \A x \in A, y \in SemSilver(g) \ A : x < y
        /\ DOMAIN silver' = DoMes(A) \cup DOMAIN silver
        /\ \A f \in A : silver'[<<mes, f>>].ts = relogio + Ate(f, A)
  BY TransformarEfeito
<1>2. A \subseteq ArquivosDe(g) /\ A \subseteq Arquivos
  BY DEF SemSilver, ArquivosDe
<1>3. \A f \in A : Ate(f, A) \in Nat /\ Ate(f, A) >= 1 /\ relogio \in Nat
  BY <1>2, AteLimita DEF Lago
<1>4. \A p \in DOMAIN silver : silver'[p] = silver[p] /\ silver[p].ts \in Nat /\ silver[p].ts <= relogio
  BY DEF Cresce, Lago
<1>5. \A f \in ArquivosDe(g) : f \in SemSilver(g) \/ <<mes, f>> \in DOMAIN silver
  BY BronzeCompleto DEF SemSilver, DoMes, ArquivosDe
<1>6. \A m, f : <<m, f>> \in DoMes(A) <=> m = mes /\ f \in A
  BY DEF DoMes
<1>7. \A f \in A : <<mes, f>> \notin DOMAIN silver
  BY DEF SemSilver
<1>8. ASSUME NEW h \in Grupos, NEW m \in Meses, NEW f \in ArquivosDe(h), NEW x \in ArquivosDe(h),
             f < x, <<m, x>> \in DOMAIN silver'
      PROVE  <<m, f>> \in DOMAIN silver' /\ silver'[<<m, f>>].ts < silver'[<<m, x>>].ts
  <2>0. f \in Nat /\ x \in Nat
    BY RfbAssumption DEF ArquivosDe
  <2>1. CASE <<m, x>> \in DOMAIN silver
    <3>1. <<m, f>> \in DOMAIN silver /\ silver[<<m, f>>].ts < silver[<<m, x>>].ts
      BY <1>8, <2>1 DEF EmOrdem
    <3>2. QED
      BY <1>1, <1>4, <2>1, <3>1
  <2>2. CASE <<m, x>> \notin DOMAIN silver
    <3>1. m = mes /\ x \in A
      BY <1>1, <1>6, <1>8, <2>2
    <3>2. h = g
      BY <1>2, <3>1, OutroGrupo
    <3>3. CASE <<m, f>> \in DOMAIN silver
      BY <1>1, <1>3, <1>4, <3>1, <3>3
    <3>4. CASE <<m, f>> \notin DOMAIN silver
      <4>1. f \in SemSilver(g)
        BY <1>5, <3>1, <3>2, <3>4
      <4>2. f \in A
        BY <1>1, <1>8, <2>0, <3>1, <4>1
      <4>3. Ate(f, A) < Ate(x, A)
        BY <1>2, <1>8, <3>1, <4>2, AteCresce
      <4>4. silver'[<<m, f>>].ts = relogio + Ate(f, A) /\ silver'[<<m, x>>].ts = relogio + Ate(x, A)
        BY <1>1, <3>1, <4>2
      <4>5. <<m, f>> \in DOMAIN silver'
        BY <1>1, <1>6, <3>1, <4>2
      <4>6. QED
        BY <1>3, <3>1, <4>2, <4>3, <4>4, <4>5
    <3>5. QED
      BY <3>3, <3>4
  <2>3. QED
    BY <2>1, <2>2
<1>9. \A h \in Grupos : ArquivosDe(h)' = ArquivosDe(h)
  BY DEF ArquivosDe
<1>10. QED
  BY <1>8 DEF EmOrdem

LEMMA GoldMax ==
    ASSUME Lago, Tabelas, GoldDatado, NEW e \in Entidades
    PROVE  /\ MaxTs(gold[e]) \in 0..relogio
           /\ \A x \in gold[e] : x.ts \in Nat /\ x.ts <= MaxTs(gold[e])
           /\ gold[e] # {} => \E x \in gold[e] : x.ts = MaxTs(gold[e])
           /\ gold[e] = {} => MaxTs(gold[e]) = 0
<1>1. relogio \in Nat /\ \A x \in gold[e] : x.ts \in 0..relogio
  BY DEF Lago, GoldDatado
<1>2. QED
  BY <1>1, MaxTsDe

\* A new silver file is above every watermark.
LEMMA CobreTransformar ==
    ASSUME Lago, TipoRun, Tabelas, Cresce, GoldDatado, NEW g \in Grupos, TransformarSilver(g)
    PROVE  GoldDatado' /\ (Cobre => Cobre')
<1>1. PICK A \in SUBSET SemSilver(g) :
        /\ DOMAIN silver' = DoMes(A) \cup DOMAIN silver
        /\ \A f \in A : silver'[<<mes, f>>].ts = relogio + Ate(f, A)
        /\ relogio' >= relogio /\ relogio' \in Nat
  BY TransformarEfeito
<1>2. gold' = gold /\ relogio \in Nat
  BY DEF TransformarSilver, dbtVars, Lago
<1>3. GoldDatado'
  BY <1>1, <1>2 DEF GoldDatado
<1>4. ASSUME Cobre, NEW e \in Grandes, NEW p \in DOMAIN silver', Entidade[p[2]] = e,
             silver'[p].ts <= MaxTs(gold[e])
      PROVE  Coberto(e, p)'
  <2>1. MaxTs(gold[e]) \in Nat /\ MaxTs(gold[e]) <= relogio
    BY <1>2, GoldMax DEF Entidades
  <2>2. p \in DOMAIN silver
    <3>1. SUFFICES ASSUME p \in DoMes(A) PROVE FALSE
      BY <1>1
    <3>2. PICK f \in A : p = <<mes, f>>
      BY <3>1 DEF DoMes
    <3>3. Ate(f, A) \in Nat /\ Ate(f, A) >= 1
      <4>1. A \in SUBSET Arquivos
        BY DEF SemSilver, ArquivosDe
      <4>2. QED
        BY <4>1, AteLimita
    <3>4. silver'[p].ts = relogio + Ate(f, A)
      BY <1>1, <3>2
    <3>5. QED
      BY <1>2, <1>4, <2>1, <3>3, <3>4
  <2>3. silver'[p] = silver[p]
    BY <2>2 DEF Cresce
  <2>4. Coberto(e, p)
    BY <1>4, <2>2, <2>3 DEF Cobre
  <2>5. QED
    BY <1>2, <2>3, <2>4 DEF Coberto
<1>5. QED
  BY <1>2, <1>3, <1>4 DEF Cobre

LEMMA PrefixoPreparar ==
    ASSUME Tabelas, Ordem, Passos, DoSilver, Prefixo, NEW g \in Grupos, PrepararTabela(g)
    PROVE  DoSilver' /\ Prefixo'
<1>1. PICK e \in g : landing' = SemParticao(e)
  BY PrepararEfeito
<1>2. BagToSet(landing') = {r \in BagToSet(landing) : ~(Entidade[r.arq] = e /\ r.mes = mes)}
  BY <1>1, SemParticaoDe DEF Tabelas
<1>3. silver' = silver
  BY DEF PrepararTabela, LandingUnchanged, lago
<1>4. \A p : LinhasEm(p)' = LinhasEm(p)
  BY <1>3 DEF LinhasEm
<1>5. DoSilver'
  BY <1>2, <1>3, <1>4 DEF DoSilver
<1>6. ASSUME NEW r \in BagToSet(landing'), NEW f \in Arquivos, f <= r.arq, Entidade[f] = Entidade[r.arq]
      PROVE  LinhasEm(<<r.mes, f>>) \subseteq BagToSet(landing')
  <2>1. LinhasEm(<<r.mes, f>>) \subseteq BagToSet(landing)
    BY <1>2, <1>6 DEF Prefixo
  <2>2. \A y \in LinhasEm(<<r.mes, f>>) : y.mes = r.mes /\ y.arq = f
    BY LinhasEmDe
  <2>3. QED
    BY <1>2, <1>6, <2>1, <2>2
<1>7. Prefixo'
  BY <1>4, <1>6 DEF Prefixo
<1>8. QED
  BY <1>5, <1>7

LEMMA PrefixoCopiar ==
    ASSUME TipoRun, Lago, Tabelas, Ordem, Passos, Cargas, DoSilver, Prefixo,
           NEW g \in Grupos, CopiarArquivo(g)
    PROVE  DoSilver' /\ Prefixo'
<1> DEFINE n == Proximo(g)
<1>1. n \in ACopiar(g) /\ n \in ArquivosDe(g) /\ n \in Arquivos /\ \A y \in ACopiar(g) : n <= y
  <2>1. n \in ACopiar(g) /\ n \in ArquivosDe(g)
    BY ProximoDe DEF CopiarArquivo
  <2>2. ACopiar(g) \subseteq Nat /\ ACopiar(g) # {}
    BY RfbAssumption DEF ACopiar, ArquivosDe, CopiarArquivo
  <2>3. \A y \in ACopiar(g) : n <= y
    BY <2>2, TemMenor DEF Proximo
  <2>4. QED
    BY <2>1, <2>3 DEF ArquivosDe
<1>2. silver' = silver /\ Rodando(Landing(g)) /\ ti[Landing(g)] \in Vivos
  BY CopiarEfeito
<1>3. landing' = landing (+) SetToBag(Linhas(n))
  BY DEF CopiarArquivo
<1>4. Linhas(n) \cap BagToSet(landing) = {}
  <2>1. Entidade[n] \in preparadas[g] /\ n \notin copiados[g]
    BY <1>1 DEF CopiarArquivo, ACopiar
  <2>2. DoArquivo(n) = {}
    BY <1>1, <1>2, <2>1 DEF Cargas, CargaDe
  <2>3. \A r \in Linhas(n) : r.arq = n /\ r.mes = mes
    BY DEF Linhas
  <2>4. QED
    BY <2>2, <2>3 DEF DoArquivo
<1> HIDE DEF n
<1>5. BagToSet(landing') = BagToSet(landing) \cup Linhas(n)
  BY <1>3, <1>4, CopiaDe DEF Tabelas
<1>6. \A f : Linhas(f) = LinhasEm(<<mes, f>>)
  BY DEF Linhas, LinhasEm
<1>7. \A p : LinhasEm(p)' = LinhasEm(p)
  BY <1>2 DEF LinhasEm
<1>8. \A r \in Linhas(n) : r.mes = mes /\ r.arq = n
  BY <1>6, LinhasEmDe
<1>9. <<mes, n>> \in DOMAIN silver
  BY <1>1 DEF ACopiar
<1>10. DoSilver'
  <2>1. \A r \in BagToSet(landing') : <<r.mes, r.arq>> \in DOMAIN silver /\ r \in LinhasEm(<<r.mes, r.arq>>)
    BY <1>5, <1>6, <1>8, <1>9 DEF DoSilver
  <2>2. QED
    BY <1>2, <1>7, <2>1 DEF DoSilver
<1>11. ASSUME NEW r \in BagToSet(landing'), NEW f \in Arquivos, f <= r.arq, Entidade[f] = Entidade[r.arq]
       PROVE  LinhasEm(<<r.mes, f>>) \subseteq BagToSet(landing')
  <2>1. CASE r \in BagToSet(landing)
    BY <1>5, <1>11, <2>1 DEF Prefixo
  <2>2. CASE r \in Linhas(n)
    <3>1. r.mes = mes /\ r.arq = n
      BY <1>8, <2>2
    <3>2. CASE f = n
      BY <1>5, <1>6, <3>1, <3>2
    <3>3. CASE f # n
      <4>1. f \in ArquivosDe(g)
        BY <1>1, <1>11, <3>1 DEF ArquivosDe
      <4>2. f \in Nat /\ n \in Nat
        BY <1>1, RfbAssumption
      <4>3. f \notin ACopiar(g)
        BY <1>1, <1>11, <3>1, <3>3, <4>2
      <4>4. f \in copiados[g]
        BY <1>2, <4>1, <4>3, ACopiarDe
      <4>5. Inteiro(f)
        BY <1>2, <4>4 DEF Cargas, CargaDe
      <4>6. LinhasEm(<<mes, f>>) \subseteq BagToSet(landing)
        BY <1>6, <4>5 DEF Inteiro, DoArquivo
      <4>7. QED
        BY <1>5, <3>1, <4>6
    <3>4. QED
      BY <3>2, <3>3
  <2>3. QED
    BY <1>5, <2>1, <2>2
<1>12. Prefixo'
  BY <1>7, <1>11 DEF Prefixo
<1>13. QED
  BY <1>10, <1>12

-----------------------------------------------------------------------------
(* A model of an incremental table. *)

LEMMA ConstroiDe ==
    ASSUME Lago, Tabelas, DoSilver, GoldDatado, NEW e \in Grandes
    PROVE  /\ Novas(e) = {r \in DaTabela(e) : r.ts > MaxTs(gold[e])}
           /\ Novas(e) \subseteq Constroi(e, Novas(e))
           /\ Constroi(e, Novas(e)) \subseteq gold[e] \cup Novas(e)
           /\ \A x \in gold[e] : \E y \in Constroi(e, Novas(e)) : y.chave = x.chave /\ y.ts >= x.ts
<1>1. e \notin Dominios /\ e \in Entidades
  BY RfbAssumption DEF Entidades
<1>2. Novas(e) = {r \in DaTabela(e) : r.ts > MaxTs(gold[e])}
  BY <1>1 DEF Novas
<1> DEFINE N == Novas(e)
<1>3. Constroi(e, N) = {r \in gold[e] : \A x \in N : x.chave # r.chave} \cup N
  BY <1>1 DEF Constroi
<1>4. \A r \in N : r.ts \in Nat /\ r.ts > MaxTs(gold[e])
  <2>1. \A r \in DaTabela(e) : r.ts \in Nat
    BY DEF Tabelas, Linha, DaTabela
  <2>2. QED
    BY <1>2, <2>1
<1>5. MaxTs(gold[e]) \in Nat /\ \A x \in gold[e] : x.ts \in Nat /\ x.ts <= MaxTs(gold[e])
  BY <1>1, GoldMax DEF Lago
<1> HIDE DEF N
<1>6. ASSUME NEW x \in gold[e] PROVE \E y \in Constroi(e, N) : y.chave = x.chave /\ y.ts >= x.ts
  <2>1. CASE \E y \in N : y.chave = x.chave
    BY <1>3, <1>4, <1>5, <2>1
  <2>2. CASE \A y \in N : y.chave # x.chave
    <3>1. x \in Constroi(e, N) /\ x.ts >= x.ts
      BY <1>3, <1>5, <2>2
    <3>2. QED
      BY <3>1
  <2>3. QED
    BY <2>1, <2>2
<1>7. QED
  BY <1>2, <1>3, <1>6 DEF N

\* What a model does to gold: nothing, or one table built anew.
LEMMA ModeloEfeito ==
    ASSUME Tabelas, TipoRun, NEW e \in Entidades, RodarModelo(e)
    PROVE  /\ UNCHANGED <<lago, landing, relogio, ti, eventos>>
           /\ \A d \in Entidades : d # e => gold'[d] = gold[d]
           /\ gold'[e] = gold[e] \/ gold'[e] = Constroi(e, Novas(e))
           /\ \A d \in Entidades : dti'[d] = "success" =>
                \/ d # e /\ dti[d] = "success"
                \/ d = e /\ gold'[e] = Constroi(e, Novas(e))
<1>1. UNCHANGED <<lago, landing, relogio, ti, eventos>>
  BY DEF RodarModelo, DbtUnchanged, cargaVars
<1>2. gold' = gold \/ gold' = [gold EXCEPT ![e] = Constroi(e, Novas(e))]
  BY DEF RodarModelo
<1>3. /\ \A d \in Entidades : d # e => gold'[d] = gold[d]
      /\ gold'[e] = gold[e] \/ gold'[e] = Constroi(e, Novas(e))
  BY <1>2 DEF Tabelas
<1>4. ModeloFalhou(e) => \A d \in Entidades : dti'[d] = "success" => d # e /\ dti[d] = "success"
  <2> SUFFICES ASSUME ModeloFalhou(e), NEW d \in Entidades, dti'[d] = "success"
               PROVE  d # e /\ dti[d] = "success"
    OBVIOUS
  <2>1. AposFalha(dti[e]) # "success"
    BY DEF AposFalha
  <2>2. dti' = [dti EXCEPT ![e] = AposFalha(dti[e])]
    BY DEF ModeloFalhou
  <2>3. QED
    BY <2>1, <2>2 DEF TipoRun
<1>5. ModeloFalhou(e) \/ /\ gold' = [gold EXCEPT ![e] = Constroi(e, Novas(e))]
                         /\ dti' = [dti EXCEPT ![e] = "success"]
  BY DEF RodarModelo
<1>6. ASSUME gold' = [gold EXCEPT ![e] = Constroi(e, Novas(e))], dti' = [dti EXCEPT ![e] = "success"],
             NEW d \in Entidades, dti'[d] = "success"
      PROVE  \/ d # e /\ dti[d] = "success"
             \/ d = e /\ gold'[e] = Constroi(e, Novas(e))
  BY <1>6 DEF Tabelas
<1>7. QED
  BY <1>1, <1>3, <1>4, <1>5, <1>6

LEMMA GoldDatadoModelo ==
    ASSUME Lago, Tabelas, TipoRun, DoSilver, GoldDatado, NEW e \in Entidades, RodarModelo(e)
    PROVE  GoldDatado'
<1>1. \A r \in BagToSet(landing) : r.ts \in 0..relogio
  <2> TAKE r \in BagToSet(landing)
  <2>1. <<r.mes, r.arq>> \in DOMAIN silver /\ r.ts = silver[<<r.mes, r.arq>>].ts
    BY LinhasEmDe DEF DoSilver
  <2>2. QED
    BY <2>1 DEF Lago
<1>2. Constroi(e, Novas(e)) \subseteq gold[e] \cup BagToSet(landing)
  BY DEF Constroi, Novas, DaTabela
<1>3. relogio' = relogio
  BY ModeloEfeito
<1>4. \A d \in Entidades : gold'[d] \subseteq gold[d] \cup BagToSet(landing)
  BY <1>2, ModeloEfeito
<1>5. QED
  BY <1>1, <1>3, <1>4 DEF GoldDatado

\* The rows below the new watermark of a file that was above the old one are in
\* the table the model read, whole, as a file of an earlier date was loaded first.
LEMMA CobreModelo ==
    ASSUME Lago, Tabelas, Ordenado, UmMes, Cobre, NEW e \in Grandes, NEW p \in DOMAIN silver,
           Entidade[p[2]] = e, silver[p].ts <= MaxTs(Constroi(e, Novas(e)))
    PROVE  \A c \in silver[p].linhas :
             \E x \in Constroi(e, Novas(e)) : x.chave = c /\ x.ts >= silver[p].ts
<1> DEFINE W == MaxTs(gold[e])
           G == Constroi(e, Novas(e))
           t == silver[p].ts
<1>1. /\ Novas(e) = {r \in DaTabela(e) : r.ts > W}
      /\ Novas(e) \subseteq G /\ G \subseteq gold[e] \cup Novas(e)
      /\ \A x \in gold[e] : \E y \in G : y.chave = x.chave /\ y.ts >= x.ts
  BY ConstroiDe DEF Ordenado
<1>2. W \in Nat /\ \A x \in gold[e] : x.ts \in Nat /\ x.ts <= W
  BY GoldMax DEF Lago, Ordenado, Entidades
<1>3. t \in Nat /\ t >= 1 /\ relogio \in Nat /\ p \in Meses \X Arquivos
  BY DEF Lago
<1>4. \A r \in BagToSet(landing) : /\ <<r.mes, r.arq>> \in DOMAIN silver
                                   /\ r.ts = silver[<<r.mes, r.arq>>].ts /\ r.ts \in 0..relogio
                                   /\ r.mes \in Meses /\ r.arq \in Arquivos
  <2> TAKE r \in BagToSet(landing)
  <2>1. <<r.mes, r.arq>> \in DOMAIN silver /\ r.ts = silver[<<r.mes, r.arq>>].ts
    BY LinhasEmDe DEF Ordenado, DoSilver
  <2>2. r.mes \in Meses /\ r.arq \in Arquivos
    BY DEF Tabelas, Linha
  <2>3. QED
    BY <2>1, <2>2 DEF Lago
<1>5. \A x \in G : x.ts \in 0..relogio
  BY <1>1, <1>4 DEF Ordenado, GoldDatado, Entidades, DaTabela
<1>6. G # {} /\ MaxTs(G) \in Nat /\ \E x \in G : x.ts = MaxTs(G)
  <2> HIDE DEF G
  <2>1. G # {} => \E x \in G : x.ts = MaxTs(G)
    BY <1>3, <1>5, MaxTsDe
  <2>2. G = {} => MaxTs(G) = 0
    BY <1>3, <1>5, MaxTsDe
  <2>3. t <= MaxTs(G)
    BY DEF G
  <2>4. QED
    BY <1>3, <1>5, <2>1, <2>2, <2>3
<1>7. CASE t <= W
  <2>1. Coberto(e, p)
    BY <1>7 DEF Cobre
  <2>2. ASSUME NEW c \in silver[p].linhas PROVE \E x \in G : x.chave = c /\ x.ts >= t
    <3>1. PICK x \in gold[e] : x.chave = c /\ x.ts >= t
      BY <2>1, <2>2 DEF Coberto
    <3>2. PICK y \in G : y.chave = x.chave /\ y.ts >= x.ts
      BY <1>1, <3>1
    <3>3. y.ts >= t
      BY <1>2, <1>3, <1>5, <3>1, <3>2
    <3>4. QED
      BY <3>1, <3>2, <3>3
  <2>3. QED
    BY <2>2
<1>8. CASE t > W
  <2>1. PICK z \in G : z.ts = MaxTs(G)
    BY <1>6
  <2>2. z.ts >= t
    BY <1>3, <1>6, <2>1
  <2>3. z \in Novas(e)
    <3>1. z \notin gold[e]
      BY <1>2, <1>3, <1>8, <2>2
    <3>2. QED
      BY <1>1, <2>1, <3>1
  <2>4. z \in BagToSet(landing) /\ Entidade[z.arq] = e
    BY <1>1, <2>3 DEF DaTabela
  <2>5. p = <<z.mes, p[2]>> /\ p[2] \in Arquivos /\ z.arq \in Arquivos /\ z.mes \in Meses
    <3>1. p = <<p[1], p[2]>> /\ p[2] \in Arquivos
      BY <1>3
    <3>2. p[1] = <<z.mes, z.arq>>[1]
      BY <1>4, <2>4 DEF UmMes
    <3>3. QED
      BY <1>4, <2>4, <3>1, <3>2
  <2>6. p[2] <= z.arq
    <3>0. p[2] \in Nat /\ z.arq \in Nat /\ z.ts \in Nat
      BY <1>6, <2>1, <2>5, RfbAssumption
    <3>1. SUFFICES ASSUME z.arq < p[2] PROVE FALSE
      BY <3>0
    <3>2. PICK g \in Grupos : z.arq \in ArquivosDe(g)
      BY <2>5, GruposDisjuntos
    <3>3. p[2] \in ArquivosDe(g)
      BY <2>4, <2>5, <3>2 DEF ArquivosDe
    <3>4. silver[<<z.mes, z.arq>>].ts < silver[<<z.mes, p[2]>>].ts
      BY <2>5, <3>1, <3>2, <3>3 DEF Ordenado, EmOrdem
    <3>5. z.ts < t
      BY <1>4, <2>4, <2>5, <3>4
    <3>6. QED
      BY <1>3, <2>2, <3>5, <3>0
  <2>7. LinhasEm(p) \subseteq BagToSet(landing)
    BY <2>4, <2>5, <2>6 DEF Ordenado, Prefixo
  <2>8. \A r \in LinhasEm(p) : r.arq = p[2] /\ r.ts = t
    BY LinhasEmDe
  <2>9. LinhasEm(p) \subseteq G
    BY <1>1, <1>8, <2>7, <2>8 DEF DaTabela
  <2>10. ASSUME NEW c \in silver[p].linhas PROVE \E x \in G : x.chave = c /\ x.ts >= t
    <3>1. PICK r \in LinhasEm(p) : r.chave = c /\ r.ts = t
      BY LinhasEmTem
    <3>2. r \in G /\ r.ts >= t
      BY <1>3, <2>9, <3>1
    <3>3. QED
      BY <3>1, <3>2
  <2>11. QED
    BY <2>10
<1>9. QED
  BY <1>2, <1>3, <1>7, <1>8

\* A model that was built has the whole of the table it read.
LEMMA EmDiaModelo ==
    ASSUME Lago, Tabelas, Ordenado, Cobre, NEW e \in Entidades, NEW r \in DaTabela(e)
    PROVE  \E x \in Constroi(e, Novas(e)) : x.chave = r.chave /\ x.ts >= r.ts
<1> DEFINE G == Constroi(e, Novas(e))
<1>1. r \in BagToSet(landing) /\ Entidade[r.arq] = e /\ r.ts \in Nat
  BY DEF DaTabela, Tabelas, Linha
<1>2. CASE e \in Dominios
  <2>1. G = DaTabela(e)
    BY <1>2 DEF Constroi, Novas
  <2>2. r \in G /\ r.ts >= r.ts
    BY <1>1, <2>1
  <2>3. QED
    BY <2>2
<1>3. CASE e \in Grandes
  <2>1. /\ Novas(e) = {x \in DaTabela(e) : x.ts > MaxTs(gold[e])}
        /\ Novas(e) \subseteq G
        /\ \A x \in gold[e] : \E y \in G : y.chave = x.chave /\ y.ts >= x.ts
        /\ G \subseteq gold[e] \cup Novas(e)
    BY <1>3, ConstroiDe DEF Ordenado
  <2>2. MaxTs(gold[e]) \in Nat /\ \A x \in gold[e] : x.ts \in Nat
    BY GoldMax DEF Lago, Ordenado
  <2>3. CASE r.ts > MaxTs(gold[e])
    <3>1. r \in G /\ r.ts >= r.ts
      BY <1>1, <2>1, <2>3
    <3>2. QED
      BY <3>1
  <2>4. CASE r.ts <= MaxTs(gold[e])
    <3> DEFINE p == <<r.mes, r.arq>>
    <3>1. p \in DOMAIN silver /\ r.chave \in silver[p].linhas /\ r.ts = silver[p].ts
      BY <1>1, LinhasEmDe DEF Ordenado, DoSilver
    <3>2. Entidade[p[2]] = e
      BY <1>1
    <3> HIDE DEF p
    <3>3. Coberto(e, p)
      BY <1>3, <2>4, <3>1, <3>2 DEF Cobre
    <3>4. PICK x \in gold[e] : x.chave = r.chave /\ x.ts >= r.ts
      BY <3>1, <3>3 DEF Coberto
    <3>5. PICK y \in G : y.chave = x.chave /\ y.ts >= x.ts
      BY <2>1, <3>4
    <3>6. y.ts \in Nat
      BY <2>1, <2>2, <3>5 DEF DaTabela, Tabelas, Linha
    <3>7. y.ts >= r.ts
      BY <1>1, <2>2, <3>4, <3>5, <3>6
    <3>8. QED
      BY <3>4, <3>5, <3>7
  <2>5. QED
    BY <1>1, <2>2, <2>3, <2>4
<1>4. QED
  BY <1>2, <1>3 DEF Entidades

LEMMA OuroModelo ==
    ASSUME Lago, Tabelas, TipoRun, Ordenado, UmMes, Cobre, Fresco, NEW e \in Entidades, RodarModelo(e)
    PROVE  Cobre' /\ Fresco'
<1>1. /\ UNCHANGED <<zips, bronze, silver, landing, relogio, ti, eventos>>
      /\ \A d \in Entidades : d # e => gold'[d] = gold[d]
      /\ gold'[e] = gold[e] \/ gold'[e] = Constroi(e, Novas(e))
  BY ModeloEfeito DEF lago
<1>2. ASSUME NEW d \in Grandes, NEW p \in DOMAIN silver, Entidade[p[2]] = d,
             silver[p].ts <= MaxTs(gold'[d])
      PROVE  Coberto(d, p)'
  <2>0. d \in Entidades
    BY DEF Entidades
  <2>1. CASE gold'[d] = gold[d]
    <3>1. Coberto(d, p)
      BY <1>2, <2>1 DEF Cobre
    <3>2. QED
      BY <1>1, <2>1, <3>1 DEF Coberto
  <2>2. CASE d = e /\ gold'[e] = Constroi(e, Novas(e))
    <3>1. \A c \in silver[p].linhas : \E x \in gold'[d] : x.chave = c /\ x.ts >= silver[p].ts
      BY <1>2, <2>2, CobreModelo
    <3>2. QED
      BY <1>1, <3>1 DEF Coberto
  <2>3. QED
    BY <1>1, <2>0, <2>1, <2>2
<1>3. Cobre'
  BY <1>1, <1>2 DEF Cobre
<1>4. ASSUME ti[Landed] = "success", eventos = 0, NEW d \in Entidades, dti'[d] = "success"
      PROVE  EmDia(d)'
  <2>1. DaTabela(d)' = DaTabela(d)
    BY <1>1 DEF DaTabela
  <2>2. CASE d # e /\ dti[d] = "success"
    <3>1. EmDia(d) /\ gold'[d] = gold[d]
      BY <1>1, <1>4, <2>2 DEF Fresco
    <3>2. QED
      BY <2>1, <3>1 DEF EmDia
  <2>3. CASE d = e /\ gold'[e] = Constroi(e, Novas(e))
    <3>1. \A r \in DaTabela(e) : \E x \in gold'[e] : x.chave = r.chave /\ x.ts >= r.ts
      BY <2>3, EmDiaModelo
    <3>2. QED
      BY <2>1, <2>3, <3>1 DEF EmDia
  <2>4. QED
    BY <1>4, <2>2, <2>3, ModeloEfeito
<1>5. Fresco'
  BY <1>1, <1>4 DEF Fresco
<1>6. QED
  BY <1>3, <1>5

-----------------------------------------------------------------------------
(* The steps. *)

\* A step that writes no table and finishes no model.
LEMMA FrescoFica ==
    ASSUME Fresco, UNCHANGED <<landing, gold>>,
           ti'[Landed] = "success" => ti[Landed] = "success",
           eventos' = 0 => eventos = 0,
           \A e \in Entidades : dti'[e] = "success" => dti[e] = "success"
    PROVE  Fresco'
BY DEF Fresco, EmDia, DaTabela

LEMMA OuroFica ==
    ASSUME Tabelas, Cresce, GInv, UNCHANGED <<silver, landing, gold, relogio>>,
           UmMes /\ Fresco => Fresco'
    PROVE  GInv'
<1>1. DoSilver' /\ Prefixo'
  BY OrdenadoTabelas DEF GInv, Ordenado
<1>2. EmOrdem'
  BY DEF GInv, Ordenado, EmOrdem, ArquivosDe
<1>3. GoldDatado'
  BY DEF GInv, Ordenado, GoldDatado
<1>4. ASSUME UmMes' PROVE Cobre' /\ Fresco'
  <2>1. UmMes /\ Cobre /\ Fresco
    BY <1>4, UmMesAntes DEF GInv
  <2>2. QED
    BY <2>1 DEF Cobre, Coberto
<1>5. QED
  BY <1>1, <1>2, <1>3, <1>4 DEF GInv, Ordenado

\* While a landing task runs, "landed" has not.
LEMMA LandingAntes ==
    ASSUME Ordem, NEW g \in Grupos, Rodando(Landing(g))
    PROVE  ti[Landed] # "success"
<1>1. ti[Landing(g)] \in EstadosAcima(Landed)
  BY AcimaDe DEF EstadosAcima
<1>2. ti[Landing(g)] # "success"
  BY DEF Rodando, Correndo
<1>3. QED
  BY <1>1, <1>2, EmTarefas DEF Ordem, Vivos

\* The steps of dag_rfb that write no table: only EmitirAsset finishes "landed",
\* and it leaves an event.
LEMMA OuroRun ==
    ASSUME IInv, Cresce, GInv, UNCHANGED <<silver, landing, gold, relogio, dti>>,
           \/ ti'[Landed] = "success" => ti[Landed] = "success" /\ eventos' = eventos
           \/ EmitirAsset
    PROVE  GInv'
<1>1. ASSUME Fresco, ti'[Landed] = "success", eventos' = 0
      PROVE  ti[Landed] = "success" /\ eventos = 0
  <2>1. CASE EmitirAsset
    BY <1>1, <2>1, RfbAssumption DEF EmitirAsset, IInv, TipoRun
  <2>2. QED
    BY <1>1, <2>1
<1>2. UmMes /\ Fresco => Fresco'
  BY <1>1 DEF Fresco, EmDia, DaTabela
<1>3. QED
  BY <1>2, OuroFica DEF IInv

LEMMA OuroTransformar ==
    ASSUME IInv, Cresce, GInv, NEW g \in Grupos, TransformarSilver(g)
    PROVE  GInv'
<1>0. TipoRun /\ Lago /\ Tabelas /\ Ordem /\ Passos /\ Ordenado
  BY DEF IInv, GInv
<1>1. UNCHANGED <<landing, gold, dti, eventos>>
  BY DEF TransformarSilver, cargaVars, dbtVars
<1>2. DoSilver' /\ Prefixo'
  BY <1>0, <1>1, OrdenadoTabelas DEF Ordenado
<1>3. EmOrdem' /\ GoldDatado'
  BY <1>0, EmOrdemTransformar, CobreTransformar DEF Ordenado
<1>4. ti'[Landed] = ti[Landed]
  <2>1. Silver(g) # Landed
    BY Distintas
  <2>2. QED
    BY <1>0, <2>1, TransformarMuda, OutraTarefa, EmTarefas
<1>5. ASSUME UmMes' PROVE Cobre' /\ Fresco'
  <2>1. Cobre /\ Fresco
    BY <1>5, UmMesAntes DEF GInv
  <2>2. Cobre'
    BY <1>0, <2>1, CobreTransformar DEF Ordenado
  <2>3. Fresco'
    BY <1>1, <1>4, <2>1, FrescoFica
  <2>4. QED
    BY <2>2, <2>3
<1>6. QED
  BY <1>2, <1>3, <1>5 DEF GInv, Ordenado

LEMMA OuroCarga ==
    ASSUME IInv, Cresce, GInv, NEW g \in Grupos, PrepararTabela(g) \/ CopiarArquivo(g)
    PROVE  GInv'
<1>0. TipoRun /\ Lago /\ Tabelas /\ Ordem /\ Passos /\ Cargas /\ Ordenado
  BY DEF IInv, GInv
<1>1. UNCHANGED <<gold, silver, relogio, ti>> /\ Rodando(Landing(g))
  BY DEF PrepararTabela, CopiarArquivo, LandingUnchanged, lago, dbtVars
<1>2. DoSilver' /\ Prefixo'
  BY <1>0, PrefixoPreparar, PrefixoCopiar DEF Ordenado
<1>3. EmOrdem' /\ GoldDatado'
  BY <1>0, <1>1 DEF Ordenado, EmOrdem, GoldDatado, ArquivosDe
<1>4. Fresco'
  BY <1>0, <1>1, LandingAntes DEF Fresco
<1>5. ASSUME UmMes' PROVE Cobre'
  <2>1. Cobre
    BY <1>5, UmMesAntes DEF GInv
  <2>2. QED
    BY <1>1, <2>1 DEF Cobre, Coberto
<1>6. QED
  BY <1>2, <1>3, <1>4, <1>5 DEF GInv, Ordenado

LEMMA OuroDbt ==
    ASSUME IInv, Cresce, GInv, Dbt
    PROVE  GInv'
<1>0. TipoRun /\ Lago /\ Tabelas /\ Ordenado
  BY DEF IInv, GInv
<1>1. UNCHANGED <<silver, landing, relogio, ti>>
  BY DEF Dbt, AbrirDbt, FimDbt, RodarModelo, FalhaModelo, DbtUnchanged, lago, cargaVars
<1>2. CASE AbrirDbt
  <2>1. gold' = gold /\ dti' = [e \in Entidades |-> "none"]
    BY <1>2 DEF AbrirDbt
  <2>2. Fresco'
    BY <2>1 DEF Fresco
  <2>3. QED
    BY <1>0, <1>1, <2>1, <2>2, OuroFica
<1>3. ASSUME FimDbt \/ \E e \in Entidades : FalhaModelo(e) PROVE GInv'
  <2>1. gold' = gold /\ eventos' = eventos
    BY <1>3 DEF FimDbt, FalhaModelo
  <2>2. \A e \in Entidades : dti'[e] = "success" => dti[e] = "success"
    <3>1. CASE FimDbt
      BY <3>1 DEF FimDbt
    <3>2. ASSUME NEW d \in Entidades, FalhaModelo(d), NEW e \in Entidades, dti'[e] = "success"
          PROVE  dti[e] = "success"
      <4>1. AposFalha(dti[d]) # "success"
        BY DEF AposFalha
      <4>2. dti' = [dti EXCEPT ![d] = AposFalha(dti[d])]
        BY <3>2 DEF FalhaModelo, ModeloFalhou
      <4>3. QED
        BY <1>0, <3>2, <4>1, <4>2 DEF TipoRun
    <3>3. QED
      BY <1>3, <3>1, <3>2
  <2>3. Fresco => Fresco'
    BY <1>1, <2>1, <2>2, FrescoFica
  <2>4. QED
    BY <1>0, <1>1, <2>1, <2>3, OuroFica
<1>4. ASSUME NEW e \in Entidades, RodarModelo(e) PROVE GInv'
  <2>1. DoSilver' /\ EmOrdem' /\ Prefixo'
    BY <1>0, <1>1 DEF Ordenado, DoSilver, EmOrdem, Prefixo, LinhasEm, ArquivosDe
  <2>2. GoldDatado'
    BY <1>0, <1>4, GoldDatadoModelo DEF Ordenado
  <2>3. ASSUME UmMes' PROVE Cobre' /\ Fresco'
    BY <1>0, <1>4, <2>3, UmMesAntes, OuroModelo DEF GInv
  <2>4. QED
    BY <2>1, <2>2, <2>3 DEF GInv, Ordenado
<1>5. QED
  BY <1>2, <1>3, <1>4 DEF Dbt

LEMMA OuroPasso ==
    ASSUME IInv, GInv, [Next]_vars
    PROVE  GInv'
<1>0. Cresce /\ TipoRun /\ Ordem /\ Tabelas
  BY LagoPasso DEF IInv
<1>1. CASE Publica \/ FimRun \/ UNCHANGED vars
  BY <1>0, <1>1, OuroRun DEF Publica, FimRun, vars, lago, cargaVars, dbtVars
<1>2. CASE Operador
  <2>1. UNCHANGED <<silver, landing, gold, relogio, dti>> /\ ti' = [t \in Tarefas |-> "none"]
    BY <1>2 DEF Operador, AbrirRun, lago, cargaVars, dbtVars
  <2>2. ti'[Landed] # "success"
    BY <2>1, EmTarefas
  <2>3. QED
    BY <1>0, <2>1, <2>2, OuroRun
<1>3. CASE BaixarMes \/ ExtrairBronze
  <2>1. UNCHANGED <<silver, landing, gold, relogio, dti, eventos>>
    BY <1>3 DEF BaixarMes, ExtrairBronze, cargaVars, dbtVars
  <2>2. ti'[Landed] = ti[Landed]
    BY <1>0, <1>3, BaixarMuda, ExtrairMuda, OutraTarefa, EmTarefas, Distintas
  <2>3. QED
    BY <1>0, <2>1, <2>2, OuroRun
<1>4. CASE EmitirAsset
  BY <1>0, <1>4, OuroRun DEF EmitirAsset, lago, cargaVars, dbtVars
<1>5. ASSUME NEW g \in Grupos, IniciarLanding(g) \/ FimLanding(g) \/ MorreLanding(g) PROVE GInv'
  <2>1. UNCHANGED <<silver, landing, gold, relogio, dti, eventos>>
    BY <1>5 DEF IniciarLanding, FimLanding, MorreLanding, LandingUnchanged, lago, cargaVars, dbtVars
  <2>2. Landing(g) # Landed
    BY Distintas
  <2>3. ti'[Landed] = ti[Landed]
    BY <1>0, <1>5, <2>2, LandingMuda, OutraTarefa, EmTarefas
  <2>4. QED
    BY <1>0, <2>1, <2>3, OuroRun
<1>6. ASSUME NEW g \in Grupos, TransformarSilver(g) PROVE GInv'
  BY <1>0, <1>6, OuroTransformar
<1>7. ASSUME NEW g \in Grupos, PrepararTabela(g) \/ CopiarArquivo(g) PROVE GInv'
  BY <1>0, <1>7, OuroCarga
<1>8. CASE Dbt
  BY <1>0, <1>8, OuroDbt
<1>9. ASSUME NEW t \in Tarefas, Propagar(t) PROVE GInv'
  <2>1. UNCHANGED <<silver, landing, gold, relogio, dti, eventos>>
    BY <1>9 DEF Propagar, LandingUnchanged, lago, cargaVars, dbtVars
  <2>2. ti'[Landed] = "success" => ti[Landed] = "success"
    BY <1>0, <1>9, PropagarMuda, MarcaDe, EmTarefas
  <2>3. QED
    BY <1>0, <2>1, <2>2, OuroRun
<1>10. QED
  BY <1>1, <1>2, <1>3, <1>4, <1>5, <1>6, <1>7, <1>8, <1>9, Passo DEF Alheio

LEMMA OuroInicio == Init => GInv
<1> SUFFICES ASSUME Init PROVE GInv
  OBVIOUS
<1>1. BagToSet(landing) = {}
  BY DEF Init, BagToSet, EmptyBag, SetToBag
<1>2. DOMAIN silver = {} /\ \A e \in Entidades : gold[e] = {}
  BY DEF Init
<1>3. ti[Landed] # "success"
  BY EmTarefas DEF Init
<1>4. QED
  BY <1>1, <1>2, <1>3
     DEF GInv, Ordenado, DoSilver, EmOrdem, Prefixo, GoldDatado, Cobre, Fresco

LEMMA InvarianteOuro == Spec => [](IInv /\ GInv)
<1>1. IInv /\ GInv /\ [Next]_vars => GInv'
  BY OuroPasso
<1>2. QED
  BY <1>1, OuroInicio, Invariante, PTL DEF Spec

LEMMA FatoPasso ==
    ASSUME IInv, GInv, [Next]_vars
    PROVE  FatoNaoEncolhe
<1>0. TipoRun /\ Lago /\ Tabelas /\ DoSilver /\ GoldDatado
  BY DEF IInv, GInv, Ordenado
<1>1. CASE gold' = gold
  BY <1>1 DEF FatoNaoEncolhe
<1>2. ASSUME NEW e \in Entidades, RodarModelo(e), NEW d \in Grandes, NEW x \in gold[d]
      PROVE  \E y \in gold'[d] : y.chave = x.chave
  <2>1. d \in Entidades
    BY DEF Entidades
  <2>2. CASE d = e /\ gold'[e] = Constroi(e, Novas(e))
    BY <1>0, <1>2, <2>2, ConstroiDe
  <2>3. CASE gold'[d] = gold[d]
    BY <1>2, <2>3
  <2>4. QED
    BY <1>0, <1>2, <2>1, <2>2, <2>3, ModeloEfeito
<1>3. (\E e \in Entidades : RodarModelo(e)) \/ gold' = gold
  <2>1. CASE Dbt
    BY <2>1 DEF Dbt, AbrirDbt, FimDbt, FalhaModelo
  <2>2. CASE Alheio /\ ~Dbt
    BY <2>2 DEF Alheio, Publica, FimRun, vars, PrepararTabela, CopiarArquivo, LandingUnchanged, dbtVars
  <2>3. CASE Operador \/ BaixarMes \/ ExtrairBronze \/ EmitirAsset
    BY <2>3 DEF Operador, AbrirRun, BaixarMes, ExtrairBronze, EmitirAsset, dbtVars
  <2>4. CASE \E g \in Grupos : TransformarSilver(g) \/ IniciarLanding(g) \/ FimLanding(g) \/ MorreLanding(g)
    BY <2>4 DEF TransformarSilver, IniciarLanding, FimLanding, MorreLanding, LandingUnchanged, dbtVars
  <2>5. CASE \E t \in Tarefas : Propagar(t)
    BY <2>5 DEF Propagar, LandingUnchanged, dbtVars
  <2>6. QED
    BY <2>1, <2>2, <2>3, <2>4, <2>5, Passo
<1>4. ASSUME NEW e \in Entidades, RodarModelo(e) PROVE FatoNaoEncolhe
  BY <1>2, <1>4 DEF FatoNaoEncolhe
<1>5. QED
  BY <1>1, <1>3, <1>4

LEMMA EmDiaDeFresco == GInv /\ UmMes => GoldEmDia
BY DEF GInv, Fresco, EmDia, GoldEmDia

\* For every set of files, entities, months, runs and failures: no model takes a
\* key out of an incremental table, whatever part of its landing table is there
\* when it reads it, and while the lake has one month, gold at rest after a green
\* landing and a green model has every key of its landing table, from that load
\* or a later one (RodarModelo, PrepararTabela, CopiarArquivo).
THEOREM OuroDeUmMes == Spec => [][(UmMes' => GoldEmDia') /\ FatoNaoEncolhe]_vars
<1>1. IInv /\ GInv /\ (IInv /\ GInv)' /\ [Next]_vars => [(UmMes' => GoldEmDia') /\ FatoNaoEncolhe]_vars
  <2> SUFFICES ASSUME IInv, GInv, GInv', [Next]_vars
               PROVE  (UmMes' => GoldEmDia') /\ FatoNaoEncolhe
    OBVIOUS
  <2>1. FatoNaoEncolhe
    BY FatoPasso
  <2>2. GInv' /\ UmMes' => GoldEmDia'
    BY EmDiaDeFresco, PTL
  <2>3. QED
    BY <2>1, <2>2
<1>2. QED
  BY <1>1, InvarianteOuro, PTL DEF Spec

\* GoldFiel for the pipeline of a single reference month, whatever its files and
\* entities and whatever runs of it fail, are retried or are repeated.
THEOREM GoldSempreFiel == MaxMes = 1 => (Spec => GoldFiel)
<1> SUFFICES ASSUME MaxMes = 1 PROVE Spec => GoldFiel
  OBVIOUS
<1>1. IInv => UmMes
  <2> SUFFICES ASSUME IInv, NEW p \in DOMAIN silver, NEW q \in DOMAIN silver PROVE p[1] = q[1]
    BY DEF UmMes
  <2>1. p \in Meses \X Arquivos /\ q \in Meses \X Arquivos
    BY DEF IInv, Lago
  <2>2. Meses = {1}
    BY DEF Meses
  <2>3. QED
    BY <2>1, <2>2
<1>2. QED
  BY <1>1, Invariante, OuroDeUmMes, PTL DEF GoldFiel
=============================================================================
