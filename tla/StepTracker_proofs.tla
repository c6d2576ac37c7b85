------------------------- MODULE StepTracker_proofs -------------------------
(***************************************************************************)
(* The colour of a DAG run, its alerts and its audit rows, for every set   *)
(* of tasks and dependencies and any number of retries and signals.        *)
(***************************************************************************)
EXTENDS StepTracker, TLAPS

\* The last attempt and what Airflow holds of the task.
Contada(t) ==
    /\ ti[t] = "up_for_retry" => try_number[t] <= Retries
    /\ ti[t] \in {"none", "upstream_failed"} => try_number[t] = 0
    /\ ti[t] = "running" => try_number[t] # 0

Tipo == TypeOK /\ \A t \in Tarefas : Contada(t)

Resultados == {"success", "skipped", "failed"}

-----------------------------------------------------------------------------
(* Helpers. *)

LEMMA Toca ==
    ASSUME NEW S, NEW f \in [Tarefas -> [Tentativas -> S]], NEW t \in Tarefas, NEW n \in Tentativas,
           NEW v \in S, NEW g, g = [f EXCEPT ![t][n] = v]
    PROVE  /\ g \in [Tarefas -> [Tentativas -> S]]
           /\ g[t][n] = v
           /\ \A s \in Tarefas, m \in Tentativas : s # t \/ m # n => g[s][m] = f[s][m]
<1>1. f[t] \in [Tentativas -> S]
  OBVIOUS
<1>2. [f[t] EXCEPT ![n] = v] \in [Tentativas -> S]
  BY <1>1
<1>3. g = [f EXCEPT ![t] = [f[t] EXCEPT ![n] = v]]
  OBVIOUS
<1>4. QED
  BY <1>1, <1>2, <1>3

\* What recording the end of an attempt does.
LEMMA RegistrarEfeito ==
    ASSUME Tipo, NEW t \in Tarefas, NEW n \in Tentativas, NEW r \in Resultados, Registrar(t, n, r)
    PROVE  \/ UNCHANGED tiVars /\ ~(ti[t] = "running" /\ try_number[t] = n)
           \/ /\ ti[t] = "running" /\ try_number[t] = n /\ UNCHANGED try_number
              /\ ti' = [ti EXCEPT ![t] = IF r = "failed" /\ PodeRepetir(n) THEN "up_for_retry" ELSE r]
              /\ resultado' \in [Tarefas -> [Tentativas -> {"none", "success", "skipped", "failed"}]]
              /\ resultado'[t][n] = r
              /\ \A s \in Tarefas, m \in Tentativas : s # t \/ m # n => resultado'[s][m] = resultado[s][m]
              /\ callbacks' = callbacks \cup
                    (IF r = "failed" THEN {[task |-> t, final |-> n > Retries]} ELSE {})
<1>1. CASE ti[t] = "running" /\ try_number[t] = n
  <2>1. resultado' = [resultado EXCEPT ![t][n] = r]
    BY <1>1 DEF Registrar
  <2>2. r \in {"none", "success", "skipped", "failed"}
    BY DEF Resultados
  <2>3. resultado \in [Tarefas -> [Tentativas -> {"none", "success", "skipped", "failed"}]]
    BY DEF Tipo, TypeOK
  <2>4. /\ resultado' \in [Tarefas -> [Tentativas -> {"none", "success", "skipped", "failed"}]]
        /\ resultado'[t][n] = r
        /\ \A s \in Tarefas, m \in Tentativas : s # t \/ m # n => resultado'[s][m] = resultado[s][m]
    BY <2>1, <2>2, <2>3, Toca
  <2>5. QED
    BY <1>1, <2>4 DEF Registrar, CallbackDe
<1>2. CASE ~(ti[t] = "running" /\ try_number[t] = n)
  BY <1>2 DEF Registrar
<1>3. QED
  BY <1>1, <1>2

\* The part of TypeOK that recording an end can disturb.
LEMMA RegistrarTipo ==
    ASSUME Tipo, NEW t \in Tarefas, NEW n \in Tentativas, NEW r \in Resultados, Registrar(t, n, r)
    PROVE  /\ ti' \in [Tarefas -> {"none", "running", "up_for_retry"} \cup Terminais]
           /\ try_number' \in [Tarefas -> 0..(Retries + 1)]
           /\ resultado' \in [Tarefas -> [Tentativas -> {"none", "success", "skipped", "failed"}]]
           /\ callbacks' \subseteq [task : Tarefas, final : BOOLEAN]
           /\ \A s \in Tarefas : Contada(s)'
<1>1. CASE UNCHANGED tiVars
  BY <1>1 DEF Tipo, TypeOK, tiVars, Contada
<1>2. CASE ~UNCHANGED tiVars
  <2> DEFINE estado == IF r = "failed" /\ PodeRepetir(n) THEN "up_for_retry" ELSE r
  <2>1. /\ ti[t] = "running" /\ try_number[t] = n /\ UNCHANGED try_number
        /\ ti' = [ti EXCEPT ![t] = estado]
        /\ callbacks' = callbacks \cup
              (IF r = "failed" THEN {[task |-> t, final |-> n > Retries]} ELSE {})
        /\ resultado' \in [Tarefas -> [Tentativas -> {"none", "success", "skipped", "failed"}]]
    BY <1>2, RegistrarEfeito
  <2>2. estado \in {"up_for_retry", "success", "skipped", "failed"}
    BY DEF Resultados
  <2>3. estado = "up_for_retry" => n <= Retries
    BY DEF PodeRepetir, Resultados
  <2>4. ti' \in [Tarefas -> {"none", "running", "up_for_retry"} \cup Terminais]
    BY <2>1, <2>2 DEF Tipo, TypeOK, Terminais, Falhados
  <2>5. try_number' \in [Tarefas -> 0..(Retries + 1)]
    BY <2>1 DEF Tipo, TypeOK
  <2>6. callbacks' \subseteq [task : Tarefas, final : BOOLEAN]
    <3> DEFINE fim == n > Retries
    <3>1. fim \in BOOLEAN
      OBVIOUS
    <3>2. callbacks' \subseteq callbacks \cup {[task |-> t, final |-> fim]}
      BY <2>1
    <3> HIDE DEF fim
    <3>3. [task |-> t, final |-> fim] \in [task : Tarefas, final : BOOLEAN]
      BY <3>1
    <3>4. QED
      BY <3>2, <3>3 DEF Tipo, TypeOK
  <2>7. ASSUME NEW s \in Tarefas PROVE Contada(s)'
    <3>1. CASE s = t
      <4>1. ti'[s] = estado /\ try_number'[s] = n
        BY <2>1, <3>1 DEF Tipo, TypeOK
      <4>2. QED
        BY <2>2, <2>3, <4>1 DEF Contada
    <3>2. CASE s # t
      <4>1. ti'[s] = ti[s] /\ try_number'[s] = try_number[s]
        BY <2>1, <3>2 DEF Tipo, TypeOK
      <4>2. QED
        BY <4>1 DEF Tipo, Contada
    <3>3. QED
      BY <3>1, <3>2
  <2>8. QED
    BY <2>1, <2>4, <2>5, <2>6, <2>7
<1>3. QED
  BY <1>1, <1>2

-----------------------------------------------------------------------------
(* Types. *)

Fases == {"ausente", "abrindo", "aberta", "script", "saindo", "gravada", "morto"}
Status == {"nenhuma", "running", "success", "skipped", "failed"}

\* The task side of the state, and the rest of it.
TipoTi ==
    /\ ti \in [Tarefas -> {"none", "running", "up_for_retry"} \cup Terminais]
    /\ try_number \in [Tarefas -> 0..(Retries + 1)]
    /\ resultado \in [Tarefas -> [Tentativas -> {"none", "success", "skipped", "failed"}]]
    /\ callbacks \subseteq [task : Tarefas, final : BOOLEAN]
    /\ \A t \in Tarefas : Contada(t)

TipoProc ==
    /\ proc \in [Tarefas -> [Tentativas -> Fases]]
    /\ codigo \in [Tarefas -> [Tentativas -> Codigos]]

TipoLinha == linha \in [Tarefas -> [Tentativas -> Status]] /\ escrita_ok \in BOOLEAN

TipoResto ==
    /\ alertas \in [Tarefas -> Nat]
    /\ end \in {"none", "up_for_retry", "success", "failed"}
    /\ alerta_end \in BOOLEAN /\ sinais \in 0..MaxSinais

LEMMA TipoPartes == Tipo <=> TipoTi /\ TipoProc /\ TipoLinha /\ TipoResto
BY DEF Tipo, TypeOK, TipoTi, TipoProc, TipoLinha, TipoResto, Fases, Status

LEMMA EscreveTipo ==
    ASSUME TipoLinha, NEW t \in Tarefas, NEW n \in Tentativas, NEW s \in Status, Escreve(t, n, s)
    PROVE  TipoLinha'
<1>1. CASE linha' = Upsert(t, n, s) /\ UNCHANGED escrita_ok
  <2>1. linha' = [linha EXCEPT ![t][n] = s]
    BY <1>1 DEF Upsert
  <2>2. linha' \in [Tarefas -> [Tentativas -> Status]]
    BY <2>1, Toca DEF TipoLinha
  <2>3. QED
    BY <1>1, <2>2 DEF TipoLinha
<1>2. CASE escrita_ok' = FALSE /\ UNCHANGED linha
  BY <1>2 DEF TipoLinha
<1>3. QED
  BY <1>1, <1>2 DEF Escreve

LEMMA ProcTipo ==
    ASSUME TipoProc, NEW t \in Tarefas, NEW n \in Tentativas, NEW f \in Fases, NEW c \in Codigos,
           proc' = [proc EXCEPT ![t][n] = f],
           UNCHANGED codigo \/ codigo' = [codigo EXCEPT ![t][n] = c]
    PROVE  TipoProc'
<1>1. proc' \in [Tarefas -> [Tentativas -> Fases]]
  BY Toca DEF TipoProc
<1>2. codigo' \in [Tarefas -> [Tentativas -> Codigos]]
  <2>1. CASE UNCHANGED codigo
    BY <2>1 DEF TipoProc
  <2>2. CASE codigo' = [codigo EXCEPT ![t][n] = c]
    BY <2>2, Toca DEF TipoProc
  <2>3. QED
    BY <2>1, <2>2
<1>3. QED
  BY <1>1, <1>2 DEF TipoProc

LEMMA RegistrarTipoTi ==
    ASSUME Tipo, NEW t \in Tarefas, NEW n \in Tentativas, NEW r \in Resultados, Registrar(t, n, r)
    PROVE  TipoTi'
BY RegistrarTipo DEF TipoTi

LEMMA TiFica ==
    ASSUME TipoTi, UNCHANGED tiVars
    PROVE  TipoTi'
BY DEF TipoTi, tiVars, Contada

LEMMA ProcessoTipo ==
    ASSUME Tipo, NEW t \in Tarefas, NEW n \in Tentativas, Processo(t, n)
    PROVE  Tipo'
<1>1. TipoTi /\ TipoProc /\ TipoLinha /\ TipoResto /\ MaxSinais \in Nat
  BY TipoPartes, StepAssumption
<1>2. {0, 99, 1} \subseteq Codigos /\ {"aberta", "script", "saindo", "gravada", "morto"} \subseteq Fases
  BY DEF Codigos, Fases
<1>3. \A c : StatusByExitCode(c) \in Resultados /\ StatusByExitCode(c) \in Status
  BY DEF StatusByExitCode, Resultados, Status
<1>4. CASE StepStart(t, n)
  <2>1. /\ proc' = [proc EXCEPT ![t][n] = "aberta"] /\ Escreve(t, n, "running")
        /\ UNCHANGED <<tiVars, codigo, alertas, gateVars, sinais>>
    BY <1>4 DEF StepStart, Passa
  <2>2. "running" \in Status
    BY DEF Status
  <2>3. TipoTi' /\ TipoProc' /\ TipoLinha' /\ TipoResto'
    BY <1>1, <1>2, <2>1, <2>2, TiFica, ProcTipo, EscreveTipo DEF TipoResto, gateVars
  <2>4. QED
    BY <2>3, TipoPartes, PTL
<1>5. CASE InstalarHandler(t, n)
  <2>1. /\ proc' = [proc EXCEPT ![t][n] = "script"]
        /\ UNCHANGED <<tiVars, codigo, linha, alertas, gateVars, escrita_ok, sinais>>
    BY <1>5 DEF InstalarHandler, Passa
  <2>2. TipoTi' /\ TipoProc' /\ TipoLinha' /\ TipoResto'
    BY <1>1, <1>2, <2>1, TiFica, ProcTipo DEF TipoResto, TipoLinha, gateVars
  <2>3. QED
    BY <2>2, TipoPartes, PTL
<1>6. CASE \E c \in {0, 99, 1} : FimScript(t, n, c)
  <2>1. PICK c \in {0, 99, 1} : FimScript(t, n, c)
    BY <1>6
  <2>2. /\ proc' = [proc EXCEPT ![t][n] = "saindo"] /\ codigo' = [codigo EXCEPT ![t][n] = c]
        /\ UNCHANGED <<tiVars, linha, alertas, gateVars, escrita_ok, sinais>>
    BY <2>1 DEF FimScript, Passa
  <2>3. TipoTi' /\ TipoLinha' /\ TipoResto'
    BY <1>1, <2>2, TiFica DEF TipoResto, TipoLinha, gateVars
  <2>4. c \in Codigos /\ "saindo" \in Fases
    BY <1>2
  <2>5. TipoProc'
    BY <1>1, <2>2, <2>4, ProcTipo
  <2>6. QED
    BY <2>3, <2>5, TipoPartes, PTL
<1>7. CASE StepFinish(t, n)
  <2>1. /\ proc' = [proc EXCEPT ![t][n] = "gravada"]
        /\ Escreve(t, n, StatusByExitCode(codigo[t][n]))
        /\ UNCHANGED <<tiVars, codigo, alertas, gateVars, sinais>>
    BY <1>7 DEF StepFinish, Passa
  <2>2. TipoTi' /\ TipoProc' /\ TipoLinha' /\ TipoResto'
    BY <1>1, <1>2, <1>3, <2>1, TiFica, ProcTipo, EscreveTipo DEF TipoResto, gateVars
  <2>3. QED
    BY <2>2, TipoPartes, PTL
<1>8. CASE Sair(t, n)
  <2>1. /\ proc' = [proc EXCEPT ![t][n] = "morto"] /\ codigo' = [codigo EXCEPT ![t][n] = 0]
        /\ Registrar(t, n, StatusByExitCode(codigo[t][n]))
        /\ UNCHANGED <<linha, alertas, gateVars, escrita_ok, sinais>>
    BY <1>8 DEF Sair, Passa
  <2>2. TipoTi' /\ TipoProc' /\ TipoLinha' /\ TipoResto'
    BY <1>1, <1>2, <1>3, <2>1, RegistrarTipoTi, ProcTipo DEF TipoResto, TipoLinha, gateVars
  <2>3. QED
    BY <2>2, TipoPartes, PTL
<1>9. CASE Sigterm(t, n)
  <2>1. TipoTi'
    BY <1>1, <1>9, RegistrarTipoTi, TiFica DEF Sigterm, Resultados
  <2>2. TipoProc'
    BY <1>1, <1>2, <1>9, ProcTipo DEF Sigterm
  <2>3. TipoLinha' /\ TipoResto'
    BY <1>1, <1>9 DEF Sigterm, TipoLinha, TipoResto, gateVars
  <2>4. QED
    BY <2>1, <2>2, <2>3, TipoPartes, PTL
<1>10. CASE Sigkill(t, n)
  <2>1. TipoTi'
    BY <1>1, <1>10, RegistrarTipoTi DEF Sigkill, Resultados
  <2>2. TipoProc'
    BY <1>1, <1>2, <1>10, ProcTipo DEF Sigkill
  <2>3. TipoLinha' /\ TipoResto'
    BY <1>1, <1>10 DEF Sigkill, TipoLinha, TipoResto, gateVars
  <2>4. QED
    BY <2>1, <2>2, <2>3, TipoPartes, PTL
<1>11. QED
  BY <1>4, <1>5, <1>6, <1>7, <1>8, <1>9, <1>10 DEF Processo

LEMMA IniciarEfeito ==
    ASSUME Tipo, NEW t \in Tarefas, IniciarTentativa(t)
    PROVE  /\ try_number[t] <= Retries /\ ti[t] \in {"none", "up_for_retry"}
           /\ try_number[t] + 1 \in Tentativas
           /\ ti' = [ti EXCEPT ![t] = "running"]
           /\ try_number' = [try_number EXCEPT ![t] = try_number[t] + 1]
           /\ proc' = [proc EXCEPT ![t][try_number[t] + 1] = "abrindo"]
<1>1. try_number[t] \in 0..(Retries + 1) /\ Contada(t) /\ Retries \in Nat
  BY StepAssumption DEF Tipo, TypeOK
<1>2. try_number[t] <= Retries /\ ti[t] \in {"none", "up_for_retry"}
  BY <1>1 DEF IniciarTentativa, Contada
<1>3. QED
  BY <1>1, <1>2 DEF IniciarTentativa, Tentativas

LEMMA TarefaTipo ==
    ASSUME Tipo, NEW t \in Tarefas, IniciarTentativa(t) \/ Propagar(t)
    PROVE  Tipo'
<1>1. TipoTi /\ TipoProc /\ TipoLinha /\ TipoResto /\ Retries \in Nat
  BY TipoPartes, StepAssumption
<1>2. CASE IniciarTentativa(t)
  <2>8. UNCHANGED <<resultado, callbacks, codigo, linha, alertas, gateVars, escrita_ok, sinais>>
    BY <1>2 DEF IniciarTentativa
  <2>9. try_number[t] \in Nat
    BY <1>1 DEF TipoTi
  <2>1. /\ try_number[t] + 1 \in Tentativas
        /\ ti' = [ti EXCEPT ![t] = "running"]
        /\ try_number' = [try_number EXCEPT ![t] = try_number[t] + 1]
        /\ proc' = [proc EXCEPT ![t][try_number[t] + 1] = "abrindo"]
    BY <1>2, IniciarEfeito
  <2>2. TipoProc'
    <3>1. "abrindo" \in Fases /\ 0 \in Codigos
      BY DEF Fases, Codigos
    <3>2. QED
      BY <1>1, <2>8, <2>9, <2>1, <3>1, ProcTipo
  <2>3. ASSUME NEW s \in Tarefas PROVE Contada(s)'
    <3>1. CASE s = t
      BY <1>1, <2>8, <2>9, <2>1, <3>1 DEF TipoTi, Contada
    <3>2. CASE s # t
      BY <1>1, <2>8, <2>9, <2>1, <3>2 DEF TipoTi, Contada
    <3>3. QED
      BY <3>1, <3>2
  <2>4. try_number' \in [Tarefas -> 0..(Retries + 1)]
    BY <1>1, <2>8, <2>9, <2>1 DEF TipoTi, Tentativas
  <2>5. TipoTi'
    BY <1>1, <2>8, <2>9, <2>1, <2>3, <2>4 DEF TipoTi
  <2>6. TipoLinha' /\ TipoResto'
    BY <1>1, <2>8, <2>9, <2>1 DEF TipoLinha, TipoResto, gateVars
  <2>7. QED
    BY <2>2, <2>5, <2>6, TipoPartes, PTL
<1>3. CASE Propagar(t)
  <2>1. PICK estado \in {"upstream_failed", "skipped"} : ti' = [ti EXCEPT ![t] = estado]
    BY <1>3 DEF Propagar
  <2>2. /\ UNCHANGED <<try_number, resultado, callbacks, procVars, linha, alertas, gateVars, escrita_ok, sinais>>
        /\ ti[t] = "none"
    BY <1>3 DEF Propagar
  <2>3. ASSUME NEW s \in Tarefas PROVE Contada(s)'
    <3>1. CASE s = t
      BY <1>1, <2>1, <2>2, <3>1 DEF TipoTi, Contada
    <3>2. CASE s # t
      BY <1>1, <2>1, <2>2, <3>2 DEF TipoTi, Contada
    <3>3. QED
      BY <3>1, <3>2
  <2>4. TipoTi'
    BY <1>1, <2>1, <2>2, <2>3 DEF TipoTi, Terminais, Falhados
  <2>5. TipoProc' /\ TipoLinha' /\ TipoResto'
    BY <1>1, <2>2 DEF TipoProc, procVars, TipoLinha, TipoResto, gateVars
  <2>6. QED
    BY <2>4, <2>5, TipoPartes, PTL
<1>4. QED
  BY <1>2, <1>3

LEMMA HeartbeatTipo ==
    ASSUME Tipo, NEW t \in Tarefas, NEW n \in Tentativas, PerderHeartbeat(t, n)
    PROVE  Tipo'
<1>1. TipoTi /\ TipoProc /\ TipoLinha /\ TipoResto /\ MaxSinais \in Nat
  BY TipoPartes, StepAssumption
<1>2. TipoTi'
  BY RegistrarTipoTi DEF PerderHeartbeat, Resultados
<1>3. TipoProc' /\ TipoLinha' /\ TipoResto'
  BY <1>1 DEF PerderHeartbeat, TipoProc, procVars, TipoLinha, TipoResto, gateVars
<1>4. QED
  BY <1>2, <1>3, TipoPartes, PTL

LEMMA CallbackEfeito ==
    ASSUME Tipo, NEW c \in callbacks, Callback(c)
    PROVE  /\ c.task \in Tarefas /\ c = [task |-> c.task, final |-> c.final] /\ c.final \in BOOLEAN
           /\ callbacks' = callbacks \ {c}
           /\ UNCHANGED <<ti, try_number, resultado, procVars, gateVars, sinais>>
           /\ alertas' = [alertas EXCEPT ![c.task] = alertas[c.task] + (IF c.final THEN 1 ELSE 0)]
           /\ linha' \in [Tarefas -> [Tentativas -> Status]]
           /\ \/ /\ UNCHANGED escrita_ok
                 /\ \A s \in Tarefas, m \in Tentativas :
                       linha'[s][m] = IF s = c.task /\ linha[s][m] = "running" THEN "failed"
                                      ELSE linha[s][m]
              \/ escrita_ok' = FALSE /\ UNCHANGED linha
<1>1. c \in [task : Tarefas, final : BOOLEAN] /\ linha \in [Tarefas -> [Tentativas -> Status]]
  BY DEF Tipo, TypeOK, Status
<1>2. c.task \in Tarefas /\ c = [task |-> c.task, final |-> c.final] /\ c.final \in BOOLEAN
  BY <1>1
<1>3. CASE linha' = CloseOrphanStepRuns(c.task) /\ UNCHANGED escrita_ok
  <2>1. \A s \in Tarefas : linha'[s] =
           IF s = c.task
           THEN [n \in Tentativas |-> IF linha[s][n] = "running" THEN "failed" ELSE linha[s][n]]
           ELSE linha[s]
    BY <1>1, <1>2, <1>3 DEF CloseOrphanStepRuns
  <2>2. \A s \in Tarefas : linha[s] \in [Tentativas -> Status]
    BY <1>1
  <2>3. \A s \in Tarefas, m \in Tentativas :
           linha'[s][m] = IF s = c.task /\ linha[s][m] = "running" THEN "failed" ELSE linha[s][m]
    BY <2>1
  <2>4. [n \in Tentativas |-> IF linha[c.task][n] = "running" THEN "failed" ELSE linha[c.task][n]]
          \in [Tentativas -> Status]
    BY <1>2, <2>2 DEF Status
  <2>5. linha' \in [Tarefas -> [Tentativas -> Status]]
    BY <1>1, <1>2, <1>3, <2>4 DEF CloseOrphanStepRuns
  <2>6. QED
    BY <1>2, <1>3, <2>3, <2>5 DEF Callback, Alerta
<1>4. CASE escrita_ok' = FALSE /\ UNCHANGED linha
  BY <1>1, <1>2, <1>4 DEF Callback, Alerta
<1>5. QED
  BY <1>3, <1>4 DEF Callback

LEMMA CallbackTipo ==
    ASSUME Tipo, NEW c \in callbacks, Callback(c)
    PROVE  Tipo'
<1>1. TipoTi /\ TipoProc /\ TipoLinha /\ TipoResto
  BY TipoPartes
<1>2. TipoTi' /\ TipoProc'
  <2>1. callbacks' \subseteq callbacks /\ UNCHANGED <<ti, try_number, resultado, proc, codigo>>
    BY CallbackEfeito DEF procVars
  <2>2. QED
    BY <1>1, <2>1 DEF TipoTi, TipoProc, Contada
<1>3. TipoLinha'
  BY <1>1, CallbackEfeito DEF TipoLinha
<1>4. TipoResto'
  <2>1. alertas[c.task] + (IF c.final THEN 1 ELSE 0) \in Nat
    <3>1. alertas[c.task] \in Nat
      BY <1>1, CallbackEfeito DEF TipoResto
    <3>2. (IF c.final THEN 1 ELSE 0) \in {0, 1}
      OBVIOUS
    <3>3. QED
      BY <3>1, <3>2
  <2>2. QED
    BY <1>1, <2>1, CallbackEfeito DEF TipoResto, gateVars
<1>5. QED
  BY <1>2, <1>3, <1>4, TipoPartes, PTL

LEMMA GateTipo ==
    ASSUME Tipo, Gate \/ GateIlegivel
    PROVE  Tipo'
<1>1. TipoTi /\ TipoProc /\ TipoLinha /\ TipoResto
  BY TipoPartes
<1>2. TipoTi' /\ TipoProc' /\ TipoLinha'
  BY <1>1, TiFica DEF Gate, GateIlegivel, TipoProc, procVars, TipoLinha
<1>3. end' \in {"none", "up_for_retry", "success", "failed"} /\ alerta_end' \in BOOLEAN
  BY <1>1 DEF Gate, GateIlegivel, SemResposta, TipoResto
<1>4. TipoResto'
  BY <1>1, <1>3 DEF Gate, GateIlegivel, TipoResto
<1>5. QED
  BY <1>2, <1>4, TipoPartes, PTL

LEMMA TipoInit == Init => Tipo
<1>1. Init => TypeOK
  <2> SUFFICES ASSUME Init PROVE TypeOK
    OBVIOUS
  <2>1. Retries \in Nat /\ MaxSinais \in Nat
    BY StepAssumption
  <2>2. /\ ti \in [Tarefas -> {"none", "running", "up_for_retry"} \cup Terminais]
        /\ try_number \in [Tarefas -> 0..(Retries + 1)] /\ alertas \in [Tarefas -> Nat]
        /\ sinais \in 0..MaxSinais
    BY <2>1 DEF Init
  <2>3. /\ proc \in [Tarefas -> [Tentativas -> Fases]]
        /\ codigo \in [Tarefas -> [Tentativas -> Codigos]]
        /\ linha \in [Tarefas -> [Tentativas -> Status]]
        /\ resultado \in [Tarefas -> [Tentativas -> {"none", "success", "skipped", "failed"}]]
    BY DEF Init, Fases, Codigos, Status
  <2>4. /\ callbacks \subseteq [task : Tarefas, final : BOOLEAN]
        /\ end \in {"none", "up_for_retry", "success", "failed"}
        /\ {alerta_end, escrita_ok} \subseteq BOOLEAN
    BY DEF Init
  <2>5. QED
    BY <2>2, <2>3, <2>4 DEF TypeOK, Fases, Status
<1>2. Init => \A t \in Tarefas : Contada(t)
  BY DEF Init, Contada
<1>3. QED
  BY <1>1, <1>2 DEF Tipo

LEMMA TipoPasso == Tipo /\ [Next]_vars => Tipo'
<1> SUFFICES ASSUME Tipo, [Next]_vars PROVE Tipo'
  OBVIOUS
<1>1. CASE \E t \in Tarefas : IniciarTentativa(t) \/ Propagar(t)
  BY <1>1, TarefaTipo
<1>2. CASE \E t \in Tarefas, n \in Tentativas : Processo(t, n) \/ PerderHeartbeat(t, n)
  BY <1>2, ProcessoTipo, HeartbeatTipo
<1>3. CASE \E c \in callbacks : Callback(c)
  BY <1>3, CallbackTipo
<1>4. CASE Gate \/ GateIlegivel
  BY <1>4, GateTipo
<1>5. CASE UNCHANGED vars
  BY <1>5 DEF vars, tiVars, procVars, gateVars, Tipo, TypeOK, Contada
<1>6. QED
  BY <1>1, <1>2, <1>3, <1>4, <1>5 DEF Next

\* The state keeps its shape: no attempt beyond the retries is ever started.
THEOREM Tipos == Spec => []TypeOK
<1>1. Tipo => TypeOK
  BY DEF Tipo
<1>2. QED
  BY TipoInit, TipoPasso, <1>1, PTL DEF Spec

-----------------------------------------------------------------------------
(* The colour of the run and its alerts.  A task that failed has alerted   *)
(* or its final callback is still to run, and not both; whatever was left  *)
(* undone for an upstream failure has a failure at its root; and the gate  *)
(* speaks when nothing can move any more.                                  *)

Final(t) == [task |-> t, final |-> TRUE]

Alertado(t) ==
    IF ti[t] = "failed"
    THEN \/ alertas[t] = 1 /\ Final(t) \notin callbacks
         \/ alertas[t] = 0 /\ Final(t) \in callbacks
    ELSE alertas[t] = 0 /\ Final(t) \notin callbacks

Portao ==
    /\ end # "none" => \A t \in Tarefas : ti[t] \in Terminais
    /\ end = "success" => \A t \in Tarefas : ti[t] \notin Falhados
    /\ (\E t \in Tarefas : ti[t] = "upstream_failed") => \E u \in Tarefas : ti[u] = "failed"
    /\ end = "failed" => alerta_end \/ \E t \in Tarefas : ti[t] = "failed"

Desfecho == Portao /\ \A t \in Tarefas : Alertado(t)

LEMMA DesfechoMantido ==
    ASSUME Desfecho, UNCHANGED <<ti, callbacks, alertas, gateVars>>
    PROVE  Desfecho'
BY DEF Desfecho, Portao, Alertado, gateVars

LEMMA DesfechoRegistrar ==
    ASSUME Tipo, Desfecho, NEW t \in Tarefas, NEW n \in Tentativas, NEW r \in Resultados,
           Registrar(t, n, r), UNCHANGED <<alertas, gateVars>>
    PROVE  Desfecho'
<1>1. CASE UNCHANGED tiVars
  BY <1>1, DesfechoMantido DEF tiVars
<1>2. CASE ~UNCHANGED tiVars
  <2> DEFINE estado == IF r = "failed" /\ PodeRepetir(n) THEN "up_for_retry" ELSE r
             fim == n > Retries
  <2>1. /\ ti[t] = "running" /\ ti' = [ti EXCEPT ![t] = estado]
        /\ callbacks' = callbacks \cup (IF r = "failed" THEN {[task |-> t, final |-> fim]} ELSE {})
    BY <1>2, RegistrarEfeito
  <2>2. estado \in {"up_for_retry", "success", "skipped", "failed"}
    BY DEF Resultados
  <2>3. estado = "failed" <=> r = "failed" /\ fim
    BY StepAssumption DEF PodeRepetir, Resultados, Tentativas
  <2>4. fim \in BOOLEAN
    OBVIOUS
  <2> HIDE DEF estado, fim
  <2>5. ti'[t] = estado /\ \A s \in Tarefas \ {t} : ti'[s] = ti[s]
    BY <2>1 DEF Tipo, TypeOK
  <2>6. Final(t) \in callbacks' <=> Final(t) \in callbacks \/ (r = "failed" /\ fim)
    BY <2>1, <2>4 DEF Final
  <2>7. \A s \in Tarefas \ {t} : Final(s) \in callbacks' <=> Final(s) \in callbacks
    BY <2>1 DEF Final
  <2>8. Alertado(t)'
    BY <2>1, <2>3, <2>5, <2>6 DEF Desfecho, Alertado
  <2>9. ASSUME NEW s \in Tarefas \ {t} PROVE Alertado(s)'
    BY <2>5, <2>7 DEF Desfecho, Alertado
  <2>10. end = "none"
    BY <2>1 DEF Desfecho, Portao, Terminais, Falhados
  <2>11. (\E x \in Tarefas : ti'[x] = "upstream_failed") => \E u \in Tarefas : ti'[u] = "failed"
    BY <2>1, <2>2, <2>5 DEF Desfecho, Portao
  <2>12. Portao'
    BY <2>10, <2>11 DEF Portao, gateVars
  <2>13. QED
    BY <2>8, <2>9, <2>12 DEF Desfecho
<1>3. QED
  BY <1>1, <1>2

LEMMA DesfechoTarefa ==
    ASSUME Tipo, Desfecho, NEW t \in Tarefas, IniciarTentativa(t) \/ Propagar(t)
    PROVE  Desfecho'
<1>1. /\ UNCHANGED <<callbacks, alertas, gateVars>> /\ ti[t] \in {"none", "up_for_retry"}
  BY DEF IniciarTentativa, Propagar
<1>2. end = "none" /\ end' = "none"
  BY <1>1 DEF Desfecho, Portao, Terminais, Falhados, gateVars
<1>3. PICK estado \in {"running", "upstream_failed", "skipped"} :
         /\ ti' = [ti EXCEPT ![t] = estado]
         /\ estado = "upstream_failed" => \E u \in Tarefas : ti[u] \in Falhados
  <2>1. Acima[t] \subseteq Tarefas
    BY StepAssumption
  <2>2. QED
    BY <2>1 DEF IniciarTentativa, Propagar
<1>4. ti'[t] = estado /\ \A s \in Tarefas \ {t} : ti'[s] = ti[s]
  BY <1>3 DEF Tipo, TypeOK
<1>5. ASSUME NEW s \in Tarefas PROVE Alertado(s)'
  BY <1>1, <1>3, <1>4 DEF Desfecho, Alertado
<1>6. (\E x \in Tarefas : ti'[x] = "upstream_failed") => \E u \in Tarefas : ti'[u] = "failed"
  <2>1. ASSUME NEW u \in Tarefas, ti[u] = "failed" PROVE ti'[u] = "failed"
    BY <1>1, <1>4, <2>1
  <2>2. (\E x \in Tarefas : ti[x] \in Falhados) => \E u \in Tarefas : ti[u] = "failed"
    BY DEF Desfecho, Portao, Falhados
  <2>3. QED
    BY <1>3, <1>4, <2>1, <2>2 DEF Falhados
<1>7. Portao'
  BY <1>2, <1>6 DEF Portao
<1>8. QED
  BY <1>5, <1>7 DEF Desfecho

LEMMA DesfechoCallback ==
    ASSUME Tipo, Desfecho, NEW c \in callbacks, Callback(c)
    PROVE  Desfecho'
<1>1. /\ c.task \in Tarefas /\ c = [task |-> c.task, final |-> c.final] /\ c.final \in BOOLEAN
      /\ callbacks' = callbacks \ {c} /\ UNCHANGED <<ti, end, alerta_end>>
      /\ alertas' = [alertas EXCEPT ![c.task] = alertas[c.task] + (IF c.final THEN 1 ELSE 0)]
      /\ alertas \in [Tarefas -> Nat]
  BY CallbackEfeito DEF gateVars, Tipo, TypeOK
<1>2. Portao'
  BY <1>1 DEF Desfecho, Portao
<1>3. CASE c.final
  <2>1. c = Final(c.task)
    BY <1>1, <1>3 DEF Final
  <2>2. \A s \in Tarefas : Final(s) \in callbacks' <=> s # c.task /\ Final(s) \in callbacks
    BY <1>1, <2>1 DEF Final
  <2>3. alertas'[c.task] = alertas[c.task] + 1 /\ \A s \in Tarefas \ {c.task} : alertas'[s] = alertas[s]
    BY <1>1, <1>3
  <2>4. ti[c.task] = "failed" /\ alertas[c.task] = 0
    BY <1>1, <2>1 DEF Desfecho, Alertado
  <2>5. ASSUME NEW s \in Tarefas PROVE Alertado(s)'
    BY <1>1, <2>2, <2>3, <2>4 DEF Desfecho, Alertado
  <2>6. QED
    BY <1>2, <2>5 DEF Desfecho
<1>4. CASE ~c.final
  <2>1. \A s \in Tarefas : c # Final(s)
    BY <1>1, <1>4 DEF Final
  <2>2. \A s \in Tarefas : alertas'[s] = alertas[s]
    BY <1>1, <1>4
  <2>3. ASSUME NEW s \in Tarefas PROVE Alertado(s)'
    BY <1>1, <2>1, <2>2 DEF Desfecho, Alertado
  <2>4. QED
    BY <1>2, <2>3 DEF Desfecho
<1>5. QED
  BY <1>1, <1>3, <1>4

LEMMA DesfechoGate ==
    ASSUME Tipo, Desfecho, Gate \/ GateIlegivel
    PROVE  Desfecho'
<1>1. UNCHANGED <<ti, callbacks, alertas>> /\ \A t \in Tarefas : ti[t] \in Terminais
  BY DEF Gate, GateIlegivel, GatePronto, tiVars
<1>2. end' = "success" => \A t \in Tarefas : ti[t] \notin Falhados
  BY DEF Gate, GateIlegivel, FailedTasks, SemResposta
<1>3. (\E t \in Tarefas : ti[t] \in Falhados) => \E u \in Tarefas : ti[u] = "failed"
  BY DEF Desfecho, Portao, Falhados
<1>4. end' = "failed" => alerta_end' \/ \E t \in Tarefas : ti[t] = "failed"
  BY <1>3 DEF Gate, GateIlegivel, FailedTasks
<1>5. Portao'
  BY <1>1, <1>2, <1>4 DEF Desfecho, Portao
<1>6. ASSUME NEW s \in Tarefas PROVE Alertado(s)'
  BY <1>1 DEF Desfecho, Alertado
<1>7. QED
  BY <1>5, <1>6 DEF Desfecho

LEMMA DesfechoProcesso ==
    ASSUME Tipo, Desfecho, NEW t \in Tarefas, NEW n \in Tentativas,
           Processo(t, n) \/ PerderHeartbeat(t, n)
    PROVE  Desfecho'
<1>1. "failed" \in Resultados /\ \A c : StatusByExitCode(c) \in Resultados
  BY DEF Resultados, StatusByExitCode
<1>2. CASE PerderHeartbeat(t, n)
  BY <1>1, <1>2, DesfechoRegistrar DEF PerderHeartbeat
<1>3. CASE StepStart(t, n) \/ InstalarHandler(t, n) \/ StepFinish(t, n) \/
           \E c \in {0, 99, 1} : FimScript(t, n, c)
  BY <1>3, DesfechoMantido DEF StepStart, InstalarHandler, StepFinish, FimScript, tiVars
<1>4. CASE Sair(t, n)
  BY <1>1, <1>4, DesfechoRegistrar DEF Sair
<1>5. CASE Sigterm(t, n)
  BY <1>1, <1>5, DesfechoRegistrar, DesfechoMantido DEF Sigterm, tiVars
<1>6. CASE Sigkill(t, n)
  BY <1>1, <1>6, DesfechoRegistrar DEF Sigkill
<1>7. QED
  BY <1>2, <1>3, <1>4, <1>5, <1>6 DEF Processo

LEMMA DesfechoPasso == Tipo /\ Desfecho /\ [Next]_vars => Desfecho'
<1> SUFFICES ASSUME Tipo, Desfecho, [Next]_vars PROVE Desfecho'
  OBVIOUS
<1>1. CASE \E t \in Tarefas : IniciarTentativa(t) \/ Propagar(t)
  BY <1>1, DesfechoTarefa
<1>2. CASE \E t \in Tarefas, n \in Tentativas : Processo(t, n) \/ PerderHeartbeat(t, n)
  BY <1>2, DesfechoProcesso
<1>3. CASE \E c \in callbacks : Callback(c)
  BY <1>3, DesfechoCallback
<1>4. CASE Gate \/ GateIlegivel
  BY <1>4, DesfechoGate
<1>5. CASE UNCHANGED vars
  BY <1>5, DesfechoMantido DEF vars, tiVars
<1>6. QED
  BY <1>1, <1>2, <1>3, <1>4, <1>5 DEF Next

\* The DAG run tells the truth and alerts once, on the root cause: the gate is
\* green only over tasks that did not fail, and at rest exactly the tasks that
\* failed by themselves have alerted (audit_logger.py, airflow_callbacks.py).
THEOREM Desfechos == Spec => []DesfechoFiel
<1>1. Init => Desfecho
  BY DEF Init, Desfecho, Portao, Alertado
<1>2. Tipo /\ Desfecho => DesfechoFiel
  BY DEF Desfecho, Portao, Alertado, DesfechoFiel, RunVerdadeiro, AlertaUmaVez, EmRepouso
<1>3. QED
  BY TipoInit, TipoPasso, DesfechoPasso, <1>1, <1>2, PTL DEF Spec

-----------------------------------------------------------------------------
(* The audit rows.  The row of an attempt that is gone is what Airflow     *)
(* recorded, or a callback that closes it is still to run; what finish()   *)
(* wrote stays, because a callback closes running rows only.               *)

Fiel(t, n) ==
    /\ n > try_number[t] =>
          proc[t][n] = "ausente" /\ linha[t][n] = "nenhuma" /\ resultado[t][n] = "none"
    /\ n <= try_number[t] => proc[t][n] # "ausente"
    /\ n < try_number[t] => resultado[t][n] = "failed"
    /\ n = try_number[t] => /\ ti[t] = "running" <=> resultado[t][n] = "none"
                            /\ ti[t] = "up_for_retry" => resultado[t][n] = "failed"
    /\ n <= try_number[t] /\ resultado[t][n] = "none" => proc[t][n] # "morto"
    /\ resultado[t][n] = "failed" => proc[t][n] # "abrindo"
    /\ resultado[t][n] \in {"success", "skipped"} =>
          proc[t][n] = "morto" /\ (escrita_ok => linha[t][n] = resultado[t][n])
    /\ escrita_ok /\ proc[t][n] = "gravada" => linha[t][n] = StatusByExitCode(codigo[t][n])
    /\ escrita_ok /\ resultado[t][n] = "failed" /\ linha[t][n] = "running" =>
          \E c \in callbacks : c.task = t

Fieis == \A t \in Tarefas, n \in Tentativas : Fiel(t, n)

\* A step that another attempt takes.
LEMMA FielOutra ==
    ASSUME Fieis, NEW s \in Tarefas, NEW m \in Tentativas,
           proc'[s][m] = proc[s][m], codigo'[s][m] = codigo[s][m],
           linha'[s][m] = linha[s][m], resultado'[s][m] = resultado[s][m],
           UNCHANGED try_number, callbacks \subseteq callbacks', escrita_ok' => escrita_ok,
           ti'[s] = ti[s] \/ m # try_number[s]
    PROVE  Fiel(s, m)'
<1>1. Fiel(s, m)
  BY DEF Fieis
<1>2. QED
  BY <1>1 DEF Fiel

LEMMA EscreveEfeito ==
    ASSUME Tipo, NEW t \in Tarefas, NEW n \in Tentativas, NEW s \in Status, Escreve(t, n, s)
    PROVE  /\ \A x \in Tarefas, m \in Tentativas : x # t \/ m # n => linha'[x][m] = linha[x][m]
           /\ escrita_ok' => escrita_ok /\ linha'[t][n] = s
<1>1. CASE linha' = Upsert(t, n, s) /\ UNCHANGED escrita_ok
  <2>1. linha' = [linha EXCEPT ![t][n] = s] /\ linha \in [Tarefas -> [Tentativas -> Status]]
    BY <1>1 DEF Upsert, Tipo, TypeOK, Status
  <2>2. /\ linha'[t][n] = s
        /\ \A x \in Tarefas, m \in Tentativas : x # t \/ m # n => linha'[x][m] = linha[x][m]
    BY <2>1, Toca
  <2>3. QED
    BY <1>1, <2>2
<1>2. CASE escrita_ok' = FALSE /\ UNCHANGED linha
  BY <1>2
<1>3. QED
  BY <1>1, <1>2 DEF Escreve

LEMMA ProcEfeito ==
    ASSUME Tipo, NEW t \in Tarefas, NEW n \in Tentativas, NEW f \in Fases,
           proc' = [proc EXCEPT ![t][n] = f]
    PROVE  /\ proc'[t][n] = f
           /\ \A x \in Tarefas, m \in Tentativas : x # t \/ m # n => proc'[x][m] = proc[x][m]
<1>1. proc \in [Tarefas -> [Tentativas -> Fases]]
  BY DEF Tipo, TypeOK, Fases
<1>2. QED
  BY <1>1, Toca

LEMMA FimEfeito ==
    ASSUME Tipo, NEW t \in Tarefas, NEW n \in Tentativas, proc' = [proc EXCEPT ![t][n] = "morto"]
    PROVE  /\ proc'[t][n] = "morto"
           /\ \A x \in Tarefas, m \in Tentativas : x # t \/ m # n => proc'[x][m] = proc[x][m]
<1>1. proc \in [Tarefas -> [Tentativas -> Fases]] /\ proc[t] \in [Tentativas -> Fases]
  BY DEF Tipo, TypeOK, Fases
<1>2. proc' = [proc EXCEPT ![t] = [proc[t] EXCEPT ![n] = "morto"]]
  OBVIOUS
<1>3. QED
  BY <1>1, <1>2

LEMMA CodigoEfeito ==
    ASSUME Tipo, NEW t \in Tarefas, NEW n \in Tentativas, NEW c \in Codigos,
           codigo' = [codigo EXCEPT ![t][n] = c]
    PROVE  /\ codigo'[t][n] = c
           /\ \A x \in Tarefas, m \in Tentativas : x # t \/ m # n => codigo'[x][m] = codigo[x][m]
<1>1. codigo \in [Tarefas -> [Tentativas -> Codigos]]
  BY DEF Tipo, TypeOK
<1>2. QED
  BY <1>1, Toca

\* An attempt whose process has begun, and has not yet ended.
LEMMA VivaContada ==
    ASSUME Tipo, Fieis, NEW t \in Tarefas, NEW n \in Tentativas, Vivo(t, n)
    PROVE  /\ n \in Nat /\ try_number[t] \in Nat /\ n <= try_number[t]
           /\ resultado[t][n] \in {"none", "failed"}
           /\ resultado[t][n] = "none" => ti[t] = "running" /\ n = try_number[t]
<1>1. n \in Nat /\ try_number[t] \in Nat /\ Fiel(t, n)
      /\ resultado[t][n] \in {"none", "success", "skipped", "failed"}
  <2>1. n \in Nat /\ Fiel(t, n)
    BY DEF Fieis, Tentativas
  <2>2. try_number \in [Tarefas -> 0..(Retries + 1)]
    BY DEF Tipo, TypeOK
  <2>3. resultado \in [Tarefas -> [Tentativas -> {"none", "success", "skipped", "failed"}]]
    BY DEF Tipo, TypeOK
  <2>4. try_number[t] \in Nat
    BY <2>2
  <2>5. resultado[t] \in [Tentativas -> {"none", "success", "skipped", "failed"}]
    BY <2>3
  <2>6. QED
    BY <2>1, <2>4, <2>5
<1>2. n <= try_number[t]
  BY <1>1 DEF Fiel, Vivo
<1>3. resultado[t][n] \in {"none", "failed"}
  BY <1>1 DEF Fiel, Vivo
<1>4. resultado[t][n] = "none" => ti[t] = "running" /\ n = try_number[t]
  BY <1>1, <1>2 DEF Fiel
<1>5. QED
  BY <1>1, <1>2, <1>3, <1>4

\* The end of an attempt, recorded or given up before.
LEMMA FielFim ==
    ASSUME Tipo, Fieis, NEW t \in Tarefas, NEW n \in Tentativas, NEW r \in Resultados,
           Vivo(t, n), Registrar(t, n, r), UNCHANGED <<linha, escrita_ok>>,
           r # "failed" /\ escrita_ok => linha[t][n] = r,
           proc' = [proc EXCEPT ![t][n] = "morto"], codigo' = [codigo EXCEPT ![t][n] = 0]
    PROVE  Fieis'
<1>1. "morto" \in Fases /\ 0 \in Codigos
  BY DEF Fases, Codigos
<1>2. /\ proc'[t][n] = "morto"
      /\ \A x \in Tarefas, m \in Tentativas : x # t \/ m # n =>
            proc'[x][m] = proc[x][m] /\ codigo'[x][m] = codigo[x][m]
  <2>1. /\ proc'[t][n] = "morto"
        /\ \A x \in Tarefas, m \in Tentativas : x # t \/ m # n => proc'[x][m] = proc[x][m]
    BY FimEfeito
  <2>2. \A x \in Tarefas, m \in Tentativas : x # t \/ m # n => codigo'[x][m] = codigo[x][m]
    BY <1>1, CodigoEfeito
  <2>3. QED
    BY <2>1, <2>2
<1>3. n <= try_number[t] /\ n \in Nat /\ try_number[t] \in Nat /\ Fiel(t, n)
  BY VivaContada DEF Fieis
<1>4. CASE UNCHANGED tiVars /\ ~(ti[t] = "running" /\ try_number[t] = n)
  <2>1. resultado[t][n] = "failed"
    BY <1>4, VivaContada
  <2>2. Fiel(t, n)'
    BY <1>2, <1>3, <1>4, <2>1 DEF Fiel, tiVars
  <2>3. ASSUME NEW x \in Tarefas, NEW m \in Tentativas, x # t \/ m # n PROVE Fiel(x, m)'
    BY <1>2, <1>4, <2>3, FielOutra DEF tiVars
  <2>4. QED
    BY <2>2, <2>3 DEF Fieis
<1>5. CASE ~(UNCHANGED tiVars /\ ~(ti[t] = "running" /\ try_number[t] = n))
  <2> DEFINE estado == IF r = "failed" /\ PodeRepetir(n) THEN "up_for_retry" ELSE r
             fim == n > Retries
  <2>1. /\ ti[t] = "running" /\ try_number[t] = n /\ UNCHANGED try_number
        /\ ti' = [ti EXCEPT ![t] = estado] /\ resultado'[t][n] = r
        /\ \A x \in Tarefas, m \in Tentativas : x # t \/ m # n => resultado'[x][m] = resultado[x][m]
        /\ callbacks' = callbacks \cup (IF r = "failed" THEN {[task |-> t, final |-> fim]} ELSE {})
    BY <1>5, RegistrarEfeito
  <2>2. estado # "running" /\ (estado = "up_for_retry" => r = "failed")
    BY DEF Resultados
  <2> HIDE DEF estado, fim
  <2>3. ti'[t] = estado /\ \A x \in Tarefas \ {t} : ti'[x] = ti[x]
    BY <2>1 DEF Tipo, TypeOK
  <2>4. callbacks \subseteq callbacks' /\ (r = "failed" => \E c \in callbacks' : c.task = t)
    <3>1. r = "failed" => [task |-> t, final |-> fim] \in callbacks'
      BY <2>1
    <3>2. [task |-> t, final |-> fim].task = t
      OBVIOUS
    <3>3. QED
      BY <2>1, <3>1, <3>2
  <2>5. Fiel(t, n)'
    BY <1>2, <1>3, <2>1, <2>2, <2>3, <2>4 DEF Fiel, Resultados
  <2>6. ASSUME NEW x \in Tarefas, NEW m \in Tentativas, x # t \/ m # n PROVE Fiel(x, m)'
    <3>1. ti'[x] = ti[x] \/ m # try_number[x]
      BY <2>1, <2>3, <2>6
    <3>2. QED
      BY <1>2, <2>1, <2>4, <2>6, <3>1, FielOutra
  <2>7. QED
    BY <2>5, <2>6 DEF Fieis
<1>6. QED
  BY <1>4, <1>5, RegistrarEfeito

\* An attempt given up, whose process goes on.
LEMMA FielHeartbeat ==
    ASSUME Tipo, Fieis, NEW t \in Tarefas, NEW n \in Tentativas, PerderHeartbeat(t, n)
    PROVE  Fieis'
<1> DEFINE fim == n > Retries
           estado == IF "failed" = "failed" /\ PodeRepetir(n) THEN "up_for_retry" ELSE "failed"
<1>1. /\ UNCHANGED <<proc, codigo, linha, escrita_ok>> /\ Fiel(t, n)
      /\ proc[t][n] \in {"script", "saindo", "gravada"} /\ ti[t] = "running" /\ try_number[t] = n
      /\ n \in Nat
  BY DEF PerderHeartbeat, procVars, Fieis, Tentativas
<1>2. /\ UNCHANGED try_number /\ ti' = [ti EXCEPT ![t] = estado] /\ resultado'[t][n] = "failed"
      /\ \A x \in Tarefas, m \in Tentativas : x # t \/ m # n => resultado'[x][m] = resultado[x][m]
      /\ callbacks' = callbacks \cup {[task |-> t, final |-> fim]}
  <2>1. "failed" \in Resultados
    BY DEF Resultados
  <2>2. QED
    BY <1>1, <2>1, RegistrarEfeito DEF PerderHeartbeat
<1>3. estado # "running"
  OBVIOUS
<1> HIDE DEF fim, estado
<1>4. ti'[t] = estado /\ \A x \in Tarefas \ {t} : ti'[x] = ti[x]
  BY <1>2 DEF Tipo, TypeOK
<1>5. callbacks \subseteq callbacks' /\ \E c \in callbacks' : c.task = t
  <2>1. [task |-> t, final |-> fim] \in callbacks' /\ [task |-> t, final |-> fim].task = t
    BY <1>2
  <2>2. QED
    BY <1>2, <2>1
<1>6. Fiel(t, n)'
  BY <1>1, <1>2, <1>3, <1>4, <1>5 DEF Fiel
<1>7. ASSUME NEW x \in Tarefas, NEW m \in Tentativas, x # t \/ m # n PROVE Fiel(x, m)'
  <2>1. ti'[x] = ti[x] \/ m # try_number[x]
    BY <1>1, <1>4, <1>7
  <2>2. QED
    BY <1>1, <1>2, <1>5, <1>7, <2>1, FielOutra
<1>8. QED
  BY <1>6, <1>7 DEF Fieis

\* A step of the process that leaves the task side alone.
LEMMA FielSegue ==
    ASSUME Tipo, Fieis, NEW t \in Tarefas, NEW n \in Tentativas, Vivo(t, n), UNCHANGED tiVars,
           NEW f \in Fases \ {"ausente", "abrindo", "morto"},
           proc' = [proc EXCEPT ![t][n] = f],
           \A x \in Tarefas, m \in Tentativas : x # t \/ m # n =>
              codigo'[x][m] = codigo[x][m] /\ linha'[x][m] = linha[x][m],
           escrita_ok' => escrita_ok,
           escrita_ok' /\ f = "gravada" => linha'[t][n] = StatusByExitCode(codigo'[t][n]),
           escrita_ok' /\ linha'[t][n] = "running" =>
              linha[t][n] = "running" \/ resultado[t][n] # "failed"
    PROVE  Fieis'
<1>1. /\ proc'[t][n] = f
      /\ \A x \in Tarefas, m \in Tentativas : x # t \/ m # n => proc'[x][m] = proc[x][m]
  BY ProcEfeito, Zenon
<1>2. /\ n \in Nat /\ try_number[t] \in Nat /\ n <= try_number[t] /\ Fiel(t, n)
      /\ resultado[t][n] \in {"none", "failed"}
      /\ resultado[t][n] = "none" => ti[t] = "running" /\ n = try_number[t]
  BY VivaContada DEF Fieis
<1>3. UNCHANGED <<ti, try_number, resultado, callbacks>>
  BY DEF tiVars
<1>4. Fiel(t, n)'
  BY <1>1, <1>2, <1>3 DEF Fiel
<1>5. ASSUME NEW x \in Tarefas, NEW m \in Tentativas, x # t \/ m # n PROVE Fiel(x, m)'
  BY <1>1, <1>3, <1>5, FielOutra
<1>6. QED
  BY <1>4, <1>5 DEF Fieis

LEMMA FielProcesso ==
    ASSUME Tipo, Fieis, NEW t \in Tarefas, NEW n \in Tentativas, Processo(t, n)
    PROVE  Fieis'
<1>1. \A c : StatusByExitCode(c) \in Resultados /\ StatusByExitCode(c) \in Status
             /\ StatusByExitCode(c) # "running"
  BY DEF StatusByExitCode, Resultados, Status
<1>2. {"aberta", "script", "saindo", "gravada"} \subseteq Fases \ {"ausente", "abrindo", "morto"}
  BY DEF Fases
<1>3. Fiel(t, n)
  BY DEF Fieis
<1>4. CASE StepStart(t, n)
  <2>1. /\ proc[t][n] = "abrindo" /\ proc' = [proc EXCEPT ![t][n] = "aberta"]
        /\ UNCHANGED <<tiVars, codigo>> /\ Escreve(t, n, "running") /\ "running" \in Status
    BY <1>4 DEF StepStart, Passa, Status
  <2>2. resultado[t][n] # "failed" /\ Vivo(t, n)
    BY <1>3, <2>1 DEF Fiel, Vivo
  <2>3. /\ \A x \in Tarefas, m \in Tentativas : x # t \/ m # n => linha'[x][m] = linha[x][m]
        /\ escrita_ok' => escrita_ok
    BY <2>1, EscreveEfeito
  <2> DEFINE f == "aberta"
  <2>4. /\ f \in Fases \ {"ausente", "abrindo", "morto"} /\ UNCHANGED tiVars
        /\ proc' = [proc EXCEPT ![t][n] = f]
        /\ \A x \in Tarefas, m \in Tentativas : x # t \/ m # n =>
              codigo'[x][m] = codigo[x][m] /\ linha'[x][m] = linha[x][m]
        /\ escrita_ok' /\ f = "gravada" => linha'[t][n] = StatusByExitCode(codigo'[t][n])
        /\ escrita_ok' /\ linha'[t][n] = "running" =>
              linha[t][n] = "running" \/ resultado[t][n] # "failed"
    BY <1>2, <2>1, <2>2, <2>3
  <2> HIDE DEF f
  <2>5. QED
    BY <2>2, <2>3, <2>4, FielSegue, Zenon
<1>5. CASE InstalarHandler(t, n)
  <2> DEFINE f == "script"
  <2>1. /\ Vivo(t, n) /\ proc' = [proc EXCEPT ![t][n] = f]
        /\ UNCHANGED <<tiVars, codigo, linha, escrita_ok>>
        /\ f \in Fases \ {"ausente", "abrindo", "morto"} /\ f # "gravada"
    BY <1>2, <1>5 DEF InstalarHandler, Passa, Vivo
  <2> HIDE DEF f
  <2>2. QED
    BY <2>1, FielSegue
<1>6. CASE \E c \in {0, 99, 1} : FimScript(t, n, c)
  <2>1. PICK c \in Codigos : FimScript(t, n, c)
    BY <1>6 DEF Codigos
  <2> DEFINE f == "saindo"
  <2>2. /\ Vivo(t, n) /\ proc' = [proc EXCEPT ![t][n] = f]
        /\ UNCHANGED <<tiVars, linha, escrita_ok>> /\ codigo' = [codigo EXCEPT ![t][n] = c]
        /\ f \in Fases \ {"ausente", "abrindo", "morto"} /\ f # "gravada"
    BY <1>2, <2>1 DEF FimScript, Passa, Vivo
  <2> HIDE DEF f
  <2>3. \A x \in Tarefas, m \in Tentativas : x # t \/ m # n =>
           codigo'[x][m] = codigo[x][m] /\ linha'[x][m] = linha[x][m]
    BY <2>2, CodigoEfeito
  <2>4. /\ UNCHANGED tiVars /\ (escrita_ok' => escrita_ok)
        /\ escrita_ok' /\ f = "gravada" => linha'[t][n] = StatusByExitCode(codigo'[t][n])
        /\ escrita_ok' /\ linha'[t][n] = "running" =>
              linha[t][n] = "running" \/ resultado[t][n] # "failed"
    BY <2>2
  <2>5. QED
    BY <2>2, <2>3, <2>4, FielSegue, Zenon
<1>7. CASE StepFinish(t, n)
  <2> DEFINE f == "gravada"
             s == StatusByExitCode(codigo[t][n])
  <2>1. /\ Vivo(t, n) /\ proc' = [proc EXCEPT ![t][n] = f]
        /\ UNCHANGED <<tiVars, codigo>> /\ Escreve(t, n, s)
        /\ f \in Fases \ {"ausente", "abrindo", "morto"}
    BY <1>2, <1>7 DEF StepFinish, Passa, Vivo
  <2>2. s \in Status /\ s # "running"
    BY <1>1
  <2> HIDE DEF f, s
  <2>3. /\ \A x \in Tarefas, m \in Tentativas : x # t \/ m # n => linha'[x][m] = linha[x][m]
        /\ escrita_ok' => escrita_ok /\ linha'[t][n] = s
    BY <2>1, <2>2, EscreveEfeito
  <2>4. escrita_ok' /\ f = "gravada" => linha'[t][n] = StatusByExitCode(codigo'[t][n])
    BY <2>1, <2>3 DEF s
  <2>5. QED
    BY <2>1, <2>2, <2>3, <2>4, FielSegue
<1>8. CASE Sair(t, n)
  <2> DEFINE r == StatusByExitCode(codigo[t][n])
  <2>1. /\ Vivo(t, n) /\ proc' = [proc EXCEPT ![t][n] = "morto"]
        /\ codigo' = [codigo EXCEPT ![t][n] = 0]
        /\ Registrar(t, n, r) /\ UNCHANGED <<linha, escrita_ok>> /\ proc[t][n] = "gravada"
    BY <1>8 DEF Sair, Passa, Vivo
  <2>2. r \in Resultados /\ (escrita_ok => linha[t][n] = r)
    BY <1>1, <1>3, <2>1 DEF Fiel
  <2> HIDE DEF r
  <2>3. QED
    BY <2>1, <2>2, FielFim
<1>9. CASE Sigterm(t, n) \/ Sigkill(t, n)
  <2>1. Vivo(t, n) /\ UNCHANGED <<linha, escrita_ok>>
    BY <1>9 DEF Sigterm, Sigkill
  <2>2. CASE /\ proc' = [proc EXCEPT ![t][n] = "morto"]
             /\ codigo' = [codigo EXCEPT ![t][n] = 0]
             /\ Registrar(t, n, "failed")
    <3>1. "failed" \in Resultados
      BY DEF Resultados
    <3>2. QED
      BY <2>1, <2>2, <3>1, FielFim
  <2>3. CASE /\ proc' = [proc EXCEPT ![t][n] = "saindo"]
             /\ codigo' = [codigo EXCEPT ![t][n] = 1]
             /\ UNCHANGED tiVars
    <3> DEFINE f == "saindo"
    <3>1. /\ proc' = [proc EXCEPT ![t][n] = f] /\ 1 \in Codigos
          /\ f \in Fases \ {"ausente", "abrindo", "morto"} /\ f # "gravada"
      BY <1>2, <2>3 DEF Codigos
    <3> HIDE DEF f
    <3>2. \A x \in Tarefas, m \in Tentativas : x # t \/ m # n =>
             codigo'[x][m] = codigo[x][m] /\ linha'[x][m] = linha[x][m]
      BY <2>1, <2>3, <3>1, CodigoEfeito
    <3>3. /\ UNCHANGED tiVars /\ (escrita_ok' => escrita_ok)
          /\ escrita_ok' /\ f = "gravada" => linha'[t][n] = StatusByExitCode(codigo'[t][n])
          /\ escrita_ok' /\ linha'[t][n] = "running" =>
                linha[t][n] = "running" \/ resultado[t][n] # "failed"
      BY <2>1, <2>3, <3>1
    <3>4. QED
      BY <2>1, <3>1, <3>2, <3>3, FielSegue, Zenon
  <2>4. QED
    BY <1>9, <2>2, <2>3 DEF Sigterm, Sigkill
<1>10. QED
  BY <1>4, <1>5, <1>6, <1>7, <1>8, <1>9 DEF Processo

LEMMA FielTarefa ==
    ASSUME Tipo, Fieis, NEW t \in Tarefas, IniciarTentativa(t) \/ Propagar(t)
    PROVE  Fieis'
<1>1. try_number \in [Tarefas -> 0..(Retries + 1)] /\ Retries \in Nat /\ Contada(t)
  BY StepAssumption DEF Tipo, TypeOK
<1>2. CASE IniciarTentativa(t)
  <2> DEFINE k == try_number[t] + 1
  <2>1. /\ ti[t] \in {"none", "up_for_retry"} /\ k \in Tentativas /\ try_number[t] \in Nat
        /\ ti' = [ti EXCEPT ![t] = "running"] /\ try_number' = [try_number EXCEPT ![t] = k]
        /\ proc' = [proc EXCEPT ![t][k] = "abrindo"]
        /\ UNCHANGED <<resultado, callbacks, codigo, linha, escrita_ok>>
    <3>1. try_number[t] \in Nat
      BY <1>1
    <3>2. QED
      BY <1>2, <3>1, IniciarEfeito DEF IniciarTentativa
  <2>2. "abrindo" \in Fases
    BY DEF Fases
  <2>3. /\ proc'[t][k] = "abrindo"
        /\ \A x \in Tarefas, m \in Tentativas : x # t \/ m # k => proc'[x][m] = proc[x][m]
    BY <2>1, <2>2, ProcEfeito, Zenon
  <2>4. /\ ti'[t] = "running" /\ try_number'[t] = k
        /\ \A x \in Tarefas \ {t} : ti'[x] = ti[x] /\ try_number'[x] = try_number[x]
    BY <1>1, <2>1 DEF Tipo, TypeOK
  <2>5. ASSUME NEW m \in Tentativas PROVE Fiel(t, m)'
    <3>1. Fiel(t, m) /\ m \in Nat /\ m # 0
      BY DEF Fieis, Tentativas
    <3>2. CASE m = k
      BY <2>1, <2>3, <2>4, <3>1, <3>2 DEF Fiel
    <3>3. CASE m > k
      BY <2>1, <2>3, <2>4, <3>1, <3>3 DEF Fiel
    <3>4. CASE m < k
      <4>1. resultado[t][m] = "failed"
        BY <1>1, <2>1, <3>1, <3>4 DEF Fiel, Contada
      <4>2. QED
        BY <2>1, <2>3, <2>4, <3>1, <3>4, <4>1 DEF Fiel
    <3>5. QED
      BY <2>1, <3>1, <3>2, <3>3, <3>4
  <2>6. ASSUME NEW x \in Tarefas \ {t}, NEW m \in Tentativas PROVE Fiel(x, m)'
    <3>1. Fiel(x, m)
      BY DEF Fieis
    <3>2. proc'[x][m] = proc[x][m] /\ ti'[x] = ti[x] /\ try_number'[x] = try_number[x]
      BY <2>3, <2>4
    <3>3. QED
      BY <2>1, <3>1, <3>2 DEF Fiel
  <2>7. QED
    BY <2>5, <2>6 DEF Fieis
<1>3. CASE Propagar(t)
  <2>1. /\ ti[t] = "none" /\ try_number[t] = 0
        /\ UNCHANGED <<try_number, resultado, callbacks, proc, codigo, linha, escrita_ok>>
        /\ \A x \in Tarefas \ {t} : ti'[x] = ti[x]
    BY <1>1, <1>3 DEF Propagar, procVars, Contada, Tipo, TypeOK
  <2>2. ASSUME NEW x \in Tarefas, NEW m \in Tentativas PROVE Fiel(x, m)'
    <3>1. ti'[x] = ti[x] \/ m # try_number[x]
      BY <2>1 DEF Tentativas
    <3>2. QED
      BY <2>1, <3>1, FielOutra
  <2>3. QED
    BY <2>2 DEF Fieis
<1>4. QED
  BY <1>2, <1>3

LEMMA FielCallback ==
    ASSUME Tipo, Fieis, NEW c \in callbacks, Callback(c)
    PROVE  Fieis'
<1>1. /\ UNCHANGED <<ti, try_number, resultado, proc, codigo>> /\ callbacks' = callbacks \ {c}
      /\ \/ /\ UNCHANGED escrita_ok
            /\ \A s \in Tarefas, m \in Tentativas :
                  linha'[s][m] = IF s = c.task /\ linha[s][m] = "running" THEN "failed"
                                 ELSE linha[s][m]
         \/ escrita_ok' = FALSE /\ UNCHANGED linha
  <2>1. UNCHANGED <<ti, try_number, resultado, proc, codigo>> /\ callbacks' = callbacks \ {c}
    BY CallbackEfeito DEF procVars
  <2>2. QED
    BY <2>1, CallbackEfeito
<1>2. ASSUME NEW s \in Tarefas, NEW m \in Tentativas PROVE Fiel(s, m)'
  <2>1. Fiel(s, m) /\ \A k : StatusByExitCode(k) # "running"
    BY DEF Fieis, StatusByExitCode
  <2>2. CASE escrita_ok' = FALSE /\ UNCHANGED linha
    BY <1>1, <2>1, <2>2 DEF Fiel
  <2>3. CASE /\ UNCHANGED escrita_ok
             /\ linha'[s][m] = IF s = c.task /\ linha[s][m] = "running" THEN "failed"
                               ELSE linha[s][m]
    <3>1. CASE linha'[s][m] = linha[s][m] /\ (linha[s][m] = "running" => s # c.task)
      BY <1>1, <2>1, <2>3, <3>1 DEF Fiel
    <3>2. CASE linha'[s][m] = "failed" /\ linha[s][m] = "running"
      BY <1>1, <2>1, <2>3, <3>2 DEF Fiel
    <3>3. QED
      BY <2>3, <3>1, <3>2
  <2>4. QED
    BY <1>1, <2>2, <2>3
<1>3. QED
  BY <1>2 DEF Fieis

LEMMA FielPasso == Tipo /\ Fieis /\ [Next]_vars => Fieis'
<1> SUFFICES ASSUME Tipo, Fieis, [Next]_vars PROVE Fieis'
  OBVIOUS
<1>1. CASE \E t \in Tarefas : IniciarTentativa(t) \/ Propagar(t)
  BY <1>1, FielTarefa
<1>2. CASE \E t \in Tarefas, n \in Tentativas : Processo(t, n) \/ PerderHeartbeat(t, n)
  BY <1>2, FielProcesso, FielHeartbeat
<1>3. CASE \E c \in callbacks : Callback(c)
  BY <1>3, FielCallback
<1>4. CASE Gate \/ GateIlegivel \/ UNCHANGED vars
  <2>1. UNCHANGED <<ti, try_number, resultado, callbacks, proc, codigo, linha, escrita_ok>>
    BY <1>4 DEF Gate, GateIlegivel, vars, tiVars, procVars
  <2>2. ASSUME NEW s \in Tarefas, NEW m \in Tentativas PROVE Fiel(s, m)'
    BY <2>1, FielOutra
  <2>3. QED
    BY <2>2 DEF Fieis
<1>5. QED
  BY <1>1, <1>2, <1>3, <1>4 DEF Next

\* If every write succeeded, the audit row of each attempt agrees with what
\* Airflow recorded once nothing is left to run (tracker.py, run.py,
\* airflow_callbacks.py).
THEOREM Linhas == Spec => []LinhaFiel
<1>1. Init => Fieis
  BY DEF Init, Fieis, Fiel, Tentativas
<1>2. Tipo /\ Fieis => LinhaFiel
  <2> SUFFICES ASSUME Tipo, Fieis, EmRepouso, escrita_ok, NEW t \in Tarefas, NEW n \in Tentativas
               PROVE  CASE resultado[t][n] \in {"success", "skipped"} -> linha[t][n] = resultado[t][n]
                        [] resultado[t][n] = "failed" -> linha[t][n] # "running"
                        [] OTHER -> linha[t][n] = "nenhuma"
    BY DEF LinhaFiel
  <2>1. Fiel(t, n) /\ ~Vivo(t, n) /\ callbacks = {}
    BY DEF Fieis, EmRepouso
  <2>2. n \in Nat /\ try_number[t] \in Nat
    BY DEF Tentativas, Tipo, TypeOK
  <2>3. resultado[t][n] \in {"none", "success", "skipped", "failed"}
    <3>1. resultado \in [Tarefas -> [Tentativas -> {"none", "success", "skipped", "failed"}]]
      BY DEF Tipo, TypeOK
    <3>2. resultado[t] \in [Tentativas -> {"none", "success", "skipped", "failed"}]
      BY <3>1
    <3>3. QED
      BY <3>2
  <2>4. CASE resultado[t][n] \in {"success", "skipped"}
    BY <2>1, <2>4 DEF Fiel
  <2>5. CASE resultado[t][n] = "failed"
    BY <2>1, <2>5 DEF Fiel
  <2>6. CASE resultado[t][n] = "none"
    BY <2>1, <2>2, <2>6 DEF Fiel, Vivo
  <2>7. QED
    BY <2>3, <2>4, <2>5, <2>6
<1>3. QED
  BY TipoInit, TipoPasso, FielPasso, <1>1, <1>2, PTL DEF Spec
=============================================================================
