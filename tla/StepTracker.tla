---------------------------- MODULE StepTracker ----------------------------
(***************************************************************************)
(* One DAG run seen by the observability layer: the runner                  *)
(* (pipelines/observability/run.py) that writes one audit row per attempt   *)
(* of a task (tracker.py), the Airflow callbacks that close the rows of     *)
(* killed attempts and alert (airflow_callbacks.py), and the final gate     *)
(* that decides the state of the run (audit_logger.py).                     *)
(*                                                                         *)
(* Any attempt can be stopped (SIGTERM), killed (SIGKILL) or lost (no       *)
(* heartbeat: Airflow gives it up while its process goes on), any write to  *)
(* the audit schema can fail, and a callback runs some time after the       *)
(* attempt, maybe after the next one has started.                           *)
(***************************************************************************)
EXTENDS Integers

CONSTANTS
    Tarefas,   \* tasks made with observed_script or observed_module
    Acima,     \* [Tarefas -> SUBSET Tarefas]
    Retries,   \* default_args["retries"]
    MaxSinais  \* bound: signals sent and heartbeats lost in the run

ASSUME StepAssumption ==
    Acima \in [Tarefas -> SUBSET Tarefas] /\ Retries \in Nat /\ MaxSinais \in Nat

Tentativas == 1..(Retries + 1)

VARIABLES
    ti,         \* state of each task
    try_number, \* attempts started
    proc,       \* the runner process of each attempt
    codigo,     \* exit code the runner will leave with (0 before and after)
    linha,      \* audit.pipeline_step_runs.status of each attempt
    resultado,  \* what Airflow recorded of each attempt
    callbacks,  \* failure and retry callbacks still to run
    alertas,    \* alerts sent by the callback of each task
    end,        \* the final gate
    alerta_end, \* the gate's callback has alerted
    escrita_ok, \* FALSE once a write to the audit schema has failed
    sinais      \* signals sent and heartbeats lost

procVars == <<proc, codigo>>
tiVars   == <<ti, try_number, resultado, callbacks>>
gateVars == <<end, alerta_end>>
vars == <<tiVars, procVars, linha, alertas, gateVars, escrita_ok, sinais>>

Falhados   == {"failed", "upstream_failed"}
Terminais  == {"success", "skipped"} \cup Falhados
Codigos    == {0, 99, 1}         \* 1: any exit code but 0 and 99
StatusByExitCode(c) == IF c = 0 THEN "success" ELSE IF c = 99 THEN "skipped" ELSE "failed"

\* "abrindo" and "aberta": before and after start(), no signal handler yet;
\* "script": handler installed; "saindo": the exit code is known, finish() has
\* not written it; "gravada": after finish().
Vivo(t, n) == proc[t][n] \notin {"ausente", "morto"}

Init ==
    /\ ti = [t \in Tarefas |-> "none"] /\ try_number = [t \in Tarefas |-> 0]
    /\ proc = [t \in Tarefas |-> [n \in Tentativas |-> "ausente"]]
    /\ codigo = [t \in Tarefas |-> [n \in Tentativas |-> 0]]
    /\ linha = [t \in Tarefas |-> [n \in Tentativas |-> "nenhuma"]]
    /\ resultado = [t \in Tarefas |-> [n \in Tentativas |-> "none"]]
    /\ callbacks = {} /\ alertas = [t \in Tarefas |-> 0]
    /\ end = "none" /\ alerta_end = FALSE /\ escrita_ok = TRUE /\ sinais = 0

-----------------------------------------------------------------------------
(* Airflow: attempts *)

IniciarTentativa(t) ==
    /\ ti[t] \in {"none", "up_for_retry"} /\ \A u \in Acima[t] : ti[u] = "success"
    /\ ti' = [ti EXCEPT ![t] = "running"]
    /\ try_number' = [try_number EXCEPT ![t] = @ + 1]
    /\ proc' = [proc EXCEPT ![t][try_number[t] + 1] = "abrindo"]
    /\ UNCHANGED <<resultado, callbacks, codigo, linha, alertas, gateVars, escrita_ok, sinais>>

Propagar(t) ==
    /\ ti[t] = "none"
    /\ \/ \E u \in Acima[t] : ti[u] \in Falhados /\ ti' = [ti EXCEPT ![t] = "upstream_failed"]
       \/ /\ \A u \in Acima[t] : ti[u] \in {"success", "skipped"}
          /\ \E u \in Acima[t] : ti[u] = "skipped"
          /\ ti' = [ti EXCEPT ![t] = "skipped"]
    /\ UNCHANGED <<try_number, resultado, callbacks, procVars, linha, alertas, gateVars, escrita_ok, sinais>>

\* mutant: the failure callback only
SoNaFalha(t, n) == IF n > Retries THEN {[task |-> t, final |-> TRUE]} ELSE {}

\* on_failure_callback after the last attempt, on_retry_callback after the others
CallbackDe(t, n) == {[task |-> t, final |-> n > Retries]}

UmaMais(n) == n <= Retries + 1                           \* mutant: off by one

PodeRepetir(n) == n <= Retries

\* Airflow records how an attempt ended, unless it had given it up.
Registrar(t, n, r) ==
    IF ti[t] = "running" /\ try_number[t] = n
    THEN /\ resultado' = [resultado EXCEPT ![t][n] = r]
         /\ ti' = [ti EXCEPT ![t] = IF r = "failed" /\ PodeRepetir(n) THEN "up_for_retry" ELSE r]
         /\ callbacks' = callbacks \cup (IF r = "failed" THEN CallbackDe(t, n) ELSE {})
         /\ UNCHANGED try_number
    ELSE UNCHANGED tiVars

\* Minutes without a heartbeat: the process, long past its start, goes on.
PerderHeartbeat(t, n) ==
    /\ sinais < MaxSinais /\ sinais' = sinais + 1
    /\ proc[t][n] \in {"script", "saindo", "gravada"}
    /\ ti[t] = "running" /\ try_number[t] = n
    /\ Registrar(t, n, "failed")
    /\ UNCHANGED <<procVars, linha, alertas, gateVars, escrita_ok>>

-----------------------------------------------------------------------------
(* run.py: the process of an attempt *)

\* mutant: a row that is not running any more is left alone
SoSeRodando(t, n, s) ==
    IF linha[t][n] \in {"nenhuma", "running"} THEN [linha EXCEPT ![t][n] = s] ELSE linha

\* INSERT ... ON CONFLICT (step_run_id) DO UPDATE SET status = EXCLUDED.status
Upsert(t, n, s) == [linha EXCEPT ![t][n] = s]

\* _write is best-effort: a failure is logged.  Bound: one failure in the run.
Escreve(t, n, s) ==
    \/ linha' = Upsert(t, n, s) /\ UNCHANGED escrita_ok
    \/ escrita_ok /\ escrita_ok' = FALSE /\ UNCHANGED linha

Passa(t, n, de, para) == proc[t][n] = de /\ proc' = [proc EXCEPT ![t][n] = para]

StepStart(t, n) ==
    /\ Passa(t, n, "abrindo", "aberta")
    /\ Escreve(t, n, "running")
    /\ UNCHANGED <<tiVars, codigo, alertas, gateVars, sinais>>

InstalarHandler(t, n) ==
    /\ Passa(t, n, "aberta", "script")
    /\ UNCHANGED <<tiVars, codigo, linha, alertas, gateVars, escrita_ok, sinais>>

\* The script ends: exit code 0, 99 or any other, or an exception (1).
FimScript(t, n, c) ==
    /\ Passa(t, n, "script", "saindo")
    /\ codigo' = [codigo EXCEPT ![t][n] = c]
    /\ UNCHANGED <<tiVars, linha, alertas, gateVars, escrita_ok, sinais>>

StepFinish(t, n) ==
    /\ Passa(t, n, "saindo", "gravada")
    /\ Escreve(t, n, StatusByExitCode(codigo[t][n]))
    /\ UNCHANGED <<tiVars, codigo, alertas, gateVars, sinais>>

Sair(t, n) ==
    /\ Passa(t, n, "gravada", "morto")
    /\ codigo' = [codigo EXCEPT ![t][n] = 0]
    /\ Registrar(t, n, StatusByExitCode(codigo[t][n]))
    /\ UNCHANGED <<linha, alertas, gateVars, escrita_ok, sinais>>

\* execution_timeout or a manual stop.  Inside the script it becomes a
\* failing exit code; before the handler or after the try block it ends the process.
Sigterm(t, n) ==
    /\ Vivo(t, n) /\ sinais < MaxSinais /\ sinais' = sinais + 1
    /\ IF proc[t][n] = "script"
       THEN /\ proc' = [proc EXCEPT ![t][n] = "saindo"]
            /\ codigo' = [codigo EXCEPT ![t][n] = 1]
            /\ UNCHANGED tiVars
       ELSE /\ proc' = [proc EXCEPT ![t][n] = "morto"]
            /\ codigo' = [codigo EXCEPT ![t][n] = 0]
            /\ Registrar(t, n, "failed")
    /\ UNCHANGED <<linha, alertas, gateVars, escrita_ok>>

Sigkill(t, n) ==
    /\ Vivo(t, n) /\ sinais < MaxSinais /\ sinais' = sinais + 1
    /\ proc' = [proc EXCEPT ![t][n] = "morto"]
    /\ codigo' = [codigo EXCEPT ![t][n] = 0]
    /\ Registrar(t, n, "failed")
    /\ UNCHANGED <<linha, alertas, gateVars, escrita_ok>>

-----------------------------------------------------------------------------
(* airflow_callbacks.py *)

\* UPDATE ... SET status = 'failed' WHERE task_id = ... AND status = 'running':
\* every attempt of the task, the one running now included.
CloseOrphanStepRuns(t) ==
    [linha EXCEPT ![t] = [n \in Tentativas |-> IF linha[t][n] = "running" THEN "failed"
                                               ELSE linha[t][n]]]

\* on_task_failure alerts, on_task_retry does not.
Alerta(c) == IF c.final THEN 1 ELSE 0

Callback(c) ==
    /\ c \in callbacks
    /\ callbacks' = callbacks \ {c}
    /\ \/ linha' = CloseOrphanStepRuns(c.task) /\ UNCHANGED escrita_ok
       \/ escrita_ok /\ escrita_ok' = FALSE /\ UNCHANGED linha
    /\ alertas' = [alertas EXCEPT ![c.task] = @ + Alerta(c)]
    /\ UNCHANGED <<ti, try_number, resultado, procVars, gateVars, sinais>>

-----------------------------------------------------------------------------
(* audit_logger.py: the task "end", trigger_rule=ALL_DONE *)

FailedTasks == {t \in Tarefas : ti[t] \in Falhados}
GatePronto  == end \in {"none", "up_for_retry"} /\ \A t \in Tarefas : ti[t] \in Terminais

\* AirflowFailException: no retry, and its message keeps the callback silent.
Gate ==
    /\ GatePronto
    /\ end' = IF FailedTasks = {} THEN "success" ELSE "failed"
    /\ UNCHANGED <<tiVars, procVars, linha, alertas, alerta_end, escrita_ok, sinais>>

SemRespostaVerde == "success"                            \* mutant: lookup errors give []

\* The states cannot be read, or the gate is killed: it fails and is retried.
SemResposta == IF end = "none" /\ Retries > 0 THEN "up_for_retry" ELSE "failed"

GateIlegivel ==
    /\ GatePronto
    /\ end' = SemResposta
    /\ alerta_end' = (end' = "failed")
    /\ UNCHANGED <<tiVars, procVars, linha, alertas, escrita_ok, sinais>>

-----------------------------------------------------------------------------
Processo(t, n) ==
    \/ StepStart(t, n) \/ InstalarHandler(t, n) \/ StepFinish(t, n) \/ Sair(t, n)
    \/ Sigterm(t, n) \/ Sigkill(t, n) \/ \E c \in {0, 99, 1} : FimScript(t, n, c)

Next ==
    \/ \E t \in Tarefas : IniciarTentativa(t) \/ Propagar(t)
    \/ \E t \in Tarefas, n \in Tentativas : Processo(t, n) \/ PerderHeartbeat(t, n)
    \/ \E c \in callbacks : Callback(c)
    \/ Gate \/ GateIlegivel

Spec == Init /\ [][Next]_vars

\* Airflow starts what is ready and runs every callback; a process ends or is
\* stopped by its execution_timeout.
FairSpec == Spec /\ WF_vars(Next)

-----------------------------------------------------------------------------
(* Properties *)

\* The shape of the state.
TypeOK ==
    /\ ti \in [Tarefas -> {"none", "running", "up_for_retry"} \cup Terminais]
    /\ try_number \in [Tarefas -> 0..(Retries + 1)]
    /\ proc \in [Tarefas -> [Tentativas -> {"ausente", "abrindo", "aberta", "script",
                                            "saindo", "gravada", "morto"}]]
    /\ codigo \in [Tarefas -> [Tentativas -> Codigos]]
    /\ linha \in [Tarefas -> [Tentativas -> {"nenhuma", "running", "success", "skipped", "failed"}]]
    /\ resultado \in [Tarefas -> [Tentativas -> {"none", "success", "skipped", "failed"}]]
    /\ callbacks \subseteq [task : Tarefas, final : BOOLEAN]
    /\ alertas \in [Tarefas -> Nat]
    /\ end \in {"none", "up_for_retry", "success", "failed"}
    /\ {alerta_end, escrita_ok} \subseteq BOOLEAN /\ sinais \in 0..MaxSinais

EmRepouso ==
    /\ end \in Terminais /\ callbacks = {}
    /\ \A t \in Tarefas, n \in Tentativas : ~Vivo(t, n)

\* "The DAG run tells the truth": its leaf is the gate, which is green only
\* when no task failed, also when the task states could not be read at first.
RunVerdadeiro == end = "success" => \A t \in Tarefas : ti[t] \notin Falhados

\* "Alert once, on the root cause": at rest each task that failed by itself
\* has alerted once and no other has; the gate only when it could not decide.
AlertaUmaVez ==
    EmRepouso =>
        /\ \A t \in Tarefas : alertas[t] = IF ti[t] = "failed" THEN 1 ELSE 0
        /\ end = "failed" => alerta_end \/ \E t \in Tarefas : alertas[t] = 1

\* The colour of the run and its alerts tell the same, true, story.
DesfechoFiel == RunVerdadeiro /\ AlertaUmaVez

\* If every write succeeded, the audit row of each attempt agrees with Airflow
\* in the end, although the callback of one attempt may close the row of the
\* next one while it runs, and an attempt given up may still write its own.
LinhaFiel ==
    EmRepouso /\ escrita_ok =>
        \A t \in Tarefas, n \in Tentativas :
            CASE resultado[t][n] \in {"success", "skipped"} -> linha[t][n] = resultado[t][n]
              [] resultado[t][n] = "failed" -> linha[t][n] # "running"
              [] OTHER -> linha[t][n] = "nenhuma"

\* A row does not stay "running": its process or a callback closes it, unless
\* a write failed (the view obs.v_step_runs calls such a row stale).
LinhaFecha ==
    \A t \in Tarefas, n \in Tentativas :
        linha[t][n] = "running" ~> linha[t][n] # "running" \/ ~escrita_ok
=============================================================================
