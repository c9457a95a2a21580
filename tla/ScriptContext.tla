---------------------------- MODULE ScriptContext ---------------------------
(***************************************************************************)
(* The tools that run a script, in the page, in the browser's own chrome   *)
(* or in the server: browser_evaluate and browser_evaluate_async of        *)
(* _core_primitives.py, browser_chrome_evaluate_unsafe and                 *)
(* browser_run_python_unsafe of _unsafe_primitives.py.                     *)
(*                                                                         *)
(* The context of a script, its timeout and sys.stdout belong to the       *)
(* session or to the process; calls in several threads share them.         *)
(***************************************************************************)
EXTENDS ToolThreads, Naturals

ScriptTools == {"evaluate", "async", "chrome", "python"}

CONSTANTS
    Scripting,      \* the tools that are called
    Timeouts,       \* timeouts given to browser_evaluate_async, in ticks
    MaxScripts      \* bound: calls begun

ASSUME ScriptingAssumption == Scripting \subseteq ScriptTools
ASSUME TimeoutsAssumption == Timeouts \subseteq Nat
ASSUME MaxScriptsAssumption == MaxScripts \in Nat

VARIABLES
    context,        \* the Marionette context of the session
    scriptTimeout,  \* its script timeout; 0 is the browser's default
    stdout,         \* sys.stdout: the process's, or the buffer of a thread's call
    script,         \* what each thread is doing
    nested,         \* two browser_run_python_unsafe have overlapped
    scripts         \* calls begun so far

scriptVars == <<context, scriptTimeout, stdout, script, nested, scripts>>

Process == "process"    \* the stdout the server was started with

\* "ran" is the context that the call's script ran in, "saved" the stdout that
\* redirect_stdout will put back.
NoScript == [tool |-> "none", step |-> "idle", timeout |-> 0, ran |-> "none", saved |-> Process]

\* Every variable has its type.
ScriptTypeOK ==
    /\ context \in {"content", "chrome"}
    /\ scriptTimeout \in Timeouts \cup {0}
    /\ stdout \in Threads \cup {Process}
    /\ nested \in BOOLEAN /\ scripts \in 0..MaxScripts
    /\ script \in [Threads -> [tool : ScriptTools \cup {"none"},
          step : {"idle", "timeout", "enter", "run", "leave", "done"},
          timeout : Timeouts \cup {0}, ran : {"none", "content", "chrome", "server"},
          saved : Threads \cup {Process}]]

ScriptInit ==
    /\ context = "content" /\ scriptTimeout = 0 /\ stdout = Process
    /\ script = [t \in Threads |-> NoScript]
    /\ nested = FALSE /\ scripts = 0

ScriptTo(t, step) == script' = [script EXCEPT ![t].step = step]

Entry(tool) == CASE tool = "evaluate" -> "run" [] tool = "async" -> "timeout" [] OTHER -> "enter"

ScriptBegin(t, tool, timeout) ==
    /\ script[t].step = "idle" /\ scripts < MaxScripts
    /\ (timeout # 0) <=> tool = "async"
    /\ script' = [script EXCEPT ![t] =
          [NoScript EXCEPT !.tool = tool, !.step = Entry(tool), !.timeout = timeout]]
    /\ scripts' = scripts + 1
    /\ UNCHANGED <<context, scriptTimeout, stdout, nested>>

\* The answer is formed: written to a file, cut to a cap or returned whole.
ScriptReturn(t) ==
    /\ script[t].step = "done"
    /\ script' = [script EXCEPT ![t] = NoScript]
    /\ UNCHANGED <<context, scriptTimeout, stdout, nested, scripts>>

\* driver.set_script_timeout().
SetTimeout(t) ==
    /\ script[t].step = "timeout"
    /\ scriptTimeout' = script[t].timeout
    /\ ScriptTo(t, "run")
    /\ UNCHANGED <<context, stdout, nested, scripts>>

\* driver.set_context("chrome").
EnterChrome(t) ==
    /\ script[t].step = "enter" /\ script[t].tool = "chrome"
    /\ context' = "chrome"
    /\ ScriptTo(t, "run")
    /\ UNCHANGED <<scriptTimeout, stdout, nested, scripts>>

InPython(t) == script[t].tool = "python" /\ script[t].step \in {"run", "leave"}

\* redirect_stdout: sys.stdout is kept and replaced.
RedirectStdout(t) ==
    /\ script[t].step = "enter" /\ script[t].tool = "python"
    /\ script' = [script EXCEPT ![t].step = "run", ![t].saved = stdout]
    /\ stdout' = t
    /\ nested' = (nested \/ \E u \in Threads : InPython(u))
    /\ UNCHANGED <<context, scriptTimeout, scripts>>

\* The script runs, or raises; either way what it entered is left.
AfterRun(t) == IF script[t].tool \in {"chrome", "python"} THEN "leave" ELSE "done"

\* Mutant: nothing is put back when the script raises.
RunUnguarded(t) ==
    /\ script[t].step = "run"
    /\ \E step \in {AfterRun(t), "done"} : ScriptTo(t, step)
    /\ UNCHANGED <<context, scriptTimeout, stdout, nested, scripts>>

Run(t) ==
    /\ script[t].step = "run"
    /\ script' = [script EXCEPT ![t].step = AfterRun(t),
          ![t].ran = IF script[t].tool = "python" THEN "server" ELSE context]
    /\ UNCHANGED <<context, scriptTimeout, stdout, nested, scripts>>

\* driver.set_context("content"), in a finally.
LeaveChrome(t) ==
    /\ script[t].step = "leave" /\ script[t].tool = "chrome"
    /\ context' = "content"
    /\ ScriptTo(t, "done")
    /\ UNCHANGED <<scriptTimeout, stdout, nested, scripts>>

RestoreStdout(t) ==
    /\ script[t].step = "leave" /\ script[t].tool = "python"
    /\ stdout' = script[t].saved
    /\ ScriptTo(t, "done")
    /\ UNCHANGED <<context, scriptTimeout, nested, scripts>>

ScriptNext ==
    \E t \in Threads :
       \/ \E tool \in Scripting, timeout \in Timeouts \cup {0} : ScriptBegin(t, tool, timeout)
       \/ ScriptReturn(t) \/ SetTimeout(t) \/ EnterChrome(t) \/ RedirectStdout(t) \/ Run(t)
       \/ LeaveChrome(t) \/ RestoreStdout(t)

-----------------------------------------------------------------------------
(* Properties                                                              *)

InChrome(t) == script[t].tool = "chrome" /\ script[t].step \in {"run", "leave"}

\* Whatever calls overlapped and whichever scripts raised, the session is in the
\* content context, where the scripts of pages belong, while no chrome call is
\* in progress.
ContextComesBack == (\A t \in Threads : ~InChrome(t)) => context = "content"

\* The process has its own stdout back after every browser_run_python_unsafe that
\* did not overlap another.  Two that overlap may put back each other's buffer:
\* the second to enter keeps the first one's, and is the second to leave.
StdoutComesBack == ~nested /\ (\A t \in Threads : ~InPython(t)) => stdout = Process

\* What a script call borrows of the session and of the process, its context and its
\* stdout, is given back.
LoansComeBack == ContextComesBack /\ StdoutComesBack
=============================================================================
