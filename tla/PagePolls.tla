------------------------------ MODULE PagePolls ------------------------------
(***************************************************************************)
(* The calls that poll the page until a deadline: browser_wait_for of      *)
(* _core_primitives.py and tor_check_identity of _tor_primitives.py, while *)
(* the page changes and other calls navigate.                              *)
(*                                                                         *)
(* Time is counted in poll intervals; a step takes any time.               *)
(***************************************************************************)
EXTENDS Naturals

PollTools == {"text", "textGone", "check"}

CONSTANTS
    PollTimeouts,   \* timeouts given, in poll intervals
    MaxTime,        \* bound: the clock
    MaxPolls        \* bound: calls made

ASSUME PollTimeoutsAssumption == PollTimeouts \subseteq Nat
ASSUME PollBoundsAssumption == MaxTime \in Nat /\ MaxPolls \in Nat

VARIABLES
    clock,          \* time.monotonic()
    shows,          \* what the document shows
    ofCheck,        \* it is the one that tor_check_identity asked for
    poll,           \* the call
    steady,         \* history: what the call waits for has been there since its last sleep
    polls           \* calls made so far

pollVars == <<clock, shows, ofCheck, poll, steady, polls>>

\* To a text, "yes" is a body with it; to the check, the "on" headline ("no" is the
\* "off" one).  "other" has neither, and "empty" not even a body.
Documents == {"yes", "no", "other", "empty"}

NoPoll == [tool |-> "none", step |-> "idle", timeout |-> 0, deadline |-> 0, wake |-> 0,
           found |-> FALSE, seen |-> "nothing", result |-> "none"]

\* Every variable has its type.
PollTypeOK ==
    /\ clock \in 0..MaxTime /\ polls \in 0..MaxPolls
    /\ shows \in Documents /\ ofCheck \in BOOLEAN /\ steady \in BOOLEAN
    /\ poll \in [tool : PollTools \cup {"none"}, step : {"idle", "get", "locate", "look", "late", "sleep", "done"},
                 timeout : PollTimeouts \cup {0}, deadline : Nat, wake : Nat, found : BOOLEAN,
                 seen : Documents \cup {"nothing"},
                 result : {"none", "met", "timeout", "raised", "true", "false", "unknown"}]

PollInit ==
    /\ clock = 0 /\ shows = "empty" /\ ofCheck = FALSE
    /\ poll = NoPoll /\ steady = FALSE /\ polls = 0

\* What the call waits for is there.
Met(tool, document) ==
    CASE tool = "text" -> document = "yes"
      [] tool = "textGone" -> document # "yes"
      [] tool = "check" -> document \in {"yes", "no"}
      [] OTHER -> FALSE

-----------------------------------------------------------------------------
(* Time and the page                                                       *)

Tick ==
    /\ clock < MaxTime /\ poll.step # "idle"
    /\ clock' = clock + 1
    /\ UNCHANGED <<shows, ofCheck, poll, steady, polls>>

\* The document changes itself, except that a check page keeps its verdict.
PageChanges(document) ==
    /\ ~(ofCheck /\ shows \in {"yes", "no"})
    /\ shows' = document
    /\ steady' = (steady /\ Met(poll.tool, document))
    /\ poll' = [poll EXCEPT !.found = @ /\ document # "empty"]
    /\ UNCHANGED <<clock, ofCheck, polls>>

\* Another call navigates; an element that was located is not of the new document.
OtherNavigates(document) ==
    /\ shows' = document /\ ofCheck' = FALSE
    /\ steady' = (steady /\ Met(poll.tool, document))
    /\ poll' = [poll EXCEPT !.found = FALSE]
    /\ UNCHANGED <<clock, polls>>

-----------------------------------------------------------------------------
(* A call                                                                  *)

Finish(result) == poll' = [poll EXCEPT !.step = "done", !.result = result]

\* The deadline of browser_wait_for counts from here, that of the check from when its
\* page has been loaded.
BeginPoll(tool, timeout) ==
    /\ poll.step = "idle" /\ polls < MaxPolls
    /\ polls' = polls + 1
    /\ poll' = [NoPoll EXCEPT !.tool = tool, !.timeout = timeout, !.deadline = clock + timeout,
                              !.step = IF tool = "check" THEN "get" ELSE "locate"]
    /\ steady' = Met(tool, shows)
    /\ UNCHANGED <<clock, shows, ofCheck>>

EndPoll ==
    /\ poll.step = "done"
    /\ poll' = NoPoll
    /\ UNCHANGED <<clock, shows, ofCheck, steady, polls>>

\* drv.get(): what arrives may be an error page as well as the check; or it raises.
GetCheck(document) ==
    /\ poll.step = "get"
    /\ \/ /\ shows' = document /\ ofCheck' = TRUE
          /\ poll' = [poll EXCEPT !.step = "look", !.deadline = clock + poll.timeout]
          /\ steady' = Met("check", document)
       \/ Finish("unknown") /\ steady' = FALSE /\ UNCHANGED <<shows, ofCheck>>
    /\ UNCHANGED <<clock, polls>>

\* find_elements(body); without a body, no text is read.
Locate ==
    /\ poll.step = "locate"
    /\ poll' = [poll EXCEPT !.step = "look", !.found = shows # "empty",
                            !.seen = IF shows = "empty" THEN "empty" ELSE "nothing"]
    /\ UNCHANGED <<clock, shows, ofCheck, steady, polls>>

\* The text of that body, which raises when its document is gone.
LookForText ==
    /\ poll.step = "look" /\ poll.tool # "check"
    /\ LET seen == IF poll.seen = "empty" THEN "empty" ELSE shows IN
       IF poll.seen # "empty" /\ ~poll.found THEN Finish("raised")
       ELSE IF Met(poll.tool, seen) THEN Finish("met")
       ELSE poll' = [poll EXCEPT !.step = "late", !.seen = seen]
    /\ UNCHANGED <<clock, shows, ofCheck, steady, polls>>

\* The probe's script; one that raises has seen nothing.
LookForVerdict ==
    /\ poll.step = "look" /\ poll.tool = "check"
    /\ \E seen \in {shows, "nothing"} :
          /\ steady' = (steady /\ seen # "nothing")
          /\ poll' = [poll EXCEPT !.step = "late", !.seen = seen]
    /\ UNCHANGED <<clock, shows, ofCheck, polls>>

\* _parse_check_result: only a headline is a verdict.
Verdict(seen) == CASE seen = "yes" -> "true" [] seen = "no" -> "false" [] OTHER -> "unknown"

Sleep == poll' = [poll EXCEPT !.step = "sleep", !.wake = clock + 1, !.found = FALSE, !.seen = "nothing"]

\* The deadline is looked at once the page has been.
CheckDeadline ==
    /\ poll.step = "late"
    /\ \/ /\ poll.tool = "check" /\ (Met("check", poll.seen) \/ clock >= poll.deadline)
          /\ Finish(Verdict(poll.seen))
          /\ UNCHANGED steady
       \/ /\ poll.tool # "check" /\ clock >= poll.deadline
          /\ Finish("timeout")
          /\ UNCHANGED steady
       \/ /\ clock < poll.deadline /\ ~(poll.tool = "check" /\ Met("check", poll.seen))
          /\ Sleep
          /\ steady' = Met(poll.tool, shows)
    /\ UNCHANGED <<clock, shows, ofCheck, polls>>

\* Mutant: the sleep that reaches the deadline is the last step.
WakeLate ==
    /\ poll.step = "sleep" /\ clock >= poll.wake
    /\ poll' = [poll EXCEPT !.step = IF clock >= poll.deadline THEN "late"
                                     ELSE IF poll.tool = "check" THEN "look" ELSE "locate"]
    /\ UNCHANGED <<clock, shows, ofCheck, steady, polls>>

Wake ==
    /\ poll.step = "sleep" /\ clock >= poll.wake
    /\ poll' = [poll EXCEPT !.step = IF poll.tool = "check" THEN "look" ELSE "locate"]
    /\ UNCHANGED <<clock, shows, ofCheck, steady, polls>>

PollNext ==
    \/ Tick
    \/ \E document \in Documents :
          PageChanges(document) \/ OtherNavigates(document) \/ GetCheck(document)
    \/ \E tool \in PollTools, timeout \in PollTimeouts : BeginPoll(tool, timeout)
    \/ EndPoll \/ Locate \/ LookForText \/ LookForVerdict \/ CheckDeadline \/ Wake

-----------------------------------------------------------------------------
(* Properties                                                              *)

\* What has been there ever since the last sleep, or since the call began, is found,
\* also past the deadline and with a timeout of zero: "timeout" and "unknown" say
\* that the last look came too early or failed.
SteadyIsFound == steady => poll.result \notin {"timeout", "unknown"}

\* As long as no other call has navigated away from the check, its verdict is what the
\* page says: "not on Tor" is never said of a page that failed to load.
VerdictIsTheChecks ==
    ofCheck => /\ poll.result = "true" => shows = "yes"
               /\ poll.result = "false" => shows = "no"

\* A poll misses nothing that stays, and its verdict is of the page it was asked of.
PollsAreRight == SteadyIsFound /\ VerdictIsTheChecks
=============================================================================
