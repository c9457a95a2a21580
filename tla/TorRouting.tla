----------------------------- MODULE TorRouting ------------------------------
(***************************************************************************)
(* torbrowser_driver/_tor_routing_primitives.py: the tools that pin tor's  *)
(* exits, each in a thread of its own.  A step of a call is one command to *)
(* tor's control port; two options make one policy, and nothing holds them *)
(* together.  (tor_control_command_unsafe, which may set anything, is left *)
(* out.)                                                                   *)
(***************************************************************************)
EXTENDS ToolThreads, Naturals

CONSTANT MaxRoutings    \* bound: calls begun, each with exits of its own

ASSUME MaxRoutingsAssumption == MaxRoutings \in Nat

VARIABLES
    exitNodes,      \* tor's ExitNodes, as the number of the call they come from; 0 is ""
    strictNodes,    \* tor's StrictNodes
    routing,        \* what each thread is doing
    round,          \* history: the calls that began since none was in flight
    base,           \* history: the policy then
    roundFailed,    \* history: one of them failed
    routings        \* calls begun so far

routingVars == <<exitNodes, strictNodes, routing, round, base, roundFailed, routings>>

Exits == 0..MaxRoutings

Policies == [exits : Exits, strict : BOOLEAN]
Policy(exits, strict) == [exits |-> exits, strict |-> strict]
InForce == Policy(exitNodes, strictNodes)

\* "exits" and "strict" are what the call asks for, "was" what it read; history:
\* "alone" is that no other call overlapped it, "blind" the queries that failed.
NoRouting == [step |-> "idle", exits |-> 0, strict |-> FALSE, was |-> Policy(0, FALSE),
              alone |-> FALSE, blind |-> {}]

Routing == {t \in Threads : routing[t].step # "idle"}

\* Every variable has its type.
RoutingTypeOK ==
    /\ exitNodes \in Exits /\ strictNodes \in BOOLEAN
    /\ routings \in 0..MaxRoutings /\ roundFailed \in BOOLEAN
    /\ round \subseteq Policies /\ base \in Policies
    /\ routing \in [Threads -> [step : {"idle", "read", "readStrict", "set", "setStrict", "reset", "done", "failed"},
          exits : Exits, strict : BOOLEAN, was : Policies,
          alone : BOOLEAN, blind : SUBSET {"exits", "strict"}]]

RoutingInit ==
    /\ exitNodes = 0 /\ strictNodes = FALSE
    /\ routing = [t \in Threads |-> NoRouting]
    /\ round = {} /\ base = InForce /\ roundFailed = FALSE /\ routings = 0

\* A country or a list of nodes that is accepted, or tor_clear_exit_policy, which asks
\* for the defaults.
BeginRouting(t, clear, strict) ==
    /\ t \notin Routing /\ routings < MaxRoutings
    /\ clear => ~strict
    /\ routings' = routings + 1
    /\ LET exits == IF clear THEN 0 ELSE routings + 1
           asked == Policy(exits, strict)
       IN /\ routing' = [u \in Threads |->
                IF u = t THEN [NoRouting EXCEPT !.step = IF clear THEN "reset" ELSE "read",
                                  !.exits = exits, !.strict = strict, !.alone = Routing = {}]
                ELSE [routing[u] EXCEPT !.alone = FALSE]]
          /\ round' = IF Routing = {} THEN {asked} ELSE round \cup {asked}
    /\ base' = IF Routing = {} THEN InForce ELSE base
    /\ roundFailed' = (roundFailed /\ Routing # {})
    /\ UNCHANGED <<exitNodes, strictNodes>>

\* get_conf() of the one option and of the other.  A query that fails reads as its
\* default, and the call goes on.
Learn(t, step, was, failed) ==
    /\ routing' = [routing EXCEPT ![t] =
          [@ EXCEPT !.step = step, !.was = was, !.blind = routing[t].blind \cup failed]]
    /\ UNCHANGED <<exitNodes, strictNodes, round, base, roundFailed, routings>>

ReadExits(t) ==
    /\ routing[t].step = "read"
    /\ \/ Learn(t, "readStrict", Policy(exitNodes, FALSE), {})
       \/ Learn(t, "readStrict", Policy(0, FALSE), {"exits"})

ReadStrict(t) ==
    /\ routing[t].step = "readStrict"
    /\ \/ Learn(t, "set", Policy(routing[t].was.exits, strictNodes), {})
       \/ Learn(t, "set", Policy(routing[t].was.exits, FALSE), {"strict"})

SetExits(t) ==
    /\ routing[t].step = "set"
    /\ exitNodes' = routing[t].exits
    /\ routing' = [routing EXCEPT ![t].step = "setStrict"]
    /\ UNCHANGED <<strictNodes, round, base, roundFailed, routings>>

\* Mutant: StrictNodes is set only to forbid other exits, never to allow them again.
SetStrictOnly(t) ==
    /\ routing[t].step = "setStrict"
    /\ strictNodes' = (routing[t].strict \/ strictNodes)
    /\ routing' = [routing EXCEPT ![t].step = "done"]
    /\ UNCHANGED <<exitNodes, round, base, roundFailed, routings>>

SetStrict(t) ==
    /\ routing[t].step = "setStrict"
    /\ strictNodes' = routing[t].strict
    /\ routing' = [routing EXCEPT ![t].step = "done"]
    /\ UNCHANGED <<exitNodes, round, base, roundFailed, routings>>

\* RESETCONF names all the options, and resets them at once.
ResetExits(t) ==
    /\ routing[t].step = "reset"
    /\ exitNodes' = 0 /\ strictNodes' = FALSE
    /\ routing' = [routing EXCEPT ![t].step = "done"]
    /\ UNCHANGED <<round, base, roundFailed, routings>>

\* A command that sets an option may raise, and what was set before it stays set.
RoutingFails(t) ==
    /\ routing[t].step \in {"set", "setStrict", "reset"}
    /\ routing' = [routing EXCEPT ![t].step = "failed"]
    /\ roundFailed' = TRUE
    /\ UNCHANGED <<exitNodes, strictNodes, round, base, routings>>

EndRouting(t) ==
    /\ routing[t].step \in {"done", "failed"}
    /\ routing' = [routing EXCEPT ![t] = NoRouting]
    /\ UNCHANGED <<exitNodes, strictNodes, round, base, roundFailed, routings>>

RoutingNext ==
    \E t \in Threads :
       \/ \E clear, strict \in BOOLEAN : BeginRouting(t, clear, strict)
       \/ ReadExits(t) \/ ReadStrict(t) \/ SetExits(t) \/ SetStrict(t) \/ ResetExits(t)
       \/ RoutingFails(t) \/ EndRouting(t)

-----------------------------------------------------------------------------
(* Properties                                                              *)

\* Once no call is in flight, each half of tor's exit policy was asked for by a call
\* of the last round, of calls that overlapped, and never by one that had ended
\* before it, unless a call of the round failed and left the half as it was.
HalvesAreOfTheLastRound ==
    Routing = {} /\ round # {} =>
       /\ exitNodes \in {r.exits : r \in round} \cup IF roundFailed THEN {base.exits} ELSE {}
       /\ strictNodes \in {r.strict : r \in round} \cup IF roundFailed THEN {base.strict} ELSE {}

\* A round of one call leaves the policy that it asked for, or, where it failed, the one
\* before it or its exits under the old strictness: never a new strictness over exits
\* that nobody asked it for.
OneCallIsInOrder ==
    \A r \in round :
       Routing = {} /\ round = {r} => InForce \in {r, base, Policy(r.exits, base.strict)}

\* "previous" of a call that ran alone has each option as it was before, if the query
\* for it did not fail.
PreviousIsWhatWas ==
    \A t \in Threads :
       routing[t].step = "done" /\ routing[t].alone /\ routing[t].exits # 0 =>
          /\ "exits" \notin routing[t].blind => routing[t].was.exits = base.exits
          /\ "strict" \notin routing[t].blind => routing[t].was.strict = base.strict

\* tor's exit policy is what its last callers asked for, as far as their commands got,
\* and a lone one whose queries succeed is told what it replaced.
ExitPolicyIsOfItsCallers ==
    HalvesAreOfTheLastRound /\ OneCallIsInOrder /\ PreviousIsWhatWas
=============================================================================
