---------------------------- MODULE ServiceProcess ----------------------------
(***************************************************************************)
(* The process of order-service or user-service around its calls: main     *)
(* starts it, SIGTERM stops it, and calls share the connections of a pgx   *)
(* pool.  A call is a sequence of queries, each on a connection of its own,*)
(* except that List and ListUsers keep the rows of their first query open, *)
(* and its connection, while they read every row with queries of its own.  *)
(* Callers set no deadline: a call ends when it is answered, when its      *)
(* caller goes away or when the server is stopped.  What calls do to the   *)
(* database is in OrderService and UserService.                            *)
(***************************************************************************)
EXTENDS Naturals, FiniteSets

CONSTANTS
  Callers,     \* connections on which calls come, one at a time each
  MaxConns,    \* size of the pool
  MaxQueries,  \* bound: queries of a call
  MaxCalls,    \* bound: calls
  MaxFaults    \* bound: failed queries, callers that go away, failures of main

ASSUME ProcessAssumption ==
  /\ IsFiniteSet(Callers)
  /\ MaxConns \in Nat \ {0} /\ MaxQueries \in Nat \ {0}
  /\ MaxCalls \in Nat /\ MaxFaults \in Nat

VARIABLES
  proc,       \* main: "start", "listen", "serve", "drain", "close" or "exited"
  term,       \* SIGTERM has come
  accepting,  \* the server takes calls
  rung,       \* the ten seconds of the shutdown are over
  call,       \* call[c]: the call of a caller
  calls, faults   \* counters

main == <<proc, term, accepting, rung>>
vars == <<main, call, calls, faults>>

\* at: "out" of the server, in "need" of a connection, or in a "query"; left: queries
\* to come; held: connections; dead: its context is cancelled; last: how the last
\* call of this caller ended.
NoCall == [at |-> "out", kind |-> "plain", left |-> 0, held |-> 0, dead |-> FALSE, last |-> "none"]

Init ==
  /\ proc = "start" /\ term = FALSE /\ accepting = FALSE /\ rung = FALSE
  /\ call = [c \in Callers |-> NoCall]
  /\ calls = 0 /\ faults = 0

Fault == faults < MaxFaults /\ faults' = faults + 1
InServer(c) == call[c].at # "out"
\* The connections that are out: a call has at most two.
Held == Cardinality({h \in Callers \X {1, 2} : h[2] <= call[h[1]].held})
Ended(how) == [NoCall EXCEPT !.last = how]

-----------------------------------------------------------------------------
(* main *)

Exit == proc' = "exited" /\ accepting' = FALSE

Signal ==
  /\ ~term /\ proc # "exited" /\ term' = TRUE
  /\ UNCHANGED <<proc, accepting, rung, call, calls, faults>>

\* The pool is made and pinged, with the context that the signal cancels.
Ping ==
  /\ proc = "start"
  /\ \/ ~term /\ proc' = "listen" /\ UNCHANGED <<accepting, faults>>
     \/ term /\ Exit /\ UNCHANGED faults
     \/ Fault /\ Exit
  /\ UNCHANGED <<term, rung, call, calls>>

Listen ==
  /\ proc = "listen"
  /\ \/ proc' = "serve" /\ accepting' = TRUE /\ UNCHANGED faults
     \/ Fault /\ Exit
  /\ UNCHANGED <<term, rung, call, calls>>

\* Serve returns: that is logged, and the process stays.
ServeFails ==
  /\ proc = "serve" /\ accepting /\ Fault
  /\ accepting' = FALSE
  /\ UNCHANGED <<proc, term, rung, call, calls>>

\* After the signal main starts GracefulStop and a timer, and waits for either.
Drain ==
  /\ proc = "serve" /\ term /\ proc' = "drain"
  /\ UNCHANGED <<term, accepting, rung, call, calls, faults>>

GracefulStop ==
  /\ proc = "drain" /\ accepting /\ accepting' = FALSE
  /\ UNCHANGED <<proc, term, rung, call, calls, faults>>

\* Mutant of GracefulDone: main does not wait for it.
GracefulAtOnce ==
  /\ proc = "drain" /\ ~accepting
  /\ proc' = "close"
  /\ UNCHANGED <<term, accepting, rung, call, calls, faults>>

\* GracefulStop returns when no call is left.
GracefulDone ==
  /\ proc = "drain" /\ ~accepting /\ \A c \in Callers : ~InServer(c)
  /\ proc' = "close"
  /\ UNCHANGED <<term, accepting, rung, call, calls, faults>>

\* Mutant of TimerRings: Stop is not called.
TimerRingsOnly ==
  /\ proc = "drain" /\ rung' = TRUE /\ proc' = "close" /\ accepting' = FALSE
  /\ UNCHANGED <<term, call, calls, faults>>

\* After ten seconds Stop takes no more calls and cancels those it has; it does not
\* wait for them.
TimerRings ==
  /\ proc = "drain" /\ rung' = TRUE /\ proc' = "close" /\ accepting' = FALSE
  /\ call' = [c \in Callers |-> [call[c] EXCEPT !.dead = InServer(c)]]
  /\ UNCHANGED <<term, calls, faults>>

\* The deferred pool.Close hands out no connection and waits for all of them; with
\* the process end the calls that are left.
ClosePool ==
  /\ proc = "close" /\ Held = 0 /\ Exit
  /\ call' = [c \in Callers |-> IF InServer(c) THEN Ended("cut") ELSE call[c]]
  /\ UNCHANGED <<term, rung, calls, faults>>

-----------------------------------------------------------------------------
(* Calls *)

Set(c, r) == call' = [call EXCEPT ![c] = r]

Arrive(c) ==
  /\ accepting /\ ~InServer(c) /\ calls < MaxCalls /\ calls' = calls + 1
  /\ \E k \in {"plain", "list"}, n \in 1..MaxQueries :
       Set(c, [NoCall EXCEPT !.at = "need", !.kind = k, !.left = n])
  /\ UNCHANGED <<main, faults>>

\* Mutant of Acquire: the pool has no limit.
AcquireNew(c) ==
  /\ call[c].at = "need" /\ ~call[c].dead /\ proc # "close"
  /\ Set(c, [call[c] EXCEPT !.at = "query", !.held = @ + 1])
  /\ UNCHANGED <<main, calls, faults>>

Acquire(c) ==
  /\ call[c].at = "need" /\ ~call[c].dead /\ proc # "close" /\ Held < MaxConns
  /\ Set(c, [call[c] EXCEPT !.at = "query", !.held = @ + 1])
  /\ UNCHANGED <<main, calls, faults>>

\* A query is done and its connection goes back, unless it is the query of a list
\* with rows to read.
Query(c) ==
  LET r == call[c] IN
  /\ r.at = "query" /\ ~r.dead
  /\ Set(c, IF r.left = 1 THEN Ended("answered")
            ELSE [r EXCEPT !.at = "need", !.left = @ - 1, !.held = IF r.kind = "list" THEN 1 ELSE 0])
  /\ UNCHANGED <<main, calls, faults>>

\* Mutant of QueryFails: List does not close its rows.
QueryFailsOpen(c) ==
  /\ call[c].at = "query" /\ Fault
  /\ Set(c, [Ended("answered") EXCEPT !.held = call[c].held - 1])
  /\ UNCHANGED <<main, calls>>

\* It fails: the caller gets an error, and deferred calls give the connections back.
QueryFails(c) ==
  /\ call[c].at = "query" /\ Fault
  /\ Set(c, Ended("answered"))
  /\ UNCHANGED <<main, calls>>

\* The caller goes away.
HangUp(c) ==
  /\ InServer(c) /\ ~call[c].dead /\ Fault
  /\ Set(c, [call[c] EXCEPT !.dead = TRUE])
  /\ UNCHANGED <<main, calls>>

\* A cancelled context ends waiting and queries.
GiveUp(c) ==
  /\ InServer(c) /\ call[c].dead
  /\ Set(c, Ended("cut"))
  /\ UNCHANGED <<main, calls, faults>>

-----------------------------------------------------------------------------

Main == Ping \/ Listen \/ Drain \/ GracefulStop \/ GracefulDone \/ TimerRings \/ ClosePool
Step(c) == Acquire(c) \/ Query(c) \/ GiveUp(c)
Trouble == ServeFails \/ \E c \in Callers : QueryFails(c) \/ HangUp(c)

Next == \/ Main \/ Signal \/ Trouble
        \/ \E c \in Callers : Arrive(c) \/ Step(c)

Spec == Init /\ [][Next]_vars

\* main's goroutine, and GracefulStop's and the timer beside it, go on; the runtime
\* runs every call; the database answers.
FairSpec == Spec /\ WF_vars(Main) /\ \A c \in Callers : WF_vars(Step(c))

-----------------------------------------------------------------------------
(* Properties *)

\* A call in the server has work left, and no more connections are out than there are.
TypeOK ==
  /\ proc \in {"start", "listen", "serve", "drain", "close", "exited"}
  /\ term \in BOOLEAN /\ accepting \in BOOLEAN /\ rung \in BOOLEAN
  /\ call \in [Callers -> [at : {"out", "need", "query"}, kind : {"plain", "list"},
                           left : 0..MaxQueries, held : 0..2, dead : BOOLEAN,
                           last : {"none", "answered", "cut"}]]
  /\ \A c \in Callers : InServer(c) <=> call[c].left > 0
  /\ Held <= MaxConns
  /\ calls \in 0..MaxCalls /\ faults \in 0..MaxFaults

\* A shutdown cuts no call off that ends within the ten seconds: unless the time is
\* over, or something else has failed, every call was answered before the pool is
\* closed, and none is cut.
GracefulIsWhole ==
  ~rung /\ faults = 0 =>
    \A c \in Callers : call[c].last # "cut" /\ (InServer(c) => proc \notin {"close", "exited"})

\* Every connection is held by a list that needs one more.
Starved == Held = MaxConns /\ \A c \in Callers : call[c].held > 0 =>
                                 call[c].at = "need" /\ ~call[c].dead

\* Callers wait without a deadline.  A call ends, or the pool is used up by lists
\* that wait for each other, and only by them: nothing else keeps a connection.
CallsEnd == \A c \in Callers : InServer(c) ~> ~InServer(c) \/ Starved

\* SIGTERM ends the process whatever its calls wait for.
ShutdownEnds == term ~> proc = "exited"
=============================================================================
