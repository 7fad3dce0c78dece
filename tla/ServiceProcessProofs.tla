------------------------- MODULE ServiceProcessProofs -------------------------
(***************************************************************************)
(* Proofs about ServiceProcess, for any number of callers, connections,    *)
(* queries and calls.                                                      *)
(***************************************************************************)
EXTENDS ServiceProcess, FiniteSetTheorems, TLAPS

Whole(c) == ~call[c].dead /\ call[c].last # "cut"

\* As long as nothing has failed and the timer has not rung, no context is cancelled,
\* and the server is empty and closed except while main serves and drains.
Inv ==
  /\ faults \in Nat
  /\ call = [c \in Callers |-> call[c]]
  /\ \A c \in Callers : DOMAIN call[c] = DOMAIN NoCall
  /\ ~rung /\ faults = 0 =>
       /\ \A c \in Callers : Whole(c)
       /\ proc \notin {"serve", "drain"} => accepting = FALSE /\ \A c \in Callers : ~InServer(c)

LEMMA CallKept ==
  ASSUME Inv, NEW c \in Callers, NEW r, Set(c, r), DOMAIN r = DOMAIN NoCall
  PROVE  /\ call' = [d \in Callers |-> call'[d]]
         /\ \A d \in Callers : DOMAIN call'[d] = DOMAIN NoCall
         /\ \A d \in Callers : call'[d] = IF d = c THEN r ELSE call[d]
BY DEF Set, Inv

\* A step of a call that neither cancels nor cuts it, in a server that is open.
LEMMA CallStep ==
  ASSUME Inv, NEW c \in Callers, NEW r, Set(c, r), DOMAIN r = DOMAIN NoCall, UNCHANGED <<main, faults>>,
         Whole(c) => ~r.dead /\ r.last # "cut", InServer(c) \/ accepting
  PROVE  Inv'
<1>1. /\ call' = [d \in Callers |-> call'[d]]
      /\ \A d \in Callers : DOMAIN call'[d] = DOMAIN NoCall
      /\ \A d \in Callers : call'[d] = IF d = c THEN r ELSE call[d]
  BY CallKept
<1>2. rung' = rung /\ proc' = proc /\ accepting' = accepting /\ faults' = faults
  BY DEF main
<1>3. ASSUME ~rung, faults = 0 PROVE \A d \in Callers : Whole(d)'
  BY <1>1, <1>3 DEF Inv, Whole
<1>4. ASSUME ~rung, faults = 0 PROVE proc \in {"serve", "drain"}
  BY <1>4 DEF Inv
<1> QED
  BY <1>1, <1>2, <1>3, <1>4 DEF Inv

LEMMA EndedDomain == \A how : DOMAIN Ended(how) = DOMAIN NoCall
BY DEF Ended, NoCall

LEMMA MainInv == ASSUME Inv, Main \/ Signal \/ ServeFails PROVE Inv'
<1>1. CASE Signal \/ Ping \/ Listen \/ Drain \/ GracefulStop \/ ServeFails
  <2>1. call' = call /\ rung' = rung /\ (faults' = faults \/ Fault)
    BY <1>1 DEF Signal, Ping, Listen, Drain, GracefulStop, ServeFails
  <2>2. CASE Fault
    BY <2>1, <2>2 DEF Fault, Inv
  <2>3. CASE faults' = faults
    <3>1. \/ proc' = proc /\ (accepting' = accepting \/ accepting' = FALSE)
          \/ proc' \in {"serve", "drain"}
          \/ proc \in {"start", "listen"} /\ accepting' \in {accepting, FALSE}
      BY <1>1 DEF Signal, Ping, Listen, Drain, GracefulStop, ServeFails, Exit, Fault, Inv
    <3> QED
      BY <2>1, <2>3, <3>1 DEF Inv, Whole, InServer
  <2> QED
    BY <2>1, <2>2, <2>3
<1>2. CASE GracefulDone
  BY <1>2 DEF GracefulDone, Inv, Whole, InServer
<1>3. CASE TimerRings
  <2>1. call' = [c \in Callers |-> [call[c] EXCEPT !.dead = InServer(c)]] /\ rung' = TRUE
        /\ faults' = faults
    BY <1>3 DEF TimerRings
  <2> QED
    BY <2>1 DEF Inv
<1>4. CASE ClosePool
  <2>1. /\ call' = [c \in Callers |-> IF InServer(c) THEN Ended("cut") ELSE call[c]]
        /\ proc = "close" /\ accepting' = FALSE /\ rung' = rung /\ faults' = faults
    BY <1>4 DEF ClosePool, Exit
  <2> QED
    BY <2>1, EndedDomain DEF Inv, Whole, InServer
<1> QED
  BY <1>1, <1>2, <1>3, <1>4 DEF Main

LEMMA CallInv ==
  ASSUME Inv, NEW c \in Callers, Arrive(c) \/ Step(c) \/ QueryFails(c) \/ HangUp(c)
  PROVE  Inv'
<1>1. CASE Arrive(c)
  <2>1. PICK k \in {"plain", "list"}, n \in 1..MaxQueries :
          Set(c, [NoCall EXCEPT !.at = "need", !.kind = k, !.left = n])
    BY <1>1 DEF Arrive
  <2> DEFINE r == [NoCall EXCEPT !.at = "need", !.kind = k, !.left = n]
  <2>2. DOMAIN r = DOMAIN NoCall /\ ~r.dead /\ r.last # "cut"
    BY DEF NoCall
  <2>3. Set(c, r) /\ accepting /\ UNCHANGED <<main, faults>>
    BY <1>1, <2>1 DEF Arrive
  <2> HIDE DEF r
  <2> QED
    BY <2>2, <2>3, CallStep
<1>2. CASE Acquire(c)
  <2> DEFINE r == [call[c] EXCEPT !.at = "query", !.held = @ + 1]
  <2>1. DOMAIN r = DOMAIN NoCall /\ r.dead = call[c].dead /\ r.last = call[c].last
    BY DEF Inv, NoCall
  <2>2. Set(c, r) /\ InServer(c) /\ UNCHANGED <<main, faults>>
    BY <1>2 DEF Acquire, InServer
  <2> HIDE DEF r
  <2> QED
    BY <2>1, <2>2, CallStep DEF Whole
<1>3. CASE Query(c)
  <2> DEFINE q == [call[c] EXCEPT !.at = "need", !.left = @ - 1, !.held = IF call[c].kind = "list" THEN 1 ELSE 0]
             r == IF call[c].left = 1 THEN Ended("answered") ELSE q
  <2>1. DOMAIN q = DOMAIN NoCall /\ q.dead = call[c].dead /\ q.last = call[c].last
    BY DEF Inv, NoCall
  <2>2. DOMAIN r = DOMAIN NoCall /\ (Whole(c) => ~r.dead /\ r.last # "cut")
    BY <2>1, EndedDomain DEF Ended, NoCall, Whole
  <2>3. Set(c, r) /\ InServer(c) /\ UNCHANGED <<main, faults>>
    BY <1>3 DEF Query, InServer
  <2> HIDE DEF r
  <2> QED
    BY <2>2, <2>3, CallStep
<1>4. CASE GiveUp(c)
  <2>1. Set(c, Ended("cut")) /\ ~Whole(c) /\ UNCHANGED <<main, faults>>
    BY <1>4 DEF GiveUp, Whole
  <2> QED
    BY <2>1, EndedDomain, CallKept DEF main, Inv
<1>5. CASE QueryFails(c) \/ HangUp(c)
  <2>1. faults \in Nat /\ faults' = faults + 1
    BY <1>5 DEF QueryFails, HangUp, Fault, Inv
  <2>2. PICK r : Set(c, r) /\ DOMAIN r = DOMAIN NoCall
    <3>1. DOMAIN [call[c] EXCEPT !.dead = TRUE] = DOMAIN NoCall
      BY DEF Inv
    <3> QED
      BY <1>5, <3>1, EndedDomain DEF QueryFails, HangUp
  <2>3. /\ call' = [d \in Callers |-> call'[d]]
        /\ \A d \in Callers : DOMAIN call'[d] = DOMAIN NoCall
    BY <2>2, CallKept
  <2> QED
    BY <2>1, <2>3 DEF Inv
<1> QED
  BY <1>1, <1>2, <1>3, <1>4, <1>5 DEF Step

LEMMA InitInv == Init => Inv
BY DEF Init, Inv, Whole, NoCall, InServer

\* GracefulStop before pool.Close: a shutdown that takes less than ten seconds cuts
\* no call off (main.go:61-67).
THEOREM GracefulShutdown == Spec => []GracefulIsWhole
<1>1. Inv /\ [Next]_vars => Inv'
  <2> SUFFICES ASSUME Inv, [Next]_vars PROVE Inv'
    OBVIOUS
  <2>1. CASE UNCHANGED vars
    BY <2>1 DEF vars, main, Inv, Whole, InServer
  <2> QED
    BY <2>1, MainInv, CallInv DEF Next, Trouble
<1>2. Inv => GracefulIsWhole
  BY DEF Inv, GracefulIsWhole, Whole
<1> QED
  BY <1>1, <1>2, InitInv, PTL DEF Spec

-----------------------------------------------------------------------------
(* Connections *)

CallRecords ==
  [at : {"out", "need", "query"}, kind : {"plain", "list"}, left : 0..MaxQueries,
   held : 0..2, dead : BOOLEAN, last : {"none", "answered", "cut"}]

\* Where a call is says what it has: nothing when it is out, at least the connection
\* of its query in a query, and while it waits for one only the rows of a list.
Tidy(r) ==
  /\ r \in CallRecords
  /\ r.at # "out" <=> r.left > 0
  /\ r.at = "out" => r.held = 0
  /\ r.at = "query" => r.held > 0
  /\ r.at = "need" => r.held = 0 \/ (r.kind = "list" /\ r.held = 1)

TypeInv ==
  /\ proc \in {"start", "listen", "serve", "drain", "close", "exited"}
  /\ term \in BOOLEAN /\ accepting \in BOOLEAN /\ rung \in BOOLEAN
  /\ call = [c \in Callers |-> call[c]] /\ \A c \in Callers : Tidy(call[c])
  /\ Held <= MaxConns
  /\ calls \in 0..MaxCalls /\ faults \in 0..MaxFaults

Out == {h \in Callers \X {1, 2} : h[2] <= call[h[1]].held}

LEMMA HeldOut == Held = Cardinality(Out) /\ Held' = Cardinality(Out')
BY DEF Held, Out

LEMMA OutFinite == /\ IsFiniteSet(Out) /\ Cardinality(Out) \in Nat
                   /\ IsFiniteSet(Out') /\ Cardinality(Out') \in Nat
<1>1. IsFiniteSet({1, 2})
  <2>1. IsFiniteSet({1})
    BY FS_Singleton
  <2>2. IsFiniteSet({1} \union {2})
    BY <2>1, FS_AddElement
  <2>3. {1} \union {2} = {1, 2}
    OBVIOUS
  <2> QED
    BY <2>2, <2>3
<1>2. IsFiniteSet(Callers \X {1, 2})
  BY <1>1, FS_Product, ProcessAssumption
<1>3. Out \subseteq Callers \X {1, 2} /\ Out' \subseteq Callers \X {1, 2}
  BY DEF Out
<1> QED
  BY <1>2, <1>3, FS_Subset, FS_CardinalityType

\* No call takes a connection: no more are out.
LEMMA HeldNoMore ==
  ASSUME \A c \in Callers : /\ call[c].held \in Nat /\ call'[c].held \in Nat
                            /\ call'[c].held <= call[c].held
  PROVE  Held' <= Held
<1>1. Out' \subseteq Out
  BY DEF Out
<1> QED
  BY <1>1, HeldOut, OutFinite, FS_Subset

\* One call takes one.
LEMMA HeldOneMore ==
  ASSUME NEW c \in Callers, call[c].held \in Nat, call'[c].held = call[c].held + 1,
         \A d \in Callers \ {c} : call'[d] = call[d]
  PROVE  Held' <= Held + 1
<1> DEFINE new == <<c, call[c].held + 1>>
<1>1. Out' \subseteq Out \union {new}
  <2> SUFFICES ASSUME NEW d \in Callers, NEW i \in {1, 2}, i <= call'[d].held,
                      ~(i <= call[d].held)
               PROVE  <<d, i>> = new
    BY DEF Out
  <2>1. d = c
    OBVIOUS
  <2> QED
    BY <2>1
<1>2. /\ IsFiniteSet(Out \union {new})
      /\ Cardinality(Out \union {new}) <= Cardinality(Out) + 1
      /\ Cardinality(Out \union {new}) \in Nat
  <2> HIDE DEF new
  <2>1. IsFiniteSet(Out) /\ Cardinality(Out) \in Nat
    BY OutFinite
  <2>2. /\ IsFiniteSet(Out \union {new})
        /\ Cardinality(Out \union {new}) = IF new \in Out THEN Cardinality(Out) ELSE Cardinality(Out) + 1
    BY <2>1, FS_AddElement
  <2> QED
    BY <2>1, <2>2
<1>3. Cardinality(Out') <= Cardinality(Out \union {new})
  BY <1>1, <1>2, FS_Subset
<1> QED
  BY <1>2, <1>3, HeldOut, OutFinite

LEMMA HeldTyped == Held \in Nat /\ Held' \in Nat
BY HeldOut, OutFinite

LEMMA Bounds == MaxQueries \in Nat /\ MaxCalls \in Nat /\ MaxFaults \in Nat /\ MaxConns \in Nat
BY ProcessAssumption

\* What a tidy call has, field by field.
LEMMA TidyFields ==
  ASSUME NEW r, Tidy(r)
  PROVE  /\ r \in CallRecords /\ r.at \in {"out", "need", "query"} /\ r.kind \in {"plain", "list"}
         /\ r.left \in 0..MaxQueries /\ r.held \in 0..2
BY DEF Tidy, CallRecords

LEMMA NoCallTidy == Tidy(NoCall) /\ NoCall.held = 0 /\ NoCall \in CallRecords
<1>1. NoCall \in CallRecords
  BY Bounds DEF NoCall, CallRecords
<1>2. NoCall.at = "out" /\ NoCall.left = 0 /\ NoCall.held = 0
  BY DEF NoCall
<1> QED
  BY <1>1, <1>2 DEF Tidy

LEMMA EndedTidy ==
  ASSUME NEW how \in {"none", "answered", "cut"}
  PROVE  Tidy(Ended(how)) /\ Ended(how).held = 0
<1>1. \A r \in CallRecords : [r EXCEPT !.last = how] \in CallRecords
  BY DEF CallRecords
<1>2. Ended(how) \in CallRecords
  BY <1>1, NoCallTidy DEF Ended
<1>3. Ended(how).at = "out" /\ Ended(how).left = 0 /\ Ended(how).held = 0
  BY DEF Ended, NoCall
<1> QED
  BY <1>2, <1>3 DEF Tidy

LEMMA ArriveTidy ==
  ASSUME NEW k \in {"plain", "list"}, NEW n \in 1..MaxQueries
  PROVE  LET r == [NoCall EXCEPT !.at = "need", !.kind = k, !.left = n]
         IN  Tidy(r) /\ r.held = 0
<1> DEFINE r == [NoCall EXCEPT !.at = "need", !.kind = k, !.left = n]
<1>1. \A s \in CallRecords, i \in 0..MaxQueries :
        [s EXCEPT !.at = "need", !.kind = k, !.left = i] \in CallRecords
  BY DEF CallRecords
<1>2. n \in 0..MaxQueries /\ n > 0
  BY Bounds
<1>3. r \in CallRecords
  BY <1>1, <1>2, NoCallTidy
<1>4. r.at = "need" /\ r.left = n /\ r.held = 0
  BY DEF NoCall
<1> HIDE DEF r
<1>5. Tidy(r)
  BY <1>2, <1>3, <1>4 DEF Tidy
<1> QED
  BY <1>4, <1>5 DEF r

LEMMA AcquireTidy ==
  ASSUME NEW r, Tidy(r), r.at = "need"
  PROVE  LET s == [r EXCEPT !.at = "query", !.held = @ + 1]
         IN  Tidy(s) /\ s.held = r.held + 1
<1> DEFINE s == [r EXCEPT !.at = "query", !.held = @ + 1]
<1>1. r \in CallRecords /\ r.held \in 0..1 /\ r.left > 0
  BY TidyFields DEF Tidy
<1>2. \A h \in 0..2 : [r EXCEPT !.at = "query", !.held = h] \in CallRecords
  BY <1>1 DEF CallRecords
<1>3. r.held + 1 \in 0..2 /\ r.held + 1 > 0
  BY <1>1
<1>4. s \in CallRecords
  BY <1>2, <1>3
<1>5. s.at = "query" /\ s.held = r.held + 1 /\ s.left = r.left
  BY <1>1 DEF CallRecords
<1> HIDE DEF s
<1>6. Tidy(s)
  BY <1>1, <1>3, <1>4, <1>5 DEF Tidy
<1> QED
  BY <1>5, <1>6 DEF s

LEMMA QueryTidy ==
  ASSUME NEW r, Tidy(r), r.at = "query", r.left # 1
  PROVE  LET s == [r EXCEPT !.at = "need", !.left = @ - 1,
                            !.held = IF r.kind = "list" THEN 1 ELSE 0]
         IN  Tidy(s) /\ s.held <= r.held
<1> DEFINE keep == IF r.kind = "list" THEN 1 ELSE 0
           s == [r EXCEPT !.at = "need", !.left = @ - 1, !.held = keep]
<1>1. r \in CallRecords /\ r.held \in 1..2 /\ r.left \in 2..MaxQueries
  BY TidyFields, Bounds DEF Tidy
<1>2. \A i \in 0..MaxQueries, h \in 0..2 :
        [r EXCEPT !.at = "need", !.left = i, !.held = h] \in CallRecords
  BY <1>1 DEF CallRecords
<1>3. r.left - 1 \in 0..MaxQueries /\ r.left - 1 > 0 /\ keep \in 0..2 /\ keep <= r.held
  BY <1>1, Bounds
<1>4. s \in CallRecords
  BY <1>2, <1>3
<1>5. s.at = "need" /\ s.left = r.left - 1 /\ s.held = keep /\ s.kind = r.kind
  BY <1>1 DEF CallRecords
<1>6. s.held = 0 \/ (s.kind = "list" /\ s.held = 1)
  BY <1>5
<1> HIDE DEF s, keep
<1>7. Tidy(s)
  BY <1>3, <1>4, <1>5, <1>6 DEF Tidy
<1> QED
  BY <1>3, <1>5, <1>7 DEF s, keep

\* Cancelling a call changes nothing else.
LEMMA DeadTidy ==
  ASSUME NEW r, Tidy(r), NEW b \in BOOLEAN
  PROVE  LET s == [r EXCEPT !.dead = b] IN Tidy(s) /\ s.held = r.held
<1> DEFINE s == [r EXCEPT !.dead = b]
<1>1. r \in CallRecords
  BY TidyFields
<1>2. s \in CallRecords
  BY <1>1 DEF CallRecords
<1>3. s.at = r.at /\ s.left = r.left /\ s.held = r.held /\ s.kind = r.kind
  BY <1>1 DEF CallRecords
<1> HIDE DEF s
<1>4. Tidy(s)
  BY <1>2, <1>3 DEF Tidy
<1> QED
  BY <1>3, <1>4 DEF s

LEMMA TypeInit == Init => TypeInv
<1> SUFFICES ASSUME Init PROVE TypeInv
  OBVIOUS
<1>1. call = [c \in Callers |-> NoCall]
  BY DEF Init
<1>2. \A c \in Callers : Tidy(call[c]) /\ call[c].held = 0
  BY <1>1, NoCallTidy
<1>3. Out = {}
  BY <1>2 DEF Out
<1>4. Held <= MaxConns
  BY <1>3, HeldOut, FS_EmptySet, ProcessAssumption
<1>5. /\ proc \in {"start", "listen", "serve", "drain", "close", "exited"}
      /\ term \in BOOLEAN /\ accepting \in BOOLEAN /\ rung \in BOOLEAN
  BY DEF Init
<1>6. calls \in 0..MaxCalls /\ faults \in 0..MaxFaults
  BY Bounds DEF Init
<1> QED
  BY <1>1, <1>2, <1>4, <1>5, <1>6 DEF TypeInv

\* A step of main that gives no connection to a call.
LEMMA MainTyped == ASSUME TypeInv, Main \/ Signal \/ ServeFails PROVE TypeInv'
<1>1. /\ call' = [c \in Callers |-> call'[c]]
      /\ \A c \in Callers : Tidy(call'[c]) /\ call'[c].held <= call[c].held
  <2>1. CASE call' = call
    BY <2>1, TidyFields DEF TypeInv
  <2>2. CASE TimerRings
    <3>1. call' = [c \in Callers |-> [call[c] EXCEPT !.dead = InServer(c)]]
      BY <2>2 DEF TimerRings
    <3> SUFFICES ASSUME NEW c \in Callers PROVE Tidy(call'[c]) /\ call'[c].held <= call[c].held
      BY <3>1
    <3>2. call'[c] = [call[c] EXCEPT !.dead = InServer(c)] /\ InServer(c) \in BOOLEAN
      BY <3>1 DEF InServer
    <3>3. Tidy(call'[c]) /\ call'[c].held = call[c].held /\ call[c].held \in 0..2
      BY <3>2, DeadTidy, TidyFields DEF TypeInv
    <3> QED
      BY <3>3
  <2>3. CASE ClosePool
    <3>1. call' = [c \in Callers |-> IF InServer(c) THEN Ended("cut") ELSE call[c]]
      BY <2>3 DEF ClosePool
    <3>2. \A c \in Callers : Tidy(call[c]) /\ call[c].held \in 0..2
      BY TidyFields DEF TypeInv
    <3> QED
      BY <3>1, <3>2, EndedTidy
  <2> QED
    BY <2>1, <2>2, <2>3
       DEF Main, Signal, ServeFails, Ping, Listen, Drain, GracefulStop, GracefulDone
<1>2. \A c \in Callers : call[c].held \in Nat /\ call'[c].held \in Nat
  BY <1>1, TidyFields DEF TypeInv
<1>3. Held' <= MaxConns
  BY <1>1, <1>2, HeldNoMore, HeldTyped, ProcessAssumption DEF TypeInv
<1>4. /\ proc' \in {"start", "listen", "serve", "drain", "close", "exited"}
      /\ term' \in BOOLEAN /\ accepting' \in BOOLEAN /\ rung' \in BOOLEAN
  BY DEF TypeInv, Main, Signal, ServeFails, Ping, Listen, Drain, GracefulStop, GracefulDone,
         TimerRings, ClosePool, Exit
<1>5. calls' = calls /\ (faults' = faults \/ Fault)
  BY DEF Main, Signal, ServeFails, Ping, Listen, Drain, GracefulStop, GracefulDone,
         TimerRings, ClosePool
<1>6. calls' \in 0..MaxCalls /\ faults' \in 0..MaxFaults
  BY <1>5, Bounds DEF TypeInv, Fault
<1> QED
  BY <1>1, <1>3, <1>4, <1>6 DEF TypeInv

\* A step of a call that leaves it tidy and within the pool.
LEMMA CallTyped ==
  ASSUME TypeInv, NEW c \in Callers, NEW r, Set(c, r), Tidy(r),
         r.held <= call[c].held \/ (r.held = call[c].held + 1 /\ Held < MaxConns),
         UNCHANGED main, calls' \in 0..MaxCalls, faults' \in 0..MaxFaults
  PROVE  TypeInv'
<1>1. /\ call' = [d \in Callers |-> call'[d]] /\ \A d \in Callers : Tidy(call'[d])
      /\ call'[c] = r /\ \A d \in Callers \ {c} : call'[d] = call[d]
  BY DEF Set, TypeInv
<1>2. \A d \in Callers : call[d].held \in Nat /\ call'[d].held \in Nat
  BY <1>1, TidyFields DEF TypeInv
<1>3. Held' <= MaxConns
  <2>1. CASE r.held <= call[c].held
    <3>1. \A d \in Callers : call'[d].held <= call[d].held
      BY <1>1, <1>2, <2>1
    <3> QED
      BY <1>2, <3>1, HeldNoMore, HeldTyped, ProcessAssumption DEF TypeInv
  <2>2. CASE r.held = call[c].held + 1 /\ Held < MaxConns
    BY <1>1, <1>2, <2>2, HeldOneMore, HeldTyped, ProcessAssumption
  <2> QED
    BY <2>1, <2>2
<1> QED
  BY <1>1, <1>3 DEF TypeInv, main

LEMMA StepTyped ==
  ASSUME TypeInv, NEW c \in Callers, Arrive(c) \/ Step(c) \/ QueryFails(c) \/ HangUp(c)
  PROVE  TypeInv'
<1>1. UNCHANGED main /\ calls' \in 0..MaxCalls /\ faults' \in 0..MaxFaults
  <2>1. calls \in 0..MaxCalls /\ faults \in 0..MaxFaults
    BY DEF TypeInv
  <2>2. /\ UNCHANGED main
        /\ calls' = calls \/ (calls < MaxCalls /\ calls' = calls + 1)
        /\ faults' = faults \/ (faults < MaxFaults /\ faults' = faults + 1)
    BY DEF Arrive, Step, Acquire, Query, GiveUp, QueryFails, HangUp, Fault
  <2> QED
    BY <2>1, <2>2, Bounds
<1>2. Tidy(call[c]) /\ call[c].held \in 0..2
  BY TidyFields DEF TypeInv
<1>3. CASE Arrive(c)
  <2>1. PICK k \in {"plain", "list"}, n \in 1..MaxQueries :
          Set(c, [NoCall EXCEPT !.at = "need", !.kind = k, !.left = n])
    BY <1>3 DEF Arrive
  <2> DEFINE r == [NoCall EXCEPT !.at = "need", !.kind = k, !.left = n]
  <2>2. Tidy(r) /\ r.held = 0
    BY ArriveTidy
  <2> HIDE DEF r
  <2>3. Set(c, r) /\ r.held <= call[c].held
    BY <1>2, <2>1, <2>2 DEF r
  <2> QED
    BY <1>1, <2>2, <2>3, CallTyped
<1>4. CASE Acquire(c)
  <2> DEFINE r == [call[c] EXCEPT !.at = "query", !.held = @ + 1]
  <2>1. Set(c, r) /\ call[c].at = "need" /\ Held < MaxConns
    BY <1>4 DEF Acquire
  <2>2. Tidy(r) /\ r.held = call[c].held + 1
    BY <1>2, <2>1, AcquireTidy
  <2> HIDE DEF r
  <2> QED
    BY <1>1, <2>1, <2>2, CallTyped
<1>5. CASE Query(c)
  <2> DEFINE more == [call[c] EXCEPT !.at = "need", !.left = @ - 1,
                                     !.held = IF call[c].kind = "list" THEN 1 ELSE 0]
             r == IF call[c].left = 1 THEN Ended("answered") ELSE more
  <2>1. Set(c, r) /\ call[c].at = "query"
    BY <1>5 DEF Query
  <2>2. call[c].left # 1 => Tidy(more) /\ more.held <= call[c].held
    BY <1>2, <2>1, QueryTidy
  <2> HIDE DEF more
  <2>3. Tidy(r) /\ r.held <= call[c].held
    BY <1>2, <2>2, EndedTidy
  <2> HIDE DEF r
  <2> QED
    BY <1>1, <2>1, <2>3, CallTyped
<1>6. CASE GiveUp(c) \/ QueryFails(c)
  <2>1. PICK how \in {"none", "answered", "cut"} : Set(c, Ended(how))
    BY <1>6 DEF GiveUp, QueryFails
  <2>2. Tidy(Ended(how)) /\ Ended(how).held <= call[c].held
    BY <1>2, EndedTidy
  <2> QED
    BY <1>1, <2>1, <2>2, CallTyped
<1>7. CASE HangUp(c)
  <2> DEFINE r == [call[c] EXCEPT !.dead = TRUE]
  <2>1. Set(c, r)
    BY <1>7 DEF HangUp
  <2>2. Tidy(r) /\ r.held = call[c].held
    BY <1>2, DeadTidy
  <2> HIDE DEF r
  <2>3. r.held <= call[c].held
    BY <1>2, <2>2
  <2> QED
    BY <1>1, <2>1, <2>2, <2>3, CallTyped
<1> QED
  BY <1>3, <1>4, <1>5, <1>6, <1>7 DEF Step

\* A call has work left exactly while it is in the server, a list holds at most two
\* connections and no more are out than the pool has (pgxpool under order-service and
\* user-service).
LEMMA ConnectionsHeld == Spec => []TypeInv
<1>1. TypeInv /\ [Next]_vars => TypeInv'
  <2> SUFFICES ASSUME TypeInv, [Next]_vars PROVE TypeInv'
    OBVIOUS
  <2>1. CASE UNCHANGED vars
    BY <2>1 DEF vars, main, TypeInv, Held
  <2> QED
    BY <2>1, MainTyped, StepTyped DEF Next, Trouble
<1> QED
  BY <1>1, TypeInit, PTL DEF Spec

\* Types, and the limit of the pool (main.go, pgxpool).
THEOREM TypeCorrect == Spec => []TypeOK
<1>1. TypeInv => TypeOK
  BY DEF TypeInv, Tidy, CallRecords, TypeOK, InServer
<1> QED
  BY <1>1, ConnectionsHeld, PTL

\* The lists in the server.
Lists == {c \in Callers : InServer(c) /\ call[c].kind = "list"}

\* Only lists can use up the pool, and only as many as it has connections: with fewer
\* in the server a call that waits for a connection waits for a query that runs.
THEOREM OnlyListsStarve == Spec => [](Starved => Cardinality(Lists) >= MaxConns)
<1>1. ASSUME TypeInv, Starved PROVE Cardinality(Lists) >= MaxConns
  <2> DEFINE first == [h \in Out |-> h[1]]
  <2>1. ASSUME NEW h \in Out PROVE h \in Callers \X {1, 2} /\ h[1] \in Lists /\ h[2] = 1
    <3>1. h[1] \in Callers /\ h[2] \in {1, 2} /\ h[2] <= call[h[1]].held /\ h \in Callers \X {1, 2}
      BY DEF Out
    <3>2. Tidy(call[h[1]]) /\ call[h[1]].held \in 0..2
      BY <1>1, <3>1, TidyFields DEF TypeInv
    <3>3. call[h[1]].at = "need"
      BY <1>1, <3>1, <3>2 DEF Starved
    <3> QED
      BY <3>1, <3>2, <3>3 DEF Tidy, Lists, InServer
  <2>2. first \in [Out -> Lists]
    BY <2>1
  <2>3. \A g, h \in Out : first[g] = first[h] => g = h
    BY <2>1
  <2> HIDE DEF first
  <2>4. first \in Injection(Out, Lists)
    BY <2>2, <2>3 DEF Injection, IsInjective
  <2>5. IsFiniteSet(Lists) /\ Cardinality(Lists) \in Nat
    BY ProcessAssumption, FS_Subset, FS_CardinalityType DEF Lists
  <2>6. Cardinality(Out) <= Cardinality(Lists)
    BY <2>4, <2>5, FS_Injection
  <2> QED
    BY <1>1, <2>6, HeldOut DEF Starved
<1> QED
  BY <1>1, ConnectionsHeld, PTL
=============================================================================
