-------------------------- MODULE ServiceCallsProofs --------------------------
(***************************************************************************)
(* Proofs about ServiceCalls, for any number of calls, performers, changes *)
(* and failures, and any validity of tokens.                               *)
(***************************************************************************)
EXTENDS ServiceCalls, FiniteSetTheorems, TLAPS

-----------------------------------------------------------------------------
(* What one call knows *)

Passed == {"read", "name", "store", "reread"}

\* Types; a code exactly at the end; a copy of rights someone had.
Typed(r) ==
  /\ r \in Records
  /\ r.code # "none" <=> r.at \in {"count", "answer"}
  /\ r.rights \subseteq r.held

\* A call that is past the checks has the permission its method requires.
Rightful(r) ==
  r.at \in Passed \/ r.changed =>
    (r.method \in DOMAIN Required => Required[r.method] \in r.rights)

\* Those looked up so far were active; all were when the call goes to the database.
Teamed(r) ==
  /\ r.method \notin Naming => r.team = {}
  /\ r.at = "name" => r.left \subseteq r.team /\ r.team \subseteq r.left \union r.seen
  /\ r.at \in {"store", "reread"} \/ r.changed => r.team \subseteq r.seen

\* A change is known from the row that is read again, and in the code.
Truthful(r) ==
  /\ r.changed => r.at \in {"reread", "count", "answer"}
  /\ r.at = "reread" => r.changed
  /\ r.code \notin {"none", "OK", "Internal", "Unavailable"} => ~r.changed
  /\ r.code = "OK" /\ r.method \in Writes => r.changed

\* "InvalidArgument" has its cause at time n, after f failures.
Caused(r, n, f) ==
  r.code = "InvalidArgument" /\ r.valid /\ r.team \subseteq r.steady => n >= r.expires \/ f > 0

\* What the properties note about the world is true of it.
Current(r) ==
  /\ r.at # "idle" => rights \subseteq r.held
  /\ r.at \in {"handle", "read", "name", "store", "reread"} => r.steady \subseteq active /\ active \subseteq r.seen

RecOK(r) == Typed(r) /\ Rightful(r) /\ Teamed(r) /\ Truthful(r)

World ==
  /\ now \in 0..MaxTime /\ rights \subseteq Rights /\ active \subseteq Performers
  /\ counted \in [Codes -> Nat] /\ arrived \in Nat
  /\ calls \in 0..MaxCalls /\ faults \in 0..MaxFaults

CallsOK == \A c \in Calls : RecOK(call[c]) /\ Current(call[c]) /\ Caused(call[c], now, faults)
Inv == World /\ CallsOK /\ call = [c \in Calls |-> call[c]]

LEMMA RequiredTyped == \A m \in DOMAIN Required : Required[m] \in Rights /\ m \in OrderMethods
BY DEF Required, Rights, Range, OrderMethods

LEMMA InvType == Inv => TypeOK
BY DEF Inv, World, CallsOK, RecOK, Typed, TypeOK

LEMMA InitInv == Init => Inv
BY CallsAssumption DEF Init, Inv, World, CallsOK, RecOK, Current, Caused, Typed, Rightful, Teamed, Truthful, NoCall, Records,
   Labels, Methods, UserMethods, OrderMethods, Codes, Naming, Passed, Required, Writes, Reads

-----------------------------------------------------------------------------
(* Steps that change one call *)

\* Only call c moves, to a record that is in order.
LEMMA Moved ==
  ASSUME Inv, NEW c \in Calls, NEW r, RecOK(r), Current(r), Caused(r, now, faults'), Move(c, r),
         Stay, World', faults' >= faults
  PROVE  Inv'
<1>1. call' = [d \in Calls |-> call'[d]]
  BY DEF Move, Inv
<1>2. \A d \in Calls : call'[d] = IF d = c THEN r ELSE call[d]
  BY DEF Move, Inv
<1>3. faults \in Nat /\ faults' \in Nat /\ now \in Nat
  BY CallsAssumption DEF Inv, World
<1>4. \A d \in Calls : RecOK(call'[d]) /\ Current(call'[d]) /\ Caused(call'[d], now, faults')
  BY <1>2, <1>3 DEF Inv, CallsOK, Caused
<1>5. CallsOK'
  BY <1>4 DEF CallsOK, Current, RecOK, Typed, Rightful, Teamed, Truthful, Stay, world
<1> QED
  BY <1>1, <1>5 DEF Inv

\* An ended call is in order when its code is true of it.
LEMMA Ending ==
  ASSUME NEW r, RecOK(r), r.at \notin {"count", "answer"}, NEW code \in Codes,
         code \notin {"OK", "Internal", "Unavailable"} => ~r.changed,
         code = "OK" /\ r.method \in Writes => r.changed
  PROVE  RecOK([r EXCEPT !.at = "count", !.code = code])
<1> DEFINE e == [r EXCEPT !.at = "count", !.code = code]
<1>1. e \in Records /\ "count" \in Labels
  BY DEF RecOK, Typed, Records, Labels
<1>2. /\ e.at = "count" /\ e.code = code /\ e.method = r.method /\ e.changed = r.changed
      /\ e.team = r.team /\ e.rights = r.rights /\ e.held = r.held /\ e.seen = r.seen
  BY DEF RecOK, Typed, Records
<1> HIDE DEF e
<1>3. code # "none"
  BY DEF Codes
<1>4. Typed(e)
  BY <1>1, <1>2, <1>3 DEF RecOK, Typed
<1>5. Rightful(e)
  BY <1>2 DEF RecOK, Rightful, Passed
<1>6. Teamed(e)
  BY <1>2 DEF RecOK, Teamed
<1>7. Truthful(e)
  BY <1>2, <1>3 DEF RecOK, Truthful
<1> QED
  BY <1>4, <1>5, <1>6, <1>7 DEF RecOK, e

LEMMA AskInv == ASSUME Inv, NEW c \in Calls, Ask(c) PROVE Inv'
<1>1. PICK m \in Asked, v \in BOOLEAN, t \in SUBSET Performers :
        /\ m \notin Naming => t = {}
        /\ Move(c, [NoCall EXCEPT !.at = "lookup", !.method = m, !.valid = v, !.team = t,
                                  !.held = rights])
  BY DEF Ask
<1>2. RecOK([NoCall EXCEPT !.at = "lookup", !.method = m, !.valid = v, !.team = t, !.held = rights])
  BY <1>1, CallsAssumption DEF RecOK, Typed, Rightful, Teamed, Truthful, NoCall, Records, Labels, Codes, Passed,
     Inv, World
<1>3. World'
  BY CallsAssumption DEF Ask, Inv, World, world
<1>4. Current([NoCall EXCEPT !.at = "lookup", !.method = m, !.valid = v, !.team = t, !.held = rights])
  BY DEF Current, NoCall
<1>5. Caused([NoCall EXCEPT !.at = "lookup", !.method = m, !.valid = v, !.team = t, !.held = rights],
             now, faults')
  BY DEF Caused, NoCall
<1>6. Stay /\ faults' = faults /\ faults \in Nat
  BY DEF Ask, Stay, Inv, World
<1> QED
  BY <1>1, <1>2, <1>3, <1>4, <1>5, <1>6, Moved

\* A failure is counted, and the world stays in its bounds.
LEMMA Failing ==
  ASSUME Inv, Rest, Fault \/ UNCHANGED faults
  PROVE  Stay /\ World' /\ faults' >= faults /\ (Fault => faults' > 0)
BY CallsAssumption DEF Rest, Stay, Fault, Inv, World, world

\* A step that keeps what the method was asked and has found out.
LEMMA Ended ==
  ASSUME Inv, NEW c \in Calls, NEW code \in Codes, Rest, Fault \/ UNCHANGED faults, End(c, code),
         call[c].at \notin {"idle", "count", "answer"},
         code \notin {"OK", "Internal", "Unavailable"} => ~call[c].changed,
         code = "OK" /\ call[c].method \in Writes => call[c].changed,
         code = "InvalidArgument" =>
           Fault \/ Expired(c) \/ ~call[c].valid \/ ~(call[c].team \subseteq call[c].steady)
  PROVE  Inv'
<1> DEFINE r == [call[c] EXCEPT !.at = "count", !.code = code]
<1>1. RecOK(call[c]) /\ Current(call[c])
  BY DEF Inv, CallsOK
<1>2. RecOK(r)
  BY <1>1, Ending
<1>3. call[c] \in Records
  BY <1>1 DEF RecOK, Typed
<1>4. Current(r)
  BY <1>1, <1>3 DEF Current, Records
<1>5. Caused(r, now, faults')
  BY <1>3, Failing DEF Caused, Records, Expired
<1> QED
  BY <1>2, <1>4, <1>5, Failing, Moved DEF End, Finish

LEMMA ClientInv ==
  ASSUME Inv, NEW c \in Calls, Lookup(c) \/ Send(c) \/ Lose(c) \/ Receive(c)
  PROVE  Inv'
<1>1. Rest /\ (Fault \/ UNCHANGED faults)
  BY DEF Lookup, Send, Lose, Receive
<1>2. RecOK(call[c]) /\ Current(call[c]) /\ Caused(call[c], now, faults) /\ call[c] \in Records
  BY DEF Inv, CallsOK, RecOK, Typed
<1>3. Stay /\ World' /\ faults' >= faults
  BY <1>1, Failing
<1>4. now \in Nat /\ TTL \in Nat
  BY CallsAssumption DEF Inv, World
<1>5. CASE Lookup(c)
  <2> DEFINE r == [call[c] EXCEPT !.at = "send", !.rights = rights]
  <2>1. Move(c, r) /\ call[c].at = "lookup"
    BY <1>5 DEF Lookup, At
  <2>2. RecOK(r) /\ Current(r) /\ Caused(r, now, faults')
    BY <1>2, <2>1 DEF RecOK, Typed, Rightful, Teamed, Truthful, Current, Caused, Records, Labels, Passed, Inv, World
  <2> QED
    BY <1>3, <2>1, <2>2, Moved
<1>6. CASE Send(c)
  <2> DEFINE r == [call[c] EXCEPT !.at = "sent", !.expires = now + TTL]
  <2>1. Move(c, r) /\ call[c].at = "send"
    BY <1>6 DEF Send, At
  <2>2. now + TTL \in Nat
    BY <1>4
  <2>3. r \in Records /\ r.code = "none" /\ r.at = "sent"
    BY <1>2, <2>1, <2>2 DEF RecOK, Typed, Records, Labels
  <2>4. RecOK(r) /\ Current(r)
    BY <1>2, <2>1, <2>3 DEF RecOK, Typed, Rightful, Teamed, Truthful, Current, Records, Passed
  <2>5. Caused(r, now, faults')
    BY <2>3 DEF Caused
  <2> QED
    BY <1>3, <2>1, <2>4, <2>5, Moved
<1>7. CASE Lose(c)
  <2> DEFINE r == [call[c] EXCEPT !.at = "answer", !.code = "Unavailable"]
  <2>1. Move(c, r) /\ call[c].at \in {"sent", "answer"}
    BY <1>7 DEF Lose, At
  <2>2. RecOK(r) /\ Current(r) /\ Caused(r, now, faults')
    BY <1>2, <2>1, ZenonT(60) DEF RecOK, Typed, Rightful, Teamed, Truthful, Current, Caused, Records, Labels, Passed, Codes
  <2> QED
    BY <1>3, <2>1, <2>2, Moved
<1>8. CASE Receive(c)
  <2>1. Move(c, NoCall)
    BY <1>8 DEF Receive
  <2>2. RecOK(NoCall) /\ Current(NoCall) /\ Caused(NoCall, now, faults')
    BY DEF RecOK, Typed, Rightful, Teamed, Truthful, Current, Caused, Records, Labels, Passed, Codes, NoCall
  <2> QED
    BY <1>3, <2>1, <2>2, Moved
<1> QED
  BY <1>5, <1>6, <1>7, <1>8

LEMMA ArriveInv == ASSUME Inv, NEW c \in Calls, Arrive(c) PROVE Inv'
<1> DEFINE r == [call[c] EXCEPT !.seen = active, !.steady = active]
<1>1. call[c].at = "sent" /\ Stay /\ faults' = faults /\ faults \in Nat
  BY DEF Arrive, At, Stay, Inv, World
<1>2. World'
  BY DEF Arrive, Inv, World, world
<1>3. RecOK(call[c]) /\ Current(call[c]) /\ call[c] \in Records /\ active \subseteq Performers
  BY DEF Inv, CallsOK, RecOK, Typed, World
<1>4. call[c].code = "none" /\ ~call[c].changed
  BY <1>1, <1>3 DEF RecOK, Typed, Truthful
<1>5. CASE Move(c, [r EXCEPT !.at = "handle"])
  <2> DEFINE h == [r EXCEPT !.at = "handle"]
  <2>1. RecOK(h) /\ Current(h) /\ Caused(h, now, faults')
    BY <1>1, <1>3, <1>4 DEF RecOK, Typed, Rightful, Teamed, Truthful, Current, Caused, Records, Labels, Passed
  <2> QED
    BY <1>1, <1>2, <1>5, <2>1, Moved
<1>6. CASE Finish(c, r, "Unauthenticated")
  <2> DEFINE h == [r EXCEPT !.at = "count", !.code = "Unauthenticated"]
  <2>1. RecOK(h) /\ Current(h) /\ Caused(h, now, faults')
    BY <1>1, <1>3, <1>4 DEF RecOK, Typed, Rightful, Teamed, Truthful, Current, Caused, Records, Labels, Passed, Codes
  <2> QED
    BY <1>1, <1>2, <1>6, <2>1, Moved DEF Finish
<1> QED
  BY <1>5, <1>6 DEF Arrive

\* The next label, when the call knows what it must there.
LEMMA Onward ==
  ASSUME Inv, NEW c \in Calls, Rest, UNCHANGED faults, NEW label \in Labels, Goto(c, label),
         call[c].at \in {"handle", "read"} \/ (call[c].at = "name" /\ call[c].left = {}),
         label = "read" \/ label = "store",
         call[c].method \in DOMAIN Required => Required[call[c].method] \in call[c].rights,
         call[c].at # "name" /\ label = "store" => call[c].method \notin Naming
  PROVE  Inv'
<1> DEFINE r == [call[c] EXCEPT !.at = label]
<1>1. RecOK(call[c]) /\ Current(call[c]) /\ call[c] \in Records /\ Caused(call[c], now, faults)
  BY DEF Inv, CallsOK, RecOK, Typed
<1>2. RecOK(r) /\ Current(r) /\ Caused(r, now, faults')
  BY <1>1 DEF RecOK, Typed, Rightful, Teamed, Truthful, Current, Caused, Records, Labels, Passed
<1> QED
  BY <1>2, Failing, Moved DEF Goto

\* The look-ups begin with the team of the request, after the permission was seen.
LEMMA Looking ==
  ASSUME Inv, NEW c \in Calls, Rest, UNCHANGED faults, Look(c), call[c].at \in {"handle", "read"},
         Permitted(c)
  PROVE  Inv'
<1>1. RecOK(call[c]) /\ Current(call[c]) /\ call[c] \in Records /\ ~call[c].changed
  BY DEF Inv, CallsOK, RecOK, Typed, Truthful
<1>2. CASE call[c].method \in Naming
  <2> DEFINE r == [call[c] EXCEPT !.at = "name", !.left = call[c].team]
  <2>1. RecOK(r) /\ Current(r) /\ Caused(r, now, faults')
    BY <1>1 DEF RecOK, Typed, Rightful, Teamed, Truthful, Current, Caused, Records, Labels, Passed,
                Permitted
  <2> QED
    BY <1>2, <2>1, Failing, Moved DEF Look
<1>3. CASE call[c].method \notin Naming
  BY <1>3, Onward DEF Look, Labels, Permitted
<1> QED
  BY <1>2, <1>3

LEMMA HandleOrderInv == ASSUME Inv, NEW c \in Calls, HandleOrder(c) PROVE Inv'
<1>1. call[c].at = "handle" /\ Rest /\ UNCHANGED faults
  BY DEF HandleOrder, At
<1>2. RecOK(call[c]) /\ ~call[c].changed
  BY <1>1 DEF Inv, CallsOK, RecOK, Truthful
<1>3. CASE End(c, "PermissionDenied")
  BY <1>1, <1>2, <1>3, Ended DEF Codes
<1>4. CASE ~call[c].valid /\ End(c, "InvalidArgument")
  BY <1>1, <1>2, <1>4, Ended DEF Codes
<1>5. CASE Permitted(c) /\ Goto(c, "read")
  BY <1>1, <1>5, Onward DEF Labels, Permitted
<1>6. CASE Permitted(c) /\ Look(c)
  BY <1>1, <1>6, Looking
<1> QED
  BY <1>3, <1>4, <1>5, <1>6 DEF HandleOrder

LEMMA ReadOrderInv == ASSUME Inv, NEW c \in Calls, ReadOrder(c) PROVE Inv'
<1>1. call[c].at = "read" /\ Rest /\ (Fault \/ UNCHANGED faults)
  BY DEF ReadOrder, At
<1>2. RecOK(call[c]) /\ ~call[c].changed /\ Permitted(c)
  BY <1>1 DEF Inv, CallsOK, RecOK, Truthful, Rightful, Passed, Permitted
<1>3. CASE End(c, "NotFound") \/ End(c, "Internal")
  BY <1>1, <1>2, <1>3, Ended DEF Codes
<1>4. CASE ~call[c].valid /\ End(c, "InvalidArgument")
  BY <1>1, <1>2, <1>4, Ended DEF Codes
<1>5. CASE UNCHANGED faults /\ Look(c)
  BY <1>1, <1>2, <1>5, Looking
<1> QED
  BY <1>3, <1>4, <1>5 DEF ReadOrder

LEMMA HandleUserInv == ASSUME Inv, NEW c \in Calls, HandleUser(c) PROVE Inv'
<1>1. /\ call[c].at = "handle" /\ Rest /\ (Fault \/ UNCHANGED faults)
      /\ call[c].method \in UserMethods
  BY DEF HandleUser, At
<1>2. RecOK(call[c]) /\ ~call[c].changed
  BY <1>1 DEF Inv, CallsOK, RecOK, Truthful
<1>3. call[c].method \notin DOMAIN Required /\ call[c].method \notin Naming
  BY <1>1 DEF UserMethods, Required, Naming
<1>4. CASE UNCHANGED faults /\ Goto(c, "store")
  BY <1>1, <1>3, <1>4, Onward DEF Labels
<1>5. CASE ~call[c].valid /\ \E code \in Invalid(call[c].method) \union {"Internal"} : End(c, code)
  <2>1. Invalid(call[c].method)
          \subseteq {"Unauthenticated", "InvalidArgument", "NotFound", "Internal"}
    BY DEF Invalid
  <2> QED
    BY <1>1, <1>2, <1>5, <2>1, Ended DEF Codes
<1> QED
  BY <1>4, <1>5 DEF HandleUser

LEMMA AskUserInv == ASSUME Inv, NEW c \in Calls, AskUser(c) PROVE Inv'
<1>1. call[c].at = "name" /\ Rest /\ (Fault \/ UNCHANGED faults)
  BY DEF AskUser, At
<1>2. RecOK(call[c]) /\ Current(call[c]) /\ call[c] \in Records /\ ~call[c].changed
  BY <1>1 DEF Inv, CallsOK, RecOK, Typed, Truthful
<1>3. call[c].left \subseteq call[c].team /\ call[c].steady \subseteq active
  BY <1>1, <1>2 DEF RecOK, Teamed, Current
<1>4. CASE call[c].left = {} /\ Goto(c, "store") /\ UNCHANGED faults
  BY <1>1, <1>2, <1>4, Onward DEF Labels, RecOK, Rightful, Passed
<1>5. ASSUME NEW p \in call[c].left, p \in active, UNCHANGED faults,
             Move(c, [call[c] EXCEPT !.left = @ \ {p}])
      PROVE  Inv'
  <2> DEFINE r == [call[c] EXCEPT !.left = @ \ {p}]
  <2>1. p \in call[c].seen
    BY <1>1, <1>2, <1>5 DEF Current
  <2>2. RecOK(r) /\ Current(r) /\ Caused(r, now, faults')
    BY <1>1, <1>2, <1>5, <2>1 DEF RecOK, Typed, Rightful, Teamed, Truthful, Current, Caused, Records, Labels, Passed
  <2> QED
    BY <1>1, <1>5, <2>2, Failing, Moved
<1>6. CASE End(c, "InvalidArgument") /\ (Fault \/ Expired(c) \/ \E p \in call[c].left : p \notin active)
  <2>1. Fault \/ Expired(c) \/ ~(call[c].team \subseteq call[c].steady)
    BY <1>3, <1>6
  <2> QED
    BY <1>1, <1>2, <1>6, <2>1, Ended DEF Codes
<1> QED
  BY <1>4, <1>5, <1>6 DEF AskUser

LEMMA QueryInv == ASSUME Inv, NEW c \in Calls, Query(c) \/ Reread(c) PROVE Inv'
<1>1. call[c].at \in {"store", "reread"} /\ Rest /\ (Fault \/ UNCHANGED faults)
  BY DEF Query, Reread, At
<1>2. RecOK(call[c])
  BY DEF Inv, CallsOK
<1>3. CASE Query(c)
  <2>1. call[c].method \notin Writes /\ call[c].at = "store" /\ ~call[c].changed
    BY <1>2, <1>3 DEF Query, At, Writes, RecOK, Truthful
  <2>2. \E code \in {"OK", "NotFound", "Unauthenticated", "Internal"} : End(c, code)
    BY <1>3 DEF Query
  <2> QED
    BY <1>1, <2>1, <2>2, Ended DEF Codes
<1>4. CASE Reread(c)
  <2>1. call[c].changed
    BY <1>2, <1>4 DEF Reread, At, RecOK, Truthful
  <2>2. \E code \in {"OK", "Internal"} : End(c, code)
    BY <1>4 DEF Reread
  <2> QED
    BY <1>1, <2>1, <2>2, Ended DEF Codes
<1> QED
  BY <1>3, <1>4

-----------------------------------------------------------------------------
(* Changes that every call sees *)

Widened(e) == [e EXCEPT !.held = @ \union rights', !.seen = @ \union active',
                        !.steady = @ \intersect active']

LEMMA Widening ==
  ASSUME NEW e, RecOK(e), rights' \subseteq Rights, active' \subseteq Performers,
         NEW n, NEW f, Caused(e, n, f)
  PROVE  /\ RecOK(Widened(e)) /\ Caused(Widened(e), n, f)
         /\ rights' \subseteq Widened(e).held
         /\ Widened(e).at \in {"handle", "read", "name", "store", "reread"} =>
              Widened(e).steady \subseteq active' /\ active' \subseteq Widened(e).seen
<1> DEFINE w == Widened(e)
<1>1. e \in Records
  BY DEF RecOK, Typed
<1>2. w \in Records
  BY <1>1 DEF Widened, Records
<1>3. /\ w.at = e.at /\ w.method = e.method /\ w.valid = e.valid /\ w.team = e.team /\ w.left = e.left
      /\ w.rights = e.rights /\ w.expires = e.expires /\ w.changed = e.changed /\ w.code = e.code
      /\ w.held = e.held \union rights' /\ w.seen = e.seen \union active'
      /\ w.steady = e.steady \intersect active'
  BY <1>1 DEF Widened, Records
<1> HIDE DEF w
<1>4. RecOK(w) /\ Caused(w, n, f)
  BY <1>2, <1>3 DEF RecOK, Typed, Rightful, Teamed, Truthful, Caused
<1> QED
  BY <1>3, <1>4 DEF w

LEMMA Effected ==
  ASSUME Inv, NEW c \in Calls, NEW m, Effect(m), NEW r, MoveWithEffect(c, r),
         RecOK(r), Caused(r, now, faults'), World', faults' >= faults, UNCHANGED now
  PROVE  Inv'
<1>1. faults \in Nat /\ faults' \in Nat /\ now \in Nat
  BY CallsAssumption DEF Inv, World
<1>2. \A d \in Calls : RecOK(call[d]) /\ Caused(call[d], now, faults')
  BY <1>1 DEF Inv, CallsOK, Caused
<1>3. rights' \subseteq Rights /\ active' \subseteq Performers
  BY DEF World
<1>4. call' = [d \in Calls |-> Widened(IF d = c THEN r ELSE call[d])]
  BY DEF MoveWithEffect, Widened
<1>5. ASSUME NEW d \in Calls PROVE RecOK(call'[d]) /\ Current(call[d])' /\ Caused(call'[d], now, faults')
  <2> DEFINE e == IF d = c THEN r ELSE call[d]
  <2>1. RecOK(e) /\ Caused(e, now, faults')
    BY <1>2
  <2>2. call'[d] = Widened(e)
    BY <1>4
  <2> HIDE DEF e
  <2> QED
    BY <1>3, <2>1, <2>2, Widening DEF Current
<1>6. CallsOK'
  BY <1>5 DEF CallsOK, RecOK, Typed, Rightful, Teamed, Truthful
<1>7. call' = [d \in Calls |-> call'[d]]
  BY <1>4
<1> QED
  BY <1>6, <1>7 DEF Inv

LEMMA ChangeInv == ASSUME Inv, NEW c \in Calls, Change(c) PROVE Inv'
<1> DEFINE r == [call[c] EXCEPT !.changed = TRUE]
<1>1. call[c].at = "store" /\ UNCHANGED <<counted, arrived, calls>> /\ call[c].method \in Writes
  BY DEF Change, At
<1>2. RecOK(call[c]) /\ Current(call[c]) /\ call[c] \in Records /\ ~call[c].changed /\ call[c].code = "none"
  BY <1>1 DEF Inv, CallsOK, RecOK, Typed, Truthful
<1>3. CASE /\ Stay
           /\ \/ UNCHANGED faults /\ \E code \in Refusals(call[c].method) : End(c, code)
              \/ Fault /\ End(c, "Internal")
  <2>1. PICK code \in Codes \ {"OK", "InvalidArgument"} : End(c, code)
    BY <1>3 DEF Refusals, RefusedWith, Codes
  <2> QED
    BY <1>1, <1>2, <1>3, <2>1, Ended DEF Rest
<1>4. CASE /\ Effect(call[c].method)
           /\ \/ /\ UNCHANGED faults
                 /\ \/ MoveWithEffect(c, [r EXCEPT !.at = "count", !.code = "OK"])
                    \/ MoveWithEffect(c, [r EXCEPT !.at = "reread"])
              \/ Fault /\ MoveWithEffect(c, [r EXCEPT !.at = "count", !.code = "Internal"])
  <2>1. World' /\ faults' >= faults /\ UNCHANGED now
    <3>1. rights' \subseteq Rights
      BY <1>4 DEF Effect, Inv, World
    <3>2. active' \subseteq Performers
      BY <1>4 DEF Effect, Inv, World
    <3>3. faults' \in 0..MaxFaults /\ faults' >= faults
      BY <1>4, CallsAssumption DEF Fault, Inv, World
    <3> QED
      BY <1>1, <1>4, <3>1, <3>2, <3>3 DEF Effect, Inv, World
  <2>2. ASSUME NEW code \in {"OK", "Internal"}, MoveWithEffect(c, [r EXCEPT !.at = "count", !.code = code])
        PROVE  Inv'
    <3> DEFINE e == [r EXCEPT !.at = "count", !.code = code]
    <3>1. RecOK(e) /\ Caused(e, now, faults')
      BY <1>1, <1>2 DEF RecOK, Typed, Rightful, Teamed, Truthful, Caused, Records, Labels, Passed, Codes
    <3> QED
      BY <1>4, <2>1, <2>2, <3>1, Effected
  <2>3. ASSUME MoveWithEffect(c, [r EXCEPT !.at = "reread"]) PROVE Inv'
    <3> DEFINE e == [r EXCEPT !.at = "reread"]
    <3>1. RecOK(e) /\ Caused(e, now, faults')
      BY <1>1, <1>2 DEF RecOK, Typed, Rightful, Teamed, Truthful, Caused, Records, Labels, Passed, Codes
    <3> QED
      BY <1>4, <2>1, <2>3, <3>1, Effected
  <2> QED
    BY <1>4, <2>2, <2>3
<1> QED
  BY <1>3, <1>4 DEF Change

LEMMA CountInv == ASSUME Inv, NEW c \in Calls, Count(c) PROVE Inv'
<1> DEFINE r == [call[c] EXCEPT !.at = "answer"]
<1>1. call[c].at = "count" /\ Stay /\ faults' = faults /\ Move(c, r)
  BY DEF Count, At, Goto, Stay
<1>2. RecOK(call[c]) /\ Current(call[c]) /\ Caused(call[c], now, faults) /\ call[c] \in Records
  BY DEF Inv, CallsOK, RecOK, Typed
<1>3. RecOK(r) /\ Current(r) /\ Caused(r, now, faults')
  BY <1>1, <1>2 DEF RecOK, Typed, Rightful, Teamed, Truthful, Current, Caused, Records, Labels, Passed
<1>4. World'
  <2>1. call[c].code \in Codes
    BY <1>1, <1>2 DEF RecOK, Typed, Records
  <2>2. counted' \in [Codes -> Nat]
    BY <2>1 DEF Count, Inv, World
  <2> QED
    BY <2>2 DEF Count, Inv, World, world
<1>5. faults' >= faults
  BY <1>1, CallsAssumption DEF Inv, World
<1> QED
  BY <1>1, <1>3, <1>4, <1>5, Moved

LEMMA TickInv == ASSUME Inv, Tick PROVE Inv'
<1>1. World' /\ now \in Nat /\ now' = now + 1
  BY CallsAssumption DEF Tick, Inv, World
<1>2. ASSUME NEW c \in Calls PROVE Caused(call[c], now', faults)
  BY <1>1 DEF Inv, CallsOK, RecOK, Typed, Records, Caused
<1>3. CallsOK'
  BY <1>2 DEF Tick, Inv, CallsOK, RecOK, Current, Typed, Rightful, Teamed, Truthful
<1> QED
  BY <1>1, <1>3 DEF Tick, Inv

LEMMA NextInv == Inv /\ [Next]_vars => Inv'
<1> SUFFICES ASSUME Inv, [Next]_vars PROVE Inv'
  OBVIOUS
<1>1. CASE Quiesce \/ UNCHANGED vars
  BY <1>1 DEF Quiesce, vars, world, Inv, World, CallsOK, RecOK, Current, Typed, Rightful, Teamed, Truthful
<1> QED
  BY <1>1, AskInv, ClientInv, ArriveInv, HandleOrderInv, ReadOrderInv, HandleUserInv, AskUserInv,
     QueryInv, ChangeInv, CountInv, TickInv DEF Next, Client, Serve

-----------------------------------------------------------------------------
(* Results *)

\* What is true of every call at every step, with its copies of rights and of who
\* was active, whatever changes beside it.
THEOREM CallsCorrect == Spec => []Inv
BY InitInv, NextInv, PTL DEF Spec

\* Calls and counters hold values of their kind; a call has a code exactly at its end.
THEOREM TypeCorrect == Spec => []TypeOK
BY CallsCorrect, InvType, PTL

\* require of order-service sees the rights of a token (interceptor.go:54), a copy:
\* an order changes only for someone who had the right since he sent the message.
THEOREM RightsWereHeld == Spec => []RightsHeld
<1>1. Inv => RightsHeld
  <2> SUFFICES ASSUME Inv, NEW c \in Calls, call[c].changed, call[c].method \in DOMAIN Required
               PROVE  Required[call[c].method] \in call[c].held
    BY DEF RightsHeld
  <2> QED
    BY DEF Inv, CallsOK, RecOK, Typed, Rightful
<1> QED
  BY <1>1, CallsCorrect, PTL

\* IsActivePerformer is asked for one performer after the other (service.go:31):
\* each was active at some time since the call came.
THEOREM TeamWasActive == Spec => []TeamChecked
<1>1. Inv => TeamChecked
  BY DEF Inv, CallsOK, RecOK, Teamed, TeamChecked
<1> QED
  BY <1>1, CallsCorrect, PTL

\* err and grpcErr: a code that says "refused" is never given to a change that was
\* done, and OK never to one that was not.
THEOREM CodesAreTrue == Spec => []CodesTell
<1>1. Inv => CodesTell
  BY DEF Inv, CallsOK, RecOK, Truthful, CodesTell
<1> QED
  BY <1>1, CallsCorrect, PTL

\* users.go:17: "no" for a performer who was active all the time means an expired
\* token or a failure.
THEOREM InvalidCaused == Spec => []InvalidHasACause
<1>1. Inv => InvalidHasACause
  <2> SUFFICES ASSUME Inv, NEW c \in Calls, call[c].code = "InvalidArgument", call[c].valid,
                      call[c].team \subseteq call[c].steady
               PROVE  Expired(c) \/ faults > 0
    BY DEF InvalidHasACause
  <2> QED
    BY DEF Inv, CallsOK, Caused, Expired
<1> QED
  BY <1>1, CallsCorrect, PTL

-----------------------------------------------------------------------------
(* The counter of calls *)

Serving == {c \in Calls : InServer(c)}

LEMMA ServingFinite == /\ IsFiniteSet(Serving) /\ Cardinality(Serving) \in Nat
                       /\ IsFiniteSet(Serving') /\ Cardinality(Serving') \in Nat
<1>1. Serving \subseteq Calls /\ Serving' \subseteq Calls
  BY DEF Serving
<1> QED
  BY <1>1, CallsAssumption, FS_Subset, FS_CardinalityType

LEMMA CountedTyped == counted \in [Codes -> Nat] => InAll(counted) \in Nat
BY DEF InAll, Codes

\* Counting one call adds one, whatever its code.
LEMMA OneCounted ==
  ASSUME counted \in [Codes -> Nat], NEW k \in Codes, counted' = [counted EXCEPT ![k] = @ + 1]
  PROVE  InAll(counted') = InAll(counted) + 1
<1>1. \A j \in Codes : counted'[j] = IF j = k THEN counted[j] + 1 ELSE counted[j]
  OBVIOUS
<1>2. \A j \in Codes : counted[j] \in Nat
  OBVIOUS
<1> QED
  BY <1>1, <1>2 DEF InAll, Codes

\* A step that moves c to label and leaves the other calls where they are.
Reaches(c, label) ==
  call'[c].at = label /\ \A d \in Calls \ {c} : call'[d].at = call[d].at

LEMMA ReachesBy ==
  ASSUME Inv, NEW c \in Calls, NEW r, Move(c, r)
  PROVE  Reaches(c, r.at)
BY DEF Move, Inv, Reaches

LEMMA EndReaches == ASSUME Inv, NEW c \in Calls, NEW code, End(c, code) PROVE Reaches(c, "count")
<1>1. call[c] \in Records
  BY DEF Inv, CallsOK, RecOK, Typed
<1>2. [call[c] EXCEPT !.at = "count", !.code = code].at = "count"
  BY <1>1 DEF Records
<1> QED
  BY <1>2, ReachesBy DEF End, Finish

LEMMA GotoReaches == ASSUME Inv, NEW c \in Calls, NEW label, Goto(c, label) PROVE Reaches(c, label)
<1>1. call[c] \in Records
  BY DEF Inv, CallsOK, RecOK, Typed
<1>2. [call[c] EXCEPT !.at = label].at = label
  BY <1>1 DEF Records
<1> QED
  BY <1>2, ReachesBy DEF Goto

\* The method keeps its call in the server until it is counted.
LEMMA MethodKeepsCall ==
  ASSUME Inv, NEW c \in Calls,
         \/ HandleOrder(c) \/ ReadOrder(c) \/ HandleUser(c) \/ AskUser(c)
         \/ Query(c) \/ Change(c) \/ Reread(c)
  PROVE  /\ InServer(c) /\ UNCHANGED <<counted, arrived>>
         /\ \E label \in {"read", "name", "store", "reread", "count"} : Reaches(c, label)
<1>1. call[c] \in Records
  BY DEF Inv, CallsOK, RecOK, Typed
<1>2. InServer(c) /\ UNCHANGED <<counted, arrived>>
  BY DEF HandleOrder, ReadOrder, HandleUser, AskUser, Query, Change, Reread, At, InServer, Rest
<1>3. CASE HandleOrder(c) \/ ReadOrder(c)
  <2>1. \/ \E code : End(c, code)
        \/ \E label \in {"read", "store"} : Goto(c, label)
        \/ Move(c, [call[c] EXCEPT !.at = "name", !.left = call[c].team])
    BY <1>3 DEF HandleOrder, ReadOrder, Look
  <2>2. [call[c] EXCEPT !.at = "name", !.left = call[c].team].at = "name"
    BY <1>1 DEF Records
  <2> QED
    BY <1>2, <2>1, <2>2, EndReaches, GotoReaches, ReachesBy
<1>4. CASE HandleUser(c)
  BY <1>2, <1>4, EndReaches, GotoReaches DEF HandleUser
<1>5. CASE AskUser(c)
  <2>1. \/ \E code : End(c, code)
        \/ Goto(c, "store")
        \/ \E p \in call[c].left : Move(c, [call[c] EXCEPT !.left = @ \ {p}])
    BY <1>5 DEF AskUser
  <2>2. \A p : [call[c] EXCEPT !.left = @ \ {p}].at = "name"
    BY <1>1, <1>5 DEF Records, AskUser, At
  <2> QED
    BY <1>2, <2>1, <2>2, EndReaches, GotoReaches, ReachesBy
<1>6. CASE Query(c) \/ Reread(c)
  BY <1>2, <1>6, EndReaches DEF Query, Reread
<1>7. CASE Change(c)
  <2>1. CASE \E code : End(c, code)
    BY <1>2, <2>1, EndReaches
  <2>2. ASSUME NEW r, MoveWithEffect(c, r), r \in Records,
               r.at \in {"reread", "count"}
        PROVE  Reaches(c, r.at)
    <3>1. \A d \in Calls : call'[d] = LET e == IF d = c THEN r ELSE call[d]
                                      IN [e EXCEPT !.held = @ \union rights', !.seen = @ \union active',
                                                   !.steady = @ \intersect active']
      BY <2>2 DEF MoveWithEffect
    <3>2. \A e \in Records : [e EXCEPT !.held = @ \union rights', !.seen = @ \union active',
                                          !.steady = @ \intersect active'].at = e.at
      BY DEF Records
    <3>3. \A d \in Calls : call[d] \in Records
      BY DEF Inv, CallsOK, RecOK, Typed
    <3> QED
      BY <2>2, <3>1, <3>2, <3>3 DEF Reaches
  <2> DEFINE r == [call[c] EXCEPT !.changed = TRUE]
             done == [r EXCEPT !.at = "count", !.code = "OK"]
             reply == [r EXCEPT !.at = "reread"]
             failed == [r EXCEPT !.at = "count", !.code = "Internal"]
  <2>3. \/ \E code : End(c, code)
        \/ \E s \in {done, reply, failed} : MoveWithEffect(c, s)
    BY <1>7 DEF Change
  <2>4. r \in Records
    BY <1>1 DEF Records
  <2> HIDE DEF r
  <2>5. /\ done \in Records /\ reply \in Records /\ failed \in Records
        /\ done.at = "count" /\ reply.at = "reread" /\ failed.at = "count"
    BY <2>4 DEF Records, Labels, Codes
  <2> HIDE DEF done, reply, failed
  <2> QED
    BY <1>2, <2>1, <2>2, <2>3, <2>5
<1> QED
  BY <1>3, <1>4, <1>5, <1>6, <1>7

\* The calls in the server stay when no call enters or leaves it.
LEMMA ServingSame ==
  ASSUME AllCounted, UNCHANGED <<counted, arrived>>,
         \A d \in Calls : InServer(d)' <=> InServer(d)
  PROVE  AllCounted'
<1>1. Serving' = Serving
  BY DEF Serving
<1> QED
  BY <1>1 DEF AllCounted, Serving

LEMMA AllCountedNext == Inv /\ AllCounted /\ [Next]_vars => AllCounted'
<1> SUFFICES ASSUME Inv, AllCounted, [Next]_vars PROVE AllCounted'
  OBVIOUS
<1>1. /\ arrived = InAll(counted) + Cardinality(Serving) /\ InAll(counted) \in Nat /\ arrived \in Nat
      /\ counted \in [Codes -> Nat]
  BY CountedTyped DEF AllCounted, Serving, Inv, World
<1>2. ASSUME NEW c \in Calls, NEW label, Reaches(c, label), UNCHANGED <<counted, arrived>>,
             InServer(c) <=> label \in {"handle", "read", "name", "store", "reread", "count"}
      PROVE  AllCounted'
  BY <1>2, ServingSame DEF Reaches, InServer
<1>3. ASSUME NEW c \in Calls, Ask(c) \/ Lose(c) \/ Client(c) PROVE AllCounted'
  <2>1. call[c] \in Records
    BY DEF Inv, CallsOK, RecOK, Typed
  <2>2. UNCHANGED <<counted, arrived>> /\ ~InServer(c)
    BY <1>3 DEF Ask, Lose, Client, Lookup, Send, Receive, Rest, At, InServer
  <2>3. PICK r : Move(c, r) /\ r.at \in {"lookup", "send", "sent", "answer", "idle"}
    <3>1. CASE Ask(c)
      <4>1. PICK m \in Asked, v \in BOOLEAN, t \in SUBSET Performers :
              Move(c, [NoCall EXCEPT !.at = "lookup", !.method = m, !.valid = v, !.team = t,
                                     !.held = rights])
        BY <3>1 DEF Ask
      <4>2. [NoCall EXCEPT !.at = "lookup", !.method = m, !.valid = v, !.team = t,
                           !.held = rights].at = "lookup"
        BY DEF NoCall
      <4> QED
        BY <4>1, <4>2
    <3>2. CASE Receive(c)
      <4>1. NoCall.at = "idle"
        BY DEF NoCall
      <4> QED
        BY <3>2, <4>1 DEF Receive
    <3>3. CASE Lookup(c)
      <4>1. [call[c] EXCEPT !.at = "send", !.rights = rights].at = "send"
        BY <2>1 DEF Records
      <4> QED
        BY <3>3, <4>1 DEF Lookup
    <3>4. CASE Send(c)
      <4>1. [call[c] EXCEPT !.at = "sent", !.expires = now + TTL].at = "sent"
        BY <2>1 DEF Records
      <4> QED
        BY <3>4, <4>1 DEF Send
    <3>5. CASE Lose(c)
      <4>1. [call[c] EXCEPT !.at = "answer", !.code = "Unavailable"].at = "answer"
        BY <2>1 DEF Records
      <4> QED
        BY <3>5, <4>1 DEF Lose
    <3> QED
      BY <1>3, <3>1, <3>2, <3>3, <3>4, <3>5 DEF Client
  <2> QED
    BY <1>2, <2>2, <2>3, ReachesBy
<1>4. ASSUME NEW c \in Calls, Arrive(c) PROVE AllCounted'
  <2> DEFINE r == [call[c] EXCEPT !.seen = active, !.steady = active]
             in == [r EXCEPT !.at = "handle"]
             out == [r EXCEPT !.at = "count", !.code = "Unauthenticated"]
  <2>1. call[c] \in Records /\ active \in SUBSET Performers
    BY DEF Inv, CallsOK, RecOK, Typed, World
  <2>2. r \in Records
    BY <2>1 DEF Records
  <2>3. Move(c, in) \/ Move(c, out)
    BY <1>4 DEF Arrive, Finish
  <2> HIDE DEF r
  <2>4. in.at = "handle" /\ out.at = "count"
    BY <2>2 DEF Records
  <2>5. ~InServer(c) /\ arrived' = arrived + 1 /\ UNCHANGED counted
    BY <1>4 DEF Arrive, At, InServer
  <2>6. \E label \in {"handle", "count"} : Reaches(c, label)
    BY <2>3, <2>4, ReachesBy
  <2>7. Serving' = Serving \union {c} /\ c \notin Serving
    BY <2>5, <2>6 DEF Serving, Reaches, InServer
  <2>8. Cardinality(Serving') = Cardinality(Serving) + 1
    BY <2>7, ServingFinite, FS_AddElement
  <2> QED
    BY <1>1, <2>5, <2>8, ServingFinite DEF AllCounted, Serving
<1>5. ASSUME NEW c \in Calls, Count(c) PROVE AllCounted'
  <2>1. Reaches(c, "answer") /\ InServer(c) /\ arrived' = arrived
    BY <1>5, GotoReaches DEF Count, At, InServer
  <2>2. call[c].code \in Codes /\ counted' = [counted EXCEPT ![call[c].code] = @ + 1]
    BY <1>5 DEF Count, At, Inv, CallsOK, RecOK, Typed, Records
  <2>3. InAll(counted') = InAll(counted) + 1
    BY <1>1, <2>2, OneCounted
  <2>4. Serving' = Serving \ {c} /\ c \in Serving
    BY <2>1 DEF Serving, Reaches, InServer
  <2>5. Cardinality(Serving') = Cardinality(Serving) - 1
    BY <2>4, ServingFinite, FS_RemoveElement
  <2> QED
    BY <1>1, <2>1, <2>3, <2>5, ServingFinite DEF AllCounted, Serving
<1>6. ASSUME NEW c \in Calls,
             \/ HandleOrder(c) \/ ReadOrder(c) \/ HandleUser(c) \/ AskUser(c)
             \/ Query(c) \/ Change(c) \/ Reread(c)
      PROVE  AllCounted'
  BY <1>2, <1>6, MethodKeepsCall
<1>7. CASE Tick \/ Quiesce \/ UNCHANGED vars
  BY <1>7, ServingSame DEF Tick, Quiesce, vars, InServer
<1> QED
  BY <1>3, <1>4, <1>5, <1>6, <1>7 DEF Next, Serve

\* Every call that reaches a server is counted, and counted once, those included that
\* the authentication interceptor refuses (UnaryMetricsInterceptor is the outer one).
THEOREM CallsCounted == Spec => []AllCounted
<1>1. ASSUME Init PROVE AllCounted
  <2>1. Serving = {}
    BY <1>1 DEF Init, Serving, InServer, NoCall
  <2>2. InAll(counted) = 0 /\ arrived = 0
    BY <1>1 DEF Init, InAll, Codes
  <2> QED
    BY <2>1, <2>2, FS_EmptySet DEF AllCounted, Serving
<1> QED
  BY <1>1, AllCountedNext, CallsCorrect, PTL DEF Spec
=============================================================================
