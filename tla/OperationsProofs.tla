--------------------------- MODULE OperationsProofs ---------------------------
(***************************************************************************)
(* The theorems about the sessions, the spending, the Job Descriptions and *)
(* the answers, for any requests and bounds.  The operations are the       *)
(* parts side by side, one of which is at work, so each part is proved for *)
(* itself: the steps of another leave its variables alone.                 *)
(***************************************************************************)
EXTENDS MCOperations, FiniteSetTheorems, WellFoundedInduction, SequenceTheorems, TLAPS

-----------------------------------------------------------------------------
(* Sessions and lockouts (Sessions)                                        *)
(*                                                                         *)
(* What was signed out stays out, because a request that was let in before *)
(* writes only the times of its session, never revoked, and a lockout      *)
(* counts every refusal, because each comparison of a password writes the  *)
(* row of its address that it has locked.                                  *)

SessionShape == [seen : Nat, idle : Nat, absolute : Nat, revoked : BOOLEAN,
                 knew : Nat, late : BOOLEAN]

ComparedShape(ids) ==
  [at : {"compared"}, address : Addresses, right : BOOLEAN, held : BOOLEAN,
   reset : BOOLEAN, knew : Nat, remember : BOOLEAN, previous : SUBSET ids]
InsertingShape == [at : {"inserting"}, address : Addresses]
ServingShape(ids) ==
  [at : {"serving"}, session : ids, touches : BOOLEAN, touch : [seen : Nat, idle : Nat],
   knew : Nat]
RevokingShape(ids) ==
  [at : {"revoking"}, session : ids, touches : BOOLEAN, touch : [seen : Nat, idle : Nat],
   knew : Nat, changes : BOOLEAN, ids : SUBSET ids]
RequestShape(ids) ==
  {Access!Idle} \cup ComparedShape(ids) \cup InsertingShape \cup ServingShape(ids)
  \cup RevokingShape(ids)

AccessShape ==
  /\ now \in Nat /\ password \in Nat
  /\ session \in Seq(SessionShape)
  /\ attempt \in [Addresses -> [count : Nat, until : Nat]]
  /\ refused \in [Addresses -> Nat]
  /\ ended \subseteq DOMAIN session
  /\ DOMAIN request = Threads
  /\ \A p \in Threads : request[p] \in RequestShape(DOMAIN session)

\* Whoever compares a password without the row of its address
Unheld(a) ==
  {p \in Threads : request[p].at = "compared" /\ request[p].address = a /\ ~request[p].held}

\* Refused passwords and those that may yet be
Counting ==
  \A a \in Addresses :
    /\ attempt[a].count = refused[a]
    /\ attempt[a].count + Cardinality(Unheld(a)) < MaxFailed + Cardinality(Threads)
    /\ attempt[a].count >= MaxFailed => attempt[a].until > 0
    /\ \A p, q \in Threads :
         Access!Holds(p, a) /\ Access!Holds(q, a) => p = q
    /\ \A p \in Threads :
         Access!Holds(p, a) => /\ attempt[a].count > 0
                               /\ ~request[p].reset => attempt[a].until = 0

Ending ==
  /\ \A s \in ended : session[s].revoked
  /\ \A s \in DOMAIN session :
       /\ session[s].idle <= session[s].absolute
       /\ session[s].revoked \/ session[s].knew = password \/ session[s].late
  /\ \A p \in Threads : request[p].at \in {"serving", "revoking"} =>
       request[p].touch.idle <= session[request[p].session].absolute
  /\ \A p \in Threads : request[p].at = "revoking" /\ request[p].changes =>
       \A s \in DOMAIN session :
         session[s].revoked \/ session[s].late \/ s \in request[p].ids

AccessInv == AccessShape /\ Counting /\ Ending

LEMMA SameCardinality ==
  ASSUME NEW S
  PROVE  Access!Cardinality(S) = Cardinality(S)
BY DEF Access!Cardinality, Cardinality

LEMMA EarlierOfTwo ==
  ASSUME NEW a \in Nat, NEW b \in Nat
  PROVE  Access!Earlier(a, b) \in Nat /\ Access!Earlier(a, b) <= a /\ Access!Earlier(a, b) <= b
<1>1. \E x \in {a, b} : \A y \in {a, b} : x <= y
  <2>1. CASE a <= b
    BY <2>1
  <2>2. CASE b <= a
    BY <2>2
  <2> QED
    BY <2>1, <2>2
<1>2. Access!Min({a, b}) \in {a, b} /\ \A y \in {a, b} : Access!Min({a, b}) <= y
  BY <1>1 DEF Access!Min
<1> QED
  BY <1>2 DEF Access!Earlier

LEMMA RequestsGrow ==
  ASSUME NEW ids, NEW more, ids \subseteq more
  PROVE  RequestShape(ids) \subseteq RequestShape(more)
BY DEF RequestShape, ComparedShape, ServingShape, RevokingShape

LEMMA SessionIndices ==
  ASSUME AccessInv
  PROVE  /\ Len(session) \in Nat /\ DOMAIN session = 1 .. Len(session)
         /\ \A s \in DOMAIN session : session[s] \in SessionShape
BY DEF AccessInv, AccessShape

\* What a request is, by where it is
LEMMA RequestIs ==
  ASSUME AccessInv, NEW p \in Threads
  PROVE  /\ request[p].at \in {"idle", "compared", "inserting", "serving", "revoking"}
         /\ request[p].at = "compared" => request[p] \in ComparedShape(DOMAIN session)
         /\ request[p].at = "inserting" => request[p] \in InsertingShape
         /\ request[p].at = "serving" => request[p] \in ServingShape(DOMAIN session)
         /\ request[p].at = "revoking" => request[p] \in RevokingShape(DOMAIN session)
<1>1. request[p] \in RequestShape(DOMAIN session)
  BY DEF AccessInv, AccessShape
<1> DEFINE r == request[p]
<1> HIDE DEF r
<1>2. r \in RequestShape(DOMAIN session)
  BY <1>1 DEF r
<1>3. /\ r.at \in {"idle", "compared", "inserting", "serving", "revoking"}
      /\ r.at = "compared" => r \in ComparedShape(DOMAIN session)
      /\ r.at = "inserting" => r \in InsertingShape
      /\ r.at = "serving" => r \in ServingShape(DOMAIN session)
      /\ r.at = "revoking" => r \in RevokingShape(DOMAIN session)
  BY <1>2 DEF RequestShape, ComparedShape, InsertingShape, ServingShape, RevokingShape, Access!Idle
<1> QED
  BY <1>3 DEF r

\* There are no more of them than requests
LEMMA UnheldAreFew ==
  ASSUME NEW T, NEW S, IsFiniteSet(T), S \subseteq T
  PROVE  /\ IsFiniteSet(S) /\ Cardinality(S) \in Nat /\ Cardinality(T) \in Nat
         /\ Cardinality(S) <= Cardinality(T)
         /\ \A x \in T : x \notin S => Cardinality(S) < Cardinality(T)
<1>1. IsFiniteSet(S) /\ Cardinality(S) <= Cardinality(T) /\ (Cardinality(S) = Cardinality(T) => S = T)
  BY FS_Subset
<1>2. Cardinality(S) \in Nat /\ Cardinality(T) \in Nat
  BY <1>1, FS_CardinalityType
<1> QED
  BY <1>1, <1>2

\* One request that goes on to r
LEMMA CountingMoves ==
  ASSUME AccessInv, NEW p \in Threads, NEW r,
         request' = [request EXCEPT ![p] = r], UNCHANGED <<attempt, refused>>,
         r.at = "compared" => 
           /\ r.address \in Addresses
           /\ ~r.held => attempt[r.address].count = 0
           /\ r.held => /\ attempt[r.address].count > 0
                        /\ ~r.reset => attempt[r.address].until = 0
                        /\ \A q \in Threads \ {p} : ~Access!Holds(q, r.address)
  PROVE  Counting'
<1> SUFFICES ASSUME NEW a \in Addresses
             PROVE  /\ attempt'[a].count = refused'[a]
                    /\ attempt'[a].count + Cardinality(Unheld(a)') < MaxFailed + Cardinality(Threads)
                    /\ attempt'[a].count >= MaxFailed => attempt'[a].until > 0
                    /\ \A q1, q2 \in Threads :
                         Access!Holds(q1, a)' /\ Access!Holds(q2, a)' => q1 = q2
                    /\ \A q \in Threads :
                         Access!Holds(q, a)' => /\ attempt'[a].count > 0
                                                /\ ~request'[q].reset => attempt'[a].until = 0
  BY DEF Counting
<1>1. request'[p] = r /\ \A q \in Threads \ {p} : request'[q] = request[q]
  BY DEF AccessInv, AccessShape
<1>2. \A q \in Threads \ {p} : Access!Holds(q, a)' <=> Access!Holds(q, a)
  BY <1>1 DEF Access!Holds, Access!At
<1>3. Access!Holds(p, a)' <=> r.at = "compared" /\ r.address = a /\ r.held
  BY <1>1 DEF Access!Holds, Access!At
<1>4. attempt[a].count \in Nat /\ Cardinality(Threads) \in Nat /\ MaxFailed \in Nat \ {0}
  BY AccessAssumption, FS_CardinalityType DEF AccessInv, AccessShape
<1>5. attempt[a].count + Cardinality(Unheld(a)') < MaxFailed + Cardinality(Threads)
  <2>1. CASE r.at = "compared" /\ r.address = a /\ ~r.held
    <3>1. attempt[a].count = 0 /\ Unheld(a)' \subseteq Threads
      BY <2>1 DEF Unheld
    <3>2. Cardinality(Unheld(a)') <= Cardinality(Threads) /\ Cardinality(Unheld(a)') \in Nat
      BY <3>1, UnheldAreFew, AccessAssumption
    <3> QED
      BY <1>4, <3>1, <3>2
  <2>2. CASE ~(r.at = "compared" /\ r.address = a /\ ~r.held)
    <3>1. Unheld(a)' \subseteq Unheld(a) /\ Unheld(a) \subseteq Threads
      BY <1>1, <2>2 DEF Unheld
    <3>2. IsFiniteSet(Unheld(a))
      BY <3>1, UnheldAreFew, AccessAssumption
    <3>3. /\ Cardinality(Unheld(a)') <= Cardinality(Unheld(a))
          /\ Cardinality(Unheld(a)') \in Nat /\ Cardinality(Unheld(a)) \in Nat
      BY <3>1, <3>2, UnheldAreFew
    <3>4. attempt[a].count + Cardinality(Unheld(a)) < MaxFailed + Cardinality(Threads)
      BY DEF AccessInv, Counting
    <3> QED
      BY <1>4, <3>3, <3>4
  <2> QED
    BY <2>1, <2>2
<1>6. attempt[a].count = refused[a] /\ (attempt[a].count >= MaxFailed => attempt[a].until > 0)
  BY DEF AccessInv, Counting
<1>7. \A q \in Threads :
        Access!Holds(q, a)' => /\ attempt[a].count > 0
                               /\ ~request'[q].reset => attempt[a].until = 0
  BY <1>1, <1>2, <1>3 DEF AccessInv, Counting
<1>8. \A q1, q2 \in Threads : Access!Holds(q1, a)' /\ Access!Holds(q2, a)' => q1 = q2
  <2>1. \A q1, q2 \in Threads \ {p} : Access!Holds(q1, a) /\ Access!Holds(q2, a) => q1 = q2
    BY DEF AccessInv, Counting
  <2> QED
    BY <1>2, <1>3, <2>1
<1> QED
  BY <1>5, <1>6, <1>7, <1>8

LEMMA IdleCounts ==
  ASSUME AccessInv, NEW p \in Threads, request' = [request EXCEPT ![p] = Access!Idle],
         UNCHANGED <<attempt, refused>>
  PROVE  Counting'
BY CountingMoves DEF Access!Idle

LEMMA StillCounts ==
  ASSUME AccessInv, UNCHANGED <<request, attempt, refused>>
  PROVE  Counting'
BY DEF AccessInv, Counting, Unheld, Access!Holds, Access!At

\* A request goes on, and no session changes
LEMMA RequestMoves ==
  ASSUME AccessInv, NEW p \in Threads, NEW r \in RequestShape(DOMAIN session),
         request' = [request EXCEPT ![p] = r],
         UNCHANGED <<now, password, session, attempt, refused, ended>>,
         r.at = "compared" =>
           /\ ~r.held => attempt[r.address].count = 0
           /\ r.held => /\ attempt[r.address].count > 0
                        /\ ~r.reset => attempt[r.address].until = 0
                        /\ \A q \in Threads \ {p} : ~Access!Holds(q, r.address),
         r.at \in {"serving", "revoking"} => r.touch.idle <= session[r.session].absolute,
         r.at = "revoking" /\ r.changes =>
           \A s \in DOMAIN session : session[s].revoked \/ s \in r.ids
  PROVE  AccessInv'
<1>1. request'[p] = r /\ \A q \in Threads \ {p} : request'[q] = request[q]
  BY DEF AccessInv, AccessShape
<1>2. AccessShape'
  BY <1>1 DEF AccessInv, AccessShape
<1>3. Counting'
  <2>1. r.at = "compared" => r.address \in Addresses
    BY DEF RequestShape, ComparedShape, InsertingShape, ServingShape, RevokingShape, Access!Idle
  <2> QED
    BY <2>1, CountingMoves
<1>4. Ending'
  BY <1>1 DEF AccessInv, Ending
<1> QED
  BY <1>2, <1>3, <1>4 DEF AccessInv

\* The rows of the sessions change, and a request ends or none does
Follows(rows) ==
  /\ DOMAIN session \subseteq DOMAIN rows
  /\ \A s \in DOMAIN session :
       /\ rows[s].idle <= rows[s].absolute /\ rows[s].absolute = session[s].absolute
       /\ session[s].revoked => rows[s].revoked
       /\ rows[s].knew = session[s].knew /\ rows[s].late = session[s].late

LEMMA SessionsMove ==
  ASSUME AccessInv, now' = now, password' \in Nat, session' \in Seq(SessionShape),
         ended' \subseteq DOMAIN session',
         Follows(session'), \/ request' = request
                            \/ \E p \in Threads : request' = [request EXCEPT ![p] = Access!Idle],
         \A s \in ended' : session'[s].revoked,
         \A s \in DOMAIN session' :
           session'[s].revoked \/ session'[s].knew = password' \/ session'[s].late,
         \A s \in DOMAIN session' \ DOMAIN session :
           /\ session'[s].idle <= session'[s].absolute
           /\ \A q \in Threads : 
                request'[q].at = "revoking" /\ request'[q].changes => session'[s].late,
         attempt' \in [Addresses -> [count : Nat, until : Nat]], refused' \in [Addresses -> Nat],
         Counting'
  PROVE  AccessInv'
<1>1. /\ DOMAIN request' = Threads
      /\ \A q \in Threads : request'[q] = request[q] \/ request'[q] = Access!Idle
  BY DEF AccessInv, AccessShape
<1>2. \A q \in Threads : request'[q] \in RequestShape(DOMAIN session')
  <2>1. RequestShape(DOMAIN session) \subseteq RequestShape(DOMAIN session')
    BY RequestsGrow DEF Follows
  <2>2. Access!Idle \in RequestShape(DOMAIN session)
    BY DEF RequestShape
  <2> QED
    BY <1>1, <2>1, <2>2 DEF AccessInv, AccessShape
<1>3. AccessShape'
  BY <1>1, <1>2 DEF AccessInv, AccessShape
<1>4. \A s \in DOMAIN session' : session'[s].idle <= session'[s].absolute
  BY DEF Follows
<1>5. \A q \in Threads : request'[q].at \in {"serving", "revoking"} =>
        request'[q].touch.idle <= session'[request'[q].session].absolute
  <2> SUFFICES ASSUME NEW q \in Threads, request'[q].at \in {"serving", "revoking"}
               PROVE  request'[q].touch.idle <= session'[request'[q].session].absolute
    OBVIOUS
  <2>1. request'[q] = request[q]
    BY <1>1 DEF Access!Idle
  <2>2. request[q].session \in DOMAIN session
    BY <2>1, RequestIs DEF ServingShape, RevokingShape
  <2> QED
    BY <2>1, <2>2 DEF AccessInv, Ending, Follows
<1>6. \A q \in Threads : request'[q].at = "revoking" /\ request'[q].changes =>
        \A s \in DOMAIN session' :
          session'[s].revoked \/ session'[s].late \/ s \in request'[q].ids
  <2> SUFFICES ASSUME NEW q \in Threads, request'[q].at = "revoking", request'[q].changes,
                      NEW s \in DOMAIN session
               PROVE  session'[s].revoked \/ session'[s].late \/ s \in request'[q].ids
    OBVIOUS
  <2>1. request'[q] = request[q]
    BY <1>1 DEF Access!Idle
  <2> QED
    BY <2>1 DEF AccessInv, Ending, Follows
<1>7. Ending'
  BY <1>4, <1>5, <1>6 DEF Ending
<1> QED
  BY <1>3, <1>7 DEF AccessInv

\* revoke_token and the UPDATE of the request's own session
LEMMA RevokedRows ==
  ASSUME AccessInv, NEW ids
  PROVE  /\ Access!Revoked(ids) \in Seq(SessionShape) /\ Follows(Access!Revoked(ids))
         /\ DOMAIN Access!Revoked(ids) = DOMAIN session
         /\ Len(Access!Revoked(ids)) = Len(session)
         /\ \A s \in DOMAIN session : s \in ids => Access!Revoked(ids)[s].revoked
<1> DEFINE rows == Access!Revoked(ids)
<1>1. /\ rows = [s \in 1 .. Len(session) |-> [session[s] EXCEPT !.revoked = @ \/ s \in ids]]
      /\ Len(session) \in Nat /\ DOMAIN session = 1 .. Len(session)
  BY SessionIndices DEF Access!Revoked
<1>2. ASSUME NEW s \in DOMAIN session
      PROVE  /\ rows[s] \in SessionShape
             /\ rows[s].idle = session[s].idle /\ rows[s].absolute = session[s].absolute
             /\ rows[s].revoked = (session[s].revoked \/ s \in ids)
             /\ rows[s].knew = session[s].knew /\ rows[s].late = session[s].late
  <2>1. session[s] \in SessionShape /\ rows[s] = [session[s] EXCEPT !.revoked = @ \/ s \in ids]
    BY <1>1, SessionIndices
  <2> HIDE DEF rows
  <2> QED
    BY <2>1 DEF SessionShape
<1>3. rows \in Seq(SessionShape) /\ DOMAIN rows = DOMAIN session /\ Len(rows) = Len(session)
  <2>1. rows \in [1 .. Len(session) -> SessionShape]
    BY <1>1, <1>2
  <2> HIDE DEF rows
  <2> QED
    BY <1>1, <2>1
<1> HIDE DEF rows
<1>4. Follows(rows)
  BY <1>2, <1>3 DEF Follows, AccessInv, Ending
<1> QED
  BY <1>2, <1>3, <1>4 DEF rows

LEMMA WrittenRows ==
  ASSUME AccessInv, NEW p \in Threads, request[p].at \in {"serving", "revoking"},
         NEW rows \in Seq(SessionShape), Follows(rows), DOMAIN rows = DOMAIN session
  PROVE  LET written == Access!Written(p, rows)
         IN  /\ written \in Seq(SessionShape) /\ Follows(written)
             /\ DOMAIN written = DOMAIN session /\ Len(written) = Len(rows)
             /\ \A s \in DOMAIN session : written[s].revoked = rows[s].revoked
<1> DEFINE t == request[p].touch
           s0 == request[p].session
           touched == [rows[s0] EXCEPT !.seen = t.seen, !.idle = t.idle]
<1>1. s0 \in DOMAIN session /\ t \in [seen : Nat, idle : Nat] /\ t.idle <= session[s0].absolute
  BY RequestIs DEF AccessInv, Ending, ServingShape, RevokingShape
<1>2. CASE ~request[p].touches
  BY <1>2 DEF Access!Written
<1>3. CASE request[p].touches
  <2>1. Access!Written(p, rows) = [rows EXCEPT ![s0] = touched]
    BY <1>3 DEF Access!Written
  <2>2. rows[s0] \in SessionShape
    BY <1>1
  <2>3. /\ touched \in SessionShape /\ touched.idle = t.idle /\ touched.absolute = rows[s0].absolute
        /\ touched.revoked = rows[s0].revoked /\ touched.knew = rows[s0].knew /\ touched.late = rows[s0].late
    BY <1>1, <2>2 DEF SessionShape
  <2> HIDE DEF touched, t, s0
  <2>4. PICK w : w = [rows EXCEPT ![s0] = touched]
    OBVIOUS
  <2>5. w \in Seq(SessionShape) /\ DOMAIN w = DOMAIN rows /\ Len(w) = Len(rows)
        /\ w[s0] = touched /\ \A s \in DOMAIN rows \ {s0} : w[s] = rows[s]
    BY <1>1, <2>3, <2>4
  <2>6. Follows(w) /\ \A s \in DOMAIN session : w[s].revoked = rows[s].revoked
    BY <1>1, <2>3, <2>5, SMTT(60) DEF Follows
  <2> QED
    BY <2>1, <2>4, <2>5, <2>6
<1> QED
  BY <1>2, <1>3

LEMMA AccessBegins ==
  ASSUME Access!Init
  PROVE  AccessInv
<1> USE DEF Access!Init
<1>1. AccessShape
  BY DEF AccessShape, RequestShape, Access!NoRow
<1>2. Counting
  <2>1. \A a \in Addresses : Unheld(a) = {}
    BY DEF Unheld, Access!Idle
  <2>2. \A a \in Addresses : Cardinality(Unheld(a)) = 0
    BY <2>1, FS_EmptySet
  <2>3. Cardinality(Threads) \in Nat
    BY AccessAssumption, FS_CardinalityType
  <2>4. \A p \in Threads, a \in Addresses : ~Access!Holds(p, a)
    BY DEF Access!Holds, Access!At, Access!Idle
  <2> QED
    BY <2>2, <2>3, <2>4, AccessAssumption DEF Counting, Access!NoRow
<1>3. Ending
  BY DEF Ending, Access!Idle
<1> QED
  BY <1>1, <1>2, <1>3 DEF AccessInv

LEMMA ClockKeepsAccess ==
  ASSUME AccessInv, Access!Tick
  PROVE  AccessInv'
<1> USE DEF Access!Tick
<1>1. AccessShape'
  BY DEF AccessInv, AccessShape
<1>2. Counting'
  BY StillCounts
<1>3. Ending'
  BY DEF AccessInv, Ending
<1> QED
  BY <1>1, <1>2, <1>3 DEF AccessInv

LEMMA DyingKeepsAccess ==
  ASSUME AccessInv, NEW p \in Threads, Access!Dies(p)
  PROVE  AccessInv'
<1>1. Access!Idle \in RequestShape(DOMAIN session) /\ Access!Idle.at = "idle"
  BY DEF RequestShape, Access!Idle
<1> QED
  BY <1>1, RequestMoves DEF Access!Dies, Access!Goto

LEMMA CheckingKeepsAccess ==
  ASSUME AccessInv, NEW p \in Threads, NEW a \in Addresses, NEW right \in BOOLEAN,
         NEW remember \in BOOLEAN, NEW previous \in SUBSET DOMAIN session,
         Access!Check(p, a, right, remember, previous)
  PROVE  AccessInv'
<1> DEFINE r == [at |-> "compared", address |-> a, right |-> right, held |-> Access!Exists(a),
                 reset |-> attempt[a].until > 0, knew |-> password,
                 remember |-> remember, previous |-> previous]
<1>1. r \in ComparedShape(DOMAIN session)
  BY DEF ComparedShape, AccessInv, AccessShape, Access!Exists
<1>2. r \in RequestShape(DOMAIN session)
  BY <1>1 DEF RequestShape
<1>3. request' = [request EXCEPT ![p] = r]
      /\ UNCHANGED <<now, password, session, attempt, refused, ended>>
  BY DEF Access!Check, Access!Goto
<1>4. attempt[a].count \in Nat /\ attempt[a].until \in Nat
  BY DEF AccessInv, AccessShape
<1>5. /\ ~r.held => attempt[r.address].count = 0
      /\ r.held => /\ attempt[r.address].count > 0
                   /\ ~r.reset => attempt[r.address].until = 0
                   /\ \A q \in Threads \ {p} : ~Access!Holds(q, r.address)
  <2>1. /\ r.address = a /\ (r.held <=> attempt[a].count > 0)
        /\ (r.reset <=> attempt[a].until > 0)
    BY DEF Access!Exists
  <2>2. \A q \in Threads \ {p} : ~Access!Holds(q, a)
    BY DEF Access!Check, Access!Free, Access!Others
  <2> HIDE DEF r
  <2> QED
    BY <1>4, <2>1, <2>2
<1>6. r.at = "compared"
  OBVIOUS
<1> HIDE DEF r
<1> QED
  BY <1>2, <1>3, <1>5, <1>6, RequestMoves

LEMMA MissingRowKeepsAccess ==
  ASSUME AccessInv, NEW p \in Threads, Access!FailureFirst(p)
  PROVE  AccessInv'
<1> DEFINE r == [at |-> "inserting", address |-> request[p].address]
<1>1. request[p] \in ComparedShape(DOMAIN session)
  BY RequestIs DEF Access!FailureFirst, Access!At
<1>2. r \in RequestShape(DOMAIN session) /\ r.at = "inserting"
  BY <1>1 DEF RequestShape, ComparedShape, InsertingShape
<1>3. request' = [request EXCEPT ![p] = r]
      /\ UNCHANGED <<now, password, session, attempt, refused, ended>>
  BY DEF Access!FailureFirst, Access!Goto
<1> HIDE DEF r
<1> QED
  BY <1>2, <1>3, RequestMoves

\* One refused password is written
LEMMA OneMoreCounts ==
  ASSUME AccessInv, NEW p \in Threads, NEW a \in Addresses, NEW before \in Nat,
         Access!Counted(a, before), request' = [request EXCEPT ![p] = Access!Idle],
         \A q \in Threads \ {p} : ~Access!Holds(q, a),
         \/ before = 0
         \/ before = attempt[a].count /\ (p \in Unheld(a) \/ before < MaxFailed)
  PROVE  /\ attempt' \in [Addresses -> [count : Nat, until : Nat]]
         /\ refused' \in [Addresses -> Nat]
         /\ Counting'
<1> DEFINE counted == [count |-> before + 1,
                       until |-> IF before + 1 >= MaxFailed THEN now + LockoutTime ELSE 0]
<1>1. /\ attempt' = [attempt EXCEPT ![a] = counted]
      /\ refused' = [refused EXCEPT ![a] = (IF before = 0 THEN 0 ELSE @) + 1]
  BY DEF Access!Counted
<1>2. /\ counted \in [count : Nat, until : Nat] /\ counted.count = before + 1
      /\ counted.count >= MaxFailed => counted.until > 0
  BY AccessAssumption DEF AccessInv, AccessShape
<1> HIDE DEF counted
<1>3. refused[a] = attempt[a].count /\ refused[a] \in Nat
  BY DEF AccessInv, AccessShape, Counting
<1>4. refused' = [refused EXCEPT ![a] = before + 1]
  BY <1>1, <1>3
<1>5. attempt' \in [Addresses -> [count : Nat, until : Nat]] /\ refused' \in [Addresses -> Nat]
  BY <1>1, <1>2, <1>4 DEF AccessInv, AccessShape
<1>6. request'[p] = Access!Idle /\ \A q \in Threads \ {p} : request'[q] = request[q]
  BY DEF AccessInv, AccessShape
<1>7. \A b \in Addresses : Unheld(b)' = Unheld(b) \ {p}
  BY <1>6 DEF Unheld, Access!Idle
<1>8. \A b \in Addresses, q \in Threads : Access!Holds(q, b)' <=> q # p /\ Access!Holds(q, b)
  BY <1>6 DEF Access!Holds, Access!At, Access!Idle
<1>9. before + 1 + Cardinality(Unheld(a) \ {p}) < MaxFailed + Cardinality(Threads)
  <2>1. Unheld(a) \ {p} \subseteq Threads \ {p} /\ Unheld(a) \subseteq Threads
    BY DEF Unheld
  <2>2. /\ Cardinality(Unheld(a) \ {p}) < Cardinality(Threads)
        /\ Cardinality(Unheld(a) \ {p}) \in Nat /\ Cardinality(Threads) \in Nat
    BY <2>1, UnheldAreFew, AccessAssumption
  <2>3. CASE before = 0
    BY <2>2, <2>3, AccessAssumption
  <2>4. CASE before = attempt[a].count /\ before < MaxFailed
    BY <2>2, <2>4, AccessAssumption
  <2>5. CASE before = attempt[a].count /\ p \in Unheld(a)
    <3>1. IsFiniteSet(Unheld(a))
      BY <2>1, UnheldAreFew, AccessAssumption
    <3>2. /\ Cardinality(Unheld(a) \ {p}) = Cardinality(Unheld(a)) - 1
          /\ Cardinality(Unheld(a)) \in Nat
      BY <2>5, <3>1, FS_RemoveElement, FS_CardinalityType
    <3>3. before + Cardinality(Unheld(a)) < MaxFailed + Cardinality(Threads)
      BY <2>5 DEF AccessInv, Counting
    <3> QED
      BY <2>2, <3>2, <3>3, AccessAssumption
  <2> QED
    BY <2>3, <2>4, <2>5
<1>10. \A b \in Addresses \ {a} :
         attempt[b].count + Cardinality(Unheld(b) \ {p}) < MaxFailed + Cardinality(Threads)
  <2> SUFFICES ASSUME NEW b \in Addresses \ {a}
               PROVE  attempt[b].count + Cardinality(Unheld(b) \ {p})
                        < MaxFailed + Cardinality(Threads)
    OBVIOUS
  <2>1. Unheld(b) \subseteq Threads /\ Unheld(b) \ {p} \subseteq Unheld(b)
    BY DEF Unheld
  <2>2. IsFiniteSet(Unheld(b)) /\ Cardinality(Threads) \in Nat
    BY <2>1, UnheldAreFew, AccessAssumption
  <2>3. /\ Cardinality(Unheld(b) \ {p}) <= Cardinality(Unheld(b))
        /\ Cardinality(Unheld(b) \ {p}) \in Nat /\ Cardinality(Unheld(b)) \in Nat
    BY <2>1, <2>2, UnheldAreFew
  <2>4. attempt[b].count + Cardinality(Unheld(b)) < MaxFailed + Cardinality(Threads)
    BY DEF AccessInv, Counting
  <2>5. attempt[b].count \in Nat
    BY DEF AccessInv, AccessShape
  <2> QED
    BY <2>2, <2>3, <2>4, <2>5, AccessAssumption
<1>11. /\ attempt'[a] = counted /\ refused'[a] = before + 1
       /\ \A b \in Addresses \ {a} : attempt'[b] = attempt[b] /\ refused'[b] = refused[b]
  BY <1>1, <1>4 DEF AccessInv, AccessShape
<1>12. \A b \in Addresses :
         /\ attempt'[b].count = refused'[b]
         /\ attempt'[b].count + Cardinality(Unheld(b)') < MaxFailed + Cardinality(Threads)
         /\ attempt'[b].count >= MaxFailed => attempt'[b].until > 0
  <2>1. \A b \in Addresses \ {a} :
          /\ attempt[b].count = refused[b]
          /\ attempt[b].count >= MaxFailed => attempt[b].until > 0
    BY DEF AccessInv, Counting
  <2> QED
    BY <1>2, <1>7, <1>9, <1>10, <1>11, <2>1
<1>13. \A b \in Addresses :
         /\ \A q1, q2 \in Threads : Access!Holds(q1, b)' /\ Access!Holds(q2, b)' => q1 = q2
         /\ \A q \in Threads :
              Access!Holds(q, b)' => /\ attempt'[b].count > 0
                                     /\ ~request'[q].reset => attempt'[b].until = 0
  <2> SUFFICES ASSUME NEW b \in Addresses
               PROVE  /\ \A q1, q2 \in Threads : Access!Holds(q1, b)' /\ Access!Holds(q2, b)' => q1 = q2
                      /\ \A q \in Threads :
                           Access!Holds(q, b)' => /\ attempt'[b].count > 0
                                                  /\ ~request'[q].reset => attempt'[b].until = 0
    OBVIOUS
  <2>1. CASE b = a
    BY <1>8, <2>1
  <2>2. CASE b # a
    BY <1>6, <1>8, <1>11, <2>2 DEF AccessInv, Counting
  <2> QED
    BY <2>1, <2>2
<1>14. Counting'
  BY <1>12, <1>13 DEF Counting
<1> QED
  BY <1>5, <1>14

\* A refused password is counted, and no session changes
LEMMA CountedKeepsAccess ==
  ASSUME AccessInv, NEW p \in Threads, request' = [request EXCEPT ![p] = Access!Idle],
         UNCHANGED <<now, password, session, ended>>,
         attempt' \in [Addresses -> [count : Nat, until : Nat]], refused' \in [Addresses -> Nat],
         Counting'
  PROVE  AccessInv'
<1>1. Follows(session) /\ session \in Seq(SessionShape) /\ password \in Nat
      /\ ended \subseteq DOMAIN session
  BY DEF AccessInv, AccessShape, Ending, Follows
<1>2. /\ \A s \in ended : session[s].revoked
      /\ \A s \in DOMAIN session :
           session[s].revoked \/ session[s].knew = password \/ session[s].late
  BY DEF AccessInv, Ending
<1> QED
  BY <1>1, <1>2, SessionsMove

LEMMA FailureKeepsAccess ==
  ASSUME AccessInv, NEW p \in Threads, Access!Failure(p)
  PROVE  AccessInv'
<1> DEFINE a == request[p].address
           before == IF request[p].held /\ request[p].reset THEN 0 ELSE attempt[a].count
<1>1. request[p] \in ComparedShape(DOMAIN session) /\ request[p].at = "compared"
  BY RequestIs DEF Access!Failure, Access!At
<1>2. a \in Addresses /\ request[p].held \in BOOLEAN /\ request[p].reset \in BOOLEAN
  BY <1>1 DEF ComparedShape
<1>3. attempt[a].count \in Nat /\ attempt[a].until \in Nat
  BY <1>2 DEF AccessInv, AccessShape
<1>4. /\ Access!Counted(a, before) /\ request' = [request EXCEPT ![p] = Access!Idle]
      /\ \A q \in Threads \ {p} : ~Access!Holds(q, a)
      /\ UNCHANGED <<now, password, session, ended>>
  BY DEF Access!Failure, Access!Goto, Access!Free, Access!Others
<1>5. before \in Nat
  BY <1>3
<1>6. \/ before = 0
      \/ before = attempt[a].count /\ (p \in Unheld(a) \/ before < MaxFailed)
  <2>1. CASE ~request[p].held
    BY <1>1, <2>1 DEF Unheld
  <2>2. CASE request[p].held /\ ~request[p].reset
    <3>1. Access!Holds(p, a)
      BY <1>1, <2>2 DEF Access!Holds, Access!At
    <3>2. attempt[a].until = 0
      BY <1>2, <2>2, <3>1 DEF AccessInv, Counting
    <3>3. attempt[a].count < MaxFailed
      BY <1>2, <1>3, <3>2, AccessAssumption DEF AccessInv, Counting
    <3> QED
      BY <2>2, <3>3
  <2> QED
    BY <1>2, <2>1, <2>2
<1> HIDE DEF a, before
<1>7. /\ attempt' \in [Addresses -> [count : Nat, until : Nat]]
      /\ refused' \in [Addresses -> Nat] /\ Counting'
  BY <1>2, <1>4, <1>5, <1>6, OneMoreCounts
<1> QED
  BY <1>4, <1>7, CountedKeepsAccess

LEMMA InsertingKeepsAccess ==
  ASSUME AccessInv, NEW p \in Threads, Access!InsertAttempt(p)
  PROVE  AccessInv'
<1> DEFINE a == request[p].address
<1>1. a \in Addresses
  BY RequestIs DEF InsertingShape, Access!InsertAttempt, Access!At
<1>2. /\ Access!Counted(a, 0) /\ request' = [request EXCEPT ![p] = Access!Idle]
      /\ UNCHANGED <<now, password, session, ended>>
  BY DEF Access!InsertAttempt, Access!Goto
<1>3. \A q \in Threads \ {p} : ~Access!Holds(q, a)
  BY <1>1 DEF AccessInv, Counting, Access!InsertAttempt, Access!Exists
<1> HIDE DEF a
<1>4. /\ attempt' \in [Addresses -> [count : Nat, until : Nat]]
      /\ refused' \in [Addresses -> Nat] /\ Counting'
  BY <1>1, <1>2, <1>3, OneMoreCounts
<1> QED
  BY <1>2, <1>4, CountedKeepsAccess

\* A session of its own is added to the rows
LEMMA AddedRow ==
  ASSUME AccessInv, NEW rows \in Seq(SessionShape), Follows(rows),
         DOMAIN rows = DOMAIN session, NEW new \in SessionShape
  PROVE  LET added == Append(rows, new)
         IN  /\ added \in Seq(SessionShape) /\ Follows(added)
             /\ DOMAIN session \subseteq DOMAIN added
             /\ \A s \in DOMAIN session : added[s] = rows[s]
             /\ \A s \in DOMAIN added \ DOMAIN session : added[s] = new
<1>1. PICK added : added = Append(rows, new)
  OBVIOUS
<1>2. Len(rows) \in Nat /\ DOMAIN rows = 1 .. Len(rows)
  OBVIOUS
<1>3. /\ added \in Seq(SessionShape) /\ Len(added) = Len(rows) + 1
      /\ DOMAIN added = 1 .. Len(rows) + 1
      /\ \A s \in 1 .. Len(rows) : added[s] = rows[s]
      /\ added[Len(rows) + 1] = new
  BY <1>1, <1>2
<1>4. DOMAIN session \subseteq DOMAIN added
  BY <1>2, <1>3
<1>5. /\ \A s \in DOMAIN session : added[s] = rows[s]
      /\ \A s \in DOMAIN added \ DOMAIN session : added[s] = new
  BY <1>2, <1>3
<1>6. Follows(added)
  BY <1>4, <1>5 DEF Follows
<1> QED
  BY <1>1, <1>3, <1>4, <1>5, <1>6

LEMMA NewSessionIs ==
  ASSUME AccessInv, NEW p \in Threads, NEW remember \in BOOLEAN, request[p].knew \in Nat
  PROVE  LET new == Access!NewSession(p, remember)
         IN  /\ new \in SessionShape /\ new.idle <= new.absolute
             /\ new.knew = request[p].knew /\ (new.knew = password \/ new.late)
             /\ \A q \in Threads \ {p} :
                  request[q].at = "revoking" /\ request[q].changes => new.late
<1>1. PICK absolute \in Nat : absolute = now + IF remember THEN RememberTime ELSE AbsoluteTimeout
  BY AccessAssumption DEF AccessInv, AccessShape
<1>2. PICK idle \in Nat :
        /\ idle = IF remember THEN absolute ELSE Access!Earlier(now + IdleTimeout, absolute)
        /\ idle <= absolute
  <2>1. PICK end \in Nat : end = now + IdleTimeout
    BY AccessAssumption DEF AccessInv, AccessShape
  <2>2. PICK earlier \in Nat : earlier = Access!Earlier(end, absolute) /\ earlier <= absolute
    BY EarlierOfTwo
  <2>3. CASE remember
    BY <2>3
  <2>4. CASE ~remember
    BY <2>1, <2>2, <2>4
  <2> QED
    BY <2>3, <2>4
<1>3. PICK late \in BOOLEAN : late = Access!Overlapped(p)
  BY DEF Access!Overlapped
<1>4. /\ ~late => request[p].knew = password
      /\ \A q \in Threads \ {p} : request[q].at = "revoking" /\ request[q].changes => late
  BY <1>3 DEF Access!Overlapped, Access!At, Access!Others
<1>5. Access!NewSession(p, remember) =
        [seen |-> now, absolute |-> absolute, idle |-> idle, revoked |-> FALSE,
         knew |-> request[p].knew, late |-> late]
  BY <1>1, <1>2, <1>3 DEF Access!NewSession
<1>6. now \in Nat
  BY DEF AccessInv, AccessShape
<1> QED
  BY <1>2, <1>4, <1>5, <1>6 DEF SessionShape

LEMMA LoginKeepsAccess ==
  ASSUME AccessInv, NEW p \in Threads, Access!Success(p)
  PROVE  AccessInv'
<1> DEFINE rows == Access!Revoked(request[p].previous)
           new == Access!NewSession(p, request[p].remember)
<1>1. request[p] \in ComparedShape(DOMAIN session)
  BY RequestIs DEF Access!Success, Access!At
<1>2. /\ request[p].knew \in Nat /\ request[p].remember \in BOOLEAN
      /\ request[p].previous \subseteq DOMAIN session
  BY <1>1 DEF ComparedShape
<1>3. /\ attempt' = [a \in Addresses |-> Access!NoRow] /\ refused' = [a \in Addresses |-> 0]
      /\ session' = Append(rows, new) /\ ended' = ended \cup request[p].previous
      /\ request' = [request EXCEPT ![p] = Access!Idle]
      /\ UNCHANGED <<now, password>>
      /\ \A a \in Addresses, q \in Threads \ {p} : ~Access!Holds(q, a)
  BY DEF Access!Success, Access!Goto, Access!Free, Access!Others
<1>4. /\ rows \in Seq(SessionShape) /\ Follows(rows) /\ DOMAIN rows = DOMAIN session
      /\ \A s \in DOMAIN session : s \in request[p].previous => rows[s].revoked
  BY RevokedRows
<1>5. /\ new \in SessionShape /\ new.idle <= new.absolute
      /\ new.knew = password \/ new.late
      /\ \A q \in Threads \ {p} : request[q].at = "revoking" /\ request[q].changes => new.late
  BY <1>2, NewSessionIs
<1> HIDE DEF rows, new
<1>6. /\ session' \in Seq(SessionShape) /\ Follows(session')
      /\ DOMAIN session \subseteq DOMAIN session'
      /\ \A s \in DOMAIN session : session'[s] = rows[s]
      /\ \A s \in DOMAIN session' \ DOMAIN session : session'[s] = new
  BY <1>3, <1>4, <1>5, AddedRow
<1>7. ended' \subseteq DOMAIN session' /\ \A s \in ended' : session'[s].revoked
  BY <1>2, <1>3, <1>4, <1>6 DEF AccessInv, AccessShape, Ending, Follows
<1>8. \A s \in DOMAIN session' :
        session'[s].revoked \/ session'[s].knew = password' \/ session'[s].late
  BY <1>3, <1>4, <1>5, <1>6 DEF AccessInv, Ending, Follows
<1>9. request'[p] = Access!Idle /\ \A q \in Threads \ {p} : request'[q] = request[q]
  BY <1>3 DEF AccessInv, AccessShape
<1>10. \A s \in DOMAIN session' \ DOMAIN session :
         /\ session'[s].idle <= session'[s].absolute
         /\ \A q \in Threads :
              request'[q].at = "revoking" /\ request'[q].changes => session'[s].late
  BY <1>5, <1>6, <1>9 DEF Access!Idle
<1>11. /\ attempt' \in [Addresses -> [count : Nat, until : Nat]]
       /\ refused' \in [Addresses -> Nat]
  BY <1>3 DEF Access!NoRow
<1>12. Counting'
  <2>1. \A a \in Addresses, q \in Threads : ~Access!Holds(q, a)'
    BY <1>3, <1>9 DEF Access!Holds, Access!At, Access!Idle
  <2>2. \A a \in Addresses : Unheld(a)' \subseteq Threads
    BY DEF Unheld
  <2>3. \A a \in Addresses : /\ Cardinality(Unheld(a)') <= Cardinality(Threads)
                             /\ Cardinality(Unheld(a)') \in Nat
    BY <2>2, UnheldAreFew, AccessAssumption
  <2>4. Cardinality(Threads) \in Nat
    BY AccessAssumption, FS_CardinalityType
  <2>5. \A a \in Addresses : attempt'[a].count = 0 /\ refused'[a] = 0
    BY <1>3 DEF Access!NoRow
  <2> QED
    BY <2>1, <2>3, <2>4, <2>5, AccessAssumption DEF Counting
<1>13. password' \in Nat
  BY <1>3 DEF AccessInv, AccessShape
<1> QED
  BY <1>3, <1>6, <1>7, <1>8, <1>10, <1>11, <1>12, <1>13, SessionsMove

LEMMA AuthenticatingKeepsAccess ==
  ASSUME AccessInv, NEW p \in Threads, NEW s \in 1 .. MaxSessions, Access!Authenticate(p, s)
  PROVE  AccessInv'
<1> DEFINE r == [at |-> "serving", session |-> s,
                 touches |-> now >= session[s].seen + TouchInterval,
                 touch |-> Access!Touched(s), knew |-> password]
<1>1. /\ s \in DOMAIN session /\ request' = [request EXCEPT ![p] = r]
      /\ UNCHANGED <<now, password, session, attempt, refused, ended>>
  BY DEF Access!Authenticate, Access!Goto
<1>2. session[s] \in SessionShape /\ session[s].idle <= session[s].absolute
  BY <1>1, SessionIndices DEF AccessInv, Ending
<1>3. /\ session[s].seen \in Nat /\ session[s].idle \in Nat /\ session[s].absolute \in Nat
      /\ now \in Nat
  BY <1>2 DEF SessionShape, AccessInv, AccessShape
<1>4. /\ Access!Touched(s) \in [seen : Nat, idle : Nat]
      /\ Access!Touched(s).idle <= session[s].absolute
  <2>1. PICK earlier \in Nat : /\ earlier = Access!Earlier(now + IdleTimeout, session[s].absolute)
                               /\ earlier <= session[s].absolute
    <3>1. PICK end \in Nat : end = now + IdleTimeout
      BY <1>3, AccessAssumption
    <3>2. PICK absolute \in Nat : absolute = session[s].absolute
      BY <1>3
    <3>3. Access!Earlier(end, absolute) \in Nat /\ Access!Earlier(end, absolute) <= absolute
      BY EarlierOfTwo
    <3> QED
      BY <3>1, <3>2, <3>3
  <2> QED
    BY <1>2, <1>3, <2>1 DEF Access!Touched
<1>5. r \in ServingShape(DOMAIN session)
  BY <1>1, <1>3, <1>4 DEF ServingShape, AccessInv, AccessShape
<1>6. r \in RequestShape(DOMAIN session)
  BY <1>5 DEF RequestShape
<1>7. r.at = "serving" /\ r.touch.idle <= session[r.session].absolute
  BY <1>4
<1> HIDE DEF r
<1> QED
  BY <1>1, <1>6, <1>7, RequestMoves

\* The sessions change as rows, with no new one, and p has been answered
LEMMA RowsKeepAccess ==
  ASSUME AccessInv, NEW rows \in Seq(SessionShape), Follows(rows),
         DOMAIN rows = DOMAIN session, session' = rows, UNCHANGED <<now, password, attempt, refused>>,
         \/ request' = request
         \/ \E p \in Threads : request' = [request EXCEPT ![p] = Access!Idle],
         ended' \subseteq DOMAIN session, \A s \in ended' : rows[s].revoked
  PROVE  AccessInv'
<1>1. Counting'
  BY IdleCounts, StillCounts
<1>2. /\ password' \in Nat /\ attempt' \in [Addresses -> [count : Nat, until : Nat]]
      /\ refused' \in [Addresses -> Nat]
  BY DEF AccessInv, AccessShape
<1>3. \A s \in DOMAIN session' :
        session'[s].revoked \/ session'[s].knew = password' \/ session'[s].late
  BY DEF AccessInv, Ending, Follows
<1> QED
  BY <1>1, <1>2, <1>3, SessionsMove

LEMMA CommitKeepsAccess ==
  ASSUME AccessInv, NEW p \in Threads, Access!Commit(p)
  PROVE  AccessInv'
<1>1. session \in Seq(SessionShape) /\ Follows(session)
  BY DEF AccessInv, AccessShape, Ending, Follows
<1>2. PICK rows : rows = Access!Written(p, session)
  OBVIOUS
<1>3. /\ request[p].at = "serving" /\ session' = rows
      /\ request' = [request EXCEPT ![p] = Access!Idle]
      /\ UNCHANGED <<now, password, attempt, refused, ended>>
  BY <1>2 DEF Access!Commit, Access!At, Access!Goto
<1>4. /\ rows \in Seq(SessionShape) /\ Follows(rows) /\ DOMAIN rows = DOMAIN session
      /\ \A s \in DOMAIN session : rows[s].revoked = session[s].revoked
  BY <1>1, <1>2, <1>3, WrittenRows
<1>5. ended' \subseteq DOMAIN session /\ \A s \in ended' : rows[s].revoked
  BY <1>3, <1>4 DEF AccessInv, AccessShape, Ending
<1> QED
  BY <1>3, <1>4, <1>5, RowsKeepAccess

LEMMA StatusKeepsAccess ==
  ASSUME AccessInv, NEW s \in 1 .. MaxSessions, Access!SessionStatus(s)
  PROVE  AccessInv'
<1>1. PICK rows : rows = Access!Revoked({s})
  OBVIOUS
<1>2. session' = rows /\ UNCHANGED <<now, password, attempt, refused, ended, request>>
  BY <1>1 DEF Access!SessionStatus
<1>3. rows \in Seq(SessionShape) /\ Follows(rows) /\ DOMAIN rows = DOMAIN session
  BY <1>1, RevokedRows
<1>4. ended' \subseteq DOMAIN session /\ \A x \in ended' : rows[x].revoked
  BY <1>2, <1>3 DEF AccessInv, AccessShape, Ending, Follows
<1> QED
  BY <1>2, <1>3, <1>4, RowsKeepAccess

\* The requests that end sessions: p marks ids, and is answered
LEMMA RevokingKeepsAccess ==
  ASSUME AccessInv, NEW p \in Threads, request[p].at \in {"serving", "revoking"},
         NEW ids \in SUBSET DOMAIN session,
         session' = Access!Written(p, Access!Revoked(ids)), ended' = ended \cup ids,
         request' = [request EXCEPT ![p] = Access!Idle],
         UNCHANGED <<now, password, attempt, refused>>
  PROVE  AccessInv'
<1>1. PICK marked : marked = Access!Revoked(ids)
  OBVIOUS
<1>2. /\ marked \in Seq(SessionShape) /\ Follows(marked) /\ DOMAIN marked = DOMAIN session
      /\ \A s \in DOMAIN session : s \in ids => marked[s].revoked
  BY <1>1, RevokedRows
<1>3. /\ session' \in Seq(SessionShape) /\ Follows(session') /\ DOMAIN session' = DOMAIN session
      /\ \A s \in DOMAIN session : session'[s].revoked = marked[s].revoked
  BY <1>1, <1>2, WrittenRows
<1>4. ended' \subseteq DOMAIN session /\ \A s \in ended' : session'[s].revoked
  BY <1>2, <1>3 DEF AccessInv, AccessShape, Ending, Follows
<1> QED
  BY <1>3, <1>4, RowsKeepAccess

LEMMA LogoutKeepsAccess ==
  ASSUME AccessInv, NEW p \in Threads, Access!Logout(p)
  PROVE  AccessInv'
<1>1. request[p] \in ServingShape(DOMAIN session) /\ request[p].at = "serving"
  BY RequestIs DEF Access!Logout, Access!At
<1>2. {request[p].session} \in SUBSET DOMAIN session
  BY <1>1 DEF ServingShape
<1> QED
  BY <1>1, <1>2, RevokingKeepsAccess DEF Access!Logout, Access!Goto

LEMMA LogoutAllKeepsAccess ==
  ASSUME AccessInv, NEW p \in Threads, Access!LogoutAll(p)
  PROVE  AccessInv'
<1>1. request[p] \in RevokingShape(DOMAIN session) /\ request[p].at = "revoking"
  BY RequestIs DEF Access!LogoutAll, Access!At
<1>2. request[p].ids \in SUBSET DOMAIN session
  BY <1>1 DEF RevokingShape
<1> QED
  BY <1>1, <1>2, RevokingKeepsAccess DEF Access!LogoutAll, Access!Goto

LEMMA RevokeBeginKeepsAccess ==
  ASSUME AccessInv, NEW p \in Threads, NEW changes \in BOOLEAN, Access!RevokeBegin(p, changes)
  PROVE  AccessInv'
<1> DEFINE active == Access!ActiveSessions(p)
           r == [at |-> "revoking", session |-> request[p].session,
                 touches |-> request[p].touches, touch |-> request[p].touch,
                 knew |-> request[p].knew, changes |-> changes, ids |-> active]
<1>1. /\ request' = [request EXCEPT ![p] = r]
      /\ UNCHANGED <<now, password, session, attempt, refused, ended>>
  BY DEF Access!RevokeBegin, Access!Goto
<1>2. request[p] \in ServingShape(DOMAIN session) /\ request[p].at = "serving"
  BY RequestIs DEF Access!RevokeBegin, Access!At
<1>3. request[p].touch.idle <= session[request[p].session].absolute
  BY <1>2 DEF AccessInv, Ending
<1>4. active \in SUBSET DOMAIN session /\ \A s \in DOMAIN session : session[s].revoked \/ s \in active
  BY DEF Access!ActiveSessions
<1> HIDE DEF active
<1>5. r \in RequestShape(DOMAIN session)
  <2>1. r \in RevokingShape(DOMAIN session)
    BY <1>2, <1>4 DEF ServingShape, RevokingShape
  <2> QED
    BY <2>1 DEF RequestShape
<1>6. /\ r.at = "revoking" /\ r.touch.idle <= session[r.session].absolute
      /\ \A s \in DOMAIN session : session[s].revoked \/ s \in r.ids
  BY <1>3, <1>4
<1> HIDE DEF r
<1> QED
  BY <1>1, <1>5, <1>6, RequestMoves

LEMMA ChangeKeepsAccess ==
  ASSUME AccessInv, NEW p \in Threads, Access!ChangePassword(p)
  PROVE  AccessInv'
<1> DEFINE marked == Access!Revoked(request[p].ids)
           rows == Access!Written(p, marked)
           fresh == Access!NewSession(p, FALSE)
           new == [fresh EXCEPT !.knew = password + 1]
<1>1. request[p] \in RevokingShape(DOMAIN session) /\ request[p].at = "revoking"
      /\ request[p].changes
  BY RequestIs DEF Access!ChangePassword, Access!At
<1>2. request[p].ids \in SUBSET DOMAIN session /\ request[p].knew \in Nat
  BY <1>1 DEF RevokingShape
<1>3. /\ password' = password + 1 /\ session' = Append(rows, new)
      /\ ended' = ended \cup request[p].ids /\ request' = [request EXCEPT ![p] = Access!Idle]
      /\ UNCHANGED <<now, attempt, refused>>
  BY DEF Access!ChangePassword, Access!Goto
<1>4. /\ marked \in Seq(SessionShape) /\ Follows(marked) /\ DOMAIN marked = DOMAIN session
      /\ \A s \in DOMAIN session : s \in request[p].ids => marked[s].revoked
  BY RevokedRows
<1>5. /\ fresh \in SessionShape /\ fresh.idle <= fresh.absolute
      /\ \A q \in Threads \ {p} : request[q].at = "revoking" /\ request[q].changes => fresh.late
  BY <1>2, NewSessionIs
<1> HIDE DEF marked
<1>6. /\ rows \in Seq(SessionShape) /\ Follows(rows) /\ DOMAIN rows = DOMAIN session
      /\ \A s \in DOMAIN session : s \in request[p].ids => rows[s].revoked
  BY <1>1, <1>4, WrittenRows
<1> HIDE DEF rows, fresh
<1>7. password \in Nat /\ password + 1 \in Nat
  BY DEF AccessInv, AccessShape
<1>8. /\ new \in SessionShape /\ new.idle <= new.absolute /\ new.knew = password + 1
      /\ \A q \in Threads \ {p} : request[q].at = "revoking" /\ request[q].changes => new.late
  BY <1>5, <1>7 DEF SessionShape
<1> HIDE DEF new
<1>9. /\ session' \in Seq(SessionShape) /\ Follows(session')
      /\ DOMAIN session \subseteq DOMAIN session'
      /\ \A s \in DOMAIN session : session'[s] = rows[s]
      /\ \A s \in DOMAIN session' \ DOMAIN session : session'[s] = new
  BY <1>3, <1>6, <1>8, AddedRow
<1>10. ended' \subseteq DOMAIN session' /\ \A s \in ended' : session'[s].revoked
  BY <1>2, <1>3, <1>6, <1>9 DEF AccessInv, AccessShape, Ending, Follows
<1>11. \A s \in DOMAIN session : session[s].revoked \/ session[s].late \/ s \in request[p].ids
  BY <1>1 DEF AccessInv, Ending
<1>12. \A s \in DOMAIN session' :
         session'[s].revoked \/ session'[s].knew = password' \/ session'[s].late
  BY <1>3, <1>6, <1>8, <1>9, <1>11 DEF Follows
<1>13. request'[p] = Access!Idle /\ \A q \in Threads \ {p} : request'[q] = request[q]
  BY <1>3 DEF AccessInv, AccessShape
<1>14. \A s \in DOMAIN session' \ DOMAIN session :
         /\ session'[s].idle <= session'[s].absolute
         /\ \A q \in Threads :
              request'[q].at = "revoking" /\ request'[q].changes => session'[s].late
  BY <1>8, <1>9, <1>13 DEF Access!Idle
<1>15. /\ attempt' \in [Addresses -> [count : Nat, until : Nat]]
       /\ refused' \in [Addresses -> Nat] /\ password' \in Nat
  BY <1>3, <1>7 DEF AccessInv, AccessShape
<1>16. Counting'
  BY <1>3, IdleCounts
<1> QED
  BY <1>3, <1>9, <1>10, <1>12, <1>14, <1>15, <1>16, SessionsMove

LEMMA AccessSteps ==
  ASSUME AccessInv, Access!Next
  PROVE  AccessInv'
<1>1. ASSUME NEW p \in Threads, NEW a \in Addresses, NEW right \in BOOLEAN,
             NEW remember \in BOOLEAN,
             NEW previous \in {{}} \cup {{s} : s \in DOMAIN session},
             Access!Check(p, a, right, remember, previous)
      PROVE  AccessInv'
  <2>1. previous \in SUBSET DOMAIN session
    OBVIOUS
  <2> QED
    BY <1>1, <2>1, CheckingKeepsAccess
<1> QED
  BY <1>1, ClockKeepsAccess, DyingKeepsAccess, MissingRowKeepsAccess, FailureKeepsAccess,
     InsertingKeepsAccess, LoginKeepsAccess, AuthenticatingKeepsAccess, CommitKeepsAccess,
     StatusKeepsAccess, LogoutKeepsAccess, LogoutAllKeepsAccess, RevokeBeginKeepsAccess,
     ChangeKeepsAccess DEF Access!Next

LEMMA AccessStays ==
  ASSUME AccessInv, UNCHANGED sessionVars
  PROVE  AccessInv'
BY ZenonT(60) DEF AccessInv, AccessShape, Counting, Ending, Unheld, Access!Holds, Access!At, sessionVars

LEMMA AccessInvariant == OperationsSpec => [](part \in {"sessions", "lockouts"} => AccessInv)
<1> DEFINE Inv == part \in {"sessions", "lockouts"} => AccessInv
<1>1. OperationsInit => Inv
  BY AccessBegins DEF OperationsInit
<1>2. Inv /\ [OperationsNext]_operationsVars => Inv'
  <2> SUFFICES ASSUME Inv, [OperationsNext]_operationsVars
               PROVE  Inv'
    OBVIOUS
  <2>1. CASE AccessStep
    BY <2>1, AccessSteps DEF AccessStep
  <2>2. CASE UNCHANGED operationsVars
    BY <2>2, AccessStays DEF operationsVars
  <2>3. CASE BackupStep \/ KnowledgeStep \/ TelemetryStep \/ AnswerStep \/ SpendingStep
             \/ DescriptionStep \/ GateStep
    BY <2>3, AccessStays DEF BackupStep, KnowledgeStep, TelemetryStep, AnswerStep,
       SpendingStep, DescriptionStep, GateStep
  <2> QED
    BY <2>1, <2>2, <2>3 DEF OperationsNext
<1> QED
  BY <1>1, <1>2, PTL DEF OperationsSpec

\* Overlapping requests of one user: what was signed out stays out, and every refused
\* password counts (auth/service.py, rate_limit.py).
THEOREM SignedOutIsForGood == OperationsSpec => []SignedOutForGood
<1>1. (part \in {"sessions", "lockouts"} => AccessInv) => SignedOutForGood
  <2> SUFFICES ASSUME AccessInv
               PROVE  Access!SignedOutForGood
    BY DEF SignedOutForGood
  <2>1. \A a \in Addresses :
          /\ attempt[a].count = refused[a] /\ refused[a] < MaxFailed + Cardinality(Threads)
          /\ refused[a] >= MaxFailed => attempt[a].until > 0
    <3>1. \A a \in Addresses : Unheld(a) \subseteq Threads
      BY DEF Unheld
    <3>2. \A a \in Addresses : Cardinality(Unheld(a)) \in Nat
      BY <3>1, UnheldAreFew, AccessAssumption
    <3>3. Cardinality(Threads) \in Nat
      BY AccessAssumption, FS_CardinalityType
    <3>4. \A a \in Addresses : attempt[a].count \in Nat
      BY DEF AccessInv, AccessShape
    <3> QED
      BY <3>2, <3>3, <3>4, AccessAssumption DEF AccessInv, Counting
  <2>2. /\ \A s \in ended : session[s].revoked
        /\ \A s \in DOMAIN session :
             /\ session[s].idle <= session[s].absolute
             /\ session[s].revoked \/ session[s].knew = password \/ session[s].late
    BY DEF AccessInv, Ending
  <2> QED
    BY <2>1, <2>2, SameCardinality DEF Access!SignedOutForGood
<1> QED
  BY <1>1, AccessInvariant, PTL

-----------------------------------------------------------------------------
(* What the Agent spends (AiBudget)                                        *)
(*                                                                         *)
(* The sums of the ledger are a fold over sets of rows, which is related   *)
(* to a function on the finite subsets; a call that passed the check holds *)
(* the row of its day until it is booked, so that what was checked is what *)
(* is in the ledger.                                                       *)

SumStep(f, s) ==
  IF s = {} THEN 0 ELSE LET x == CHOOSE x \in s : TRUE IN x.tokens + f[s \ {x}]
Sums(f, S) == f = [s \in SUBSET S |-> SumStep(f, s)]

RestingStep == [at : {"queued", "done", "failed"}, attempt : 0 .. MaxAttempts]
BegunStep == [at : {"begun"}, attempt : 1 .. MaxAttempts]
HoldingStep == [at : {"inserting", "budgeted", "calling"}, attempt : 1 .. MaxAttempts,
                day : Spending!Days, inserts : BOOLEAN]
FailingStep == [at : {"failing"}, attempt : 1 .. MaxAttempts, day : Spending!Days,
                tokens : Spent, retriable : BOOLEAN]
StepShape == RestingStep \cup BegunStep \cup HoldingStep \cup FailingStep

Most == Spending!Max(Spent \cup {Projected})

\* The successes of a day that its own budget let through, those it let through that were
\* booked on another, and the rows of a Run
InTime(rows, d) == {x \in rows : x.checked = d /\ x.attempt = 0 /\ x.day = d}
Late(rows, d) == {x \in rows : x.checked = d /\ x.attempt = 0 /\ x.day # d}
OfRun(rows, r) == {x \in rows : RunOf[x.step] = r}

BudgetShape ==
  /\ today \in Spending!Days /\ budget \subseteq Spending!Days
  /\ ledger \subseteq Spending!LedgerRow /\ IsFiniteSet(ledger)
  /\ total \in [Spending!ModelRuns -> Nat]
  /\ work \in [Steps -> StepShape]
  /\ \A s \in Steps : work[s].at = "queued" => work[s].attempt < MaxAttempts

Dated(s) == work[s].at \in {"inserting", "budgeted", "calling", "failing"}
Running(s) == work[s].at \notin {"queued", "done", "failed"}

\* Who has the budget of a day: one Step, and with the row there or not.
Holding ==
  /\ \A s \in Steps : Dated(s) => work[s].day <= today
  /\ \A s, u \in Steps, d \in Spending!Days : Spending!Holds(s, d) /\ Spending!Holds(u, d) => s = u
  /\ \A s \in Steps : Spending!Budgeted(s) /\ ~work[s].inserts => work[s].day \in budget
  /\ \A s \in Steps : work[s].at = "inserting" => work[s].inserts
  /\ \A s, u \in Steps : s # u /\ RunOf[s] = RunOf[u] => ~(Running(s) /\ Running(u))

\* What was let through still fits, until it is booked.
Checked ==
  /\ \A s \in Steps : work[s].at = "calling" /\ work[s].day = today =>
       Spending!Booked(InTime(ledger, today)) + Projected <= DailyTokenLimit
  /\ \A s \in Steps : work[s].at \in {"calling", "failing"} =>
       total[RunOf[s]] + Projected <= RunTokenLimit

WithinLimits ==
  /\ \A d \in Spending!Days :
       /\ Spending!Limited(InTime(ledger, d), DailyTokenLimit)
       /\ \A x, y \in Late(ledger, d) : x = y
       /\ Late(ledger, d) # {} =>
            d \in budget /\ d < today /\ \A s \in Steps : ~Spending!Holds(s, d)
  /\ \A r \in Spending!ModelRuns :
       /\ total[r] = Spending!Booked(OfRun(ledger, r))
       /\ Spending!Limited(OfRun(ledger, r), RunTokenLimit)

BudgetInv == BudgetShape /\ Holding /\ Checked /\ WithinLimits

\* The least of some finite sets, for the induction over them
LEMMA LeastSubset ==
  ASSUME NEW S, IsFiniteSet(S), NEW bad, bad \subseteq SUBSET S, bad # {}
  PROVE  \E s \in bad : \A t \in SUBSET s : t # s => t \notin bad
<1>1. IsWellFoundedOn(StrictSubsetOrdering(S), SUBSET S)
  BY FS_StrictSubsetOrderingWellFounded, FS_FiniteSubsetsOfFinite
<1>2. PICK s \in bad : \A t \in bad : ~(<<t, s>> \in StrictSubsetOrdering(S))
  BY <1>1, WFMin
<1>3. \A t \in SUBSET s : t # s => t \notin bad
  BY <1>2 DEF StrictSubsetOrdering
<1> QED
  BY <1>3

\* The sums of the subsets of a finite set are defined, and in one way.
LEMMA SumsAgree ==
  ASSUME NEW A, NEW B, IsFiniteSet(A), NEW f, NEW g, Sums(f, A), Sums(g, B),
         NEW s, s \subseteq A, s \subseteq B
  PROVE  f[s] = g[s]
<1>1. PICK bad : bad = {t \in SUBSET s : f[t] # g[t]}
  OBVIOUS
<1>2. SUFFICES ASSUME bad # {}
               PROVE  FALSE
  BY <1>1
<1>3. IsFiniteSet(s)
  BY FS_Subset
<1>4. PICK t \in bad : \A u \in SUBSET t : u # t => u \notin bad
  BY <1>1, <1>2, <1>3, LeastSubset
<1>5. t \in SUBSET s /\ f[t] # g[t]
  BY <1>1
<1>6. f[t] = SumStep(f, t) /\ g[t] = SumStep(g, t)
  BY <1>5 DEF Sums
<1>7. t # {}
  BY <1>5, <1>6 DEF SumStep
<1>8. PICK x : x = (CHOOSE y \in t : TRUE)
  OBVIOUS
<1>9. x \in t
  BY <1>7, <1>8
<1>10. f[t \ {x}] = g[t \ {x}]
  BY <1>1, <1>4, <1>5, <1>9
<1> QED
  BY <1>5, <1>6, <1>7, <1>8, <1>10 DEF SumStep

LEMMA SumsExist ==
  ASSUME NEW S, IsFiniteSet(S)
  PROVE  \E f : Sums(f, S)
<1>1. PICK bad : bad = {t \in SUBSET S : ~\E f : Sums(f, t)}
  OBVIOUS
<1>2. SUFFICES ASSUME bad # {}
               PROVE  FALSE
  BY <1>1
<1>3. PICK t \in bad : \A u \in SUBSET t : u # t => u \notin bad
  <2>1. bad \subseteq SUBSET S
    BY <1>1
  <2> QED
    BY <1>2, <2>1, LeastSubset
<1>4. t \in SUBSET S /\ IsFiniteSet(t) /\ ~\E f : Sums(f, t)
  BY <1>1, FS_Subset
<1>5. \A u \in SUBSET t : u # t => \E f : Sums(f, u)
  BY <1>1, <1>3, <1>4
<1>6. PICK g : g = [u \in SUBSET t |-> CHOOSE f : Sums(f, u)]
  OBVIOUS
<1>7. \A u \in SUBSET t : u # t => Sums(g[u], u)
  <2> SUFFICES ASSUME NEW u \in SUBSET t, u # t
               PROVE  Sums(g[u], u)
    OBVIOUS
  <2>1. \E f : Sums(f, u)
    BY <1>5
  <2>2. g[u] = CHOOSE f : Sums(f, u)
    BY <1>6
  <2> QED
    BY <2>1, <2>2
<1>8. PICK h : h = [u \in SUBSET t |-> g[u][u]]
  OBVIOUS
<1>9. \A u \in SUBSET t : u # t => h[u] = SumStep(h, u)
  <2> SUFFICES ASSUME NEW u \in SUBSET t, u # t
               PROVE  h[u] = SumStep(h, u)
    OBVIOUS
  <2>1. h[u] = g[u][u] /\ Sums(g[u], u)
    BY <1>7, <1>8
  <2>2. g[u][u] = SumStep(g[u], u)
    BY <2>1 DEF Sums
  <2>3. CASE u = {}
    BY <2>1, <2>2, <2>3 DEF SumStep
  <2>4. CASE u # {}
    <3>1. PICK x : x = (CHOOSE y \in u : TRUE)
      OBVIOUS
    <3>2. x \in u
      BY <2>4, <3>1
    <3>3. PICK v : v = u \ {x}
      OBVIOUS
    <3>4. v \in SUBSET t /\ v # t /\ v \subseteq u
      BY <3>2, <3>3
    <3>5. Sums(g[v], v) /\ h[v] = g[v][v]
      BY <1>7, <1>8, <3>4
    <3>6. IsFiniteSet(u) /\ IsFiniteSet(v)
      BY <1>4, <3>4, FS_Subset
    <3>7. g[u][v] = g[v][v]
      <4>1. PICK a, b : a = g[u] /\ b = g[v]
        OBVIOUS
      <4>2. Sums(a, u) /\ Sums(b, v)
        BY <2>1, <3>5, <4>1
      <4>3. a[v] = b[v]
        BY <3>4, <3>6, <4>2, SumsAgree
      <4> QED
        BY <4>1, <4>3
    <3> QED
      BY <2>1, <2>2, <2>4, <3>1, <3>3, <3>5, <3>7 DEF SumStep
  <2> QED
    BY <2>3, <2>4
<1>10. PICK f : f = [u \in SUBSET t |-> IF u = t THEN SumStep(h, t) ELSE h[u]]
  OBVIOUS
<1>11. \A u \in SUBSET t : SumStep(f, u) = SumStep(h, u)
  <2> SUFFICES ASSUME NEW u \in SUBSET t
               PROVE  SumStep(f, u) = SumStep(h, u)
    OBVIOUS
  <2>1. CASE u = {}
    BY <2>1 DEF SumStep
  <2>2. CASE u # {}
    <3>1. PICK x : x = (CHOOSE y \in u : TRUE)
      OBVIOUS
    <3>2. x \in u
      BY <2>2, <3>1
    <3>3. u \ {x} \in SUBSET t /\ u \ {x} # t
      BY <3>2
    <3>4. f[u \ {x}] = h[u \ {x}]
      BY <1>10, <3>3
    <3> QED
      BY <2>2, <3>1, <3>4 DEF SumStep
  <2> QED
    BY <2>1, <2>2
<1>12. Sums(f, t)
  BY <1>9, <1>10, <1>11 DEF Sums
<1> QED
  BY <1>4, <1>12

\* Booked is the sum of any function that has all the sums.
LEMMA BookedIsASum ==
  ASSUME NEW S, IsFiniteSet(S), NEW f, NEW T, Sums(f, T), S \subseteq T
  PROVE  Spending!Booked(S) = f[S]
<1>1. Spending!Booked(S) = (CHOOSE g : Sums(g, S))[S]
  BY DEF Spending!Booked, Spending!MapThenSumSet, Spending!MapThenFoldSet, Sums, SumStep
<1>2. Sums((CHOOSE g : Sums(g, S)), S)
  BY SumsExist
<1> QED
  BY <1>1, <1>2, SumsAgree

Rows(S) == IsFiniteSet(S) /\ \A x \in S : x.tokens \in Nat

LEMMA SumsAreNumbers ==
  ASSUME NEW S, Rows(S), NEW f, Sums(f, S)
  PROVE  \A s \in SUBSET S : f[s] \in Nat
<1>1. PICK bad : bad = {s \in SUBSET S : f[s] \notin Nat}
  OBVIOUS
<1>2. SUFFICES ASSUME bad # {}
               PROVE  FALSE
  BY <1>1
<1>3. PICK t \in bad : \A u \in SUBSET t : u # t => u \notin bad
  BY <1>1, <1>2, LeastSubset DEF Rows
<1>4. t \in SUBSET S /\ f[t] \notin Nat /\ f[t] = SumStep(f, t)
  BY <1>1 DEF Sums
<1>5. t # {}
  BY <1>4 DEF SumStep
<1>6. PICK x : x = (CHOOSE y \in t : TRUE)
  OBVIOUS
<1>7. x \in t
  BY <1>5, <1>6
<1>8. f[t \ {x}] \in Nat
  BY <1>1, <1>3, <1>4, <1>7
<1> QED
  BY <1>4, <1>5, <1>6, <1>7, <1>8 DEF SumStep, Rows

\* It does not matter which element is taken first.
LEMMA SumsSplit ==
  ASSUME NEW S, Rows(S), NEW f, Sums(f, S)
  PROVE  \A s \in SUBSET S : \A y \in s : f[s] = y.tokens + f[s \ {y}]
<1>1. PICK bad : bad = {s \in SUBSET S : ~\A y \in s : f[s] = y.tokens + f[s \ {y}]}
  OBVIOUS
<1>2. SUFFICES ASSUME bad # {}
               PROVE  FALSE
  BY <1>1
<1>3. PICK t \in bad : \A u \in SUBSET t : u # t => u \notin bad
  <2>1. bad \subseteq SUBSET S /\ IsFiniteSet(S)
    BY <1>1 DEF Rows
  <2> QED
    BY <1>2, <2>1, LeastSubset
<1>4. t \in SUBSET S /\ f[t] = SumStep(f, t)
  BY <1>1 DEF Sums
<1>5. PICK y \in t : f[t] # y.tokens + f[t \ {y}]
  BY <1>1, <1>3
<1>6. PICK x : x = (CHOOSE z \in t : TRUE)
  OBVIOUS
<1>7. x \in t /\ f[t] = x.tokens + f[t \ {x}]
  BY <1>4, <1>5, <1>6 DEF SumStep
<1>8. x # y
  BY <1>5, <1>7
<1>9. PICK a, b, c : a = t \ {x} /\ b = t \ {y} /\ c = t \ {x, y}
  OBVIOUS
<1>10. a \in SUBSET t /\ a # t /\ y \in a /\ a \ {y} = c
  BY <1>5, <1>7, <1>8, <1>9
<1>11. b \in SUBSET t /\ b # t /\ x \in b /\ b \ {x} = c
  BY <1>5, <1>7, <1>8, <1>9
<1>12. f[a] = y.tokens + f[c]
  BY <1>1, <1>3, <1>4, <1>10
<1>13. f[b] = x.tokens + f[c]
  BY <1>1, <1>3, <1>4, <1>11
<1>14. c \in SUBSET S
  BY <1>4, <1>9
<1>15. f[c] \in Nat /\ x.tokens \in Nat /\ y.tokens \in Nat
  BY <1>4, <1>7, <1>14, SumsAreNumbers DEF Rows
<1> QED
  BY <1>5, <1>7, <1>9, <1>12, <1>13, <1>15

LEMMA BookedIsANumber ==
  ASSUME NEW S, Rows(S)
  PROVE  Spending!Booked(S) \in Nat /\ Spending!Booked({}) = 0
<1>1. PICK f : Sums(f, S)
  BY SumsExist DEF Rows
<1>2. Spending!Booked(S) = f[S] /\ f[S] \in Nat
  BY <1>1, BookedIsASum, SumsAreNumbers DEF Rows
<1>3. Spending!Booked({}) = f[{}]
  BY <1>1, BookedIsASum, FS_EmptySet
<1>4. f[{}] = 0
  BY <1>1 DEF Sums, SumStep
<1> QED
  BY <1>2, <1>3, <1>4

LEMMA BookedOneMore ==
  ASSUME NEW S, Rows(S), NEW x, x.tokens \in Nat, x \notin S
  PROVE  Rows(S \cup {x}) /\ Spending!Booked(S \cup {x}) = Spending!Booked(S) + x.tokens
<1>1. PICK T : T = S \cup {x}
  OBVIOUS
<1>2. Rows(T)
  BY <1>1, FS_AddElement DEF Rows
<1>3. PICK f : Sums(f, T)
  BY <1>2, SumsExist DEF Rows
<1>4. f[T] = x.tokens + f[T \ {x}] /\ T \ {x} = S
  BY <1>1, <1>2, <1>3, SumsSplit
<1>5. Spending!Booked(T) = f[T] /\ Spending!Booked(S) = f[S] /\ f[S] \in Nat
  BY <1>1, <1>2, <1>3, BookedIsASum, SumsAreNumbers DEF Rows
<1>6. f[T] = f[S] + x.tokens
  <2>1. f[T] = x.tokens + f[S]
    BY <1>4
  <2>2. x.tokens \in Nat /\ f[S] \in Nat
    BY <1>5
  <2> QED
    BY <2>1, <2>2
<1>7. Spending!Booked(T) = Spending!Booked(S) + x.tokens
  BY <1>5, <1>6
<1> QED
  BY <1>1, <1>2, <1>7

LEMMA BookedOfPart ==
  ASSUME NEW T, Rows(T), NEW S, S \subseteq T
  PROVE  Rows(S) /\ Spending!Booked(S) <= Spending!Booked(T)
<1>1. Rows(S)
  BY FS_Subset DEF Rows
<1>2. PICK f : Sums(f, T)
  BY SumsExist DEF Rows
<1>3. PICK bad : bad = {u \in SUBSET T : S \subseteq u /\ ~(f[S] <= f[u])}
  OBVIOUS
<1>4. bad = {}
  <2>1. SUFFICES ASSUME bad # {}
                 PROVE  FALSE
    OBVIOUS
  <2>2. PICK t \in bad : \A u \in SUBSET t : u # t => u \notin bad
    BY <1>3, <2>1, LeastSubset DEF Rows
  <2>3. t \in SUBSET T /\ S \subseteq t /\ ~(f[S] <= f[t])
    BY <1>3
  <2>4. f[S] \in Nat /\ f[t] \in Nat
    BY <1>2, <2>3, SumsAreNumbers
  <2>5. PICK y \in t : y \notin S
    BY <2>3, <2>4
  <2>6. f[S] <= f[t \ {y}]
    BY <1>3, <2>2, <2>3, <2>5
  <2>7. f[t] = y.tokens + f[t \ {y}] /\ y.tokens \in Nat
    BY <1>2, <2>3, SumsSplit DEF Rows
  <2>8. f[t \ {y}] \in Nat
    BY <1>2, <2>3, SumsAreNumbers
  <2> QED
    BY <2>3, <2>4, <2>6, <2>7, <2>8
<1>5. f[S] <= f[T]
  BY <1>3, <1>4
<1> QED
  BY <1>1, <1>2, <1>5, BookedIsASum DEF Rows

LEMMA SpendingCardinality == \A S : Spending!Cardinality(S) = Cardinality(S)
BY DEF Spending!Cardinality, Cardinality

LEMMA GreatestOfMany ==
  ASSUME NEW S, IsFiniteSet(S), S \subseteq Nat, S # {}
  PROVE  Spending!Max(S) \in S /\ \A x \in S : x <= Spending!Max(S)
<1>1. PICK bad : bad = {t \in SUBSET S : t # {} /\ ~\E m \in t : \A y \in t : y <= m}
  OBVIOUS
<1>2. bad = {}
  <2> SUFFICES ASSUME bad # {}
               PROVE  FALSE
    OBVIOUS
  <2>1. bad \subseteq SUBSET S
    BY <1>1
  <2>2. PICK t \in bad : \A u \in SUBSET t : u # t => u \notin bad
    BY <2>1, LeastSubset
  <2>3. t \in SUBSET S /\ t # {} /\ ~\E m \in t : \A y \in t : y <= m
    BY <1>1
  <2>4. PICK x \in t : TRUE
    BY <2>3
  <2>5. PICK u : u = t \ {x}
    OBVIOUS
  <2>6. u \in SUBSET t /\ u # t /\ u \subseteq S
    BY <2>3, <2>4, <2>5
  <2>7. CASE u = {}
    BY <2>3, <2>4, <2>5, <2>7
  <2>8. CASE u # {}
    <3>1. PICK m \in u : \A y \in u : y <= m
      BY <1>1, <2>2, <2>6, <2>8
    <3>2. m \in t /\ m \in Nat /\ x \in Nat /\ t \subseteq Nat
      BY <2>3, <2>4, <2>6
    <3>3. CASE x <= m
      BY <2>3, <2>5, <3>1, <3>2, <3>3
    <3>4. CASE m <= x
      <4>1. \A y \in t : y <= x
        BY <2>5, <3>1, <3>2, <3>4
      <4> QED
        BY <2>3, <2>4, <4>1
    <3> QED
      BY <3>2, <3>3, <3>4
  <2> QED
    BY <2>7, <2>8
<1>3. \E m \in S : \A y \in S : y <= m
  BY <1>1, <1>2
<1>4. \E m \in S : \A y \in S : m >= y
  BY <1>3
<1>5. Spending!Max(S) \in S /\ \A y \in S : Spending!Max(S) >= y
  BY <1>4 DEF Spending!Max
<1> QED
  BY <1>5

LEMMA MostIsMost == Most \in Nat /\ \A k \in Spent : k <= Most
<1>1. PICK S : S = Spent \cup {Projected}
  OBVIOUS
<1>2. IsFiniteSet(S) /\ S \subseteq Nat /\ S # {}
  BY <1>1, FS_AddElement, BudgetAssumption
<1> QED
  BY <1>1, <1>2, GreatestOfMany DEF Most

LEMMA RowsOfLedger ==
  ASSUME BudgetInv, NEW S, S \subseteq ledger
  PROVE  Rows(S)
<1>1. \A x \in ledger : x.tokens \in Nat
  BY BudgetAssumption DEF BudgetInv, BudgetShape, Spending!LedgerRow
<1> QED
  BY <1>1, FS_Subset DEF Rows, BudgetInv, BudgetShape

LEMMA StepIs ==
  ASSUME BudgetInv, NEW s \in Steps
  PROVE  /\ work[s] \in StepShape /\ work[s].attempt \in 0 .. MaxAttempts
         /\ Dated(s) => work[s].day \in Spending!Days /\ work[s].day <= today
         /\ Running(s) => work[s].attempt \in 1 .. MaxAttempts
<1>1. work[s] \in StepShape
  BY DEF BudgetInv, BudgetShape
<1>2. CASE work[s] \in RestingStep
  BY <1>1, <1>2, BudgetAssumption DEF RestingStep, Dated, Running
<1>3. CASE work[s] \in BegunStep
  BY <1>1, <1>3, BudgetAssumption DEF BegunStep, Dated, Running
<1>4. CASE work[s] \in HoldingStep
  BY <1>1, <1>4, BudgetAssumption DEF HoldingStep, Dated, Running, BudgetInv, Holding
<1>5. CASE work[s] \in FailingStep
  BY <1>1, <1>5, BudgetAssumption DEF FailingStep, Dated, Running, BudgetInv, Holding
<1> QED
  BY <1>1, <1>2, <1>3, <1>4, <1>5 DEF StepShape

LEMMA DaysAreNumbers == \A d \in Spending!Days : d \in Nat /\ 1 <= d /\ d <= LastDay
BY BudgetAssumption DEF Spending!Days

\* A Step moves, and books nothing.
LEMMA StepMoves ==
  ASSUME BudgetInv, NEW s \in Steps, NEW w \in StepShape,
         work' = [work EXCEPT ![s] = w], UNCHANGED <<today, ledger, total>>,
         budget \subseteq budget', budget' \subseteq Spending!Days,
         w.at = "queued" => w.attempt < MaxAttempts,
         w.at \in {"inserting", "budgeted", "calling", "failing"} => w.day <= today,
         w.at = "inserting" => w.inserts,
         w.at \in {"budgeted", "calling"} =>
           /\ \A u \in Steps \ {s} : ~Spending!Holds(u, w.day)
           /\ ~w.inserts => w.day \in budget
           /\ Late(ledger, w.day) = {},
         w.at \notin {"queued", "done", "failed"} =>
           \A u \in Steps \ {s} : RunOf[u] = RunOf[s] => ~Running(u),
         w.at = "calling" /\ w.day = today =>
           Spending!Booked(InTime(ledger, today)) + Projected <= DailyTokenLimit,
         w.at \in {"calling", "failing"} => total[RunOf[s]] + Projected <= RunTokenLimit
  PROVE  BudgetInv'
<1>1. /\ work' \in [Steps -> StepShape] /\ work'[s] = w
      /\ \A u \in Steps \ {s} : work'[u] = work[u]
  BY DEF BudgetInv, BudgetShape
<1>2. BudgetShape'
  BY <1>1 DEF BudgetInv, BudgetShape
<1>3. \A u \in Steps \ {s} : \A d : Spending!Holds(u, d)' <=> Spending!Holds(u, d)
  BY <1>1 DEF Spending!Holds, Spending!Budgeted, Spending!At
<1>4. \A d : Spending!Holds(s, d)' <=> w.at \in {"budgeted", "calling"} /\ w.day = d
  BY <1>1 DEF Spending!Holds, Spending!Budgeted, Spending!At
<1>5. Holding'
  <2>1. \A u \in Steps : Dated(u)' => work'[u].day <= today'
    BY <1>1 DEF BudgetInv, Holding, Dated
  <2>2. \A u, v \in Steps, d \in Spending!Days :
          Spending!Holds(u, d)' /\ Spending!Holds(v, d)' => u = v
    BY <1>3, <1>4 DEF BudgetInv, Holding
  <2>3. \A u \in Steps : Spending!Budgeted(u)' /\ ~work'[u].inserts => work'[u].day \in budget'
    BY <1>1 DEF BudgetInv, Holding, Spending!Budgeted, Spending!At
  <2>4. \A u, v \in Steps : u # v /\ RunOf[u] = RunOf[v] => ~(Running(u)' /\ Running(v)')
    BY <1>1 DEF BudgetInv, Holding, Running
  <2>5. \A u \in Steps : work'[u].at = "inserting" => work'[u].inserts
    BY <1>1 DEF BudgetInv, Holding
  <2> QED
    BY <2>1, <2>2, <2>3, <2>4, <2>5 DEF Holding, Spending!Days
<1>6. Checked'
  BY <1>1 DEF BudgetInv, Checked
<1>7. WithinLimits'
  <2>1. \A d \in Spending!Days : Late(ledger, d) # {} =>
          d \in budget' /\ \A u \in Steps : ~Spending!Holds(u, d)'
    BY <1>3, <1>4 DEF BudgetInv, WithinLimits
  <2> QED
    BY <2>1 DEF BudgetInv, WithinLimits, Spending!Days, Spending!ModelRuns
<1> QED
  BY <1>2, <1>5, <1>6, <1>7 DEF BudgetInv

\* A Step ends without a row of its own.
LEMMA StepRests ==
  ASSUME BudgetInv, NEW s \in Steps, NEW outcome \in {"queued", "done", "failed"},
         Spending!Ends(s, outcome), outcome = "queued" => work[s].attempt < MaxAttempts,
         UNCHANGED <<today, ledger, total>>,
         budget \subseteq budget', budget' \subseteq Spending!Days
  PROVE  BudgetInv'
<1>1. PICK w : w = [at |-> outcome, attempt |-> IF outcome = "queued" THEN work[s].attempt
                                              ELSE MaxAttempts]
  OBVIOUS
<1>2. /\ w \in StepShape /\ w.at \in {"queued", "done", "failed"}
      /\ w.at = "queued" => w.attempt < MaxAttempts
  BY <1>1, StepIs, BudgetAssumption DEF StepShape, RestingStep
<1>3. work' = [work EXCEPT ![s] = w]
  BY <1>1 DEF Spending!Ends, Spending!Goto
<1> QED
  BY <1>2, <1>3, StepMoves

LEMMA ClaimingKeeps ==
  ASSUME BudgetInv, NEW s \in Steps,
         Spending!Begin(s) \/ Spending!TodayBudget(s) \/ Spending!NoBudget(s)
         \/ Spending!InsertBudget(s)
  PROVE  BudgetInv'
<1>1. /\ UNCHANGED <<today, budget, ledger, total>> /\ budget \subseteq Spending!Days
      /\ today \in Spending!Days /\ work[s] \in StepShape /\ today \in Nat
  BY StepIs, DaysAreNumbers DEF BudgetInv, BudgetShape, Spending!Begin, Spending!TodayBudget,
     Spending!NoBudget, Spending!InsertBudget
<1>2. CASE Spending!Begin(s)
  <2>1. work[s].at = "queued" /\ work[s].attempt < MaxAttempts /\ work[s].attempt \in 0 .. MaxAttempts
    BY <1>2, StepIs DEF Spending!Begin, Spending!At, BudgetInv, BudgetShape
  <2>2. PICK w : w = [at |-> "begun", attempt |-> work[s].attempt + 1]
    OBVIOUS
  <2>3. w \in StepShape /\ w.at = "begun"
    BY <2>1, <2>2, BudgetAssumption DEF StepShape, BegunStep
  <2>4. \A u \in Steps \ {s} : RunOf[u] = RunOf[s] => ~Running(u)
    BY <1>2 DEF Spending!Begin, Running
  <2>5. work' = [work EXCEPT ![s] = w]
    BY <1>2, <2>2 DEF Spending!Begin, Spending!Goto
  <2> QED
    BY <1>1, <2>3, <2>4, <2>5, StepMoves
<1>3. ASSUME Running(s)
      PROVE  \A u \in Steps \ {s} : RunOf[u] = RunOf[s] => ~Running(u)
  BY <1>3 DEF BudgetInv, Holding
<1>4. CASE Spending!TodayBudget(s)
  <2>1. /\ work[s].at = "begun" /\ today \in budget
        /\ \A u \in Steps : ~Spending!Holds(u, today)
    BY <1>4 DEF Spending!TodayBudget, Spending!At, Spending!Held
  <2>2. PICK w : w = Spending!With(s, "budgeted", today, FALSE)
    OBVIOUS
  <2>3. /\ w \in StepShape /\ w.at = "budgeted" /\ w.day = today /\ Running(s)
    BY <1>1, <2>1, <2>2, StepIs DEF Spending!With, StepShape, HoldingStep, Running
  <2>4. Late(ledger, today) = {}
    BY <1>1 DEF BudgetInv, WithinLimits
  <2>5. work' = [work EXCEPT ![s] = w]
    BY <1>4, <2>2 DEF Spending!TodayBudget, Spending!Goto
  <2>6. /\ w.day <= today /\ w.day \in budget /\ Late(ledger, w.day) = {}
        /\ \A u \in Steps \ {s} : ~Spending!Holds(u, w.day)
        /\ \A u \in Steps \ {s} : RunOf[u] = RunOf[s] => ~Running(u)
    BY <1>1, <1>3, <2>1, <2>3, <2>4
  <2> QED
    BY <1>1, <2>3, <2>5, <2>6, StepMoves
<1>5. CASE Spending!NoBudget(s)
  <2>1. work[s].at = "begun"
    BY <1>5 DEF Spending!NoBudget, Spending!At
  <2>2. PICK w : w = Spending!With(s, "inserting", today, TRUE)
    OBVIOUS
  <2>3. /\ w \in StepShape /\ w.at = "inserting" /\ w.day = today /\ w.inserts /\ Running(s)
    BY <1>1, <2>1, <2>2, StepIs DEF Spending!With, StepShape, HoldingStep, Running
  <2>4. work' = [work EXCEPT ![s] = w]
    BY <1>5, <2>2 DEF Spending!NoBudget, Spending!Goto
  <2>5. /\ w.day <= today
        /\ \A u \in Steps \ {s} : RunOf[u] = RunOf[s] => ~Running(u)
    BY <1>1, <1>3, <2>3
  <2> QED
    BY <1>1, <2>3, <2>4, <2>5, StepMoves
<1>6. CASE Spending!InsertBudget(s)
  <2>1. /\ work[s].at = "inserting" /\ work[s].day \notin budget
        /\ \A u \in Steps : ~Spending!Holds(u, work[s].day)
    BY <1>6 DEF Spending!InsertBudget, Spending!At, Spending!Held
  <2>2. Running(s) /\ work[s].day \in Spending!Days /\ work[s].day <= today
    BY <2>1, StepIs DEF Running, Dated
  <2>3. PICK v \in HoldingStep : v = work[s]
    BY <1>1, <2>1 DEF StepShape, RestingStep, BegunStep, FailingStep
  <2>4. PICK w : w = [v EXCEPT !.at = "budgeted"]
    OBVIOUS
  <2>5. w \in StepShape /\ w.at = "budgeted" /\ w.day = v.day /\ w.inserts = v.inserts
    BY <2>3, <2>4 DEF StepShape, HoldingStep
  <2>6. Late(ledger, v.day) = {}
    BY <2>1, <2>2, <2>3 DEF BudgetInv, WithinLimits
  <2>7. work' = [work EXCEPT ![s] = w]
    BY <1>6, <2>3, <2>4 DEF Spending!InsertBudget, Spending!Goto
  <2>8. v.inserts
    BY <2>1, <2>3 DEF BudgetInv, Holding
  <2> QED
    BY <1>1, <1>3, <2>1, <2>2, <2>3, <2>5, <2>6, <2>7, <2>8, StepMoves
<1> QED
  BY <1>2, <1>4, <1>5, <1>6

LEMMA CheckingKeeps ==
  ASSUME BudgetInv, NEW s \in Steps,
         Spending!EnsureBudget(s)
         \/ \E k \in Spent, retriable \in BOOLEAN : Spending!CallFails(s, k, retriable)
  PROVE  BudgetInv'
<1>1. /\ UNCHANGED <<today, budget, ledger, total>> /\ budget \subseteq Spending!Days
      /\ today \in Spending!Days /\ work[s].at \in {"budgeted", "calling"}
      /\ work[s] \in StepShape
  BY StepIs DEF BudgetInv, BudgetShape, Spending!EnsureBudget, Spending!CallFails, Spending!At
<1>2. PICK v \in HoldingStep : v = work[s]
  BY <1>1 DEF StepShape, RestingStep, BegunStep, FailingStep
<1>3. v.day \in Spending!Days /\ v.day <= today /\ Running(s) /\ v.attempt \in 1 .. MaxAttempts
  BY <1>1, <1>2, StepIs DEF Running, Dated
<1>4. \A u \in Steps \ {s} : RunOf[u] = RunOf[s] => ~Running(u)
  BY <1>3 DEF BudgetInv, Holding
<1>5. CASE Spending!EnsureBudget(s)
  <2>1. PICK w : w = [v EXCEPT !.at = "calling"]
    OBVIOUS
  <2>2. w \in StepShape /\ w.at = "calling" /\ w.day = v.day /\ w.inserts = v.inserts
    BY <1>2, <2>1 DEF StepShape, HoldingStep
  <2>3. Spending!Holds(s, v.day)
    BY <1>1, <1>2 DEF Spending!Holds, Spending!Budgeted, Spending!At
  <2>4. \A u \in Steps \ {s} : ~Spending!Holds(u, v.day)
    BY <1>3, <2>3 DEF BudgetInv, Holding
  <2>5. Late(ledger, v.day) = {}
    BY <1>3, <2>3 DEF BudgetInv, WithinLimits
  <2>6. ~v.inserts => v.day \in budget
    BY <1>1, <1>2 DEF BudgetInv, Holding, Spending!Budgeted, Spending!At
  <2>7. Spending!UsedOn(today) + Projected <= DailyTokenLimit
        /\ total[RunOf[s]] + Projected <= RunTokenLimit
    BY <1>5 DEF Spending!EnsureBudget, Spending!WithinBudget
  <2>8. Spending!Booked(InTime(ledger, today)) + Projected <= DailyTokenLimit
    <3>1. PICK S : S = {x \in ledger : x.day = today}
      OBVIOUS
    <3>2. Rows(S) /\ InTime(ledger, today) \subseteq S
      BY <3>1, RowsOfLedger DEF InTime
    <3>3. /\ Spending!Booked(S) \in Nat /\ Spending!Booked(InTime(ledger, today)) \in Nat
          /\ Spending!Booked(InTime(ledger, today)) <= Spending!Booked(S)
      BY <3>2, BookedOfPart, BookedIsANumber
    <3>4. Spending!Booked(S) + Projected <= DailyTokenLimit
      BY <2>7, <3>1 DEF Spending!UsedOn
    <3> QED
      BY <3>3, <3>4, BudgetAssumption
  <2>9. work' = [work EXCEPT ![s] = w]
    BY <1>2, <1>5, <2>1 DEF Spending!EnsureBudget, Spending!Goto
  <2> QED
    BY <1>1, <1>3, <1>4, <2>2, <2>4, <2>5, <2>6, <2>7, <2>8, <2>9, StepMoves
<1>6. CASE \E k \in Spent, retriable \in BOOLEAN : Spending!CallFails(s, k, retriable)
  <2>1. PICK k \in Spent, retriable \in BOOLEAN : Spending!CallFails(s, k, retriable)
    BY <1>6
  <2>2. PICK w : w = [at |-> "failing", attempt |-> v.attempt, day |-> v.day,
                      tokens |-> k, retriable |-> retriable]
    OBVIOUS
  <2>3. w \in StepShape /\ w.at = "failing" /\ w.day = v.day
    BY <1>3, <2>2 DEF StepShape, FailingStep
  <2>4. total[RunOf[s]] + Projected <= RunTokenLimit
    BY <2>1 DEF Spending!CallFails, Spending!At, BudgetInv, Checked
  <2>5. work' = [work EXCEPT ![s] = w]
    BY <1>2, <2>1, <2>2 DEF Spending!CallFails, Spending!Goto
  <2> QED
    BY <1>1, <1>3, <1>4, <2>3, <2>4, <2>5, StepMoves
<1> QED
  BY <1>5, <1>6

\* A row is booked for a call that was let through.
LEMMA RowIsBooked ==
  ASSUME BudgetInv, NEW s \in Steps, work[s].at \in {"calling", "failing"},
         NEW outcome \in {"queued", "done", "failed"}, Spending!Ends(s, outcome),
         outcome = "queued" => work[s].attempt < MaxAttempts,
         NEW x \in Spending!LedgerRow, x.step = s, x.day = today, x.checked = work[s].day,
         x \notin ledger, ledger' = ledger \cup {x}, today' = today,
         total' = [total EXCEPT ![RunOf[s]] = @ + x.tokens],
         budget \subseteq budget', budget' \subseteq Spending!Days,
         x.attempt = 0 => work[s].at = "calling" /\ work[s].day \in budget'
  PROVE  BudgetInv'
<1>1. PICK k \in Spent : k = x.tokens
  BY DEF Spending!LedgerRow
<1>2. PICK r \in Spending!ModelRuns : r = RunOf[s]
  BY DEF Spending!ModelRuns
<1>3. k \in Nat /\ k <= Most /\ Most \in Nat /\ total[r] \in Nat
  BY <1>2, MostIsMost, BudgetAssumption DEF BudgetInv, BudgetShape
<1>4. /\ total' \in [Spending!ModelRuns -> Nat] /\ total'[r] = total[r] + k
      /\ \A q \in Spending!ModelRuns \ {r} : total'[q] = total[q]
  BY <1>1, <1>2, <1>3 DEF BudgetInv, BudgetShape
<1>5. PICK w : w = [at |-> outcome, attempt |-> IF outcome = "queued" THEN work[s].attempt
                                              ELSE MaxAttempts]
  OBVIOUS
<1>6. /\ w \in StepShape /\ w.at \in {"queued", "done", "failed"}
      /\ w.at = "queued" => w.attempt < MaxAttempts
  BY <1>5, StepIs, BudgetAssumption DEF StepShape, RestingStep
<1>7. /\ work' \in [Steps -> StepShape] /\ work'[s] = w
      /\ \A u \in Steps \ {s} : work'[u] = work[u]
  BY <1>5, <1>6 DEF BudgetInv, BudgetShape, Spending!Ends, Spending!Goto
<1>8. BudgetShape'
  <2>1. IsFiniteSet(ledger')
    BY FS_AddElement DEF BudgetInv, BudgetShape
  <2> QED
    BY <1>4, <1>6, <1>7, <2>1 DEF BudgetInv, BudgetShape
<1>9. \A u \in Steps : \A d : Spending!Holds(u, d)' => u # s /\ Spending!Holds(u, d)
  BY <1>6, <1>7 DEF Spending!Holds, Spending!Budgeted, Spending!At
<1>10. Holding'
  <2>1. \A u \in Steps : Dated(u)' => work'[u].day <= today'
    BY <1>6, <1>7 DEF BudgetInv, Holding, Dated
  <2>2. \A u, v \in Steps, d \in Spending!Days :
          Spending!Holds(u, d)' /\ Spending!Holds(v, d)' => u = v
    BY <1>9 DEF BudgetInv, Holding
  <2>3. \A u \in Steps : Spending!Budgeted(u)' /\ ~work'[u].inserts => work'[u].day \in budget'
    BY <1>6, <1>7 DEF BudgetInv, Holding, Spending!Budgeted, Spending!At
  <2>4. \A u, v \in Steps : u # v /\ RunOf[u] = RunOf[v] => ~(Running(u)' /\ Running(v)')
    BY <1>6, <1>7 DEF BudgetInv, Holding, Running
  <2>5. \A u \in Steps : work'[u].at = "inserting" => work'[u].inserts
    BY <1>6, <1>7 DEF BudgetInv, Holding
  <2> QED
    BY <2>1, <2>2, <2>3, <2>4, <2>5 DEF Holding, Spending!Days
<1>11. work[s].day \in Spending!Days /\ work[s].day <= today /\ Running(s)
  BY StepIs DEF Dated, Running
<1>12. work[s].at = "calling" => Spending!Holds(s, work[s].day)
  BY DEF Spending!Holds, Spending!Budgeted, Spending!At
<1>13. today \in Spending!Days /\ today \in Nat
  BY DaysAreNumbers DEF BudgetInv, BudgetShape
<1>14. Checked'
  <2>1. ASSUME NEW u \in Steps, work'[u].at = "calling", work'[u].day = today
        PROVE  Spending!Booked(InTime(ledger', today)) + Projected <= DailyTokenLimit
    <3>1. u # s /\ work[u].at = "calling" /\ work[u].day = today
      BY <1>6, <1>7, <2>1
    <3>2. Spending!Holds(u, today)
      BY <3>1 DEF Spending!Holds, Spending!Budgeted, Spending!At
    <3>3. ~Spending!Holds(s, today)
      BY <1>13, <3>1, <3>2 DEF BudgetInv, Holding
    <3>4. x \notin InTime(ledger', today)
      BY <1>12, <3>3 DEF InTime
    <3>5. InTime(ledger', today) = InTime(ledger, today)
      BY <3>4 DEF InTime
    <3> QED
      BY <3>1, <3>5 DEF BudgetInv, Checked
  <2>2. ASSUME NEW u \in Steps, work'[u].at \in {"calling", "failing"}
        PROVE  total'[RunOf[u]] + Projected <= RunTokenLimit
    <3>1. u # s /\ work[u].at \in {"calling", "failing"}
      BY <1>6, <1>7, <2>2
    <3>2. RunOf[u] # r /\ RunOf[u] \in Spending!ModelRuns
      BY <1>2, <1>11, <3>1 DEF BudgetInv, Holding, Running, Spending!ModelRuns
    <3> QED
      BY <1>4, <3>1, <3>2 DEF BudgetInv, Checked
  <2> QED
    BY <2>1, <2>2 DEF Checked
<1>15. ASSUME NEW S, S \subseteq ledger, NEW limit \in Nat,
              Spending!Booked(S) + Projected <= limit
       PROVE  /\ Spending!Booked(S \cup {x}) = Spending!Booked(S) + k
              /\ Spending!Limited(S \cup {x}, limit)
  <2>1. Rows(S) /\ x \notin S
    BY <1>15, RowsOfLedger
  <2>2. Spending!Booked(S \cup {x}) = Spending!Booked(S) + k /\ Spending!Booked(S) \in Nat
    BY <1>1, <1>3, <2>1, BookedOneMore, BookedIsANumber
  <2>3. Spending!Booked(S) + k <= limit - Projected + Most
    BY <1>3, <1>15, <2>2, BudgetAssumption
  <2> QED
    BY <2>2, <2>3 DEF Spending!Limited, Most
<1>16. \A d \in Spending!Days : Spending!Limited(InTime(ledger', d), DailyTokenLimit)
  <2> SUFFICES ASSUME NEW d \in Spending!Days
               PROVE  Spending!Limited(InTime(ledger', d), DailyTokenLimit)
    OBVIOUS
  <2>1. CASE x \in InTime(ledger', d)
    <3>1. d = today /\ work[s].at = "calling" /\ work[s].day = today
      BY <2>1 DEF InTime
    <3>2. Spending!Booked(InTime(ledger, d)) + Projected <= DailyTokenLimit
      BY <3>1 DEF BudgetInv, Checked
    <3>3. InTime(ledger', d) = InTime(ledger, d) \cup {x} /\ InTime(ledger, d) \subseteq ledger
      BY <2>1 DEF InTime
    <3> QED
      BY <1>15, <3>2, <3>3, BudgetAssumption, ZenonT(60)
  <2>2. CASE x \notin InTime(ledger', d)
    <3>1. InTime(ledger', d) = InTime(ledger, d)
      BY <2>2 DEF InTime
    <3> QED
      BY <3>1 DEF BudgetInv, WithinLimits
  <2> QED
    BY <2>1, <2>2
<1>17. \A d \in Spending!Days :
         /\ \A y, z \in Late(ledger', d) : y = z
         /\ Late(ledger', d) # {} =>
              d \in budget' /\ d < today /\ \A u \in Steps : ~Spending!Holds(u, d)'
  <2> SUFFICES ASSUME NEW d \in Spending!Days
               PROVE  /\ \A y, z \in Late(ledger', d) : y = z
                      /\ Late(ledger', d) # {} =>
                           d \in budget' /\ d < today /\ \A u \in Steps : ~Spending!Holds(u, d)'
    OBVIOUS
  <2>1. CASE x \in Late(ledger', d)
    <3>1. /\ d = work[s].day /\ d # today /\ work[s].at = "calling" /\ d \in budget'
          /\ Spending!Holds(s, d)
      BY <1>12, <2>1 DEF Late
    <3>2. Late(ledger, d) = {}
      BY <3>1 DEF BudgetInv, WithinLimits
    <3>3. Late(ledger', d) = {x}
      BY <2>1, <3>2 DEF Late
    <3>4. \A u \in Steps : ~Spending!Holds(u, d)'
      BY <1>9, <3>1 DEF BudgetInv, Holding
    <3>5. d < today
      BY <1>11, <1>13, <3>1, DaysAreNumbers
    <3> QED
      BY <3>1, <3>3, <3>4, <3>5
  <2>2. CASE x \notin Late(ledger', d)
    <3>1. Late(ledger', d) = Late(ledger, d)
      BY <2>2 DEF Late
    <3> QED
      BY <1>9, <3>1 DEF BudgetInv, WithinLimits
  <2> QED
    BY <2>1, <2>2
<1>18. \A q \in Spending!ModelRuns :
         /\ total'[q] = Spending!Booked(OfRun(ledger', q))
         /\ Spending!Limited(OfRun(ledger', q), RunTokenLimit)
  <2> SUFFICES ASSUME NEW q \in Spending!ModelRuns
               PROVE  /\ total'[q] = Spending!Booked(OfRun(ledger', q))
                      /\ Spending!Limited(OfRun(ledger', q), RunTokenLimit)
    OBVIOUS
  <2>1. CASE q = r
    <3>1. OfRun(ledger', q) = OfRun(ledger, q) \cup {x} /\ OfRun(ledger, q) \subseteq ledger
      BY <1>2, <2>1 DEF OfRun
    <3>2. total[q] = Spending!Booked(OfRun(ledger, q)) /\ total[q] + Projected <= RunTokenLimit
      BY <1>2, <2>1 DEF BudgetInv, WithinLimits, Checked
    <3>3. Spending!Booked(OfRun(ledger, q)) + Projected <= RunTokenLimit
      BY <3>2
    <3>4. /\ Spending!Booked(OfRun(ledger', q)) = Spending!Booked(OfRun(ledger, q)) + k
          /\ Spending!Limited(OfRun(ledger', q), RunTokenLimit)
      BY <1>15, <3>1, <3>3, BudgetAssumption, ZenonT(60)
    <3> QED
      BY <1>4, <2>1, <3>2, <3>4
  <2>2. CASE q # r
    <3>1. OfRun(ledger', q) = OfRun(ledger, q)
      BY <1>2, <2>2 DEF OfRun
    <3> QED
      BY <1>4, <2>2, <3>1 DEF BudgetInv, WithinLimits
  <2> QED
    BY <2>1, <2>2
<1>19. WithinLimits'
  BY <1>16, <1>17, <1>18 DEF WithinLimits, Spending!Days, Spending!ModelRuns
<1> QED
  BY <1>8, <1>10, <1>14, <1>19 DEF BudgetInv

LEMMA EndingKeeps ==
  ASSUME BudgetInv, NEW s \in Steps,
         Spending!BudgetTaken(s) \/ Spending!BudgetExceeded(s) \/ Spending!Dies(s)
  PROVE  BudgetInv'
<1>1. UNCHANGED <<today, budget, ledger, total>> /\ budget \subseteq Spending!Days
  BY DEF Spending!BudgetTaken, Spending!BudgetExceeded, Spending!Dies, BudgetInv, BudgetShape
<1>2. CASE Spending!BudgetTaken(s) \/ Spending!BudgetExceeded(s)
  BY <1>1, <1>2, StepRests DEF Spending!BudgetTaken, Spending!BudgetExceeded
<1>3. CASE Spending!Dies(s)
  <2>1. PICK outcome \in {"queued", "failed"} :
          Spending!Ends(s, outcome) /\ (outcome = "queued" => work[s].attempt < MaxAttempts)
    BY <1>3 DEF Spending!Dies
  <2> QED
    BY <1>1, <2>1, StepRests
<1> QED
  BY <1>2, <1>3

LEMMA FailKeeps ==
  ASSUME BudgetInv, NEW s \in Steps, Spending!FailStep(s)
  PROVE  BudgetInv'
<1>1. /\ UNCHANGED <<today, budget>> /\ budget \subseteq Spending!Days /\ work[s].at = "failing"
      /\ today \in Spending!Days /\ work[s] \in StepShape
  BY StepIs DEF Spending!FailStep, Spending!At, BudgetInv, BudgetShape
<1>2. work[s] \in FailingStep
  BY <1>1 DEF StepShape, RestingStep, BegunStep, HoldingStep
<1>3. PICK outcome \in {"queued", "failed"} :
        Spending!Ends(s, outcome) /\ (outcome = "queued" => work[s].attempt < MaxAttempts)
  BY DEF Spending!FailStep
<1>4. CASE UNCHANGED <<ledger, total>>
  BY <1>1, <1>3, <1>4, StepRests
<1>5. CASE ~UNCHANGED <<ledger, total>>
  <2>1. PICK x : x = [step |-> s, attempt |-> work[s].attempt, tokens |-> work[s].tokens,
                      day |-> today, checked |-> work[s].day]
    OBVIOUS
  <2>2. /\ ledger' = ledger \cup {x}
        /\ total' = [total EXCEPT ![RunOf[s]] = @ + x.tokens]
        /\ \A y \in ledger : ~(y.step = s /\ y.attempt = work[s].attempt)
    BY <1>5, <2>1 DEF Spending!FailStep, Spending!RecordUsage
  <2>3. x \in Spending!LedgerRow /\ x.attempt # 0
    BY <1>1, <1>2, <2>1, BudgetAssumption DEF FailingStep, Spending!LedgerRow
  <2>4. x \notin ledger /\ x.step = s /\ x.day = today /\ x.checked = work[s].day
    BY <2>1, <2>2
  <2> QED
    BY <1>1, <1>3, <2>2, <2>3, <2>4, RowIsBooked
<1> QED
  BY <1>4, <1>5

LEMMA SuccessKeeps ==
  ASSUME BudgetInv, NEW s \in Steps, NEW k \in Spent, Spending!CallSucceeds(s, k)
  PROVE  BudgetInv'
<1>1. /\ today' = today /\ today \in Spending!Days /\ work[s].at = "calling"
      /\ Spending!Ends(s, "done") /\ budget' = Spending!Committed(s)
  BY DEF Spending!CallSucceeds, Spending!At, BudgetInv, BudgetShape
<1>2. work[s].day \in Spending!Days
  BY <1>1, StepIs DEF Dated
<1>3. budget \subseteq budget' /\ budget' \subseteq Spending!Days
  BY <1>1, <1>2 DEF Spending!Committed, BudgetInv, BudgetShape
<1>4. work[s].day \in budget'
  <2>1. CASE work[s].inserts
    BY <1>1, <2>1 DEF Spending!Committed
  <2>2. CASE ~work[s].inserts
    BY <1>1, <1>3, <2>2 DEF BudgetInv, Holding, Spending!Budgeted, Spending!At
  <2> QED
    BY <2>1, <2>2
<1>5. CASE UNCHANGED <<ledger, total>>
  BY <1>1, <1>3, <1>5, StepRests
<1>6. CASE ~UNCHANGED <<ledger, total>>
  <2>1. PICK x : x = [step |-> s, attempt |-> 0, tokens |-> k, day |-> today,
                      checked |-> work[s].day]
    OBVIOUS
  <2>2. /\ ledger' = ledger \cup {x}
        /\ total' = [total EXCEPT ![RunOf[s]] = @ + x.tokens]
        /\ \A y \in ledger : ~(y.step = s /\ y.attempt = 0)
    BY <1>6, <2>1 DEF Spending!CallSucceeds, Spending!RecordUsage
  <2>3. x \in Spending!LedgerRow
    BY <1>1, <1>2, <2>1, BudgetAssumption DEF Spending!LedgerRow
  <2>4. x \notin ledger /\ x.step = s /\ x.day = today /\ x.checked = work[s].day
    BY <2>1, <2>2
  <2> QED
    BY <1>1, <1>3, <1>4, <2>2, <2>3, <2>4, RowIsBooked
<1> QED
  BY <1>5, <1>6

\* A day ends, or gets its budget.
LEMMA DayKeeps ==
  ASSUME BudgetInv, Spending!Midnight \/ Spending!CreateRun
  PROVE  BudgetInv'
<1>1. UNCHANGED <<ledger, total, work>>
  BY DEF Spending!Midnight, Spending!CreateRun
<1>2. today \in Spending!Days /\ today \in Nat /\ budget \subseteq Spending!Days
  BY DaysAreNumbers DEF BudgetInv, BudgetShape
<1>3. /\ today' \in Spending!Days /\ budget \subseteq budget' /\ budget' \subseteq Spending!Days
      /\ today' = today \/ today' = today + 1
  <2>1. CASE Spending!Midnight
    <3>1. today < LastDay /\ today' = today + 1 /\ budget' = budget
      BY <2>1 DEF Spending!Midnight
    <3>2. today + 1 \in Spending!Days
      BY <1>2, <3>1, BudgetAssumption DEF Spending!Days
    <3> QED
      BY <1>2, <3>1, <3>2
  <2>2. CASE Spending!CreateRun
    BY <1>2, <2>2 DEF Spending!CreateRun
  <2> QED
    BY <2>1, <2>2
<1>4. \A d \in Spending!Days : d <= today => d <= today' /\ (d = today' => d = today)
  BY <1>2, <1>3, DaysAreNumbers
<1>5. \A d \in Spending!Days : d < today => d < today'
  BY <1>2, <1>3, DaysAreNumbers
<1>6. BudgetShape'
  BY <1>1, <1>3 DEF BudgetInv, BudgetShape, Spending!Days, Spending!ModelRuns
<1>7. \A s \in Steps : Dated(s) => work[s].day \in Spending!Days /\ work[s].day <= today
  BY StepIs
<1>8. \A s \in Steps : \A d : Spending!Holds(s, d)' <=> Spending!Holds(s, d)
  BY <1>1 DEF Spending!Holds, Spending!Budgeted, Spending!At
<1>9. Holding'
  <2>1. \A u \in Steps : Dated(u)' => work'[u].day <= today'
    BY <1>1, <1>4, <1>7 DEF Dated
  <2>2. \A u, v \in Steps, d \in Spending!Days :
          Spending!Holds(u, d)' /\ Spending!Holds(v, d)' => u = v
    BY <1>8 DEF BudgetInv, Holding
  <2>3. \A u \in Steps : Spending!Budgeted(u)' /\ ~work'[u].inserts => work'[u].day \in budget'
    BY <1>1, <1>3 DEF BudgetInv, Holding, Spending!Budgeted, Spending!At
  <2>4. \A u, v \in Steps : u # v /\ RunOf[u] = RunOf[v] => ~(Running(u)' /\ Running(v)')
    BY <1>1 DEF BudgetInv, Holding, Running
  <2>5. \A u \in Steps : work'[u].at = "inserting" => work'[u].inserts
    BY <1>1 DEF BudgetInv, Holding
  <2> QED
    BY <2>1, <2>2, <2>3, <2>4, <2>5 DEF Holding, Spending!Days
<1>10. Checked'
  <2>1. \A s \in Steps : work[s].at = "calling" /\ work[s].day = today' => today' = today
    BY <1>4, <1>7 DEF Dated
  <2> QED
    BY <1>1, <2>1 DEF BudgetInv, Checked
<1>11. WithinLimits'
  <2>1. \A d \in Spending!Days : Late(ledger, d) # {} =>
          d \in budget' /\ d < today' /\ \A u \in Steps : ~Spending!Holds(u, d)'
    BY <1>3, <1>5, <1>8 DEF BudgetInv, WithinLimits
  <2> QED
    BY <1>1, <2>1 DEF BudgetInv, WithinLimits, Spending!Days, Spending!ModelRuns
<1> QED
  BY <1>6, <1>9, <1>10, <1>11 DEF BudgetInv

LEMMA BudgetBegins ==
  ASSUME Spending!Init
  PROVE  BudgetInv
<1>1. /\ today = 1 /\ budget = {} /\ ledger = {}
      /\ \A s \in Steps : work[s] = [at |-> "queued", attempt |-> 0]
      /\ \A r \in Spending!ModelRuns : total[r] = 0
  BY DEF Spending!Init
<1>2. BudgetShape
  <2>1. [at |-> "queued", attempt |-> 0] \in StepShape
    BY BudgetAssumption DEF StepShape, RestingStep
  <2>2. 1 \in Spending!Days
    BY BudgetAssumption DEF Spending!Days
  <2> QED
    BY <1>1, <2>1, <2>2, FS_EmptySet, BudgetAssumption DEF Spending!Init, BudgetShape
<1>3. Holding /\ Checked
  BY <1>1 DEF Holding, Checked, Dated, Running, Spending!Holds, Spending!Budgeted, Spending!At
<1>4. \A d : InTime(ledger, d) = {} /\ Late(ledger, d) = {} /\ OfRun(ledger, d) = {}
  BY <1>1 DEF InTime, Late, OfRun
<1>5. Spending!Booked({}) = 0
  BY BookedIsANumber, FS_EmptySet DEF Rows
<1>6. WithinLimits
  BY <1>1, <1>4, <1>5 DEF WithinLimits, Spending!Limited
<1> QED
  BY <1>2, <1>3, <1>6 DEF BudgetInv

LEMMA BudgetStays ==
  ASSUME BudgetInv, UNCHANGED budgetVars
  PROVE  BudgetInv'
BY DEF BudgetInv, BudgetShape, Holding, Checked, WithinLimits, Dated, Running, Spending!Holds,
   Spending!Budgeted, Spending!At, Spending!Days, Spending!ModelRuns, budgetVars

LEMMA BudgetInvariant == OperationsSpec => [](part = "spending" => BudgetInv)
<1> DEFINE Inv == part = "spending" => BudgetInv
<1>1. OperationsInit => Inv
  BY BudgetBegins DEF OperationsInit
<1>2. Inv /\ [OperationsNext]_operationsVars => Inv'
  <2> SUFFICES ASSUME Inv, [OperationsNext]_operationsVars
               PROVE  Inv'
    OBVIOUS
  <2>1. CASE SpendingStep
    <3>1. part' = part /\ part = "spending" /\ Spending!Next
      BY <2>1 DEF SpendingStep
    <3>2. BudgetInv'
      BY <3>1, ClaimingKeeps, CheckingKeeps, EndingKeeps, FailKeeps, SuccessKeeps, DayKeeps
         DEF Spending!Next
    <3> QED
      BY <3>2
  <2>2. CASE UNCHANGED operationsVars
    BY <2>2, BudgetStays DEF operationsVars
  <2>3. CASE BackupStep \/ DescriptionStep \/ TelemetryStep \/ AnswerStep \/ GateStep
             \/ AccessStep \/ KnowledgeStep
    BY <2>3, BudgetStays DEF BackupStep, DescriptionStep, TelemetryStep, AnswerStep,
       GateStep, AccessStep, KnowledgeStep
  <2> QED
    BY <2>1, <2>2, <2>3 DEF OperationsNext
<1> QED
  BY <1>1, <1>2, PTL DEF OperationsSpec

\* Overlapping Steps, failures and midnight: a budget is passed by one call at most
\* (app/agent_runs/service.py).
THEOREM SpendingStaysBounded == OperationsSpec => []SpendingBounded
<1>1. (part = "spending" => BudgetInv) => SpendingBounded
  <2> SUFFICES ASSUME BudgetInv
               PROVE  Spending!SpendingBounded
    BY DEF SpendingBounded
  <2>1. ASSUME NEW d \in Spending!Days
        PROVE  LET succeeded == {x \in ledger : x.checked = d /\ x.attempt = 0}
               IN  /\ Spending!Limited({x \in succeeded : x.day = d}, DailyTokenLimit)
                   /\ Spending!Cardinality({x \in succeeded : x.day # d}) <= 1
    <3>1. PICK succeeded : succeeded = {x \in ledger : x.checked = d /\ x.attempt = 0}
      OBVIOUS
    <3>2. {x \in succeeded : x.day = d} = InTime(ledger, d)
      BY <3>1 DEF InTime
    <3>3. {x \in succeeded : x.day # d} = Late(ledger, d)
      BY <3>1 DEF Late
    <3>4. Cardinality(Late(ledger, d)) <= 1
      <4>1. CASE Late(ledger, d) = {}
        BY <4>1, FS_EmptySet
      <4>2. CASE Late(ledger, d) # {}
        <5>1. PICK x \in Late(ledger, d) : TRUE
          BY <4>2
        <5>2. \A y, z \in Late(ledger, d) : y = z
          BY DEF BudgetInv, WithinLimits
        <5>3. Late(ledger, d) = {x}
          BY <5>1, <5>2
        <5> QED
          BY <5>3, FS_Singleton
      <4> QED
        BY <4>1, <4>2
    <3> QED
      BY <3>1, <3>2, <3>3, <3>4, SpendingCardinality DEF BudgetInv, WithinLimits
  <2>2. \A r \in Spending!ModelRuns :
          LET rows == {x \in ledger : RunOf[x.step] = r}
          IN  total[r] = Spending!Booked(rows) /\ Spending!Limited(rows, RunTokenLimit)
    BY DEF BudgetInv, WithinLimits, OfRun
  <2> QED
    BY <2>1, <2>2 DEF Spending!SpendingBounded
<1> QED
  BY <1>1, BudgetInvariant, PTL

-----------------------------------------------------------------------------
(* Creating Job Descriptions (JobDescriptions)                             *)
(*                                                                         *)
(* The token of a try is of no other, so a create completes only the row   *)
(* it claimed, and the description and the answer it keeps are one         *)
(* transaction.                                                            *)

VersionShape == [number : Nat, posting : Postings, read : Nat]
DescribedShape == [by : Nat, current : Nat, lock : Nat, versions : Seq(VersionShape)]
WorkShape ==
  [at : {"claiming", "reading", "claimed", "classifying"}, key : Keys, posting : Postings,
   create : Nat, try : {1, 2}, row : Nat]
SenderShape == {Descriptions!Idle, [at |-> "answered"]} \cup WorkShape

DescriptionsShape ==
  /\ described \in Seq(DescribedShape)
  /\ keyRow \in [Keys -> KeyRowShape \cup {NoKey}]
  /\ sender \in [Threads -> SenderShape]
  /\ claims \in [creates : Nat, rows : Nat]
  /\ told \subseteq [row : Nat, posting : Postings, response : ResponseShape]

\* Rows of the ledger are numbered as they are claimed.
Numbered ==
  /\ \A k \in Keys : keyRow[k] # NoKey => keyRow[k].id <= claims.rows
  /\ \A k, l \in Keys :
       keyRow[k] # NoKey /\ keyRow[l] # NoKey /\ keyRow[k].id = keyRow[l].id => k = l
  /\ \A c \in Threads : sender[c].at \in {"claimed", "classifying"} => sender[c].row <= claims.rows
  /\ \A answer \in told : answer.row <= claims.rows
  /\ \A d \in DOMAIN described : described[d].by <= claims.rows

\* What an answer says of its Job Description in rows
Truthful(rows, response, id, posting) ==
  LET d == response.description
  IN  /\ response.status = 201 =>
           /\ d \in DOMAIN rows
           /\ rows[d].by = id /\ rows[d].versions[1].posting = posting
      /\ response.status = 409 =>
           /\ d \in DOMAIN rows
           /\ \E v \in DOMAIN rows[d].versions :
                Descriptions!Same(rows[d].versions[v].posting, posting)

Versioned(d) == LET kept == described[d] IN
  /\ kept.current >= 1 /\ kept.current = Len(kept.versions) /\ kept.lock = kept.current - 1
  /\ \A v \in 1 .. kept.current :
       kept.versions[v].number = v /\ (v > 1 => kept.versions[v].read = v - 2)

\* Whoever answers from a row says what it says; whoever works on it has its request.
Answering ==
  /\ \A a, b \in told : a.row = b.row => a = b
  /\ \A answer \in told : Truthful(described, answer.response, answer.row, answer.posting)
  /\ \A answer \in told, k \in Keys :
       keyRow[k] # NoKey /\ keyRow[k].id = answer.row =>
         /\ keyRow[k].status = "completed"
         /\ keyRow[k].response = answer.response /\ keyRow[k].posting = answer.posting
  /\ \A k \in Keys : keyRow[k] # NoKey /\ keyRow[k].status = "completed" =>
       Truthful(described, keyRow[k].response, keyRow[k].id, keyRow[k].posting)

Owned(s, kept) ==
  /\ kept # NoKey /\ kept.id = s.row /\ kept.status = "processing"
  /\ kept.token = [create |-> s.create, try |-> s.try]

\* A row that s works on has its request.
Requested(s, kept) == kept # NoKey /\ kept.id = s.row => kept.posting = s.posting

Working ==
  /\ \A c \in Threads :
       /\ sender[c].at \in {"claimed", "classifying"} => Requested(sender[c], keyRow[sender[c].key])
       /\ sender[c].at = "classifying" => Owned(sender[c], keyRow[sender[c].key])
  /\ \A b, c \in Threads :
       /\ sender[b].at = "classifying" /\ sender[c].at = "classifying"
       /\ sender[b].key = sender[c].key
       => b = c

Describing ==
  /\ \A d, e \in DOMAIN described : d # e =>
       /\ described[d].by # described[e].by
       /\ ~Descriptions!Same(Descriptions!Current(d), Descriptions!Current(e))
  /\ \A k \in Keys, d \in DOMAIN described :
       keyRow[k] # NoKey /\ keyRow[k].id = described[d].by =>
         keyRow[k].status = "completed" /\ keyRow[k].response = Descriptions!Created(d)
  /\ \A d \in DOMAIN described : Versioned(d)

DescriptionsInv == DescriptionsShape /\ Numbered /\ Answering /\ Working /\ Describing

LEMMA WorkIs ==
  ASSUME DescriptionsInv, NEW c \in Threads
  PROVE  /\ sender[c] \in SenderShape
         /\ sender[c].at \in {"claiming", "reading", "claimed", "classifying"} =>
              sender[c] \in WorkShape
<1>1. PICK s \in SenderShape : s = sender[c]
  BY DEF DescriptionsInv, DescriptionsShape
<1>2. s.at \in {"claiming", "reading", "claimed", "classifying"} => s \in WorkShape
  BY DEF SenderShape, Descriptions!Idle
<1> QED
  BY <1>1, <1>2

LEMMA WorkGoesOn ==
  ASSUME NEW s \in WorkShape
  PROVE  /\ \A at \in {"claiming", "reading", "claimed", "classifying"} :
              [s EXCEPT !.at = at] \in WorkShape
         /\ \A id \in Nat : [s EXCEPT !.at = "claimed", !.row = id] \in WorkShape
         /\ [s EXCEPT !.at = "claiming", !.try = 2, !.row = 0] \in WorkShape
BY DEF WorkShape

LEMMA KeyRowIs ==
  ASSUME DescriptionsInv, NEW k \in Keys, keyRow[k] # NoKey
  PROVE  keyRow[k] \in KeyRowShape
BY DEF DescriptionsInv, DescriptionsShape

LEMMA DescribedIs ==
  ASSUME DescriptionsInv, NEW d \in DOMAIN described
  PROVE  /\ described[d] \in DescribedShape /\ d \in Nat
         /\ described[d].versions \in Seq(VersionShape)
         /\ described[d].current = Len(described[d].versions)
         /\ described[d].current \in Nat /\ described[d].current >= 1
         /\ DOMAIN described[d].versions = 1 .. described[d].current
<1>1. described \in Seq(DescribedShape)
  BY DEF DescriptionsInv, DescriptionsShape
<1>2. described[d] \in DescribedShape /\ d \in Nat
  BY <1>1
<1>3. described[d].versions \in Seq(VersionShape) /\ described[d].current \in Nat
  BY <1>2 DEF DescribedShape
<1>4. described[d].current >= 1 /\ described[d].current = Len(described[d].versions)
  BY DEF DescriptionsInv, Describing, Versioned
<1> QED
  BY <1>2, <1>3, <1>4

\* The rows of job_descriptions keep what answers say of them.
Grows(rows) ==
  /\ DOMAIN described \subseteq DOMAIN rows
  /\ \A d \in DOMAIN described :
       /\ rows[d].by = described[d].by
       /\ DOMAIN described[d].versions \subseteq DOMAIN rows[d].versions
       /\ \A v \in DOMAIN described[d].versions : rows[d].versions[v] = described[d].versions[v]

LEMMA TruthStays ==
  ASSUME DescriptionsInv, Grows(described'), NEW response, NEW id, NEW posting,
         Truthful(described, response, id, posting)
  PROVE  Truthful(described', response, id, posting)
<1> DEFINE d == response.description
<1>1. ASSUME d \in DOMAIN described
      PROVE  /\ d \in DOMAIN described'
             /\ described'[d].by = described[d].by
             /\ described'[d].versions[1] = described[d].versions[1]
             /\ \A v \in DOMAIN described[d].versions :
                  /\ v \in DOMAIN described'[d].versions
                  /\ described'[d].versions[v] = described[d].versions[v]
  <2>1. 1 \in DOMAIN described[d].versions
    BY <1>1, DescribedIs
  <2> QED
    BY <1>1, <2>1 DEF Grows
<1>2. response.status = 201 =>
        /\ d \in DOMAIN described'
        /\ described'[d].by = id /\ described'[d].versions[1].posting = posting
  BY <1>1 DEF Truthful
<1>3. response.status = 409 =>
        /\ d \in DOMAIN described'
        /\ \E v \in DOMAIN described'[d].versions :
             Descriptions!Same(described'[d].versions[v].posting, posting)
  <2>1. SUFFICES ASSUME response.status = 409
                 PROVE  /\ d \in DOMAIN described'
                        /\ \E v \in DOMAIN described'[d].versions :
                             Descriptions!Same(described'[d].versions[v].posting, posting)
    OBVIOUS
  <2>2. PICK v \in DOMAIN described[d].versions :
          d \in DOMAIN described /\ Descriptions!Same(described[d].versions[v].posting, posting)
    BY <2>1 DEF Truthful
  <2> QED
    BY <1>1, <2>2
<1> QED
  BY <1>2, <1>3 DEF Truthful

LEMMA NothingGrows ==
  ASSUME UNCHANGED described
  PROVE  Grows(described')
BY DEF Grows

\* Senders work on, and one of them is elsewhere.
LEMMA WorkMoves ==
  ASSUME DescriptionsInv, NEW c \in Threads, NEW r,
         sender' = [sender EXCEPT ![c] = r],
         \A b \in Threads \ {c} :
           /\ sender[b].at \in {"claimed", "classifying"} =>
                Requested(sender[b], keyRow'[sender[b].key])
           /\ sender[b].at = "classifying" => Owned(sender[b], keyRow'[sender[b].key]),
         r.at \in {"claimed", "classifying"} => Requested(r, keyRow'[r.key]),
         r.at = "classifying" =>
           /\ Owned(r, keyRow'[r.key])
           /\ \A b \in Threads \ {c} : sender[b].at = "classifying" => sender[b].key # r.key
  PROVE  Working'
<1>1. sender'[c] = r /\ \A b \in Threads \ {c} : sender'[b] = sender[b]
  BY DEF DescriptionsInv, DescriptionsShape
<1>2. \A b \in Threads :
        /\ sender'[b].at \in {"claimed", "classifying"} =>
             Requested(sender'[b], keyRow'[sender'[b].key])
        /\ sender'[b].at = "classifying" => Owned(sender'[b], keyRow'[sender'[b].key])
  BY <1>1
<1>3. \A b1, b2 \in Threads :
        /\ sender'[b1].at = "classifying" /\ sender'[b2].at = "classifying"
        /\ sender'[b1].key = sender'[b2].key
        => b1 = b2
  BY <1>1 DEF DescriptionsInv, Working
<1> QED
  BY <1>2, <1>3 DEF Working, Owned, Requested

LEMMA OthersWork ==
  ASSUME DescriptionsInv, keyRow' = keyRow
  PROVE  \A b \in Threads :
           /\ sender[b].at \in {"claimed", "classifying"} =>
                Requested(sender[b], keyRow'[sender[b].key])
           /\ sender[b].at = "classifying" => Owned(sender[b], keyRow'[sender[b].key])
BY DEF DescriptionsInv, Working

\* A sender goes on, and nothing else changes.
LEMMA SenderMoves ==
  ASSUME DescriptionsInv, NEW c \in Threads, NEW r \in SenderShape,
         sender' = [sender EXCEPT ![c] = r], UNCHANGED <<described, keyRow, told>>,
         claims' \in [creates : Nat, rows : Nat], claims'.rows = claims.rows,
         r.at \in {"claimed", "classifying"} =>
           r.row <= claims.rows /\ Requested(r, keyRow[r.key]),
         r.at = "classifying" =>
           /\ Owned(r, keyRow[r.key])
           /\ \A b \in Threads \ {c} : sender[b].at = "classifying" => sender[b].key # r.key
  PROVE  DescriptionsInv'
<1>1. DescriptionsShape'
  BY DEF DescriptionsInv, DescriptionsShape
<1>2. sender'[c] = r /\ \A b \in Threads \ {c} : sender'[b] = sender[b]
  BY DEF DescriptionsInv, DescriptionsShape
<1>3. Numbered'
  BY <1>2 DEF DescriptionsInv, Numbered
<1>4. Answering'
  BY SMTT(60) DEF DescriptionsInv, Answering, Truthful
<1>5. Working'
  BY OthersWork, WorkMoves
<1>6. Describing'
  BY DEF DescriptionsInv, Describing, Versioned, Descriptions!Current
<1> QED
  BY <1>1, <1>3, <1>4, <1>5, <1>6 DEF DescriptionsInv

LEMMA StandsStill ==
  ASSUME DescriptionsInv
  PROVE  claims \in [creates : Nat, rows : Nat]
BY DEF DescriptionsInv, DescriptionsShape

LEMMA SendKeeps ==
  ASSUME DescriptionsInv, NEW c \in Threads, Descriptions!Send(c)
  PROVE  DescriptionsInv'
<1>1. PICK k \in Keys, p \in Postings :
        sender' = [sender EXCEPT ![c] =
          [at |-> "claiming", key |-> k, posting |-> p, create |-> claims.creates + 1,
           try |-> 1, row |-> 0]]
  BY DEF Descriptions!Send, Descriptions!Goto
<1>2. claims.creates \in Nat /\ claims.rows \in Nat
  BY StandsStill
<1>3. PICK r : r = [at |-> "claiming", key |-> k, posting |-> p, create |-> claims.creates + 1,
                    try |-> 1, row |-> 0]
  OBVIOUS
<1>4. r \in SenderShape /\ r.at = "claiming"
  BY <1>2, <1>3 DEF SenderShape, WorkShape
<1>5. UNCHANGED <<described, keyRow, told>> /\ claims' = [claims EXCEPT !.creates = @ + 1]
  BY DEF Descriptions!Send
<1>6. claims' \in [creates : Nat, rows : Nat] /\ claims'.rows = claims.rows
  BY <1>2, <1>5, StandsStill
<1> QED
  BY <1>1, <1>3, <1>4, <1>5, <1>6, SenderMoves

\* A sender that neither works on a row nor begins to
LEMMA LeavingKeeps ==
  ASSUME DescriptionsInv, NEW c \in Threads, NEW r \in SenderShape,
         sender' = [sender EXCEPT ![c] = r], r.at \notin {"claimed", "classifying"},
         UNCHANGED <<described, keyRow, claims, told>>
  PROVE  DescriptionsInv'
BY StandsStill, SenderMoves

LEMMA IdleOrAnswered ==
  /\ Descriptions!Idle \in SenderShape
  /\ Descriptions!Idle.at \notin {"claimed", "classifying"}
  /\ [at |-> "answered"] \in SenderShape
  /\ [at |-> "answered"].at \notin {"claimed", "classifying"}
BY DEF SenderShape, Descriptions!Idle

LEMMA QuietStepsKeep ==
  ASSUME DescriptionsInv, NEW c \in Threads,
         \/ Descriptions!KeyConflict(c) \/ Descriptions!ClaimRefused(c)
         \/ Descriptions!ClassifyFails(c) \/ Descriptions!OwnershipLost(c) \/ Descriptions!Dies(c)
  PROVE  DescriptionsInv'
<1>1. CASE Descriptions!KeyConflict(c)
  <2>1. sender[c] \in WorkShape
    BY <1>1, WorkIs DEF Descriptions!KeyConflict, Descriptions!At
  <2>2. PICK r : r = [sender[c] EXCEPT !.at = "reading"]
    OBVIOUS
  <2>3. r \in SenderShape /\ r.at = "reading"
    BY <2>1, <2>2 DEF SenderShape, WorkShape
  <2> QED
    BY <1>1, <2>2, <2>3, LeavingKeeps DEF Descriptions!KeyConflict, Descriptions!Goto
<1>2. CASE Descriptions!ClaimRefused(c)
  BY <1>2, IdleOrAnswered, LeavingKeeps
     DEF Descriptions!ClaimRefused, Descriptions!Answered, Descriptions!Goto
<1>3. CASE Descriptions!ClassifyFails(c)
  BY <1>3, IdleOrAnswered, LeavingKeeps
     DEF Descriptions!ClassifyFails, Descriptions!Answered, Descriptions!Goto
<1>4. CASE Descriptions!OwnershipLost(c)
  <2>1. sender[c] \in WorkShape
    BY <1>4, WorkIs DEF Descriptions!OwnershipLost, Descriptions!At
  <2>2. PICK r : r = [sender[c] EXCEPT !.at = "claiming", !.try = 2, !.row = 0]
    OBVIOUS
  <2>3. r \in SenderShape /\ r.at = "claiming"
    BY <2>1, <2>2 DEF SenderShape, WorkShape
  <2>4. UNCHANGED <<described, keyRow, claims, told>>
    BY <1>4 DEF Descriptions!OwnershipLost
  <2>5. CASE sender' = [sender EXCEPT ![c] = r]
    BY <2>3, <2>4, <2>5, LeavingKeeps
  <2>6. CASE sender' = [sender EXCEPT ![c] = [at |-> "answered"]]
    BY <2>4, <2>6, IdleOrAnswered, LeavingKeeps
  <2> QED
    BY <1>4, <2>2, <2>5, <2>6
       DEF Descriptions!OwnershipLost, Descriptions!Answered, Descriptions!Goto
<1>5. CASE Descriptions!Dies(c)
  BY <1>5, IdleOrAnswered, LeavingKeeps DEF Descriptions!Dies, Descriptions!Goto
<1> QED
  BY <1>1, <1>2, <1>3, <1>4, <1>5

\* The INSERT found a duplicate: the row it claimed stays locked, and its own.
LEMMA ConflictKeeps ==
  ASSUME DescriptionsInv, NEW c \in Threads, Descriptions!FinalizeConflict(c)
  PROVE  DescriptionsInv'
<1> DEFINE s == sender[c]
<1>1. s \in WorkShape /\ s.at = "claimed"
  BY WorkIs DEF Descriptions!FinalizeConflict, Descriptions!Finalizes, Descriptions!At
<1>2. Owned(s, keyRow[s.key]) /\ Requested(s, keyRow[s.key]) /\ s.row <= claims.rows
  BY <1>1 DEF Descriptions!FinalizeConflict, Descriptions!Finalizes, Descriptions!Owns,
     Descriptions!Token, Owned, DescriptionsInv, Working, Numbered
<1>3. \A b \in Threads : sender[b].at = "classifying" => sender[b].key # s.key
  <2> SUFFICES ASSUME NEW b \in Threads, sender[b].at = "classifying", sender[b].key = s.key
               PROVE  FALSE
    OBVIOUS
  <2>1. sender[b].row = s.row
    BY <1>2 DEF DescriptionsInv, Working, Owned
  <2> QED
    BY <2>1 DEF Descriptions!FinalizeConflict, Descriptions!Finalizes, Descriptions!Locked,
       Descriptions!At
<1>4. PICK r : r = [s EXCEPT !.at = "classifying"]
  OBVIOUS
<1>5. /\ r \in SenderShape /\ r.at = "classifying" /\ r.key = s.key /\ r.row = s.row
      /\ r.create = s.create /\ r.try = s.try /\ r.posting = s.posting
  BY <1>1, <1>4 DEF SenderShape, WorkShape
<1>6. sender' = [sender EXCEPT ![c] = r] /\ UNCHANGED <<described, keyRow, claims, told>>
  BY <1>4 DEF Descriptions!FinalizeConflict, Descriptions!Goto
<1>7. Owned(r, keyRow[r.key]) /\ Requested(r, keyRow[r.key])
  BY <1>2, <1>5 DEF Owned, Requested
<1> HIDE DEF s
<1> QED
  BY <1>2, <1>3, <1>5, <1>6, <1>7, StandsStill, SenderMoves

\* A response of the ledger is told to whoever sent its request.
LEMMA TellingAnswers ==
  ASSUME DescriptionsInv, Grows(described'), NEW x,
         told' = told \cup {x}, keyRow' \in [Keys -> KeyRowShape \cup {NoKey}],
         Truthful(described', x.response, x.row, x.posting),
         \A answer \in told : answer.row = x.row => answer = x,
         \A k \in Keys : keyRow'[k] # NoKey /\ keyRow'[k].id = x.row =>
           /\ keyRow'[k].status = "completed"
           /\ keyRow'[k].response = x.response /\ keyRow'[k].posting = x.posting,
         \A k \in Keys : keyRow'[k] # NoKey /\ keyRow'[k].id # x.row => keyRow'[k] = keyRow[k]
  PROVE  Answering'
<1>1. \A a, b \in told' : a.row = b.row => a = b
  BY DEF DescriptionsInv, Answering
<1>2. \A answer \in told' : Truthful(described', answer.response, answer.row, answer.posting)
  BY TruthStays DEF DescriptionsInv, Answering
<1>3. \A answer \in told', k \in Keys :
        keyRow'[k] # NoKey /\ keyRow'[k].id = answer.row =>
          /\ keyRow'[k].status = "completed"
          /\ keyRow'[k].response = answer.response /\ keyRow'[k].posting = answer.posting
  <2> SUFFICES ASSUME NEW answer \in told', NEW k \in Keys,
                      keyRow'[k] # NoKey, keyRow'[k].id = answer.row
               PROVE  /\ keyRow'[k].status = "completed"
                      /\ keyRow'[k].response = answer.response
                      /\ keyRow'[k].posting = answer.posting
    OBVIOUS
  <2>1. CASE keyRow'[k].id = x.row
    BY <2>1
  <2>2. CASE keyRow'[k].id # x.row
    BY <2>2 DEF DescriptionsInv, Answering
  <2> QED
    BY <2>1, <2>2
<1>4. \A k \in Keys : keyRow'[k] # NoKey /\ keyRow'[k].status = "completed" =>
        Truthful(described', keyRow'[k].response, keyRow'[k].id, keyRow'[k].posting)
  <2> SUFFICES ASSUME NEW k \in Keys, keyRow'[k] # NoKey, keyRow'[k].status = "completed"
               PROVE  Truthful(described', keyRow'[k].response, keyRow'[k].id, keyRow'[k].posting)
    OBVIOUS
  <2>1. CASE keyRow'[k].id = x.row
    BY <2>1
  <2>2. CASE keyRow'[k].id # x.row
    <3>1. Truthful(described, keyRow[k].response, keyRow[k].id, keyRow[k].posting)
      BY <2>2 DEF DescriptionsInv, Answering
    <3> QED
      BY <2>2, <3>1, TruthStays
  <2> QED
    BY <2>1, <2>2
<1>5. QED
  BY <1>1, <1>2, <1>3, <1>4 DEF Answering

LEMMA ReplayKeeps ==
  ASSUME DescriptionsInv, NEW c \in Threads, Descriptions!Replay(c)
  PROVE  DescriptionsInv'
<1> DEFINE s == sender[c]
           kept == keyRow[s.key]
<1>1. s \in WorkShape
  BY WorkIs DEF Descriptions!Replay, Descriptions!Reads, Descriptions!At
<1>2. s.key \in Keys /\ s.posting \in Postings
  BY <1>1 DEF WorkShape
<1>3. kept # NoKey /\ kept.posting = s.posting /\ kept.status = "completed"
  BY DEF Descriptions!Replay, Descriptions!SameRequest
<1>4. kept \in KeyRowShape
  BY <1>2, <1>3, KeyRowIs
<1>5. PICK x : x = [row |-> kept.id, posting |-> s.posting, response |-> kept.response]
  OBVIOUS
<1>6. /\ told' = told \cup {x} /\ sender' = [sender EXCEPT ![c] = [at |-> "answered"]]
      /\ UNCHANGED <<described, keyRow, claims>>
  BY <1>5 DEF Descriptions!Replay, Descriptions!Tell, Descriptions!Answered, Descriptions!Goto
<1>7. x \in [row : Nat, posting : Postings, response : ResponseShape]
  BY <1>2, <1>4, <1>5 DEF KeyRowShape
<1>8. \A answer \in told : answer.row = x.row => answer = x
  <2>1. \A answer \in told : answer.row = kept.id =>
          answer.response = kept.response /\ answer.posting = kept.posting
    BY <1>2, <1>3 DEF DescriptionsInv, Answering
  <2>2. \A answer \in told : answer \in [row : Nat, posting : Postings, response : ResponseShape]
    BY DEF DescriptionsInv, DescriptionsShape
  <2> HIDE DEF kept, s
  <2> QED
    BY <1>3, <1>5, <1>7, <2>1, <2>2
<1>9. Answering'
  <2>1. Truthful(described', x.response, x.row, x.posting)
    <3>1. Truthful(described, kept.response, kept.id, kept.posting)
      BY <1>2, <1>3 DEF DescriptionsInv, Answering
    <3> QED
      BY <1>3, <1>5, <1>6, <3>1, NothingGrows, TruthStays
  <2>2. \A k \in Keys : keyRow[k] # NoKey /\ keyRow[k].id = x.row => k = s.key
    BY <1>2, <1>3, <1>5 DEF DescriptionsInv, Numbered
  <2>3. \A k \in Keys : keyRow'[k] # NoKey /\ keyRow'[k].id = x.row =>
          /\ keyRow'[k].status = "completed"
          /\ keyRow'[k].response = x.response /\ keyRow'[k].posting = x.posting
    BY <1>3, <1>5, <1>6, <2>2
  <2>4. keyRow' \in [Keys -> KeyRowShape \cup {NoKey}]
    BY <1>6 DEF DescriptionsInv, DescriptionsShape
  <2> QED
    BY <1>6, <1>8, <2>1, <2>3, <2>4, NothingGrows, TellingAnswers
<1>10. DescriptionsShape'
  BY <1>6, <1>7, IdleOrAnswered DEF DescriptionsInv, DescriptionsShape
<1>11. Numbered'
  <2>1. x.row <= claims.rows
    BY <1>2, <1>3, <1>5 DEF DescriptionsInv, Numbered
  <2>2. sender'[c] = [at |-> "answered"] /\ \A b \in Threads \ {c} : sender'[b] = sender[b]
    BY <1>6 DEF DescriptionsInv, DescriptionsShape
  <2> QED
    BY <1>6, <2>1, <2>2 DEF DescriptionsInv, Numbered
<1>12. Working'
  BY <1>6, OthersWork, WorkMoves
<1>13. Describing'
  BY <1>6 DEF DescriptionsInv, Describing, Versioned, Descriptions!Current
<1> QED
  BY <1>9, <1>10, <1>11, <1>12, <1>13 DEF DescriptionsInv

LEMMA ClaimKeeps ==
  ASSUME DescriptionsInv, NEW c \in Threads, Descriptions!Claim(c)
  PROVE  DescriptionsInv'
<1> DEFINE s == sender[c]
<1>1. s \in WorkShape
  BY WorkIs DEF Descriptions!Claim, Descriptions!At
<1>2. /\ s.key \in Keys /\ s.posting \in Postings /\ s.create \in Nat /\ s.try \in {1, 2}
      /\ keyRow[s.key] = NoKey
  BY <1>1 DEF WorkShape, Descriptions!Claim
<1>3. claims.rows \in Nat /\ claims.creates \in Nat
  BY StandsStill
<1>4. PICK id \in Nat : id = claims.rows + 1
  BY <1>3
<1>5. PICK n : n = [id |-> id, posting |-> s.posting, status |-> "processing",
                    token |-> [create |-> s.create, try |-> s.try], live |-> TRUE, kept |-> TRUE,
                    response |-> Descriptions!Unstored]
  OBVIOUS
<1>6. n \in KeyRowShape /\ n # NoKey
  <2>1. Descriptions!Unstored \in ResponseShape
    BY DEF ResponseShape, Descriptions!Unstored
  <2>2. n \in KeyRowShape
    BY <1>2, <1>5, <2>1 DEF KeyRowShape
  <2> QED
    BY <2>2, DescriptionsAssumption
<1>7. PICK r : r = [s EXCEPT !.at = "claimed", !.row = id]
  OBVIOUS
<1>8. /\ r \in SenderShape /\ r.at = "claimed" /\ r.key = s.key /\ r.row = id
      /\ r.create = s.create /\ r.try = s.try /\ r.posting = s.posting
  BY <1>1, <1>7 DEF SenderShape, WorkShape
<1>9. /\ keyRow' = [keyRow EXCEPT ![s.key] = n] /\ claims' = [claims EXCEPT !.rows = @ + 1]
      /\ sender' = [sender EXCEPT ![c] = r] /\ UNCHANGED <<described, told>>
  BY <1>4, <1>5, <1>7 DEF Descriptions!Claim, Descriptions!Keep, Descriptions!Claimed,
     Descriptions!Goto, Descriptions!Token
<1> HIDE DEF s
<1>10. claims' \in [creates : Nat, rows : Nat] /\ claims'.rows = id
  BY <1>3, <1>4, <1>9, StandsStill
<1>11. DescriptionsShape'
  BY <1>2, <1>6, <1>8, <1>9, <1>10 DEF DescriptionsInv, DescriptionsShape
<1>12. /\ keyRow'[s.key] = n /\ \A k \in Keys \ {s.key} : keyRow'[k] = keyRow[k]
       /\ sender'[c] = r /\ \A b \in Threads \ {c} : sender'[b] = sender[b]
  BY <1>2, <1>9 DEF DescriptionsInv, DescriptionsShape
<1>13. n.id = id /\ n.status = "processing" /\ n.posting = s.posting
       /\ n.token = [create |-> s.create, try |-> s.try]
  BY <1>5
<1>14. \A k \in Keys : keyRow[k] # NoKey => keyRow[k].id <= claims.rows /\ keyRow[k].id \in Nat
  BY KeyRowIs DEF DescriptionsInv, Numbered, KeyRowShape
<1>15. \A answer \in told : answer.row <= claims.rows /\ answer.row \in Nat
  BY DEF DescriptionsInv, Numbered, DescriptionsShape
<1>16. \A d \in DOMAIN described : described[d].by <= claims.rows /\ described[d].by \in Nat
  BY DescribedIs DEF DescriptionsInv, Numbered, DescribedShape
<1>17. \A b \in Threads : sender[b].at \in {"claimed", "classifying"} =>
         sender[b].row <= claims.rows /\ sender[b].row \in Nat /\ sender[b].key \in Keys
  BY WorkIs DEF DescriptionsInv, Numbered, WorkShape
<1>18. Numbered'
  BY <1>3, <1>4, <1>8, <1>9, <1>10, <1>12, <1>13, <1>14, <1>15, <1>16, <1>17
     DEF DescriptionsInv, Numbered
<1>19. Answering'
  <2>1. \A answer \in told', k \in Keys :
          keyRow'[k] # NoKey /\ keyRow'[k].id = answer.row =>
            /\ keyRow'[k].status = "completed"
            /\ keyRow'[k].response = answer.response /\ keyRow'[k].posting = answer.posting
    BY <1>3, <1>4, <1>9, <1>12, <1>13, <1>15 DEF DescriptionsInv, Answering
  <2>2. \A k \in Keys : keyRow'[k] # NoKey /\ keyRow'[k].status = "completed" =>
          Truthful(described', keyRow'[k].response, keyRow'[k].id, keyRow'[k].posting)
    BY <1>9, <1>12, <1>13, NothingGrows, TruthStays DEF DescriptionsInv, Answering
  <2>3. \A answer \in told' : Truthful(described', answer.response, answer.row, answer.posting)
    BY <1>9, NothingGrows, TruthStays DEF DescriptionsInv, Answering
  <2>4. \A a, b \in told' : a.row = b.row => a = b
    BY <1>9 DEF DescriptionsInv, Answering
  <2> QED
    BY <2>1, <2>2, <2>3, <2>4 DEF Answering
<1>20. Working'
  <2>1. \A b \in Threads \ {c} :
          /\ sender[b].at \in {"claimed", "classifying"} =>
               Requested(sender[b], keyRow'[sender[b].key])
          /\ sender[b].at = "classifying" => Owned(sender[b], keyRow'[sender[b].key])
    <3> SUFFICES ASSUME NEW b \in Threads \ {c}, sender[b].at \in {"claimed", "classifying"}
                 PROVE  /\ Requested(sender[b], keyRow'[sender[b].key])
                        /\ sender[b].at = "classifying" => Owned(sender[b], keyRow'[sender[b].key])
      OBVIOUS
    <3>1. /\ Requested(sender[b], keyRow[sender[b].key])
          /\ sender[b].at = "classifying" => Owned(sender[b], keyRow[sender[b].key])
      BY DEF DescriptionsInv, Working
    <3>2. CASE sender[b].key = s.key
      BY <1>2, <1>3, <1>4, <1>12, <1>13, <1>17, <3>1, <3>2 DEF Owned, Requested
    <3>3. CASE sender[b].key # s.key
      BY <1>12, <1>17, <3>1, <3>3
    <3> QED
      BY <3>2, <3>3
  <2>2. Requested(r, keyRow'[r.key])
    BY <1>8, <1>12, <1>13 DEF Requested
  <2> QED
    BY <1>8, <1>9, <2>1, <2>2, WorkMoves
<1>21. Describing'
  <2>1. \A k \in Keys, d \in DOMAIN described' :
          keyRow'[k] # NoKey /\ keyRow'[k].id = described'[d].by =>
            keyRow'[k].status = "completed" /\ keyRow'[k].response = Descriptions!Created(d)
    BY <1>3, <1>4, <1>9, <1>12, <1>13, <1>16 DEF DescriptionsInv, Describing
  <2> QED
    BY <1>9, <2>1 DEF DescriptionsInv, Describing, Versioned, Descriptions!Current
<1> QED
  BY <1>11, <1>18, <1>19, <1>20, <1>21 DEF DescriptionsInv

\* A row of the ledger that is worked on stays so, or changes as it is kept.
SameRow(n, kept) ==
  /\ n # NoKey /\ n.id = kept.id /\ n.posting = kept.posting /\ n.status = kept.status
  /\ n.response = kept.response

LEMMA RowChanges ==
  ASSUME DescriptionsInv, UNCHANGED <<described, told, claims>>,
         keyRow' \in [Keys -> KeyRowShape \cup {NoKey}],
         \A k \in Keys : keyRow'[k] # NoKey => keyRow[k] # NoKey /\ SameRow(keyRow'[k], keyRow[k]),
         sender' \in [Threads -> SenderShape],
         \A c \in Threads : sender'[c].at \in {"claimed", "classifying"} =>
           sender'[c].row <= claims.rows,
         Working'
  PROVE  DescriptionsInv'
<1>1. DescriptionsShape'
  BY DEF DescriptionsInv, DescriptionsShape
<1>2. Numbered'
  BY DEF DescriptionsInv, Numbered, SameRow
<1>3. Answering'
  <2>1. \A k \in Keys : keyRow'[k] # NoKey /\ keyRow'[k].status = "completed" =>
          Truthful(described', keyRow'[k].response, keyRow'[k].id, keyRow'[k].posting)
    BY NothingGrows, TruthStays DEF DescriptionsInv, Answering, SameRow
  <2>2. \A answer \in told' : Truthful(described', answer.response, answer.row, answer.posting)
    BY NothingGrows, TruthStays DEF DescriptionsInv, Answering
  <2>3. \A answer \in told', k \in Keys :
          keyRow'[k] # NoKey /\ keyRow'[k].id = answer.row =>
            /\ keyRow'[k].status = "completed"
            /\ keyRow'[k].response = answer.response /\ keyRow'[k].posting = answer.posting
    BY DEF DescriptionsInv, Answering, SameRow
  <2>4. \A a, b \in told' : a.row = b.row => a = b
    BY DEF DescriptionsInv, Answering
  <2> QED
    BY <2>1, <2>2, <2>3, <2>4 DEF Answering
<1>4. Describing'
  <2>1. \A k \in Keys, d \in DOMAIN described' :
          keyRow'[k] # NoKey /\ keyRow'[k].id = described'[d].by =>
            keyRow'[k].status = "completed" /\ keyRow'[k].response = Descriptions!Created(d)
    BY DEF DescriptionsInv, Describing, SameRow
  <2> QED
    BY <2>1 DEF DescriptionsInv, Describing, Versioned, Descriptions!Current
<1> QED
  BY <1>1, <1>2, <1>3, <1>4 DEF DescriptionsInv

LEMMA TakeOverKeeps ==
  ASSUME DescriptionsInv, NEW c \in Threads, Descriptions!TakeOver(c)
  PROVE  DescriptionsInv'
<1> DEFINE s == sender[c]
           kept == keyRow[s.key]
<1>1. s \in WorkShape
  BY WorkIs DEF Descriptions!TakeOver, Descriptions!Reads, Descriptions!At
<1>2. /\ s.key \in Keys /\ s.posting \in Postings /\ s.create \in Nat /\ s.try \in {1, 2}
      /\ kept # NoKey /\ kept.posting = s.posting /\ kept.status = "processing"
  BY <1>1 DEF WorkShape, Descriptions!TakeOver, Descriptions!SameRequest
<1>3. kept \in KeyRowShape
  BY <1>2, KeyRowIs
<1>4. PICK token : token = [create |-> s.create, try |-> s.try]
  OBVIOUS
<1>5. PICK n : n = [kept EXCEPT !.token = token, !.live = TRUE]
  OBVIOUS
<1>6. PICK id : id = kept.id
  OBVIOUS
<1>7. PICK r : r = [s EXCEPT !.at = "claimed", !.row = id]
  OBVIOUS
<1>8. /\ keyRow' = [keyRow EXCEPT ![s.key] = n] /\ sender' = [sender EXCEPT ![c] = r]
      /\ UNCHANGED <<described, told, claims>>
  BY <1>4, <1>5, <1>6, <1>7 DEF Descriptions!TakeOver, Descriptions!Keep,
     Descriptions!Claimed, Descriptions!Goto, Descriptions!Token
<1>9. \A b \in Threads : ~(sender[b].at = "classifying" /\ sender[b].row = id)
  BY <1>2, <1>6 DEF Descriptions!TakeOver, Descriptions!Reads, Descriptions!Locked, Descriptions!At
<1>10. id \in Nat /\ id <= claims.rows
  BY <1>2, <1>3, <1>6 DEF KeyRowShape, DescriptionsInv, Numbered
<1>11. kept = keyRow[s.key]
  OBVIOUS
<1> HIDE DEF kept
<1>12. n \in KeyRowShape /\ n # NoKey /\ SameRow(n, kept) /\ n.id = id
  <2>1. n \in KeyRowShape /\ n.id = kept.id /\ n.posting = kept.posting /\ n.status = kept.status
        /\ n.response = kept.response
    BY <1>2, <1>3, <1>4, <1>5 DEF KeyRowShape
  <2> QED
    BY <1>6, <2>1, DescriptionsAssumption DEF SameRow
<1>13. /\ r \in SenderShape /\ r.at = "claimed" /\ r.key = s.key /\ r.row = id
       /\ r.posting = s.posting
  BY <1>1, <1>7, <1>10 DEF SenderShape, WorkShape
<1> HIDE DEF s
<1>14. /\ keyRow'[s.key] = n /\ \A k \in Keys \ {s.key} : keyRow'[k] = keyRow[k]
       /\ sender'[c] = r /\ \A b \in Threads \ {c} : sender'[b] = sender[b]
  BY <1>2, <1>8 DEF DescriptionsInv, DescriptionsShape
<1>15. keyRow' \in [Keys -> KeyRowShape \cup {NoKey}] /\ sender' \in [Threads -> SenderShape]
  BY <1>2, <1>8, <1>12, <1>13 DEF DescriptionsInv, DescriptionsShape
<1>16. \A k \in Keys : keyRow'[k] # NoKey => keyRow[k] # NoKey /\ SameRow(keyRow'[k], keyRow[k])
  BY <1>2, <1>11, <1>12, <1>14 DEF SameRow
<1>17. Working'
  <2>1. \A b \in Threads \ {c} :
          /\ sender[b].at \in {"claimed", "classifying"} =>
               Requested(sender[b], keyRow'[sender[b].key])
          /\ sender[b].at = "classifying" => Owned(sender[b], keyRow'[sender[b].key])
    <3> SUFFICES ASSUME NEW b \in Threads \ {c}, sender[b].at \in {"claimed", "classifying"}
                 PROVE  /\ Requested(sender[b], keyRow'[sender[b].key])
                        /\ sender[b].at = "classifying" => Owned(sender[b], keyRow'[sender[b].key])
      OBVIOUS
    <3>1. /\ Requested(sender[b], keyRow[sender[b].key])
          /\ sender[b].at = "classifying" => Owned(sender[b], keyRow[sender[b].key])
          /\ sender[b].key \in Keys
      BY WorkIs DEF DescriptionsInv, Working, WorkShape
    <3>2. CASE sender[b].key = s.key
      BY <1>2, <1>6, <1>9, <1>11, <1>12, <1>14, <3>1, <3>2 DEF Owned, Requested, SameRow
    <3>3. CASE sender[b].key # s.key
      BY <1>14, <3>1, <3>3
    <3> QED
      BY <3>2, <3>3
  <2>2. Requested(r, keyRow'[r.key])
    BY <1>2, <1>12, <1>13, <1>14 DEF Requested, SameRow
  <2> QED
    BY <1>8, <1>13, <2>1, <2>2, WorkMoves
<1>18. \A b \in Threads : sender'[b].at \in {"claimed", "classifying"} =>
         sender'[b].row <= claims.rows
  BY <1>10, <1>13, <1>14 DEF DescriptionsInv, Numbered
<1> QED
  BY <1>8, <1>15, <1>16, <1>17, <1>18, RowChanges

\* Nothing was created for a row that is worked on.
LEMMA NothingCreated ==
  ASSUME DescriptionsInv, NEW c \in Threads, sender[c].key \in Keys,
         Owned(sender[c], keyRow[sender[c].key])
  PROVE  /\ \A d \in DOMAIN described : described[d].by # sender[c].row
         /\ \A answer \in told : answer.row # sender[c].row
         /\ \A k \in Keys : keyRow[k] # NoKey /\ keyRow[k].id = sender[c].row => k = sender[c].key
<1>1. \A d \in DOMAIN described : described[d].by # sender[c].row
  BY DEF DescriptionsInv, Describing, Owned
<1>2. \A answer \in told : answer.row # sender[c].row
  BY DEF DescriptionsInv, Answering, Owned
<1>3. \A k \in Keys : keyRow[k] # NoKey /\ keyRow[k].id = sender[c].row => k = sender[c].key
  BY DEF DescriptionsInv, Numbered, Owned
<1> QED
  BY <1>1, <1>2, <1>3

\* Whoever finalizes owns its row, and nobody has it locked.
LEMMA FinalizerOwns ==
  ASSUME DescriptionsInv, NEW c \in Threads,
         Descriptions!Finalizes(c) \/ Descriptions!At(c, "classifying")
  PROVE  /\ sender[c] \in WorkShape /\ sender[c].at \in {"claimed", "classifying"}
         /\ Owned(sender[c], keyRow[sender[c].key])
         /\ keyRow[sender[c].key].posting = sender[c].posting
         /\ sender[c].row <= claims.rows
         /\ \A b \in Threads \ {c} : sender[b].at = "classifying" => sender[b].key # sender[c].key
<1>1. sender[c].at \in {"claimed", "classifying"}
  BY DEF Descriptions!Finalizes, Descriptions!At
<1>2. sender[c] \in WorkShape
  BY <1>1, WorkIs
<1>3. Owned(sender[c], keyRow[sender[c].key])
  BY DEF Descriptions!Finalizes, Descriptions!Owns, Descriptions!Token, Descriptions!At, Owned,
     DescriptionsInv, Working
<1>4. keyRow[sender[c].key].posting = sender[c].posting /\ sender[c].row <= claims.rows
  BY <1>1, <1>3 DEF DescriptionsInv, Working, Numbered, Requested, Owned
<1>5. \A b \in Threads \ {c} : sender[b].at = "classifying" => sender[b].key # sender[c].key
  <2> SUFFICES ASSUME NEW b \in Threads \ {c}, sender[b].at = "classifying",
                      sender[b].key = sender[c].key
               PROVE  FALSE
    OBVIOUS
  <2>1. sender[b].row = sender[c].row
    BY <1>3 DEF DescriptionsInv, Working, Owned
  <2>2. CASE Descriptions!Finalizes(c)
    BY <2>1, <2>2 DEF Descriptions!Finalizes, Descriptions!Locked, Descriptions!At
  <2>3. CASE Descriptions!At(c, "classifying")
    BY <2>3 DEF DescriptionsInv, Working, Descriptions!At
  <2> QED
    BY <2>2, <2>3
<1> QED
  BY <1>1, <1>2, <1>3, <1>4, <1>5

\* What complete writes
Completes(c, n, x, response) ==
  /\ n \in KeyRowShape /\ n # NoKey
  /\ n.id = sender[c].row /\ n.status = "completed" /\ n.response = response
  /\ n.posting = sender[c].posting
  /\ x = [row |-> sender[c].row, posting |-> sender[c].posting, response |-> response]
  /\ keyRow' = [keyRow EXCEPT ![sender[c].key] = n] /\ told' = told \cup {x}
  /\ sender' = [sender EXCEPT ![c] = [at |-> "answered"]]
  /\ keyRow'[sender[c].key] = n
  /\ \A k \in Keys \ {sender[c].key} : keyRow'[k] = keyRow[k]

LEMMA CompleteWrites ==
  ASSUME DescriptionsInv, NEW c \in Threads,
         Descriptions!Finalizes(c) \/ Descriptions!At(c, "classifying"),
         NEW response \in ResponseShape, Descriptions!Complete(c, response)
  PROVE  \E n, x : Completes(c, n, x, response)
<1> DEFINE s == sender[c]
           kept == keyRow[s.key]
<1>1. s.key \in Keys /\ kept # NoKey /\ kept.id = s.row /\ kept.posting = s.posting
  BY FinalizerOwns DEF WorkShape, Owned
<1>2. kept \in KeyRowShape
  BY <1>1, KeyRowIs
<1>3. PICK n : n = [kept EXCEPT !.status = "completed", !.kept = TRUE, !.response = response]
  OBVIOUS
<1>4. PICK x : x = [row |-> s.row, posting |-> s.posting, response |-> response]
  OBVIOUS
<1>5. /\ keyRow' = [keyRow EXCEPT ![s.key] = n] /\ told' = told \cup {x}
      /\ sender' = [sender EXCEPT ![c] = [at |-> "answered"]]
  BY <1>3, <1>4 DEF Descriptions!Complete, Descriptions!Keep, Descriptions!Tell,
     Descriptions!Answered, Descriptions!Goto
<1>6. /\ keyRow'[s.key] = n /\ \A k \in Keys \ {s.key} : keyRow'[k] = keyRow[k]
  BY <1>1, <1>5 DEF DescriptionsInv, DescriptionsShape
<1> HIDE DEF kept
<1>7. n \in KeyRowShape /\ n.id = kept.id /\ n.posting = kept.posting
      /\ n.status = "completed" /\ n.response = response
  BY <1>2, <1>3 DEF KeyRowShape
<1> QED
  BY <1>1, <1>4, <1>5, <1>6, <1>7, DescriptionsAssumption DEF Completes

\* A claim is finalized, and described may have grown by what it created.
LEMMA CompleteKeeps ==
  ASSUME DescriptionsInv, NEW c \in Threads,
         Descriptions!Finalizes(c) \/ Descriptions!At(c, "classifying"),
         NEW response \in ResponseShape, NEW n, NEW x, Completes(c, n, x, response),
         claims' = claims, described' \in Seq(DescribedShape), Grows(described'),
         \A d \in DOMAIN described' \ DOMAIN described : described'[d].by = sender[c].row,
         Truthful(described', response, sender[c].row, sender[c].posting),
         Describing'
  PROVE  DescriptionsInv'
<1>1. /\ sender[c] \in WorkShape /\ sender[c].key \in Keys /\ sender[c].posting \in Postings
      /\ sender[c].row \in Nat /\ sender[c].row <= claims.rows
      /\ Owned(sender[c], keyRow[sender[c].key])
      /\ \A b \in Threads \ {c} : sender[b].at = "classifying" => sender[b].key # sender[c].key
  BY FinalizerOwns DEF WorkShape
<1>2. DescriptionsShape'
  BY <1>1, IdleOrAnswered DEF DescriptionsInv, DescriptionsShape, Completes
<1>3. sender'[c] = [at |-> "answered"] /\ \A b \in Threads \ {c} : sender'[b] = sender[b]
  BY DEF DescriptionsInv, DescriptionsShape, Completes
<1>4. Numbered'
  <2>1. \A k \in Keys : keyRow'[k] # NoKey => keyRow[k] # NoKey /\ keyRow'[k].id = keyRow[k].id
    BY <1>1 DEF Completes, Owned
  <2>2. \A d \in DOMAIN described' : described'[d].by <= claims.rows
    BY <1>1 DEF Grows, DescriptionsInv, Numbered
  <2>3. \A answer \in told' : answer.row <= claims.rows
    BY <1>1 DEF Completes, DescriptionsInv, Numbered
  <2> QED
    BY <1>3, <2>1, <2>2, <2>3 DEF DescriptionsInv, Numbered
<1>5. Answering'
  <2>1. \A k \in Keys : keyRow'[k] # NoKey /\ keyRow'[k].id = x.row => k = sender[c].key
    BY <1>1, NothingCreated DEF Completes
  <2>2. \A answer \in told : answer.row # x.row
    BY <1>1, NothingCreated DEF Completes
  <2>3. Truthful(described', x.response, x.row, x.posting)
    BY DEF Completes
  <2>4. \A k \in Keys : keyRow'[k] # NoKey /\ keyRow'[k].id = x.row =>
          /\ keyRow'[k].status = "completed"
          /\ keyRow'[k].response = x.response /\ keyRow'[k].posting = x.posting
    BY <2>1 DEF Completes
  <2>5. \A k \in Keys : keyRow'[k] # NoKey /\ keyRow'[k].id # x.row => keyRow'[k] = keyRow[k]
    BY DEF Completes
  <2>6. keyRow' \in [Keys -> KeyRowShape \cup {NoKey}] /\ told' = told \cup {x}
    BY <1>2 DEF DescriptionsShape, Completes
  <2> QED
    BY <2>2, <2>3, <2>4, <2>5, <2>6, TellingAnswers
<1>6. Working'
  <2>1. \A b \in Threads \ {c} :
          /\ sender[b].at \in {"claimed", "classifying"} =>
               Requested(sender[b], keyRow'[sender[b].key])
          /\ sender[b].at = "classifying" => Owned(sender[b], keyRow'[sender[b].key])
    <3> SUFFICES ASSUME NEW b \in Threads \ {c}, sender[b].at \in {"claimed", "classifying"}
                 PROVE  /\ Requested(sender[b], keyRow'[sender[b].key])
                        /\ sender[b].at = "classifying" => Owned(sender[b], keyRow'[sender[b].key])
      OBVIOUS
    <3>1. /\ Requested(sender[b], keyRow[sender[b].key])
          /\ sender[b].at = "classifying" => Owned(sender[b], keyRow[sender[b].key])
          /\ sender[b].key \in Keys
      BY WorkIs DEF DescriptionsInv, Working, WorkShape
    <3>2. CASE sender[b].key = sender[c].key
      <4>1. /\ keyRow[sender[c].key] # NoKey /\ keyRow[sender[c].key].id = sender[c].row
            /\ keyRow[sender[c].key].posting = sender[c].posting
        BY <1>1, FinalizerOwns DEF Owned
      <4> QED
        BY <1>1, <3>1, <3>2, <4>1 DEF Completes, Requested
    <3>3. CASE sender[b].key # sender[c].key
      BY <3>1, <3>3 DEF Completes
    <3> QED
      BY <3>2, <3>3
  <2> QED
    BY <2>1, WorkMoves DEF Completes
<1> QED
  BY <1>2, <1>4, <1>5, <1>6 DEF DescriptionsInv

\* A claim is finalized without a Job Description of its own.
LEMMA NoMoreDescribed ==
  ASSUME DescriptionsInv, NEW c \in Threads,
         Descriptions!Finalizes(c) \/ Descriptions!At(c, "classifying"),
         NEW response, NEW n, NEW x, Completes(c, n, x, response), described' = described
  PROVE  Describing'
<1>1. sender[c].key \in Keys /\ Owned(sender[c], keyRow[sender[c].key])
  BY FinalizerOwns DEF WorkShape
<1>2. \A k \in Keys, d \in DOMAIN described :
        keyRow'[k] # NoKey /\ keyRow'[k].id = described[d].by =>
          keyRow'[k].status = "completed" /\ keyRow'[k].response = Descriptions!Created(d)
  BY <1>1, NothingCreated DEF Completes, DescriptionsInv, Describing
<1> QED
  BY <1>2 DEF DescriptionsInv, Describing, Versioned, Descriptions!Current

LEMMA TooLargeKeeps ==
  ASSUME DescriptionsInv, NEW c \in Threads, Descriptions!FinalizeTooLarge(c)
  PROVE  DescriptionsInv'
<1>1. PICK response : response = Descriptions!TooLarge
  OBVIOUS
<1>2. response \in ResponseShape /\ response.status = 500
  BY <1>1 DEF ResponseShape, Descriptions!TooLarge
<1>3. /\ Descriptions!Finalizes(c) /\ Descriptions!Complete(c, response)
      /\ UNCHANGED <<described, claims>>
  BY <1>1 DEF Descriptions!FinalizeTooLarge
<1>4. PICK n, x : Completes(c, n, x, response)
  BY <1>2, <1>3, CompleteWrites
<1>5. Truthful(described', response, sender[c].row, sender[c].posting)
  BY <1>2 DEF Truthful
<1>6. Describing'
  BY <1>3, <1>4, NoMoreDescribed
<1>7. described' \in Seq(DescribedShape) /\ Grows(described')
  BY <1>3, NothingGrows DEF DescriptionsInv, DescriptionsShape
<1> QED
  BY <1>2, <1>3, <1>4, <1>5, <1>6, <1>7, CompleteKeeps

LEMMA ClassifyKeeps ==
  ASSUME DescriptionsInv, NEW c \in Threads, Descriptions!Classify(c)
  PROVE  DescriptionsInv'
<1>1. PICK d \in DOMAIN described :
        /\ Descriptions!Same(sender[c].posting, Descriptions!Current(d))
        /\ Descriptions!Complete(c, Descriptions!Exists(d))
  BY DEF Descriptions!Classify, Descriptions!Duplicates
<1>2. PICK response : response = Descriptions!Exists(d)
  OBVIOUS
<1>3. response \in ResponseShape /\ response.status = 409 /\ response.description = d
  BY <1>2, DescribedIs DEF ResponseShape, Descriptions!Exists
<1>4. Descriptions!At(c, "classifying") /\ UNCHANGED <<described, claims>>
  BY DEF Descriptions!Classify
<1>5. PICK n, x : Completes(c, n, x, response)
  BY <1>1, <1>2, <1>3, <1>4, CompleteWrites
<1>6. Truthful(described', response, sender[c].row, sender[c].posting)
  <2>1. described[d].current \in DOMAIN described[d].versions
    BY DescribedIs
  <2>2. Descriptions!Same(described[d].versions[described[d].current].posting, sender[c].posting)
    BY <1>1 DEF Descriptions!Same, Descriptions!Current
  <2> QED
    BY <1>3, <1>4, <2>1, <2>2 DEF Truthful
<1>7. Describing'
  BY <1>4, <1>5, NoMoreDescribed
<1>8. described' \in Seq(DescribedShape) /\ Grows(described')
  BY <1>4, NothingGrows DEF DescriptionsInv, DescriptionsShape
<1> QED
  BY <1>3, <1>4, <1>5, <1>6, <1>7, <1>8, CompleteKeeps

LEMMA CreateKeeps ==
  ASSUME DescriptionsInv, NEW c \in Threads, Descriptions!FinalizeCreates(c)
  PROVE  DescriptionsInv'
<1> DEFINE s == sender[c]
<1>1. described \in Seq(DescribedShape) /\ Len(described) \in Nat
      /\ DOMAIN described = 1 .. Len(described)
  BY DEF DescriptionsInv, DescriptionsShape
<1>2. PICK last \in Nat : last = Len(described) + 1
  BY <1>1
<1>3. PICK response : response = Descriptions!Created(last)
  OBVIOUS
<1>4. response \in ResponseShape /\ response.status = 201 /\ response.description = last
  BY <1>3 DEF ResponseShape, Descriptions!Created
<1>5. /\ Descriptions!Finalizes(c) /\ Descriptions!Complete(c, response) /\ claims' = claims
      /\ \A d \in DOMAIN described : ~Descriptions!Same(s.posting, Descriptions!Current(d))
  BY <1>2, <1>3 DEF Descriptions!FinalizeCreates, Descriptions!Duplicates
<1>6. PICK n, x : Completes(c, n, x, response)
  BY <1>4, <1>5, CompleteWrites
<1>7. s.posting \in Postings /\ s.row \in Nat /\ s.key \in Keys /\ Owned(s, keyRow[s.key])
  BY <1>5, FinalizerOwns DEF WorkShape
<1>8. PICK version : version = [number |-> 1, posting |-> s.posting, read |-> 0]
  OBVIOUS
<1>9. PICK versions : versions = <<version>>
  OBVIOUS
<1>10. PICK new : new = [by |-> s.row, current |-> 1, lock |-> 0, versions |-> versions]
  OBVIOUS
<1>11. described' = Append(described, new)
  BY <1>8, <1>9, <1>10 DEF Descriptions!FinalizeCreates
<1>12. /\ version \in VersionShape /\ version.posting = s.posting /\ version.number = 1
       /\ versions \in Seq(VersionShape) /\ Len(versions) = 1 /\ versions[1] = version
  BY <1>7, <1>8, <1>9 DEF VersionShape
<1>13. /\ new \in DescribedShape /\ new.by = s.row /\ new.current = 1 /\ new.lock = 0
       /\ new.versions = versions
  BY <1>7, <1>10, <1>12 DEF DescribedShape
<1>14. /\ described' \in Seq(DescribedShape) /\ Len(described') = last
       /\ DOMAIN described' = 1 .. last /\ described'[last] = new
       /\ \A d \in DOMAIN described : d \in DOMAIN described' /\ described'[d] = described[d]
       /\ DOMAIN described' \ DOMAIN described = {last}
  BY <1>1, <1>2, <1>11, <1>13
<1>15. Grows(described')
  BY <1>14 DEF Grows
<1>16. Truthful(described', response, s.row, s.posting)
  BY <1>1, <1>4, <1>12, <1>13, <1>14 DEF Truthful
<1> HIDE DEF s
<1>17. Describing'
  <2>1. \A d \in DOMAIN described : described[d].by # s.row
    BY <1>7, NothingCreated DEF s
  <2>2. \A d \in DOMAIN described : Descriptions!Current(d)' = Descriptions!Current(d)
    BY <1>14 DEF Descriptions!Current
  <2>3. Descriptions!Current(last)' = s.posting
    BY <1>12, <1>13, <1>14, Zenon DEF Descriptions!Current
  <2>4. \A d, e \in DOMAIN described' : d # e =>
          /\ described'[d].by # described'[e].by
          /\ ~Descriptions!Same(Descriptions!Current(d)', Descriptions!Current(e)')
    <3> SUFFICES ASSUME NEW d \in DOMAIN described', NEW e \in DOMAIN described', d # e
                 PROVE  /\ described'[d].by # described'[e].by
                        /\ ~Descriptions!Same(Descriptions!Current(d)', Descriptions!Current(e)')
      OBVIOUS
    <3>1. CASE d \in DOMAIN described /\ e \in DOMAIN described
      BY <1>14, <2>2, <3>1 DEF DescriptionsInv, Describing
    <3>2. CASE d = last /\ e \in DOMAIN described
      BY <1>5, <1>13, <1>14, <2>1, <2>2, <2>3, <3>2
    <3>3. CASE e = last /\ d \in DOMAIN described
      <4>1. ~Descriptions!Same(Descriptions!Current(d), s.posting)
        BY <1>5, <3>3 DEF Descriptions!Same
      <4> QED
        BY <1>13, <1>14, <2>1, <2>2, <2>3, <3>3, <4>1
    <3> QED
      BY <1>14, <3>1, <3>2, <3>3
  <2>5. \A k \in Keys, d \in DOMAIN described' :
          keyRow'[k] # NoKey /\ keyRow'[k].id = described'[d].by =>
            keyRow'[k].status = "completed" /\ keyRow'[k].response = Descriptions!Created(d)
    <3> SUFFICES ASSUME NEW k \in Keys, NEW d \in DOMAIN described',
                        keyRow'[k] # NoKey, keyRow'[k].id = described'[d].by
                 PROVE  /\ keyRow'[k].status = "completed"
                        /\ keyRow'[k].response = Descriptions!Created(d)
      OBVIOUS
    <3>1. CASE d \in DOMAIN described
      <4>1. keyRow'[k] = keyRow[k]
        BY <1>6, <1>14, <2>1, <3>1 DEF Completes, s
      <4> QED
        BY <1>14, <3>1, <4>1 DEF DescriptionsInv, Describing
    <3>2. CASE d = last
      <4>1. k = s.key
        BY <1>6, <1>7, <1>13, <1>14, <3>2, NothingCreated DEF Completes, s
      <4> QED
        BY <1>3, <1>6, <3>2, <4>1 DEF Completes, s
    <3> QED
      BY <1>14, <3>1, <3>2
  <2>6. \A d \in DOMAIN described' : Versioned(d)'
    <3> SUFFICES ASSUME NEW d \in DOMAIN described'
                 PROVE  Versioned(d)'
      OBVIOUS
    <3>1. CASE d \in DOMAIN described
      BY <1>14, <3>1 DEF DescriptionsInv, Describing, Versioned
    <3>2. CASE d = last
      <4>1. /\ described'[d].current = 1 /\ described'[d].lock = 0
            /\ described'[d].versions = versions /\ 1 = Len(versions)
        BY <1>12, <1>13, <1>14, <3>2
      <4>2. \A v \in 1 .. 1 : versions[v].number = v /\ (v > 1 => versions[v].read = v - 2)
        <5>1. \A v \in 1 .. 1 : v = 1
          OBVIOUS
        <5> QED
          BY <1>12, <5>1
      <4> QED
        BY <4>1, <4>2 DEF Versioned
    <3> QED
      BY <1>14, <3>1, <3>2
  <2> QED
    BY <2>4, <2>5, <2>6 DEF Describing, Descriptions!Current
<1> QED
  BY <1>4, <1>5, <1>6, <1>13, <1>14, <1>15, <1>16, <1>17, CompleteKeeps DEF s

LEMMA CleanupKeeps ==
  ASSUME DescriptionsInv, NEW c \in Threads, Descriptions!Cleanup(c)
  PROVE  DescriptionsInv'
<1>1. /\ sender' = [sender EXCEPT ![c] = Descriptions!Idle]
      /\ keyRow' = [k \in Keys |->
           IF keyRow[k] # NoKey /\ keyRow[k].status = "completed" /\ ~keyRow[k].kept
           THEN NoKey ELSE keyRow[k]]
      /\ UNCHANGED <<described, claims, told>>
  BY DEF Descriptions!Cleanup, Descriptions!Goto
<1>2. keyRow' \in [Keys -> KeyRowShape \cup {NoKey}] /\ sender' \in [Threads -> SenderShape]
  BY <1>1, IdleOrAnswered DEF DescriptionsInv, DescriptionsShape
<1>3. \A k \in Keys : \/ keyRow'[k] = keyRow[k]
                      \/ keyRow'[k] = NoKey /\ keyRow[k].status = "completed"
  BY <1>1
<1>4. \A k \in Keys : keyRow'[k] # NoKey => keyRow[k] # NoKey /\ SameRow(keyRow'[k], keyRow[k])
  BY <1>3 DEF SameRow
<1>5. Working'
  <2>1. \A b \in Threads \ {c} :
          /\ sender[b].at \in {"claimed", "classifying"} =>
               Requested(sender[b], keyRow'[sender[b].key])
          /\ sender[b].at = "classifying" => Owned(sender[b], keyRow'[sender[b].key])
    <3> SUFFICES ASSUME NEW b \in Threads \ {c}, sender[b].at \in {"claimed", "classifying"}
                 PROVE  /\ Requested(sender[b], keyRow'[sender[b].key])
                        /\ sender[b].at = "classifying" => Owned(sender[b], keyRow'[sender[b].key])
      OBVIOUS
    <3>1. /\ Requested(sender[b], keyRow[sender[b].key])
          /\ sender[b].at = "classifying" => Owned(sender[b], keyRow[sender[b].key])
          /\ sender[b].key \in Keys
      BY WorkIs DEF DescriptionsInv, Working, WorkShape
    <3> QED
      BY <1>3, <3>1 DEF Requested, Owned
  <2> QED
    BY <1>1, <2>1, IdleOrAnswered, WorkMoves
<1>6. \A b \in Threads : sender'[b] = sender[b] \/ sender'[b] = Descriptions!Idle
  BY <1>1 DEF DescriptionsInv, DescriptionsShape
<1>7. \A b \in Threads : sender'[b].at \in {"claimed", "classifying"} =>
        sender'[b].row <= claims.rows
  BY <1>6, IdleOrAnswered DEF DescriptionsInv, Numbered
<1> QED
  BY <1>1, <1>2, <1>4, <1>5, <1>7, RowChanges

\* The clock runs over a lease or a retention: n is the row with one mark less.
LEMMA ExpiryKeeps ==
  ASSUME DescriptionsInv, NEW k \in Keys,
         Descriptions!LeaseExpires(k) \/ Descriptions!RetentionExpires(k)
  PROVE  DescriptionsInv'
<1> DEFINE kept == keyRow[k]
<1>1. kept # NoKey /\ kept \in KeyRowShape /\ UNCHANGED <<described, sender, claims, told>>
  BY KeyRowIs DEF Descriptions!LeaseExpires, Descriptions!RetentionExpires
<1>2. PICK n : /\ keyRow' = [keyRow EXCEPT ![k] = n]
               /\ n = [kept EXCEPT !.live = FALSE] \/ n = [kept EXCEPT !.kept = FALSE]
  BY DEF Descriptions!LeaseExpires, Descriptions!RetentionExpires, Descriptions!Keep
<1>3. kept = keyRow[k]
  OBVIOUS
<1> HIDE DEF kept
<1>4. n \in KeyRowShape /\ n # NoKey /\ SameRow(n, kept) /\ n.token = kept.token
  <2>1. n \in KeyRowShape /\ n.id = kept.id /\ n.posting = kept.posting /\ n.status = kept.status
        /\ n.response = kept.response /\ n.token = kept.token
    BY <1>1, <1>2, ZenonT(60) DEF KeyRowShape
  <2> QED
    BY <2>1, DescriptionsAssumption DEF SameRow
<1>5. keyRow'[k] = n /\ \A l \in Keys \ {k} : keyRow'[l] = keyRow[l]
  BY <1>2 DEF DescriptionsInv, DescriptionsShape
<1>6. keyRow' \in [Keys -> KeyRowShape \cup {NoKey}] /\ sender' \in [Threads -> SenderShape]
  BY <1>1, <1>2, <1>4 DEF DescriptionsInv, DescriptionsShape
<1>7. \A l \in Keys : keyRow'[l] # NoKey => keyRow[l] # NoKey /\ SameRow(keyRow'[l], keyRow[l])
  BY <1>1, <1>3, <1>4, <1>5 DEF SameRow
<1>8. Working'
  <2>1. \A b \in Threads :
          /\ sender[b].at \in {"claimed", "classifying"} =>
               Requested(sender[b], keyRow'[sender[b].key])
          /\ sender[b].at = "classifying" => Owned(sender[b], keyRow'[sender[b].key])
    <3> SUFFICES ASSUME NEW b \in Threads, sender[b].at \in {"claimed", "classifying"}
                 PROVE  /\ Requested(sender[b], keyRow'[sender[b].key])
                        /\ sender[b].at = "classifying" => Owned(sender[b], keyRow'[sender[b].key])
      OBVIOUS
    <3>1. /\ Requested(sender[b], keyRow[sender[b].key])
          /\ sender[b].at = "classifying" => Owned(sender[b], keyRow[sender[b].key])
          /\ sender[b].key \in Keys
      BY WorkIs DEF DescriptionsInv, Working, WorkShape
    <3>2. CASE sender[b].key = k
      BY <1>1, <1>3, <1>4, <1>5, <3>1, <3>2 DEF Requested, Owned, SameRow
    <3>3. CASE sender[b].key # k
      BY <1>5, <3>1, <3>3
    <3> QED
      BY <3>2, <3>3
  <2> QED
    BY <1>1, <2>1 DEF Working, Requested, Owned, DescriptionsInv
<1>9. \A b \in Threads : sender'[b].at \in {"claimed", "classifying"} =>
        sender'[b].row <= claims.rows
  BY <1>1 DEF DescriptionsInv, Numbered
<1> QED
  BY <1>1, <1>6, <1>7, <1>8, <1>9, RowChanges

LEMMA ReplaceKeeps ==
  ASSUME DescriptionsInv, NEW d \in DOMAIN described, NEW p \in Postings,
         NEW read \in 0 .. MaxVersions, Descriptions!Replace(d, p, read)
  PROVE  DescriptionsInv'
<1> DEFINE old == described[d]
<1>1. described \in Seq(DescribedShape)
  BY DEF DescriptionsInv, DescriptionsShape
<1>2. /\ old \in DescribedShape /\ old.versions \in Seq(VersionShape)
      /\ old.current = Len(old.versions) /\ old.current \in Nat /\ old.current >= 1
      /\ DOMAIN old.versions = 1 .. old.current /\ old.by \in Nat /\ old.lock \in Nat
      /\ old.lock = old.current - 1
      /\ \A v \in 1 .. old.current :
           /\ old.versions[v] \in VersionShape
           /\ old.versions[v].number = v /\ (v > 1 => old.versions[v].read = v - 2)
  BY DescribedIs DEF DescribedShape, DescriptionsInv, Describing, Versioned
<1>3. /\ old.lock = read
      /\ \A e \in DOMAIN described : e # d => ~Descriptions!Same(p, Descriptions!Current(e))
      /\ UNCHANGED <<keyRow, sender, claims, told>>
  BY DEF Descriptions!Replace, Descriptions!Matches, Descriptions!Duplicates
<1>4. PICK version : version = [number |-> old.versions[old.current].number + 1, posting |-> p,
                                read |-> read]
  OBVIOUS
<1>5. PICK versions : versions = Append(old.versions, version)
  OBVIOUS
<1>6. PICK new : new = [by |-> old.by, current |-> old.current + 1, lock |-> old.lock + 1,
                        versions |-> versions]
  OBVIOUS
<1>7. described' = [described EXCEPT ![d] = new]
  BY <1>4, <1>5, <1>6 DEF Descriptions!Replace
<1>8. old = described[d]
  OBVIOUS
<1> HIDE DEF old
<1>9. old.versions[old.current].number = old.current
  BY <1>2
<1>10. /\ version \in VersionShape /\ version.number = old.current + 1 /\ version.posting = p
       /\ version.read = old.current - 1
  BY <1>2, <1>3, <1>4, <1>9 DEF VersionShape
<1>11. /\ versions \in Seq(VersionShape) /\ Len(versions) = old.current + 1
       /\ DOMAIN versions = 1 .. old.current + 1 /\ versions[old.current + 1] = version
       /\ \A v \in 1 .. old.current : versions[v] = old.versions[v]
  BY <1>2, <1>5, <1>10
<1>12. /\ new \in DescribedShape /\ new.by = old.by /\ new.current = old.current + 1
       /\ new.lock = old.lock + 1 /\ new.versions = versions
  BY <1>2, <1>6, <1>11 DEF DescribedShape
<1>13. /\ described' \in Seq(DescribedShape) /\ DOMAIN described' = DOMAIN described
       /\ described'[d] = new /\ \A e \in DOMAIN described \ {d} : described'[e] = described[e]
  BY <1>1, <1>7, <1>12
<1>14. Grows(described')
  <2> SUFFICES ASSUME NEW e \in DOMAIN described
               PROVE  /\ described'[e].by = described[e].by
                      /\ DOMAIN described[e].versions \subseteq DOMAIN described'[e].versions
                      /\ \A v \in DOMAIN described[e].versions :
                           described'[e].versions[v] = described[e].versions[v]
    BY <1>13 DEF Grows
  <2>1. CASE e # d
    BY <1>13, <2>1
  <2>2. CASE e = d
    <3>1. 1 .. old.current \subseteq 1 .. old.current + 1
      BY <1>2
    <3> QED
      BY <1>2, <1>8, <1>11, <1>12, <1>13, <2>2, <3>1
  <2> QED
    BY <2>1, <2>2
<1>15. DescriptionsShape'
  BY <1>3, <1>13 DEF DescriptionsInv, DescriptionsShape
<1>16. Numbered'
  BY <1>3, <1>8, <1>12, <1>13 DEF DescriptionsInv, Numbered
<1>17. Answering'
  <2>1. \A k \in Keys : keyRow[k] # NoKey /\ keyRow[k].status = "completed" =>
          Truthful(described', keyRow[k].response, keyRow[k].id, keyRow[k].posting)
    BY <1>14, TruthStays DEF DescriptionsInv, Answering
  <2>2. \A answer \in told : Truthful(described', answer.response, answer.row, answer.posting)
    BY <1>14, TruthStays DEF DescriptionsInv, Answering
  <2> QED
    BY <1>3, <2>1, <2>2 DEF DescriptionsInv, Answering
<1>18. Working'
  BY <1>3 DEF DescriptionsInv, Working, Requested, Owned
<1>19. Describing'
  <2>1. \A e \in DOMAIN described \ {d} : Descriptions!Current(e)' = Descriptions!Current(e)
    BY <1>13 DEF Descriptions!Current
  <2>2. Descriptions!Current(d)' = p
    BY <1>2, <1>10, <1>11, <1>12, <1>13 DEF Descriptions!Current
  <2>3. \A e1, e2 \in DOMAIN described' : e1 # e2 =>
          /\ described'[e1].by # described'[e2].by
          /\ ~Descriptions!Same(Descriptions!Current(e1)', Descriptions!Current(e2)')
    <3> SUFFICES ASSUME NEW e1 \in DOMAIN described, NEW e2 \in DOMAIN described, e1 # e2
                 PROVE  /\ described'[e1].by # described'[e2].by
                        /\ ~Descriptions!Same(Descriptions!Current(e1)', Descriptions!Current(e2)')
      BY <1>13
    <3>1. /\ described[e1].by # described[e2].by
          /\ ~Descriptions!Same(Descriptions!Current(e1), Descriptions!Current(e2))
      BY DEF DescriptionsInv, Describing
    <3>2. described'[e1].by # described'[e2].by
      BY <1>8, <1>12, <1>13, <3>1
    <3>3. ~Descriptions!Same(Descriptions!Current(e1)', Descriptions!Current(e2)')
      <4>1. CASE e1 = d
        BY <1>3, <2>1, <2>2, <4>1
      <4>2. CASE e2 = d
        <5>1. ~Descriptions!Same(Descriptions!Current(e1), p)
          BY <1>3, <4>2 DEF Descriptions!Same
        <5> QED
          BY <2>1, <2>2, <4>2, <5>1
      <4>3. CASE e1 # d /\ e2 # d
        BY <2>1, <3>1, <4>3
      <4> QED
        BY <4>1, <4>2, <4>3
    <3> QED
      BY <3>2, <3>3
  <2>4. \A k \in Keys, e \in DOMAIN described' :
          keyRow'[k] # NoKey /\ keyRow'[k].id = described'[e].by =>
            keyRow'[k].status = "completed" /\ keyRow'[k].response = Descriptions!Created(e)
    <3>1. \A e \in DOMAIN described' : e \in DOMAIN described /\ described'[e].by = described[e].by
      BY <1>8, <1>12, <1>13
    <3> QED
      BY <1>3, <3>1 DEF DescriptionsInv, Describing
  <2>5. \A e \in DOMAIN described' : Versioned(e)'
    <3> SUFFICES ASSUME NEW e \in DOMAIN described
                 PROVE  Versioned(e)'
      BY <1>13
    <3>1. CASE e # d
      BY <1>13, <3>1 DEF DescriptionsInv, Describing, Versioned
    <3>2. CASE e = d
      <4>1. \A v \in 1 .. old.current + 1 :
              versions[v].number = v /\ (v > 1 => versions[v].read = v - 2)
        <5> SUFFICES ASSUME NEW v \in 1 .. old.current + 1
                     PROVE  versions[v].number = v /\ (v > 1 => versions[v].read = v - 2)
          OBVIOUS
        <5>1. CASE v = old.current + 1
          BY <1>2, <1>10, <1>11, <5>1
        <5>2. CASE v \in 1 .. old.current
          BY <1>2, <1>11, <5>2
        <5> QED
          BY <1>2, <5>1, <5>2
      <4>2. /\ new.current >= 1 /\ new.current = Len(new.versions) /\ new.lock = new.current - 1
            /\ new.current = old.current + 1 /\ new.versions = versions
        BY <1>2, <1>11, <1>12
      <4>3. described'[e] = new
        BY <1>13, <3>2
      <4> QED
        BY <4>1, <4>2, <4>3 DEF Versioned
    <3> QED
      BY <3>1, <3>2
  <2> QED
    BY <2>3, <2>4, <2>5 DEF Describing, Descriptions!Current
<1> QED
  BY <1>15, <1>16, <1>17, <1>18, <1>19 DEF DescriptionsInv

LEMMA DescriptionsBegin ==
  ASSUME Descriptions!Init
  PROVE  DescriptionsInv
<1> USE DEF Descriptions!Init
<1>1. DescriptionsShape
  BY IdleOrAnswered DEF DescriptionsShape
<1>2. Numbered /\ Working
  BY DEF Numbered, Working, Descriptions!Idle
<1>3. Answering /\ Describing
  BY DEF Answering, Describing
<1> QED
  BY <1>1, <1>2, <1>3 DEF DescriptionsInv

LEMMA DescriptionsStay ==
  ASSUME DescriptionsInv, UNCHANGED descriptionVars
  PROVE  DescriptionsInv'
BY SMTT(60) DEF DescriptionsInv, DescriptionsShape, Numbered, Answering, Working, Describing, Requested,
   Owned, Truthful, Versioned, Descriptions!Current, descriptionVars

LEMMA DescriptionsInvariant == OperationsSpec => [](part = "descriptions" => DescriptionsInv)
<1> DEFINE Inv == part = "descriptions" => DescriptionsInv
<1>1. OperationsInit => Inv
  BY DescriptionsBegin DEF OperationsInit
<1>2. Inv /\ [OperationsNext]_operationsVars => Inv'
  <2> SUFFICES ASSUME Inv, [OperationsNext]_operationsVars
               PROVE  Inv'
    OBVIOUS
  <2>1. CASE DescriptionStep
    <3>1. part' = part /\ part = "descriptions" /\ Descriptions!Next
      BY <2>1 DEF DescriptionStep
    <3>2. DescriptionsInv'
      BY <3>1, SendKeeps, ClaimKeeps, QuietStepsKeep, ReplayKeeps, TakeOverKeeps, TooLargeKeeps,
         CreateKeeps, ConflictKeeps, ClassifyKeeps, CleanupKeeps, ReplaceKeeps, ExpiryKeeps
         DEF Descriptions!Next, Descriptions!Create
    <3> QED
      BY <3>2
  <2>2. CASE UNCHANGED operationsVars
    BY <2>2, DescriptionsStay DEF operationsVars
  <2>3. CASE BackupStep \/ KnowledgeStep \/ TelemetryStep \/ AnswerStep \/ SpendingStep
             \/ AccessStep \/ GateStep
    BY <2>3, DescriptionsStay DEF BackupStep, KnowledgeStep, TelemetryStep, AnswerStep,
       SpendingStep, AccessStep, GateStep
  <2> QED
    BY <2>1, <2>2, <2>3 DEF OperationsNext
<1> QED
  BY <1>1, <1>2, PTL DEF OperationsSpec

\* Overlapping, slow, repeated and dying creates: one Job Description, one answer.
THEOREM DescriptionsAreDescribedOnce == OperationsSpec => []DescribedOnce
<1>1. (part = "descriptions" => DescriptionsInv) => DescribedOnce
  <2> SUFFICES ASSUME DescriptionsInv
               PROVE  Descriptions!DescribedOnce
    BY DEF DescribedOnce
  <2>1. \A answer \in told :
          LET d == answer.response.description
          IN  /\ answer.response.status = 201 =>
                   described[d].by = answer.row /\ described[d].versions[1].posting = answer.posting
              /\ answer.response.status = 409 =>
                   \E v \in DOMAIN described[d].versions :
                     Descriptions!Same(described[d].versions[v].posting, answer.posting)
    BY DEF DescriptionsInv, Answering, Truthful
  <2>2. \A d \in DOMAIN described :
          /\ described[d].current = Len(described[d].versions)
          /\ described[d].lock = described[d].current - 1
          /\ \A v \in 1 .. described[d].current :
               /\ described[d].versions[v].number = v
               /\ v > 1 => described[d].versions[v].read = v - 2
    BY DEF DescriptionsInv, Describing, Versioned
  <2> QED
    BY <2>1, <2>2 DEF DescriptionsInv, Answering, Describing, Descriptions!DescribedOnce
<1> QED
  BY <1>1, DescriptionsInvariant, PTL

-----------------------------------------------------------------------------
(* From an answer to the result (AnalyzeResult, OutputContract)            *)
(*                                                                         *)
(* The skills are those of the keywords until their evidence is looked at, *)
(* and those of the evidence after; a result may be called complete only   *)
(* when nothing was noted of any field, and then each field is what was    *)
(* given under its own name.                                               *)

AnswerStages ==
  {"run_llm_analysis", "parse_model_json", "validate_evidence_references", "reconcile_evidence",
   "recommend_next_action", "final_output_scan", "delivered", "refused"}
Drafting == {"run_llm_analysis", "parse_model_json", "validate_evidence_references"}
Final == {"recommend_next_action", "final_output_scan", "delivered", "refused"}

DraftFields ==
  {"matched", "missing", "unknown", "keywords", "summary", "reason", "recommendations",
   "suggestions", "dimensions", "references", "claims", "mapping", "score", "action"}

\* What a draft says before its evidence is looked at
Begun(d) ==
  /\ d.matched = Answered!KeywordMatched /\ d.unknown = {}
  /\ \/ d.missing = Answered!KeywordMissing
     \/ (Answered!Considered = {} /\ d.missing = {NoSkill})
  /\ d.keywords = [matched |-> d.matched, missing |-> d.missing]

SupportedSkills == {k \in Answered!Skills : Answered!InResume(k) \/ Answered!InChunks(k)}

\* A match has a source, or is set aside.
Looked(d) ==
  /\ d.matched = Answered!KeywordMatched \cap SupportedSkills
  /\ d.unknown = Answered!KeywordMatched \ SupportedSkills
  /\ \/ d.missing = Answered!KeywordMissing
     \/ (Answered!Considered = {} /\ d.missing = {NoSkill})
  /\ d.keywords = [matched |-> Answered!KeywordMatched, missing |-> d.missing]

\* The skills of the result
Accounted(d) ==
  /\ (d.matched \cup d.missing \cup d.unknown) \ {NoSkill} = Answered!Considered
  /\ NoSkill \notin d.matched /\ NoSkill \notin d.unknown
  /\ d.matched \cap d.missing = {} /\ d.unknown \cap (d.matched \cup d.missing) = {}
  /\ DOMAIN d.mapping = d.matched
  /\ \A k \in d.matched :
       IF d.mapping[k] = "resume" THEN Answered!InResume(k) ELSE Answered!InChunks(k)
  /\ \A k \in d.missing \ {NoSkill} : ~Answered!InChunks(k)
  /\ d.keywords.matched \subseteq Answered!Considered \ d.missing
  /\ d.keywords.missing \subseteq Answered!Considered \cup {NoSkill}

Advised(d) ==
  d.action = "apply_now" =>
    \A k \in d.missing : \E other \in Answered!Considered \ d.missing : <<other, k>> \in Covering

Actions ==
  {"none", "apply_now", "improve_resume_first", "upskill_first", "save_for_later", "skip"}

\* A single text that is not too long to be told
Short(texts) == \E x \in texts : texts = {x} /\ x.length \in 0 .. 16

\* Said and GivenTwice of a content
SaidIn(c, field) ==
  LET fields == c.value.fields IN
  IF field \notin DOMAIN fields THEN {}
  ELSE LET v == fields[field]
           values == IF v.type = "list" THEN {v.items[i] : i \in DOMAIN v.items} ELSE {v}
       IN  {[token |-> u.token, length |-> u.length] : u \in {w \in values : Answered!IsText(w)}}

Twice(data) ==
  \E f \in DOMAIN Answered!ProviderAliases :
    Answered!Cardinality(Answered!NamesGiven(f, Answered!ProviderAliases, data)) > 1

Honest(d, noted, c) ==
  /\ noted \subseteq {"aliases", "nulls"} /\ (noted # {} => Twice(Answered!Data(c)))
  /\ Short(d.summary)
  /\ d.summary = IF SaidIn(c, "job_summary") = {} THEN {Answered!JobSummary}
                                                ELSE SaidIn(c, "job_summary")
  /\ SaidIn(c, "recommendations") # {} => d.recommendations = SaidIn(c, "recommendations")

AnswerInv ==
  /\ ask \in Asked /\ stage \in AnswerStages /\ DOMAIN draft = DraftFields
  /\ status \in {"none", "complete", "repaired", "partial", "fallback"}
  /\ draft.score \in 0 .. 100 /\ draft.action \in Actions
  /\ stage \in {"run_llm_analysis", "parse_model_json"} => status = "none" /\ warnings = {}
  /\ stage = "parse_model_json" => content \in Replies(ask)
  /\ stage \in Drafting => Begun(draft)
  /\ stage = "reconcile_evidence" => Looked(draft)
  /\ stage \in Final => Accounted(draft)
  /\ stage \in {"final_output_scan", "delivered", "refused"} => Advised(draft)
  /\ status = "complete" /\ Answered!Active => Honest(draft, warnings, content)

LEMMA SkillsByKeyword ==
  /\ Answered!KeywordMatched \subseteq Answered!Considered
  /\ Answered!KeywordMissing = Answered!Considered \ Answered!KeywordMatched
  /\ Answered!Considered \subseteq Answered!Skills
<1>1. \A k \in Answered!KeywordMatched : k \in Answered!Skills /\ Answered!ByKeyword(k)
  BY DEF Answered!KeywordMatched, Answered!Kept
<1>2. \A k \in Answered!KeywordMissing : k \in Answered!Skills /\ ~Answered!ByKeyword(k)
  BY DEF Answered!KeywordMissing, Answered!Kept
<1> QED
  BY <1>1, <1>2 DEF Answered!Considered

LEMMA AskedOfFew ==
  AnswerInv => IsFiniteSet(Answered!Considered) /\ NoSkill \notin Answered!Considered
<1> SUFFICES ASSUME AnswerInv
             PROVE  IsFiniteSet(Answered!Considered) /\ NoSkill \notin Answered!Considered
  OBVIOUS
<1>1. IsFiniteSet(Answered!Skills) /\ NoSkill \notin Answered!Skills
  BY AskedAssumption DEF AnswerInv, Answered!Skills
<1> QED
  BY <1>1, SkillsByKeyword, FS_Subset

\* A skill is in one of the lists exactly if it is not too far behind in its own.
LEMMA ConsideredIsAhead ==
  \A k \in Answered!Skills :
    k \in Answered!Considered <=> Answered!Cardinality(Answered!Ahead(k)) < MaxListed
<1> SUFFICES ASSUME NEW k \in Answered!Skills
             PROVE  k \in Answered!Considered
                      <=> Answered!Cardinality(Answered!Ahead(k)) < MaxListed
  OBVIOUS
<1>1. CASE Answered!ByKeyword(k)
  <2>1. PICK named : named = {j \in Answered!Skills : Answered!ByKeyword(j)}
    OBVIOUS
  <2>2. {j \in named : Rank[j] < Rank[k]} = Answered!Ahead(k)
    BY <1>1, <2>1 DEF Answered!Ahead
  <2>3. k \in Answered!KeywordMatched
          <=> Answered!Cardinality({j \in named : Rank[j] < Rank[k]}) < MaxListed
    BY <1>1, <2>1 DEF Answered!KeywordMatched, Answered!Kept
  <2>4. k \notin Answered!KeywordMissing
    BY <1>1 DEF Answered!KeywordMissing, Answered!Kept
  <2> QED
    BY <2>2, <2>3, <2>4 DEF Answered!Considered
<1>2. CASE ~Answered!ByKeyword(k)
  <2>1. PICK named : named = {j \in Answered!Skills : ~Answered!ByKeyword(j)}
    OBVIOUS
  <2>2. {j \in named : Rank[j] < Rank[k]} = Answered!Ahead(k)
    BY <1>2, <2>1 DEF Answered!Ahead
  <2>3. k \in Answered!KeywordMissing
          <=> Answered!Cardinality({j \in named : Rank[j] < Rank[k]}) < MaxListed
    BY <1>2, <2>1 DEF Answered!KeywordMissing, Answered!Kept
  <2>4. k \notin Answered!KeywordMatched
    BY <1>2 DEF Answered!KeywordMatched, Answered!Kept
  <2> QED
    BY <2>2, <2>3, <2>4 DEF Answered!Considered
<1> QED
  BY <1>1, <1>2

\* The drafts of the two writers
LEMMA FallbackBegins ==
  /\ DOMAIN Answered!LocalFallback = DraftFields /\ Begun(Answered!LocalFallback)
  /\ Answered!LocalFallback.score = 0 /\ Answered!LocalFallback.action = "none"
BY DEF Begun, DraftFields, Answered!LocalFallback, Answered!Draft, Answered!Considered

LEMMA ConvertedBegins ==
  ASSUME NEW c, NEW d, d = Answered!Sanitized(Answered!Converted(c))
  PROVE  DOMAIN d = DraftFields /\ Begun(d) /\ d.score = 0 /\ d.action = "none"
BY DEF Begun, DraftFields, Answered!Sanitized, Answered!Converted, Answered!Draft

\* A match is set aside exactly if nothing supports it.
LEMMA AsideIsLooked ==
  ASSUME NEW d, Begun(d), DOMAIN d = DraftFields,
         NEW e, e = Answered!Coordinated(Answered!SetAsideUnsupported(d))
  PROVE  /\ Looked(e) /\ DOMAIN e = DraftFields
         /\ e.score = d.score /\ e.action = d.action
         /\ e.summary = d.summary /\ e.recommendations = d.recommendations
<1>1. PICK supported : supported = {k \in d.matched : Answered!InResume(k) \/ Answered!InChunks(k)}
  OBVIOUS
<1>2. PICK s : s = [d EXCEPT !.matched = supported,
                             !.unknown = d.unknown \cup (d.matched \ supported)]
  OBVIOUS
<1>3. s = Answered!SetAsideUnsupported(d)
  BY <1>1, <1>2 DEF Answered!SetAsideUnsupported
<1>4. /\ DOMAIN s = DraftFields /\ s.matched = supported
      /\ s.unknown = d.unknown \cup (d.matched \ supported)
      /\ s.missing = d.missing /\ s.keywords = d.keywords
      /\ s.score = d.score /\ s.action = d.action
      /\ s.summary = d.summary /\ s.recommendations = d.recommendations
  BY <1>2 DEF DraftFields
<1>5. e = [s EXCEPT !.missing = s.missing \ s.matched,
                    !.unknown = s.unknown \ (s.matched \cup s.missing)]
  BY <1>3 DEF Answered!Coordinated
<1>6. /\ DOMAIN e = DraftFields /\ e.matched = s.matched /\ e.missing = s.missing \ s.matched
      /\ e.unknown = s.unknown \ (s.matched \cup s.missing) /\ e.keywords = s.keywords
      /\ e.score = s.score /\ e.action = s.action
      /\ e.summary = s.summary /\ e.recommendations = s.recommendations
  BY <1>4, <1>5 DEF DraftFields
<1>7. /\ d.matched = Answered!KeywordMatched /\ d.unknown = {}
      /\ d.matched \cap d.missing = {} /\ d.matched \subseteq Answered!Considered
      /\ d.keywords = [matched |-> d.matched, missing |-> d.missing]
      /\ d.missing = Answered!KeywordMissing \/ (Answered!Considered = {} /\ d.missing = {NoSkill})
  BY SkillsByKeyword DEF Begun
<1>8. supported = Answered!KeywordMatched \cap SupportedSkills
      /\ d.matched \ supported = Answered!KeywordMatched \ SupportedSkills
  BY <1>1, <1>7, SkillsByKeyword DEF SupportedSkills
<1>9. e.missing = d.missing /\ e.unknown = Answered!KeywordMatched \ SupportedSkills
      /\ e.matched = Answered!KeywordMatched \cap SupportedSkills
  BY <1>4, <1>6, <1>7, <1>8
<1> QED
  BY <1>4, <1>6, <1>7, <1>9 DEF Looked

\* What the knowledge has is no longer missing, and every match has its source.
LEMMA EvidenceIsReconciled ==
  ASSUME NEW d, Looked(d), DOMAIN d = DraftFields, NoSkill \notin Answered!Considered,
         NEW e, e = Answered!Grounded(Answered!Reconciled(d))
  PROVE  /\ Accounted(e) /\ DOMAIN e = DraftFields /\ e.action = d.action
         /\ e.summary = d.summary /\ e.recommendations = d.recommendations
         /\ e.matched \cup e.missing \cup e.unknown \subseteq Answered!Considered \cup {NoSkill}
<1>1. PICK known : known = {k \in d.missing \ {NoSkill} : Answered!InChunks(k)}
  OBVIOUS
<1>2. /\ d.matched = Answered!KeywordMatched \cap SupportedSkills
      /\ d.unknown = Answered!KeywordMatched \ SupportedSkills
      /\ d.keywords.matched = Answered!KeywordMatched /\ d.keywords.missing = d.missing
      /\ DOMAIN d.keywords = {"matched", "missing"}
      /\ d.missing = Answered!KeywordMissing \/ (Answered!Considered = {} /\ d.missing = {NoSkill})
      /\ Answered!KeywordMatched \subseteq Answered!Considered
      /\ Answered!KeywordMissing = Answered!Considered \ Answered!KeywordMatched
  BY SkillsByKeyword DEF Looked
<1>3. Answered!Corrected(d.missing) = known /\ Answered!Corrected(d.keywords.missing) = known
  BY <1>1, <1>2 DEF Answered!Corrected
<1>4. PICK said : said = d.reason \cup {Answered!Backend("knowledge_supports") : k \in known \cup known}
  OBVIOUS
<1>5. PICK r : r = [d EXCEPT !.matched = d.matched \cup known, !.missing = d.missing \ known,
                             !.keywords = [matched |-> d.keywords.matched \cup known,
                                           missing |-> d.keywords.missing \ known],
                             !.reason = said]
  OBVIOUS
<1>6. Answered!Reconciled(d) = Answered!Coordinated(r)
  BY <1>3, <1>4, <1>5 DEF Answered!Reconciled
<1>7. /\ DOMAIN r = DraftFields /\ r.matched = d.matched \cup known
      /\ r.missing = d.missing \ known /\ r.unknown = d.unknown
      /\ r.keywords.matched = d.keywords.matched \cup known
      /\ r.keywords.missing = d.keywords.missing \ known
      /\ r.action = d.action /\ r.summary = d.summary /\ r.recommendations = d.recommendations
  BY <1>5 DEF DraftFields
<1>8. PICK c : c = Answered!Coordinated(r)
  OBVIOUS
<1>9. c = [r EXCEPT !.missing = r.missing \ r.matched,
                    !.unknown = r.unknown \ (r.matched \cup r.missing)]
  BY <1>8 DEF Answered!Coordinated
<1>10. /\ DOMAIN c = DraftFields /\ c.matched = r.matched /\ c.missing = r.missing \ r.matched
       /\ c.unknown = r.unknown \ (r.matched \cup r.missing) /\ c.keywords = r.keywords
       /\ c.action = r.action /\ c.summary = r.summary /\ c.recommendations = r.recommendations
  BY <1>7, <1>9 DEF DraftFields
<1>11. /\ known \subseteq d.missing /\ Answered!KeywordMatched \cap d.missing = {}
       /\ d.missing \subseteq Answered!Considered \cup {NoSkill}
       /\ known \subseteq Answered!Considered /\ NoSkill \notin known
       /\ \A k \in known : Answered!InChunks(k)
       /\ \A k \in d.missing \ (known \cup {NoSkill}) : ~Answered!InChunks(k)
  BY <1>1, <1>2
<1>12. \A k \in c.matched : Answered!InResume(k) \/ Answered!InChunks(k)
  BY <1>2, <1>7, <1>10, <1>11 DEF SupportedSkills
<1>13. \A k \in c.matched : Answered!Source(k) # "unknown"
                            /\ (Answered!Source(k) = "resume" => Answered!InResume(k))
                            /\ (Answered!Source(k) # "resume" => Answered!InChunks(k))
  BY <1>12 DEF Answered!Source
<1>14. {k \in c.matched : Answered!Source(k) # "unknown"} = c.matched
  BY <1>13
<1>15. PICK sources : sources = [k \in c.matched |-> Answered!Source(k)]
  OBVIOUS
<1>16. e = [c EXCEPT !.matched = c.matched, !.missing = c.missing \cup (c.matched \ c.matched),
                     !.mapping = sources, !.claims = {}]
  BY <1>6, <1>8, <1>14, <1>15 DEF Answered!Grounded
<1>17. /\ DOMAIN e = DraftFields /\ e.matched = c.matched /\ e.missing = c.missing
       /\ e.unknown = c.unknown /\ e.mapping = sources /\ e.keywords = c.keywords
       /\ e.action = c.action /\ e.summary = c.summary /\ e.recommendations = c.recommendations
  BY <1>10, <1>16 DEF DraftFields
<1>18. /\ e.matched = d.matched \cup known /\ e.missing = d.missing \ known
       /\ e.unknown = d.unknown
       /\ e.keywords.matched = Answered!KeywordMatched \cup known
       /\ e.keywords.missing = d.missing \ known
  <2>1. (d.missing \ known) \ (d.matched \cup known) = d.missing \ known
    BY <1>2
  <2>2. d.unknown \ (d.matched \cup known \cup (d.missing \ known)) = d.unknown
    BY <1>2, <1>11
  <2> QED
    BY <1>2, <1>7, <1>10, <1>17, <2>1, <2>2
<1>19. DOMAIN e.mapping = e.matched
       /\ \A k \in e.matched : e.mapping[k] = Answered!Source(k)
  BY <1>15, <1>17
<1>20. /\ (e.matched \cup e.missing \cup e.unknown) \ {NoSkill} = Answered!Considered
       /\ NoSkill \notin e.matched /\ NoSkill \notin e.unknown
       /\ e.matched \cup e.missing \cup e.unknown \subseteq Answered!Considered \cup {NoSkill}
  BY <1>2, <1>11, <1>18
<1>21. e.matched \cap e.missing = {} /\ e.unknown \cap (e.matched \cup e.missing) = {}
  BY <1>2, <1>11, <1>18
<1>22. \A k \in e.matched :
         IF e.mapping[k] = "resume" THEN Answered!InResume(k) ELSE Answered!InChunks(k)
  BY <1>13, <1>17, <1>19
<1>23. \A k \in e.missing \ {NoSkill} : ~Answered!InChunks(k)
  <2>1. e.missing \ {NoSkill} = d.missing \ (known \cup {NoSkill})
    BY <1>18
  <2> QED
    BY <1>11, <2>1, Zenon
<1>24. e.keywords.matched \subseteq Answered!Considered \ e.missing
       /\ e.keywords.missing \subseteq Answered!Considered \cup {NoSkill}
  BY <1>2, <1>11, <1>18
<1> QED
  BY <1>7, <1>10, <1>17, <1>19, <1>20, <1>21, <1>22, <1>23, <1>24 DEF Accounted

\* A share of m parts in n, rounded, is a percentage.
LEMMA RoundedIsShare ==
  ASSUME NEW m \in Nat \ {0}, NEW n \in Nat, n <= 100 * m
  PROVE  Answered!Rounded(n, m) \in 0 .. 100
<1>1. PICK q, r : q = n \div m /\ r = n % m
  OBVIOUS
<1>2. q \in Nat /\ r \in Nat /\ r < m /\ n = m * q + r
  BY <1>1, SMTT(30)
<1>3. q <= 100
  <2> SUFFICES ASSUME q >= 101 PROVE FALSE
    BY <1>2
  <2>1. m * q >= m * 101
    BY <1>2, SMTT(30)
  <2> QED
    BY <1>2, <2>1
<1>4. q = 100 => r = 0
  BY <1>2
<1>5. Answered!Rounded(n, m) =
        IF 2 * r > m \/ (2 * r = m /\ q % 2 = 1) THEN q + 1 ELSE q
  BY <1>1 DEF Answered!Rounded
<1> QED
  BY <1>2, <1>3, <1>4, <1>5

\* deterministic_scoring gives a percentage and changes nothing else.
LEMMA ScoreIsPercentage ==
  ASSUME NEW d, DOMAIN d = DraftFields, NEW e, e = Answered!Scored(d),
         IsFiniteSet(d.matched), IsFiniteSet(d.missing), IsFiniteSet(d.unknown)
  PROVE  /\ DOMAIN e = DraftFields /\ e.score \in 0 .. 100
         /\ \A f \in DraftFields \ {"score"} : e[f] = d[f]
<1>1. PICK m, all : /\ m = Answered!Cardinality(d.matched)
                      /\ all = m + Answered!Cardinality(d.missing)
                                   + Answered!Cardinality(d.unknown)
  OBVIOUS
<1>2. m \in Nat /\ all \in Nat /\ m <= all
  <2>1. /\ Answered!Cardinality(d.matched) = Cardinality(d.matched)
        /\ Answered!Cardinality(d.missing) = Cardinality(d.missing)
        /\ Answered!Cardinality(d.unknown) = Cardinality(d.unknown)
    BY DEF Answered!Cardinality, Cardinality
  <2>2. Cardinality(d.matched) \in Nat /\ Cardinality(d.missing) \in Nat
        /\ Cardinality(d.unknown) \in Nat
    BY FS_CardinalityType
  <2> QED
    BY <1>1, <2>1, <2>2
<1>3. \A weight \in 0 .. 100, b \in 0 .. 100 :
        (IF all = 0 THEN Answered!Least(100, b)
         ELSE Answered!Rounded(Answered!Least(100 * all, weight * m + b * all), all))
          \in 0 .. 100
  <2> SUFFICES ASSUME NEW weight \in 0 .. 100, NEW b \in 0 .. 100
               PROVE  (IF all = 0 THEN Answered!Least(100, b)
                       ELSE Answered!Rounded(Answered!Least(100 * all, weight * m + b * all),
                                             all)) \in 0 .. 100
    OBVIOUS
  <2>1. CASE all = 0
    BY <2>1 DEF Answered!Least
  <2>2. CASE all # 0
    <3>1. PICK x, y : x = weight * m /\ y = b * all
      OBVIOUS
    <3>2. x \in Nat /\ y \in Nat
      BY <1>2, <3>1, SMTT(30)
    <3>3. PICK n : n = Answered!Least(100 * all, weight * m + b * all)
      OBVIOUS
    <3>4. n \in Nat /\ n <= 100 * all
      BY <1>2, <3>1, <3>2, <3>3 DEF Answered!Least
    <3>5. Answered!Rounded(n, all) \in 0 .. 100
      BY <1>2, <2>2, <3>4, RoundedIsShare
    <3> QED
      BY <2>2, <3>3, <3>5
  <2> QED
    BY <2>1, <2>2
<1>4. PICK p, w, g : /\ p = (IF ask.project THEN 20 ELSE 0) + (IF ask.retrieved THEN 5 ELSE 0)
                     /\ w = (IF ask.work THEN 25 ELSE 0)
                     /\ g = (IF ask.education = "present" THEN 100 ELSE 0)
  OBVIOUS
<1>5. p \in 0 .. 100 /\ w \in 0 .. 100 /\ g \in 0 .. 100
  BY <1>4
<1>6. PICK overlap, project, worked :
        /\ overlap = IF all = 0 THEN Answered!Least(100, 0)
             ELSE Answered!Rounded(Answered!Least(100 * all, 100 * m + 0 * all), all)
        /\ project = IF all = 0 THEN Answered!Least(100, p)
             ELSE Answered!Rounded(Answered!Least(100 * all, 75 * m + p * all), all)
        /\ worked = IF all = 0 THEN Answered!Least(100, w)
             ELSE Answered!Rounded(Answered!Least(100 * all, 75 * m + w * all), all)
  OBVIOUS
<1>7. overlap \in 0 .. 100 /\ project \in 0 .. 100 /\ worked \in 0 .. 100
  <2>1. 100 \in 0 .. 100 /\ 75 \in 0 .. 100 /\ 0 \in 0 .. 100
    OBVIOUS
  <2>2. overlap \in 0 .. 100
    BY <1>3, <1>6, <2>1, Zenon
  <2>3. project \in 0 .. 100
    BY <1>3, <1>5, <1>6, <2>1, Zenon
  <2>4. worked \in 0 .. 100
    BY <1>3, <1>5, <1>6, <2>1, Zenon
  <2> QED
    BY <2>2, <2>3, <2>4
<1>8. PICK n : n = 35 * overlap + 25 * project + 15 * g + 15 * worked + 10 * overlap
  OBVIOUS
<1>9. n \in Nat /\ n <= 100 * 100
  BY <1>5, <1>7, <1>8
<1>10. Answered!Rounded(n, 100) \in 0 .. 100
  BY <1>9, RoundedIsShare, SMTT(60)
<1>11. e = [d EXCEPT !.score = Answered!Rounded(n, 100)]
  BY <1>1, <1>4, <1>6, <1>8 DEF Answered!Scored, Answered!Weighted
<1> QED
  BY <1>10, <1>11 DEF DraftFields

\* The length of the texts as the fold computes it, a text at a time
LengthStep(f, s) ==
  IF s = {} THEN 0
  ELSE (CHOOSE t \in s : TRUE).length + f[s \ {CHOOSE t \in s : TRUE}]
Lengths(f, S) == f = [s \in SUBSET S |-> LengthStep(f, s)]

LEMMA LengthOfOne ==
  ASSUME NEW t, t.length \in Nat
  PROVE  Answered!TotalLength({t}) = t.length
<1>1. PICK f : f = [s \in SUBSET {t} |-> IF s = {} THEN 0 ELSE t.length]
  OBVIOUS
<1>2. \A s \in SUBSET {t} : s = {} \/ s = {t}
  OBVIOUS
<1>3. (CHOOSE u \in {t} : TRUE) = t
  OBVIOUS
<1>4. {t} \ {t} = {} /\ {} \in SUBSET {t} /\ {t} \in SUBSET {t}
  OBVIOUS
<1>5. f[{}] = 0
  BY <1>1, <1>4
<1>6. LengthStep(f, {}) = 0 /\ LengthStep(f, {t}) = t.length
  BY <1>3, <1>4, <1>5 DEF LengthStep
<1>7. f = [s \in SUBSET {t} |-> LengthStep(f, s)]
  <2>1. \A s \in SUBSET {t} : LengthStep(f, s) = IF s = {} THEN 0 ELSE t.length
    BY <1>2, <1>6
  <2> QED
    BY <1>1, <2>1, Zenon
<1>8. PICK g : g = (CHOOSE h : Lengths(h, {t}))
  OBVIOUS
<1>9. Lengths(g, {t})
  BY <1>7, <1>8 DEF Lengths
<1>10. g[{}] = LengthStep(g, {}) /\ g[{t}] = LengthStep(g, {t})
  BY <1>4, <1>9 DEF Lengths
<1>11. g[{t}] = t.length
  BY <1>3, <1>4, <1>10 DEF LengthStep
<1>12. Answered!TotalLength({t}) = g[{t}]
  BY <1>8 DEF Answered!TotalLength, Answered!MapThenSumSet, Answered!MapThenFoldSet,
     Lengths, LengthStep
<1> QED
  BY <1>11, <1>12

\* A single text that is short is told as it is, and so are recommendations that there are.
LEMMA NarrativesAreTold ==
  ASSUME NEW d, DOMAIN d = DraftFields,
         NEW e, e = Answered!Listed(Answered!Narrated(d))
  PROVE  /\ DOMAIN e = DraftFields
         /\ \A f \in DraftFields \ {"summary", "reason", "recommendations", "suggestions"} :
              e[f] = d[f]
         /\ Short(d.summary) => e.summary = d.summary
         /\ d.recommendations # {} => e.recommendations = d.recommendations
<1>1. PICK s, r : /\ s = IF d.summary = {} THEN {Answered!JobSummary}
                                           ELSE Answered!Shortened(d.summary)
                  /\ r = IF d.reason = {} THEN {Answered!MatchReasons}
                                          ELSE Answered!Shortened(d.reason)
  OBVIOUS
<1>2. PICK n : n = [d EXCEPT !.summary = s, !.reason = r]
  OBVIOUS
<1>3. n = Answered!Narrated(d)
  BY <1>1, <1>2 DEF Answered!Narrated
<1>4. DOMAIN n = DraftFields /\ n.summary = s
      /\ \A f \in DraftFields \ {"summary", "reason"} : n[f] = d[f]
  BY <1>2 DEF DraftFields
<1>5. PICK v : v = IF n.recommendations # {} THEN n.recommendations ELSE n.suggestions
  OBVIOUS
<1>6. e = [n EXCEPT !.recommendations = v, !.suggestions = v]
  BY <1>3, <1>5 DEF Answered!Listed
<1>7. DOMAIN e = DraftFields /\ e.recommendations = v
      /\ \A f \in DraftFields \ {"recommendations", "suggestions"} : e[f] = n[f]
  BY <1>4, <1>6 DEF DraftFields
<1>8. n.recommendations = d.recommendations /\ e.summary = s
  BY <1>4, <1>7 DEF DraftFields
<1>9. Short(d.summary) => s = d.summary
  <2> SUFFICES ASSUME Short(d.summary) PROVE s = d.summary
    OBVIOUS
  <2>1. PICK x \in d.summary : d.summary = {x} /\ x.length \in 0 .. 16
    BY DEF Short
  <2>2. Answered!TotalLength({x}) <= 16
    BY <2>1, LengthOfOne
  <2> QED
    BY <1>1, <2>1, <2>2 DEF Answered!Shortened
<1> QED
  BY <1>4, <1>5, <1>7, <1>8, <1>9

\* "Apply now" is not said beside a skill that is missing and not covered.
LEMMA ActionIsAdvised ==
  ASSUME AnswerInv, Accounted(draft), DOMAIN draft = DraftFields
  PROVE  Answered!NextAction \in Actions
         /\ (Answered!NextAction = "apply_now" =>
               \A k \in draft.missing :
                 \E other \in Answered!Considered \ draft.missing : <<other, k>> \in Covering)
<1>1. PICK n : n = Answered!Cardinality(Answered!Critical)
  OBVIOUS
<1>2. /\ draft.missing \subseteq Answered!Considered \cup {NoSkill}
      /\ draft.keywords.missing \subseteq Answered!Considered \cup {NoSkill}
      /\ draft.matched \subseteq Answered!Considered \ draft.missing
      /\ draft.keywords.matched \subseteq Answered!Considered \ draft.missing
  BY DEF Accounted
<1>3. IsFiniteSet(Answered!Critical)
  <2>1. IsFiniteSet(Answered!Considered \cup {NoSkill})
    BY AskedOfFew, FS_AddElement
  <2>2. Answered!Critical \subseteq Answered!Considered \cup {NoSkill}
    BY <1>2 DEF Answered!Critical
  <2> QED
    BY <2>1, <2>2, FS_Subset
<1>4. n \in Nat /\ (n = 0 => Answered!Critical = {})
  <2>1. Answered!Cardinality(Answered!Critical) = Cardinality(Answered!Critical)
    BY DEF Answered!Cardinality, Cardinality
  <2> QED
    BY <1>1, <1>3, <2>1, FS_CardinalityType, FS_EmptySet
<1>5. PICK gaps : gaps = Answered!Least(n, 8)
  OBVIOUS
<1>6. gaps \in Nat /\ (gaps = 0 => n = 0)
  BY <1>4, <1>5 DEF Answered!Least
<1>7. draft.score \in Int
  BY DEF AnswerInv
<1>8. CASE draft.score >= 85 /\ gaps = 0
  <2>1. Answered!NextAction = "apply_now"
    BY <1>1, <1>5, <1>6, <1>7, <1>8 DEF Answered!NextAction
  <2> SUFFICES ASSUME NEW k \in draft.missing
               PROVE  \E other \in Answered!Considered \ draft.missing : <<other, k>> \in Covering
    BY <2>1 DEF Actions
  <2>2. Answered!Covered(k)
    BY <1>4, <1>6, <1>8 DEF Answered!Critical
  <2>3. PICK other \in draft.matched \cup draft.keywords.matched :
          other = k \/ <<other, k>> \in Covering
    BY <2>2 DEF Answered!Covered
  <2> QED
    BY <1>2, <2>3
<1>9. CASE ~(draft.score >= 85 /\ gaps = 0)
  <2>1. draft.score < 85 \/ gaps # 0
    BY <1>6, <1>7, <1>9
  <2>2. Answered!NextAction =
          IF draft.score >= 70 \/ (draft.score >= 65 /\ gaps <= 2) THEN "improve_resume_first"
          ELSE IF draft.score >= 55 THEN "upskill_first"
          ELSE IF draft.score >= 40 THEN "save_for_later"
          ELSE "skip"
    BY <1>1, <1>5, <1>9, <2>1 DEF Answered!NextAction
  <2> QED
    BY <2>2 DEF Actions
<1> QED
  BY <1>8, <1>9

Narratives == {"job_summary", "match_reasons", "recommendations", "resume_improvements"}

LEMMA PairOfTwo ==
  ASSUME NEW f, NEW a
  PROVE  <<f>> \o <<a>> = <<f, a>>
<1>1. <<f>> \in Seq({f, a}) /\ <<a>> \in Seq({f, a}) /\ Len(<<f>>) = 1 /\ Len(<<a>>) = 1
  OBVIOUS
<1>2. PICK s : s = <<f>> \o <<a>>
  OBVIOUS
<1>3. s \in Seq({f, a}) /\ Len(s) = 2 /\ s[1] = f /\ s[2] = a
  BY <1>1, <1>2, ConcatProperties
<1>4. <<f, a>> \in Seq({f, a}) /\ Len(<<f, a>>) = 2 /\ <<f, a>>[1] = f /\ <<f, a>>[2] = a
  OBVIOUS
<1>5. s = <<f, a>>
  BY <1>3, <1>4, SeqEqual
<1> QED
  BY <1>2, <1>5

LEMMA TripleOfThree ==
  ASSUME NEW f, NEW a, NEW b
  PROVE  <<f>> \o <<a, b>> = <<f, a, b>>
<1>1. /\ <<f>> \in Seq({f, a, b}) /\ <<a, b>> \in Seq({f, a, b})
      /\ Len(<<f>>) = 1 /\ Len(<<a, b>>) = 2
  OBVIOUS
<1>2. PICK s : s = <<f>> \o <<a, b>>
  OBVIOUS
<1>3. s \in Seq({f, a, b}) /\ Len(s) = 3 /\ s[1] = f /\ s[2] = a /\ s[3] = b
  BY <1>1, <1>2, ConcatProperties
<1>4. <<f, a, b>> \in Seq({f, a, b}) /\ Len(<<f, a, b>>) = 3
      /\ <<f, a, b>>[1] = f /\ <<f, a, b>>[2] = a /\ <<f, a, b>>[3] = b
  OBVIOUS
<1>5. s = <<f, a, b>>
  BY <1>3, <1>4, SeqEqual
<1> QED
  BY <1>2, <1>5

LEMMA NarrativeNames ==
  /\ DOMAIN Answered!ProviderAliases = Narratives
  /\ Answered!Names("job_summary", Answered!ProviderAliases) = <<"job_summary", "summary">>
  /\ Answered!Names("match_reasons", Answered!ProviderAliases) =
       <<"match_reasons", "reasons", "match_reason">>
  /\ Answered!Names("recommendations", Answered!ProviderAliases) =
       <<"recommendations", "suggestions">>
  /\ Answered!Names("resume_improvements", Answered!ProviderAliases) =
       <<"resume_improvements", "improvements">>
BY PairOfTwo, TripleOfThree DEF Answered!ProviderAliases, Answered!Names, Narratives

LEMMA OlderNames ==
  Answered!Names("concise_recommendations", Answered!TopLevelAliases) =
    <<"concise_recommendations", "recommendations", "suggestions">>
BY PairOfTwo, TripleOfThree DEF Answered!TopLevelAliases, Answered!Names

\* The first of its names is the field's own.
LEMMA OwnName ==
  ASSUME NEW f \in Narratives
  PROVE  \E n \in 2 .. 3 : DOMAIN Answered!Names(f, Answered!ProviderAliases) = 1 .. n
                           /\ Answered!Names(f, Answered!ProviderAliases)[1] = f
                           /\ \A i \in 2 .. n : Answered!Names(f, Answered!ProviderAliases)[i] # f
BY NarrativeNames DEF Narratives

\* A field that is read under its own name is given under it.
LEMMA OwnNameFirst ==
  ASSUME NEW f \in Narratives, NEW data,
         Answered!IsGiven(f, Answered!ProviderAliases, data),
         Answered!SourceKey(f, Answered!ProviderAliases, data) = f
  PROVE  f \in DOMAIN data
<1>1. PICK names : names = Answered!Names(f, Answered!ProviderAliases)
  OBVIOUS
<1>2. PICK n \in 2 .. 3 : /\ DOMAIN names = 1 .. n /\ names[1] = f
                          /\ \A i \in 2 .. n : names[i] # f
  BY <1>1, OwnName
<1>3. PICK given : given = {i \in 1 .. n : names[i] \in DOMAIN data}
  OBVIOUS
<1>4. given = Answered!NamesGiven(f, Answered!ProviderAliases, data)
  BY <1>1, <1>2, <1>3 DEF Answered!NamesGiven
<1>5. given # {}
  BY <1>4 DEF Answered!IsGiven
<1>6. \E i \in given : \A j \in given : i <= j
  BY <1>3, <1>5
<1>7. PICK i : i = CHOOSE k \in given : \A j \in given : k <= j
  OBVIOUS
<1>8. i \in given
  BY <1>6, <1>7
<1>9. names[i] = f
  BY <1>1, <1>4, <1>7 DEF Answered!SourceKey
<1> QED
  BY <1>2, <1>3, <1>8, <1>9

LEMMA TwiceTold ==
  ASSUME NEW f \in Narratives, NEW data, f \in DOMAIN data,
         NEW i \in DOMAIN Answered!Names(f, Answered!ProviderAliases),
         Answered!Names(f, Answered!ProviderAliases)[i] \in DOMAIN data,
         Answered!Names(f, Answered!ProviderAliases)[i] # f
  PROVE  Twice(data)
<1>1. PICK names : names = Answered!Names(f, Answered!ProviderAliases)
  OBVIOUS
<1>2. PICK n \in 2 .. 3 : DOMAIN names = 1 .. n /\ names[1] = f
  BY <1>1, OwnName
<1>3. PICK given : given = {j \in 1 .. n : names[j] \in DOMAIN data}
  OBVIOUS
<1>4. given = Answered!NamesGiven(f, Answered!ProviderAliases, data)
  BY <1>1, <1>2, <1>3 DEF Answered!NamesGiven
<1>5. 1 \in given /\ i \in given /\ i # 1
  BY <1>1, <1>2, <1>3
<1>6. IsFiniteSet(given) /\ IsFiniteSet({1, i})
  <2>1. IsFiniteSet(1 .. n)
    BY FS_Interval
  <2> QED
    BY <1>3, <1>5, <2>1, FS_Subset
<1>7. Cardinality({1, i}) = 2
  <2>1. IsFiniteSet({1}) /\ Cardinality({1}) = 1
    BY FS_Singleton
  <2>2. Cardinality({1} \cup {i}) = 1 + 1
    BY <1>5, <2>1, FS_AddElement
  <2>3. {1} \cup {i} = {1, i}
    OBVIOUS
  <2> QED
    BY <2>2, <2>3
<1>8. Cardinality({1, i}) <= Cardinality(given)
  BY <1>5, <1>6, FS_Subset
<1>9. Answered!Cardinality(given) = Cardinality(given)
  BY DEF Answered!Cardinality, Cardinality
<1>10. Cardinality(given) \in Nat
  BY <1>6, FS_CardinalityType
<1>11. Answered!Cardinality(Answered!NamesGiven(f, Answered!ProviderAliases, data)) > 1
  BY <1>4, <1>7, <1>8, <1>9, <1>10
<1> QED
  BY <1>11, NarrativeNames DEF Twice

\* What the answer is told of beyond the salvage
LEMMA WarnedOfTwice ==
  ASSUME NEW data, \A f \in Narratives : f \in DOMAIN data /\ data[f].type # "null",
         DOMAIN data \subseteq Answered!KnownKeys, ~Answered!LegacyPresent(data)
  PROVE  /\ Answered!ContractWarnings(data) \subseteq {"aliases", "nulls"}
         /\ Answered!ContractWarnings(data) # {} => Twice(data)
<1>1. \A f \in Narratives : Answered!IsGiven(f, Answered!ProviderAliases, data)
  BY OwnName DEF Answered!IsGiven, Answered!NamesGiven
<1>2. \A k \in DOMAIN data : k \in Answered!NamesOf(Answered!ProviderAliases) \ Narratives
                               => Twice(data)
  <2> SUFFICES ASSUME NEW k \in DOMAIN data,
                      k \in Answered!NamesOf(Answered!ProviderAliases) \ Narratives
               PROVE  Twice(data)
    OBVIOUS
  <2>1. PICK f \in Narratives : \E i \in DOMAIN Answered!Names(f, Answered!ProviderAliases) :
          k = Answered!Names(f, Answered!ProviderAliases)[i]
    BY NarrativeNames DEF Answered!NamesOf
  <2>2. PICK i \in DOMAIN Answered!Names(f, Answered!ProviderAliases) :
          k = Answered!Names(f, Answered!ProviderAliases)[i]
    BY <2>1
  <2>3. k # f /\ f \in DOMAIN data
    OBVIOUS
  <2> QED
    BY <2>2, <2>3, TwiceTold
<1>3. \A k \in DOMAIN data, f \in DOMAIN Answered!TopLevelAliases :
        \A i \in DOMAIN Answered!Names(f, Answered!TopLevelAliases) :
          k = Answered!Names(f, Answered!TopLevelAliases)[i] => f = "concise_recommendations"
  BY DEF Answered!LegacyPresent, Answered!IsGiven, Answered!NamesGiven
<1>4. "concise_recommendations" \notin DOMAIN data
  BY DEF Answered!LegacyPresent
<1>5. \A k \in DOMAIN data : data[k].type = "null" => Twice(data)
  <2> SUFFICES ASSUME NEW k \in DOMAIN data, data[k].type = "null"
               PROVE  Twice(data)
    OBVIOUS
  <2>1. k \notin Narratives
    OBVIOUS
  <2>2. CASE k \in Answered!NamesOf(Answered!ProviderAliases)
    BY <1>2, <2>1, <2>2
  <2>3. CASE k \in Answered!NamesOf(Answered!TopLevelAliases)
    <3>1. PICK f \in DOMAIN Answered!TopLevelAliases :
            \E i \in DOMAIN Answered!Names(f, Answered!TopLevelAliases) :
              k = Answered!Names(f, Answered!TopLevelAliases)[i]
      BY <2>3 DEF Answered!NamesOf
    <3>2. k \in {"concise_recommendations", "recommendations", "suggestions"}
      BY <1>3, <3>1, OlderNames
    <3>3. k = "suggestions"
      BY <1>4, <2>1, <3>2 DEF Narratives
    <3>4. k \in Answered!NamesOf(Answered!ProviderAliases)
      BY <3>3, NarrativeNames DEF Answered!NamesOf, Narratives
    <3> QED
      BY <2>2, <3>4
  <2> QED
    BY <2>2, <2>3 DEF Answered!KnownKeys
<1>6. PICK older : older = Answered!Without(Answered!TopLevelAliases,
                             {"concise_recommendations", "unsupported_claim_candidates"})
  OBVIOUS
<1>7. \A k \in DOMAIN data :
        k \in Answered!NamesOf(older) => k \in DOMAIN Answered!TopLevelAliases
  <2> SUFFICES ASSUME NEW k \in DOMAIN data, k \in Answered!NamesOf(older)
               PROVE  FALSE
    OBVIOUS
  <2>1. PICK f \in DOMAIN older : \E i \in DOMAIN Answered!Names(f, older) :
          k = Answered!Names(f, older)[i]
    BY DEF Answered!NamesOf
  <2>2. f \in DOMAIN Answered!TopLevelAliases /\ f # "concise_recommendations"
        /\ older[f] = Answered!TopLevelAliases[f]
    BY <1>6, <2>1 DEF Answered!Without
  <2>3. Answered!Names(f, older) = Answered!Names(f, Answered!TopLevelAliases)
    BY <2>2 DEF Answered!Names
  <2> QED
    BY <1>3, <2>1, <2>2, <2>3
<1>8. PICK missed, aliased, nulled :
        /\ missed = (\E f \in Narratives :
                       /\ ~Answered!IsGiven(f, Answered!ProviderAliases, data)
                       /\ f = "recommendations" => "concise_recommendations" \notin DOMAIN data)
        /\ aliased = (DOMAIN data \cap
                       ((Answered!NamesOf(Answered!ProviderAliases) \ Narratives)
                          \cup (Answered!NamesOf(older) \ DOMAIN Answered!TopLevelAliases)
                          \cup {"concise_recommendations"}) # {})
        /\ nulled = (\E k \in DOMAIN data : data[k].type = "null")
  OBVIOUS
<1>9. missed = FALSE
  BY <1>1, <1>8
<1>10. aliased => Twice(data)
  BY <1>2, <1>4, <1>7, <1>8
<1>11. nulled => Twice(data)
  BY <1>5, <1>8
<1>12. Answered!ContractWarnings(data) =
         Answered!When(missed, "fields_missing") \cup Answered!When(aliased, "aliases")
           \cup Answered!When(nulled, "nulls")
  BY <1>6, <1>8, NarrativeNames DEF Answered!ContractWarnings
<1> QED
  BY <1>9, <1>10, <1>11, <1>12 DEF Answered!When

\* What is left of a text, or of a list of texts, that nothing was done to
Plainly(texts) == {[token |-> u.token, length |-> u.length] : u \in {w \in texts : Answered!IsText(w)}}

LEMMA TextKept ==
  ASSUME NEW v, v.type = "string", Measured(v), Answered!SingleText(v, 16).actions = {}
  PROVE  v.length <= 16 /\ Answered!SingleText(v, 16).value = Plainly({v})
<1>1. Answered!SingleText(v, 16) =
        [value |-> Answered!Texts({v}, 16), actions |-> Answered!CutAction(v, 16)]
  BY DEF Answered!SingleText, Answered!Salvaged
<1>2. v.length \in Nat /\ ~(v.length > 16)
  BY <1>1 DEF Measured, Answered!CutAction, Answered!When
<1>3. Answered!Clean(v, 16) = [token |-> v.token, length |-> v.length]
  BY <1>2 DEF Answered!Clean, Answered!Least
<1>4. Answered!Texts({v}, 16) = Plainly({v})
  BY <1>3 DEF Answered!Texts, Plainly
<1> QED
  BY <1>1, <1>2, <1>4

\* The items that are looked at for five texts, as Seen says it
UpTo(good, i) == {j \in good : j <= i}
SeenTexts(items) ==
  LET good == {i \in DOMAIN items : Answered!IsText(items[i])}
      last == {i \in good : Answered!Cardinality(UpTo(good, i)) = 5}
  IN  SubSeq(items, 1, IF last = {} THEN Len(items) ELSE CHOOSE i \in last : TRUE)

TextsSeen(items) == {SeenTexts(items)[i] : i \in DOMAIN SeenTexts(items)}
TextsKept(items) == {i \in DOMAIN SeenTexts(items) : Answered!IsText(SeenTexts(items)[i])}

\* A loop that stops at its fifth text sees the whole of a list of five.
LEMMA AllSeen ==
  ASSUME NEW T, NEW items \in Seq(T), NEW seen, seen = SeenTexts(items),
         NEW kept, kept = {i \in DOMAIN seen : Answered!IsText(seen[i])},
         ~(Answered!Cardinality(kept) = 5 /\ Len(items) > 5)
  PROVE  seen = items
<1>1. PICK n : n = Len(items) /\ n \in Nat /\ DOMAIN items = 1 .. n
  BY LenProperties
<1>2. PICK good : good = {i \in 1 .. n : Answered!IsText(items[i])}
  OBVIOUS
<1>3. PICK last : last = {i \in good : Answered!Cardinality(UpTo(good, i)) = 5}
  OBVIOUS
<1>4. PICK m : m = IF last = {} THEN n ELSE CHOOSE i \in last : TRUE
  OBVIOUS
<1>5. m \in 0 .. n /\ (last # {} => m \in last)
  <2>1. CASE last = {}
    BY <1>1, <1>4, <2>1
  <2>2. CASE last # {}
    <3>1. m \in last
      BY <1>4, <2>2, Zenon
    <3> QED
      BY <1>1, <1>2, <1>3, <3>1
  <2> QED
    BY <2>1, <2>2
<1>6. seen = SubSeq(items, 1, m)
  BY <1>1, <1>2, <1>3, <1>4 DEF SeenTexts
<1>7. DOMAIN seen = 1 .. m /\ \A i \in 1 .. m : seen[i] = items[i]
  BY <1>1, <1>5, <1>6
<1>8. m = n
  <2> SUFFICES ASSUME last # {}
               PROVE  m = n
    BY <1>4
  <2>1. kept = UpTo(good, m)
    BY <1>1, <1>2, <1>5, <1>7 DEF UpTo
  <2>2. Answered!Cardinality(UpTo(good, m)) = 5
    BY <1>3, <1>5
  <2>3. n <= 5
    <3>1. Answered!Cardinality(kept) = 5
      BY <2>1, <2>2
    <3>2. ~(Len(items) > 5)
      BY <3>1
    <3> QED
      BY <1>1, <3>2
  <2>4. IsFiniteSet(1 .. m) /\ Cardinality(1 .. m) = m
    BY <1>1, <1>5, FS_Interval
  <2>5. UpTo(good, m) \subseteq 1 .. m
    BY <1>1, <1>2, <1>5 DEF UpTo
  <2>6. Cardinality(UpTo(good, m)) = 5
    BY <2>2 DEF Answered!Cardinality, Cardinality
  <2>7. 5 <= m
    <3>1. Cardinality(UpTo(good, m)) <= Cardinality(1 .. m)
      BY <2>4, <2>5, FS_Subset
    <3> QED
      BY <1>5, <2>4, <2>6, <3>1
  <2> QED
    BY <1>1, <1>5, <2>3, <2>7
<1> QED
  BY <1>1, <1>6, <1>8

LEMMA ListKept ==
  ASSUME NEW v, NEW b, Answered!StringList(v, 5, 9, b).actions = {},
         v.type = "list" => /\ v.items \in Seq({v.items[i] : i \in DOMAIN v.items})
                            /\ \A i \in DOMAIN v.items : Measured(v.items[i])
  PROVE  /\ v.type = "list"
         /\ Answered!StringList(v, 5, 9, b).value =
              Plainly({v.items[i] : i \in DOMAIN v.items})
<1>1. v.type = "list"
  <2>1. CASE v.type = "null"
    BY <2>1 DEF Answered!StringList, Answered!Salvaged
  <2>2. CASE v.type = "string"
    BY <2>2 DEF Answered!StringList, Answered!Salvaged
  <2>3. CASE v.type \notin {"null", "string", "list"}
    BY <2>3 DEF Answered!StringList, Answered!Salvaged
  <2> QED
    BY <2>1, <2>2, <2>3
<1>2. PICK noted, y, z :
        /\ noted = Answered!StringList(v, 5, 9, b).actions
        /\ y = IF \E u \in TextsSeen(v.items) : ~Answered!IsText(u)
                 THEN {"invalid_list_item_removed"} ELSE {}
        /\ z = IF Answered!Cardinality(TextsKept(v.items)) = 5 /\ Len(v.items) > 5
                 THEN {"list_truncated"} ELSE {}
  OBVIOUS
<1>3. Answered!StringList(v, 5, 9, b).value = Answered!Texts(TextsSeen(v.items), 9)
  BY <1>1 DEF Answered!StringList, Answered!Salvaged, Answered!Seen, SeenTexts, UpTo,
     TextsSeen, TextsKept, Answered!When
<1>4. noted = (UNION {Answered!CutAction(u, 9) : u \in TextsSeen(v.items)}) \cup y \cup z
  BY <1>1, <1>2 DEF Answered!StringList, Answered!Salvaged, Answered!Seen, SeenTexts, UpTo,
     TextsSeen, TextsKept, Answered!When
<1>5. ~(Answered!Cardinality(TextsKept(v.items)) = 5 /\ Len(v.items) > 5)
  <2>1. z = {}
    BY <1>2, <1>4
  <2> QED
    BY <1>2, <2>1
<1>6. \A u \in TextsSeen(v.items) : Answered!CutAction(u, 9) = {}
  <2> SUFFICES ASSUME NEW u \in TextsSeen(v.items), NEW a \in Answered!CutAction(u, 9)
               PROVE  a \in noted
    BY <1>2
  <2> QED
    BY <1>4
<1>7. PICK seen : seen = SeenTexts(v.items)
  OBVIOUS
<1>8. PICK texts, kept : texts = TextsSeen(v.items) /\ kept = TextsKept(v.items)
  OBVIOUS
<1>9. texts = {seen[i] : i \in DOMAIN seen} /\ kept = {i \in DOMAIN seen : Answered!IsText(seen[i])}
  BY <1>7, <1>8 DEF TextsSeen, TextsKept
<1>10. ~(Answered!Cardinality(kept) = 5 /\ Len(v.items) > 5)
      /\ \A u \in texts : Answered!CutAction(u, 9) = {}
  <2>1. \A u \in texts : Answered!CutAction(u, 9) = {}
    BY <1>6, <1>8
  <2>2. ~(Answered!Cardinality(kept) = 5 /\ Len(v.items) > 5)
    BY <1>5, <1>8
  <2> QED
    BY <2>1, <2>2
<1>11. seen = v.items
  <2>1. PICK T, items : items = v.items /\ items \in Seq(T)
    BY <1>1
  <2> QED
    BY <1>7, <1>9, <1>10, <2>1, AllSeen
<1>12. \A u \in texts : Answered!IsText(u) =>
        Answered!Clean(u, 9) = [token |-> u.token, length |-> u.length]
  <2> SUFFICES ASSUME NEW u \in texts, Answered!IsText(u)
               PROVE  Answered!Clean(u, 9) = [token |-> u.token, length |-> u.length]
    OBVIOUS
  <2>1. u.type = "string" /\ u.length \in Nat
    BY <1>1, <1>9, <1>11 DEF Answered!IsText, Measured
  <2>2. ~(u.length > 9)
    BY <1>10, <2>1 DEF Answered!CutAction, Answered!When
  <2> QED
    BY <2>1, <2>2 DEF Answered!Clean, Answered!Least
<1>13. Answered!Texts(texts, 9) = Plainly(texts)
  BY <1>12 DEF Answered!Texts, Plainly
<1> QED
  BY <1>1, <1>3, <1>8, <1>9, <1>11, <1>13

\* What a narrative of the active contract is salvaged to
LEMMA NarrativeShape ==
  ASSUME NEW f \in Narratives, NEW v, NEW key,
         NEW n, n = Answered!NarrativeField(v, f, key)
  PROVE  n = [value |-> n.value, actions |-> n.actions]
<1>1. CASE f = "job_summary"
  <2>1. PICK m : m = Answered!MaximumLength(f, key)
    OBVIOUS
  <2>2. n = Answered!SingleText(v, m)
    BY <1>1, <2>1 DEF Answered!NarrativeField
  <2>3. CASE v.type = "null"
    BY <2>2, <2>3 DEF Answered!SingleText, Answered!Salvaged
  <2>4. CASE v.type = "string"
    BY <2>2, <2>4 DEF Answered!SingleText, Answered!Salvaged
  <2>5. CASE v.type \notin {"null", "string"}
    BY <2>2, <2>5 DEF Answered!SingleText, Answered!Salvaged
  <2> QED
    BY <2>3, <2>4, <2>5
<1>2. CASE f # "job_summary"
  <2>1. PICK m, k, b :
          m = Answered!MaximumItems[f] /\ k = Answered!MaximumLength(f, key) /\ b = FALSE
    OBVIOUS
  <2>2. n = Answered!StringList(v, m, k, b)
    BY <1>2, <2>1, Zenon DEF Answered!NarrativeField
  <2>3. CASE v.type = "null"
    BY <2>2, <2>3 DEF Answered!StringList, Answered!Salvaged
  <2>4. CASE v.type = "string"
    BY <2>2, <2>4 DEF Answered!StringList, Answered!Salvaged
  <2>5. CASE v.type = "list"
    BY <2>2, <2>5 DEF Answered!StringList, Answered!Salvaged
  <2>6. CASE v.type \notin {"null", "string", "list"}
    BY <2>2, <2>6 DEF Answered!StringList, Answered!Salvaged
  <2> QED
    BY <2>3, <2>4, <2>5, <2>6
<1> QED
  BY <1>1, <1>2

\* A narrative that nothing is noted of is given under its own name.
LEMMA ActiveTold ==
  ASSUME NEW f \in Narratives, NEW data, ~Answered!LegacyPresent(data),
         Answered!ActiveField(f, data).actions = {}
  PROVE  /\ f \in DOMAIN data
         /\ Answered!NarrativeField(data[f], f, f).actions = {}
         /\ Answered!ActiveField(f, data).value = Answered!NarrativeField(data[f], f, f).value
<1>1. "concise_recommendations" \notin DOMAIN data
  BY DEF Answered!LegacyPresent
<1>2. Answered!IsGiven(f, Answered!ProviderAliases, data)
  <2> SUFFICES ASSUME ~Answered!IsGiven(f, Answered!ProviderAliases, data)
               PROVE  FALSE
    OBVIOUS
  <2>1. Answered!ActiveField(f, data) =
          [value |-> {}, actions |-> {"missing_optional_field_defaulted"}]
    BY <1>1 DEF Answered!ActiveField, Answered!Salvaged
  <2> QED
    BY <2>1
<1>3. PICK key : key = Answered!SourceKey(f, Answered!ProviderAliases, data)
  OBVIOUS
<1>4. PICK n : n = Answered!NarrativeField(data[key], f, key)
  OBVIOUS
<1>5. PICK y : y = IF key # f THEN {"field_alias_normalized"} ELSE {}
  OBVIOUS
<1>6. Answered!ActiveField(f, data) = [n EXCEPT !.actions = n.actions \cup y]
  BY <1>2, <1>3, <1>4, <1>5 DEF Answered!ActiveField, Answered!Noted, Answered!When
<1>7. n = [value |-> n.value, actions |-> n.actions]
  BY <1>4, NarrativeShape
<1>8. n.actions = {} /\ y = {} /\ Answered!ActiveField(f, data).value = n.value
  BY <1>6, <1>7
<1>9. key = f
  BY <1>5, <1>8
<1>10. f \in DOMAIN data
  BY <1>2, <1>3, <1>9, OwnNameFirst
<1> QED
  BY <1>4, <1>8, <1>9, <1>10

LEMMA NothingNoted ==
  ASSUME NEW data, Answered!Salvage(data).actions = {}
  PROVE  /\ \A f \in Answered!Fields : Answered!Field(f, data).actions = {}
         /\ DOMAIN data \subseteq Answered!KnownKeys
         /\ Answered!Salvage(data).fields =
              [f \in Answered!Fields |-> Answered!Field(f, data).value]
<1>1. PICK salvaged : salvaged = [f \in Answered!Fields |-> Answered!Field(f, data)]
  OBVIOUS
<1>2. PICK y : y = IF DOMAIN data \ Answered!KnownKeys # {}
                     THEN {"unknown_top_level_field_ignored"} ELSE {}
  OBVIOUS
<1>3. Answered!Salvage(data) = Answered!Together(salvaged, y)
  BY <1>1, <1>2 DEF Answered!Salvage, Answered!When
<1>4. /\ Answered!Salvage(data).actions =
           y \cup UNION {salvaged[f].actions : f \in Answered!Fields}
      /\ Answered!Salvage(data).fields = [f \in Answered!Fields |-> salvaged[f].value]
  BY <1>3 DEF Answered!Together
<1>5. y = {} /\ \A f \in Answered!Fields : salvaged[f].actions = {}
  BY <1>4
<1> QED
  BY <1>1, <1>2, <1>4, <1>5

LEMMA FieldsNamed ==
  /\ Narratives \subseteq Answered!Fields /\ "concise_recommendations" \in Answered!Fields
  /\ \A data : Answered!Field("job_summary", data) = Answered!Summary(data)
  /\ \A data : \A f \in Narratives \ {"job_summary"} :
       Answered!Field(f, data) = Answered!ActiveField(f, data)
<1>1. Narratives \subseteq Answered!Fields /\ "concise_recommendations" \in Answered!Fields
  BY NarrativeNames DEF Answered!Fields, Answered!TopLevelAliases, Narratives
<1>2. ASSUME NEW data PROVE Answered!Field("job_summary", data) = Answered!Summary(data)
  BY NarrativeNames DEF Answered!Field, Answered!TopLevelAliases
<1>3. ASSUME NEW data, NEW f \in Narratives \ {"job_summary"}
      PROVE  Answered!Field(f, data) = Answered!ActiveField(f, data)
  BY NarrativeNames DEF Answered!Field, Answered!TopLevelAliases, Narratives
<1> QED
  BY <1>1, <1>2, <1>3

LEMMA SummaryTold ==
  ASSUME NEW data, ~Answered!LegacyPresent(data), Answered!Summary(data).actions = {},
         \A k \in DOMAIN data : Measured(data[k])
  PROVE  /\ "job_summary" \in DOMAIN data /\ data["job_summary"].type = "string"
         /\ data["job_summary"].length <= 16
         /\ Answered!Summary(data).value = Plainly({data["job_summary"]})
<1>1. PICK f : f = "job_summary" /\ f \in Narratives
  BY DEF Narratives
<1>2. f \in DOMAIN data
  <2> SUFFICES ASSUME f \notin DOMAIN data
               PROVE  FALSE
    OBVIOUS
  <2>1. Answered!ActiveField(f, data).actions = {}
    BY <1>1 DEF Answered!Summary
  <2> QED
    BY <1>1, <2>1, ActiveTold
<1>3. PICK n, y : /\ n = Answered!ActiveField(f, data)
                  /\ y = IF data[f].type # "string" THEN {"invalid_field_defaulted"} ELSE {}
  OBVIOUS
<1>4. Answered!Summary(data) = [n EXCEPT !.actions = n.actions \cup y]
  BY <1>1, <1>2, <1>3 DEF Answered!Summary, Answered!Noted, Answered!When
<1>5. n = [value |-> n.value, actions |-> n.actions]
  <2>1. PICK key : key = IF Answered!IsGiven(f, Answered!ProviderAliases, data)
                           THEN Answered!SourceKey(f, Answered!ProviderAliases, data)
                           ELSE "concise_recommendations"
    OBVIOUS
  <2>2. PICK m : m = Answered!NarrativeField(data[key], f, key)
    OBVIOUS
  <2>3. m = [value |-> m.value, actions |-> m.actions]
    BY <1>1, <2>2, NarrativeShape
  <2> QED
    BY <1>3, <2>1, <2>2, <2>3 DEF Answered!ActiveField, Answered!Noted, Answered!Salvaged
<1>6. n.actions = {} /\ y = {} /\ Answered!Summary(data).value = n.value
  BY <1>4, <1>5
<1>7. data[f].type = "string"
  BY <1>3, <1>6
<1>8. Answered!NarrativeField(data[f], f, f).actions = {}
      /\ n.value = Answered!NarrativeField(data[f], f, f).value
  BY <1>1, <1>3, <1>6, ActiveTold
<1>9. Answered!NarrativeField(data[f], f, f) = Answered!SingleText(data[f], 16)
  BY <1>1 DEF Answered!NarrativeField, Answered!MaximumLength
<1> QED
  BY <1>1, <1>2, <1>6, <1>7, <1>8, <1>9, TextKept

LEMMA RecommendationsTold ==
  ASSUME NEW data, ~Answered!LegacyPresent(data),
         Answered!ActiveField("recommendations", data).actions = {},
         \A k \in DOMAIN data :
           data[k].type = "list" =>
             /\ data[k].items \in Seq({data[k].items[i] : i \in DOMAIN data[k].items})
             /\ \A i \in DOMAIN data[k].items : Measured(data[k].items[i])
  PROVE  /\ "recommendations" \in DOMAIN data /\ data["recommendations"].type = "list"
         /\ Answered!ActiveField("recommendations", data).value =
              Plainly({data["recommendations"].items[i] : i \in DOMAIN data["recommendations"].items})
<1>1. PICK f : f = "recommendations" /\ f \in Narratives
  BY DEF Narratives
<1>2. /\ f \in DOMAIN data
      /\ Answered!NarrativeField(data[f], f, f).actions = {}
      /\ Answered!ActiveField(f, data).value = Answered!NarrativeField(data[f], f, f).value
  BY <1>1, ActiveTold
<1>3. PICK b : b = FALSE
  OBVIOUS
<1>4. Answered!MaximumItems[f] = 5 /\ Answered!MaximumLength(f, f) = 9
  BY <1>1 DEF Answered!MaximumItems, Answered!MaximumLength
<1>5. Answered!NarrativeField(data[f], f, f) = Answered!StringList(data[f], 5, 9, b)
  <2>1. Answered!NarrativeField(data[f], f, f) =
          Answered!StringList(data[f], Answered!MaximumItems[f], Answered!MaximumLength(f, f), b)
    BY <1>1, <1>3, Zenon DEF Answered!NarrativeField
  <2> QED
    BY <1>4, <2>1
<1>6. PICK v : v = data[f]
  OBVIOUS
<1>7. v.type = "list" => /\ v.items \in Seq({v.items[i] : i \in DOMAIN v.items})
                         /\ \A i \in DOMAIN v.items : Measured(v.items[i])
  BY <1>2, <1>6
<1>8. Answered!StringList(v, 5, 9, b).actions = {}
  BY <1>2, <1>5, <1>6
<1>9. v.type = "list" /\ Answered!StringList(v, 5, 9, b).value =
                           Plainly({v.items[i] : i \in DOMAIN v.items})
  BY <1>7, <1>8, ListKept
<1> QED
  BY <1>1, <1>2, <1>5, <1>6, <1>9

LEMMA NullIsNoted ==
  ASSUME NEW f \in Narratives, NEW v, v.type = "null"
  PROVE  Answered!NarrativeField(v, f, f).actions # {}
<1>1. CASE f = "job_summary"
  <2>1. PICK m : m = Answered!MaximumLength(f, f)
    OBVIOUS
  <2>2. Answered!NarrativeField(v, f, f) = Answered!SingleText(v, m)
    BY <1>1, <2>1 DEF Answered!NarrativeField
  <2> QED
    BY <2>2 DEF Answered!SingleText, Answered!Salvaged
<1>2. CASE f # "job_summary"
  <2>1. PICK m, k, b : m = Answered!MaximumItems[f] /\ k = Answered!MaximumLength(f, f) /\ b = FALSE
    OBVIOUS
  <2>2. Answered!NarrativeField(v, f, f) = Answered!StringList(v, m, k, b)
    BY <1>2, <2>1, Zenon DEF Answered!NarrativeField
  <2> QED
    BY <2>2 DEF Answered!StringList, Answered!Salvaged
<1> QED
  BY <1>1, <1>2

\* A content that nothing was done to is told as it is.
LEMMA HonestlyRead ==
  ASSUME NEW a \in Asked, NEW c \in Replies(a), NEW read, read = Answered!Read(c), read.usable,
         read.actions = {}, Answered!ParseWarnings(c) = {},
         ~Answered!LegacyPresent(Answered!Data(c)),
         NEW d, d = Answered!Converted(read.fields)
  PROVE  Honest(d, Answered!ContractWarnings(Answered!Data(c)), c)
<1>1. Answered!Parses(c)
  BY DEF Answered!Read
<1>2. PICK data : data = Answered!Data(c)
  OBVIOUS
<1>3. \A k \in DOMAIN data :
        /\ Measured(data[k])
        /\ data[k].type = "list" =>
             /\ data[k].items \in Seq({data[k].items[i] : i \in DOMAIN data[k].items})
             /\ \A i \in DOMAIN data[k].items : Measured(data[k].items[i])
  <2>1. \A k \in DOMAIN Answered!Data(c) :
          LET v == Answered!Data(c)[k] IN
          /\ Measured(v)
          /\ v.type = "list" => /\ v.items \in Seq({v.items[i] : i \in DOMAIN v.items})
                                /\ \A i \in DOMAIN v.items : Measured(v.items[i])
    BY <1>1, RepliesAssumption, Zenon
  <2> QED
    BY <1>2, <2>1
<1>4. ~Answered!LegacyPresent(data)
  BY <1>2
<1>5. PICK s : s = Answered!Salvage(data)
  OBVIOUS
<1>6. read.fields = Answered!Filled(s.fields) /\ s.actions = {}
  BY <1>1, <1>2, <1>5 DEF Answered!Read, Answered!Judged
<1>7. /\ \A f \in Answered!Fields : Answered!Field(f, data).actions = {}
      /\ DOMAIN data \subseteq Answered!KnownKeys
      /\ s.fields = [f \in Answered!Fields |-> Answered!Field(f, data).value]
  BY <1>5, <1>6, NothingNoted
<1>8. /\ "job_summary" \in DOMAIN data /\ data["job_summary"].type = "string"
      /\ data["job_summary"].length <= 16
      /\ s.fields.job_summary = Plainly({data["job_summary"]})
  <2>1. /\ Answered!Summary(data).actions = {}
        /\ s.fields.job_summary = Answered!Summary(data).value
    BY <1>7, FieldsNamed DEF Narratives
  <2>2. \A k \in DOMAIN data : Measured(data[k])
    BY <1>3
  <2> QED
    BY <1>4, <2>1, <2>2, SummaryTold
<1>9. \A f \in Narratives \ {"job_summary"} :
        Answered!ActiveField(f, data).actions = {}
        /\ s.fields[f] = Answered!ActiveField(f, data).value
  BY <1>7, FieldsNamed
<1>10. PICK listed : listed = {data["recommendations"].items[i] :
                             i \in DOMAIN data["recommendations"].items}
  OBVIOUS
<1>11. /\ "recommendations" \in DOMAIN data /\ data["recommendations"].type = "list"
       /\ s.fields.recommendations = Plainly(listed)
  <2>1. Answered!ActiveField("recommendations", data).actions = {}
        /\ s.fields.recommendations = Answered!ActiveField("recommendations", data).value
    BY <1>9 DEF Narratives
  <2>2. \A k \in DOMAIN data : data[k].type = "list" =>
             /\ data[k].items \in Seq({data[k].items[i] : i \in DOMAIN data[k].items})
             /\ \A i \in DOMAIN data[k].items : Measured(data[k].items[i])
    BY <1>3
  <2> QED
    BY <1>4, <1>10, <2>1, <2>2, RecommendationsTold
<1>12. \A f \in Narratives : f \in DOMAIN data /\ data[f].type # "null"
  <2> SUFFICES ASSUME NEW f \in Narratives
               PROVE  f \in DOMAIN data /\ data[f].type # "null"
    OBVIOUS
  <2>1. CASE f = "job_summary"
    BY <1>8, <2>1
  <2>2. CASE f # "job_summary"
    <3>1. f \in DOMAIN data /\ Answered!NarrativeField(data[f], f, f).actions = {}
      BY <1>4, <1>9, <2>2, ActiveTold
    <3> QED
      BY <3>1, NullIsNoted
  <2> QED
    BY <2>1, <2>2
<1>13. /\ Answered!ContractWarnings(data) \subseteq {"aliases", "nulls"}
       /\ Answered!ContractWarnings(data) # {} => Twice(data)
  BY <1>4, <1>7, <1>12, WarnedOfTwice
<1>14. c.value.fields = data
  <2>1. ~Answered!Unwraps(c)
    BY DEF Answered!ParseWarnings, Answered!When
  <2>2. CASE c.wrapper
    BY <1>2, <1>8, <2>1, <2>2 DEF Answered!Data
  <2>3. CASE ~c.wrapper
    BY <1>2, <2>3 DEF Answered!Data
  <2> QED
    BY <2>2, <2>3
<1>15. SaidIn(c, "job_summary") = Plainly({data["job_summary"]})
  BY <1>8, <1>14 DEF SaidIn, Plainly
<1>16. SaidIn(c, "recommendations") = Plainly(listed)
  BY <1>10, <1>11, <1>14 DEF SaidIn, Plainly
<1>17. PICK summary, advice : summary = Plainly({data["job_summary"]}) /\ advice = Plainly(listed)
  OBVIOUS
<1>18. /\ read.fields.job_summary = summary
       /\ advice # {} => read.fields.recommendations = advice
  <2>1. DOMAIN s.fields = Answered!Fields /\ s.fields.job_summary = summary
        /\ s.fields.recommendations = advice
    BY <1>7, <1>8, <1>11, <1>17
  <2> QED
    BY <1>6, <2>1, FieldsNamed DEF Answered!Filled, Answered!Given, Narratives
<1>19. /\ d.summary = IF summary = {} THEN {Answered!JobSummary} ELSE summary
       /\ advice # {} => d.recommendations = advice
  BY <1>18 DEF Answered!Converted, Answered!Draft
<1>20. Short(d.summary)
  <2>1. CASE summary = {}
    <3>1. Answered!JobSummary.length = 0
      BY DEF Answered!JobSummary, Answered!Backend
    <3> QED
      BY <1>19, <2>1, <3>1 DEF Short
  <2>2. CASE summary # {}
    <3>1. PICK v : v = data["job_summary"]
      OBVIOUS
    <3>2. PICK x : x = [token |-> v.token, length |-> v.length]
      OBVIOUS
    <3>3. summary = {x}
      BY <1>17, <2>2, <3>1, <3>2 DEF Plainly
    <3>4. x.length \in 0 .. 16
      <4>1. Measured(v) /\ v.type = "string" /\ v.length <= 16
        BY <1>3, <1>8, <3>1
      <4> QED
        BY <3>2, <4>1 DEF Measured
    <3> QED
      BY <1>19, <2>2, <3>3, <3>4 DEF Short
  <2> QED
    BY <2>1, <2>2
<1> QED
  BY <1>2, <1>13, <1>15, <1>16, <1>17, <1>19, <1>20 DEF Honest

LEMMA SameRequest ==
  ASSUME ask' = ask
  PROVE  /\ Answered!Considered' = Answered!Considered
         /\ Answered!KeywordMatched' = Answered!KeywordMatched
         /\ Answered!KeywordMissing' = Answered!KeywordMissing
         /\ SupportedSkills' = SupportedSkills
BY DEF Answered!Considered, Answered!KeywordMatched, Answered!KeywordMissing, Answered!Kept,
   Answered!ByKeyword, Answered!Skills, SupportedSkills, Answered!InResume, Answered!InChunks

LEMMA BegunStays ==
  ASSUME ask' = ask, NEW d, Begun(d), draft' = d
  PROVE  Begun(draft)'
BY SameRequest DEF Begun

LEMMA LookedStays ==
  ASSUME ask' = ask, NEW d, Looked(d), draft' = d
  PROVE  Looked(draft)'
BY SameRequest DEF Looked

LEMMA AccountedStays ==
  ASSUME ask' = ask, NEW d, Accounted(d), draft' = d
  PROVE  Accounted(draft)'
BY SameRequest DEF Accounted, Answered!InResume, Answered!InChunks

LEMMA AdvisedStays ==
  ASSUME ask' = ask, NEW d, Advised(d), draft' = d
  PROVE  Advised(draft)'
BY SameRequest DEF Advised

\* What the refinement changes of a draft is neither its skills nor what it tells.
LEMMA AccountedAlike ==
  ASSUME NEW d, NEW e, Accounted(d), e.matched = d.matched, e.missing = d.missing,
         e.unknown = d.unknown, e.mapping = d.mapping, e.keywords = d.keywords
  PROVE  Accounted(e)
BY DEF Accounted

LEMMA HonestAlike ==
  ASSUME NEW d, NEW e, NEW noted, NEW c, Honest(d, noted, c), e.summary = d.summary,
         d.recommendations # {} => e.recommendations = d.recommendations
  PROVE  Honest(e, noted, c)
BY DEF Honest

LEMMA FallbackKeeps ==
  ASSUME AnswerInv, Answered!Fallback
  PROVE  AnswerInv'
<1>1. PICK d : d = Answered!LocalFallback
  OBVIOUS
<1>2. /\ ask' = ask /\ stage' = "validate_evidence_references" /\ draft' = d
      /\ status' = "fallback"
  BY <1>1 DEF Answered!Fallback
<1>3. DOMAIN d = DraftFields /\ Begun(d) /\ d.score = 0 /\ d.action = "none"
  BY <1>1, FallbackBegins
<1>4. Begun(draft)'
  BY <1>2, <1>3, BegunStays
<1> QED
  BY <1>2, <1>3, <1>4 DEF AnswerInv, AnswerStages, Drafting, Final, Actions

\* Only what was read as it is, is called complete.
LEMMA AcceptedKeeps ==
  ASSUME AnswerInv, stage = "parse_model_json",
         NEW c, NEW used, NEW repaired \in BOOLEAN, Answered!Accepted(c, used, repaired),
         ~repaired => c \in Replies(ask) /\ used = Answered!Read(c) /\ used.usable
  PROVE  AnswerInv'
<1>1. PICK plain : plain = Answered!Converted(used.fields)
  OBVIOUS
<1>2. PICK d : d = Answered!Sanitized(plain)
  OBVIOUS
<1>3. PICK w : w = Answered!ContractWarnings(Answered!Data(c))
  OBVIOUS
<1>4. PICK said, cut, shown, saved :
        /\ said = IF repaired THEN {"repair_call"} ELSE {}
        /\ cut = Answered!ParseWarnings(c)
        /\ saved = Answered!SalvageWarnings(used.actions)
        /\ shown = IF d # plain THEN {"narratives_removed"} ELSE {}
  OBVIOUS
<1>5. /\ ask' = ask /\ stage' = "validate_evidence_references" /\ draft' = d /\ content' = c
      /\ status' = IF d # plain /\ (IF used.actions # {} THEN "partial"
                                    ELSE IF repaired \/ cut # {} THEN "repaired"
                                    ELSE "complete") = "complete"
                     THEN "partial"
                     ELSE IF used.actions # {} THEN "partial"
                          ELSE IF repaired \/ cut # {} THEN "repaired" ELSE "complete"
      /\ warnings' = warnings \cup said \cup cut \cup w \cup saved \cup shown
  BY <1>1, <1>2, <1>3, <1>4 DEF Answered!Accepted, Answered!When
<1>6. DOMAIN d = DraftFields /\ Begun(d) /\ d.score = 0 /\ d.action = "none"
  BY <1>1, <1>2, ConvertedBegins
<1>7. Begun(draft)'
  BY <1>5, <1>6, BegunStays
<1>8. status' = "complete" => ~repaired /\ used.actions = {} /\ cut = {} /\ d = plain
  BY <1>5
<1>9. ASSUME status' = "complete", Answered!Active'
      PROVE  Honest(draft, warnings, content)'
  <2>1. ~Answered!LegacyPresent(Answered!Data(c))
    BY <1>5, <1>9 DEF Answered!Active
  <2>2. Honest(plain, w, c)
    <3>1. c \in Replies(ask) /\ used = Answered!Read(c) /\ used.usable /\ ask \in Asked
      BY <1>8, <1>9 DEF AnswerInv
    <3> QED
      BY <1>1, <1>3, <1>4, <1>8, <1>9, <2>1, <3>1, HonestlyRead
  <2>3. warnings' = w
    <3>1. warnings = {}
      BY DEF AnswerInv
    <3>2. said = {} /\ cut = {} /\ shown = {} /\ saved = {}
      BY <1>4, <1>8, <1>9 DEF Answered!SalvageWarnings
    <3> QED
      BY <1>5, <3>1, <3>2
  <2> QED
    BY <1>5, <1>8, <1>9, <2>2, <2>3 DEF Honest
<1>10. status' \in {"none", "complete", "repaired", "partial", "fallback"}
  BY <1>5
<1> QED
  BY <1>5, <1>6, <1>7, <1>9, <1>10 DEF AnswerInv, AnswerStages, Drafting, Final, Actions

LEMMA RunKeeps ==
  ASSUME AnswerInv, Answered!RunLlmAnalysis
  PROVE  AnswerInv'
<1>1. CASE Answered!Fallback
  BY <1>1, FallbackKeeps
<1>2. CASE \E c \in Replies(ask) :
             /\ content' = c /\ stage' = "parse_model_json"
             /\ UNCHANGED <<ask, draft, status, warnings>>
  <2>1. PICK c \in Replies(ask) :
             /\ content' = c /\ stage' = "parse_model_json"
             /\ UNCHANGED <<ask, draft, status, warnings>>
    BY <1>2
  <2>2. stage = "run_llm_analysis" /\ status = "none" /\ Begun(draft)
    BY DEF Answered!RunLlmAnalysis, AnswerInv, Drafting
  <2>3. Begun(draft)'
    BY <2>1, <2>2, BegunStays
  <2> QED
    BY <2>1, <2>2, <2>3 DEF AnswerInv, AnswerStages, Drafting, Final
<1> QED
  BY <1>1, <1>2 DEF Answered!RunLlmAnalysis

LEMMA ParseKeeps ==
  ASSUME AnswerInv, Answered!ParseModelJson
  PROVE  AnswerInv'
<1>1. PICK n, y : n = FALSE /\ y = TRUE /\ n \in BOOLEAN /\ y \in BOOLEAN
  OBVIOUS
<1>2. stage = "parse_model_json" /\ content \in Replies(ask)
  BY DEF Answered!ParseModelJson, AnswerInv
<1>3. PICK read : read = Answered!Read(content)
  OBVIOUS
<1>4. \/ read.usable /\ Answered!Accepted(content, read, n)
      \/ \E c \in Repairs : \E used : Answered!Accepted(c, used, y)
      \/ Answered!Fallback
  BY <1>1, <1>3, Zenon DEF Answered!ParseModelJson
<1>5. CASE read.usable /\ Answered!Accepted(content, read, n)
  BY <1>1, <1>2, <1>3, <1>5, AcceptedKeeps
<1>6. CASE \E c \in Repairs : \E used : Answered!Accepted(c, used, y)
  <2>1. PICK c, used : Answered!Accepted(c, used, y)
    BY <1>6
  <2> QED
    BY <1>1, <1>2, <2>1, AcceptedKeeps
<1>7. CASE Answered!Fallback
  BY <1>7, FallbackKeeps
<1> QED
  BY <1>4, <1>5, <1>6, <1>7

\* What is found fault with is not complete any more.
LEMMA OnlyFaultless ==
  ASSUME NEW faults, NEW w, Answered!Downgraded(faults, w),
         status \in {"none", "complete", "repaired", "partial", "fallback"}
  PROVE  /\ status' \in {"none", "complete", "repaired", "partial", "fallback"}
         /\ status' = "complete" => status = "complete" /\ warnings' = warnings
BY DEF Answered!Downgraded

LEMMA ValidateKeeps ==
  ASSUME AnswerInv, Answered!ValidateEvidenceReferences
  PROVE  AnswerInv'
<1>1. PICK d : d = Answered!Coordinated(Answered!SetAsideUnsupported(draft))
  OBVIOUS
<1>2. /\ ask' = ask /\ content' = content /\ stage' = "reconcile_evidence" /\ draft' = d
      /\ stage = "validate_evidence_references"
      /\ Answered!Downgraded(Answered!RejectedCitations, "references_ignored")
  BY <1>1 DEF Answered!ValidateEvidenceReferences
<1>3. /\ status' \in {"none", "complete", "repaired", "partial", "fallback"}
      /\ status' = "complete" => status = "complete" /\ warnings' = warnings
  BY <1>2, OnlyFaultless DEF AnswerInv
<1>4. /\ Looked(d) /\ DOMAIN d = DraftFields /\ d.score = draft.score /\ d.action = draft.action
      /\ d.summary = draft.summary /\ d.recommendations = draft.recommendations
  BY <1>1, <1>2, AsideIsLooked DEF AnswerInv, Drafting
<1>5. Looked(draft)'
  BY <1>2, <1>4, LookedStays
<1>6. ASSUME status' = "complete", Answered!Active'
      PROVE  Honest(draft, warnings, content)'
  <2>1. Honest(draft, warnings, content)
    BY <1>2, <1>3, <1>6 DEF AnswerInv, Answered!Active
  <2>2. Honest(d, warnings, content)
    BY <1>4, <2>1, HonestAlike
  <2> QED
    BY <1>2, <1>3, <1>6, <2>2 DEF Honest
<1> QED
  BY <1>2, <1>3, <1>4, <1>5, <1>6 DEF AnswerInv, AnswerStages, Drafting, Final

LEMMA ReconcileKeeps ==
  ASSUME AnswerInv, Answered!ReconcileEvidence
  PROVE  AnswerInv'
<1>1. PICK g : g = Answered!Grounded(Answered!Reconciled(draft))
  OBVIOUS
<1>2. PICK s : s = Answered!Scored(g)
  OBVIOUS
<1>3. PICK d : d = Answered!Listed(Answered!Narrated(s))
  OBVIOUS
<1>4. /\ ask' = ask /\ content' = content /\ stage' = "recommend_next_action" /\ draft' = d
      /\ stage = "reconcile_evidence"
      /\ Answered!Downgraded(Answered!UnsupportedClaims, "claims_removed")
  BY <1>1, <1>2, <1>3 DEF Answered!ReconcileEvidence
<1>5. /\ status' \in {"none", "complete", "repaired", "partial", "fallback"}
      /\ status' = "complete" => status = "complete" /\ warnings' = warnings
  BY <1>4, OnlyFaultless DEF AnswerInv
<1>6. IsFiniteSet(Answered!Considered) /\ NoSkill \notin Answered!Considered
  BY AskedOfFew
<1>7. Looked(draft) /\ DOMAIN draft = DraftFields /\ draft.action \in Actions
  BY <1>4 DEF AnswerInv
<1>8. /\ Accounted(g) /\ DOMAIN g = DraftFields /\ g.action = draft.action
      /\ g.summary = draft.summary /\ g.recommendations = draft.recommendations
      /\ g.matched \cup g.missing \cup g.unknown \subseteq Answered!Considered \cup {NoSkill}
  BY <1>1, <1>6, <1>7, EvidenceIsReconciled
<1>9. IsFiniteSet(g.matched) /\ IsFiniteSet(g.missing) /\ IsFiniteSet(g.unknown)
  <2>1. IsFiniteSet(Answered!Considered \cup {NoSkill})
    BY <1>6, FS_AddElement
  <2>2. /\ g.matched \subseteq Answered!Considered \cup {NoSkill}
        /\ g.missing \subseteq Answered!Considered \cup {NoSkill}
        /\ g.unknown \subseteq Answered!Considered \cup {NoSkill}
    BY <1>8
  <2> QED
    BY <2>1, <2>2, FS_Subset
<1>10. /\ DOMAIN s = DraftFields /\ s.score \in 0 .. 100
       /\ \A f \in DraftFields \ {"score"} : s[f] = g[f]
  BY <1>2, <1>8, <1>9, ScoreIsPercentage
<1>11. /\ DOMAIN d = DraftFields
       /\ \A f \in DraftFields \ {"summary", "reason", "recommendations", "suggestions"} :
            d[f] = s[f]
       /\ Short(s.summary) => d.summary = s.summary
       /\ s.recommendations # {} => d.recommendations = s.recommendations
  BY <1>3, <1>10, NarrativesAreTold
<1>12. /\ s.summary = draft.summary /\ s.recommendations = draft.recommendations
       /\ d.score = s.score /\ d.action = draft.action
       /\ d.matched = g.matched /\ d.missing = g.missing /\ d.unknown = g.unknown
       /\ d.mapping = g.mapping /\ d.keywords = g.keywords
  BY <1>8, <1>10, <1>11 DEF DraftFields
<1>13. Accounted(d)
  BY <1>8, <1>12, AccountedAlike
<1>14. Accounted(draft)'
  BY <1>4, <1>13, AccountedStays
<1>15. ASSUME status' = "complete", Answered!Active'
       PROVE  Honest(draft, warnings, content)'
  <2>1. Honest(draft, warnings, content)
    BY <1>4, <1>5, <1>15 DEF AnswerInv, Answered!Active
  <2>2. Short(draft.summary)
    BY <2>1 DEF Honest
  <2>3. /\ d.summary = draft.summary
        /\ draft.recommendations # {} => d.recommendations = draft.recommendations
    BY <1>11, <1>12, <2>2
  <2>4. Honest(d, warnings, content)
    BY <2>1, <2>3, HonestAlike
  <2> QED
    BY <1>4, <1>5, <1>15, <2>4 DEF Honest
<1> QED
  BY <1>4, <1>5, <1>7, <1>10, <1>11, <1>12, <1>14, <1>15
     DEF AnswerInv, AnswerStages, Drafting, Final

LEMMA RecommendKeeps ==
  ASSUME AnswerInv, Answered!RecommendNextAction
  PROVE  AnswerInv'
<1>1. PICK action : action = Answered!NextAction
  OBVIOUS
<1>2. PICK d : d = [draft EXCEPT !.action = action]
  OBVIOUS
<1>3. /\ ask' = ask /\ content' = content /\ stage' = "final_output_scan" /\ draft' = d
      /\ status' = status /\ warnings' = warnings /\ stage = "recommend_next_action"
  BY <1>1, <1>2 DEF Answered!RecommendNextAction
<1>4. Accounted(draft) /\ DOMAIN draft = DraftFields /\ draft.score \in 0 .. 100
  BY <1>3 DEF AnswerInv, Final
<1>5. /\ action \in Actions
      /\ action = "apply_now" =>
           \A k \in draft.missing :
             \E other \in Answered!Considered \ draft.missing : <<other, k>> \in Covering
  BY <1>1, <1>4, ActionIsAdvised
<1>6. /\ DOMAIN d = DraftFields /\ d.action = action /\ d.score = draft.score
      /\ d.matched = draft.matched /\ d.missing = draft.missing /\ d.unknown = draft.unknown
      /\ d.mapping = draft.mapping /\ d.keywords = draft.keywords
      /\ d.summary = draft.summary /\ d.recommendations = draft.recommendations
  BY <1>2, <1>4 DEF DraftFields
<1>7. Accounted(d) /\ Advised(d)
  <2>1. Accounted(d)
    BY <1>4, <1>6, AccountedAlike
  <2> QED
    BY <1>5, <1>6, <2>1 DEF Advised
<1>8. Accounted(draft)' /\ Advised(draft)'
  BY <1>3, <1>7, AccountedStays, AdvisedStays
<1>9. ASSUME status' = "complete", Answered!Active'
      PROVE  Honest(draft, warnings, content)'
  <2>1. Honest(draft, warnings, content)
    BY <1>3, <1>9 DEF AnswerInv, Answered!Active
  <2>2. Honest(d, warnings, content)
    BY <1>6, <2>1, HonestAlike
  <2> QED
    BY <1>3, <2>2 DEF Honest
<1>10. status \in {"none", "complete", "repaired", "partial", "fallback"}
  BY DEF AnswerInv
<1> QED
  BY <1>3, <1>4, <1>5, <1>6, <1>8, <1>9, <1>10 DEF AnswerInv, AnswerStages, Drafting, Final

\* Nothing else of the answer changes.
LEMMA AnswerStays ==
  ASSUME AnswerInv, UNCHANGED <<ask, draft, status, warnings, content>>,
         \/ stage' = stage
         \/ stage = "final_output_scan" /\ stage' \in {"delivered", "refused"}
  PROVE  AnswerInv'
<1>1. Begun(draft) => Begun(draft)'
  BY BegunStays
<1>2. Looked(draft) => Looked(draft)'
  BY LookedStays
<1>3. Accounted(draft) => Accounted(draft)'
  BY AccountedStays
<1>4. Advised(draft) => Advised(draft)'
  BY AdvisedStays
<1>5. ASSUME status' = "complete", Answered!Active'
      PROVE  Honest(draft, warnings, content)'
  <2>1. Honest(draft, warnings, content)
    BY <1>5 DEF AnswerInv, Answered!Active
  <2> QED
    BY <2>1 DEF Honest
<1> QED
  BY <1>1, <1>2, <1>3, <1>4, <1>5 DEF AnswerInv, AnswerStages, Drafting, Final

LEMMA AnswerBegins ==
  ASSUME Answered!Init
  PROVE  AnswerInv
<1>1. PICK d : d = Answered!LocalFallback
  OBVIOUS
<1>2. /\ ask \in Asked /\ stage = "run_llm_analysis" /\ draft = d
      /\ status = "none" /\ warnings = {}
  BY <1>1 DEF Answered!Init
<1>3. DOMAIN d = DraftFields /\ Begun(d) /\ d.score = 0 /\ d.action = "none"
  BY <1>1, FallbackBegins
<1> QED
  BY <1>2, <1>3 DEF AnswerInv, AnswerStages, Drafting, Final, Actions

LEMMA AnswerHides ==
  ASSUME AnswerInv
  PROVE  Answered!SkillsAccounted /\ Answered!CompleteHidesNothing
<1>1. Answered!SkillsAccounted
  <2> SUFFICES ASSUME stage = "delivered"
               PROVE  Answered!SkillsAccounted
    BY DEF Answered!SkillsAccounted, Answered!Delivered
  <2>1. Accounted(draft) /\ Advised(draft)
    BY DEF AnswerInv, Final
  <2>2. NoSkill \notin Answered!Skills
    BY AskedAssumption DEF AnswerInv, Answered!Skills
  <2>3. ASSUME NEW k \in Answered!Skills
        PROVE  k \in draft.matched \cup draft.missing \cup draft.unknown
                 <=> Answered!Cardinality(Answered!Ahead(k)) < MaxListed
    <3>1. k \in (draft.matched \cup draft.missing \cup draft.unknown) \ {NoSkill}
            <=> k \in Answered!Considered
      BY <2>1 DEF Accounted
    <3> QED
      BY <2>2, <3>1, ConsideredIsAhead
  <2> QED
    BY <2>1, <2>3 DEF Accounted, Advised, Answered!SkillsAccounted
<1>2. Answered!CompleteHidesNothing
  <2> SUFFICES ASSUME stage = "delivered", status = "complete", Answered!Active
               PROVE  Answered!CompleteHidesNothing
    BY DEF Answered!CompleteHidesNothing, Answered!Delivered
  <2>1. Honest(draft, warnings, content)
    BY DEF AnswerInv
  <2>2. Twice(Answered!Data(content)) => Answered!GivenTwice
    BY DEF Twice, Answered!GivenTwice
  <2>3. \A f : SaidIn(content, f) = Answered!Said(f)
    BY DEF SaidIn, Answered!Said
  <2> QED
    BY <2>1, <2>2, <2>3 DEF Honest, Answered!CompleteHidesNothing
<1> QED
  BY <1>1, <1>2

LEMMA AnswerInvariant == OperationsSpec => []AnswerInv
<1>1. OperationsInit => AnswerInv
  BY AnswerBegins DEF OperationsInit
<1>2. AnswerInv /\ [OperationsNext]_operationsVars => AnswerInv'
  <2> SUFFICES ASSUME AnswerInv, [OperationsNext]_operationsVars
               PROVE  AnswerInv'
    OBVIOUS
  <2>1. CASE AnswerStep
    <3>1. CASE Answered!FinalOutputScan
      BY <3>1, AnswerStays DEF Answered!FinalOutputScan
    <3> QED
      BY <2>1, <3>1, RunKeeps, ParseKeeps, ValidateKeeps, ReconcileKeeps, RecommendKeeps
         DEF AnswerStep, Answered!Next
  <2>2. CASE UNCHANGED operationsVars
    BY <2>2, AnswerStays DEF operationsVars, answerVars
  <2>3. CASE BackupStep \/ DescriptionStep \/ TelemetryStep \/ SpendingStep \/ GateStep
             \/ AccessStep \/ KnowledgeStep
    BY <2>3, AnswerStays DEF BackupStep, DescriptionStep, TelemetryStep, SpendingStep,
       GateStep, AccessStep, KnowledgeStep, answerVars
  <2> QED
    BY <2>1, <2>2, <2>3 DEF OperationsNext
<1> QED
  BY <1>1, <1>2, PTL DEF OperationsSpec

\* From the model's answer to the result: a skill the job asks for has one state, unless
\* MaxListed others come before it in its list of keywords, and a result that calls itself
\* complete hides nothing else of the answer (analysis_fallback.py, legacy_application.py,
\* app/analyze/result_refinement.py).
THEOREM CompleteAnswersHideNothing == OperationsSpec => []AnswerHidesNothing
<1>1. AnswerInv => AnswerHidesNothing
  BY AnswerHides DEF AnswerHidesNothing
<1> QED
  BY <1>1, AnswerInvariant, PTL
=============================================================================
