------------------------- MODULE SharedClientProofs -------------------------
(***************************************************************************)
(* Proofs about SharedClient, for any number of transactions and callers:  *)
(* the requests of a transaction rest on what they need, its working copy  *)
(* has no edit but its own, no request of it is refused for want of its    *)
(* session, and what it makes active is its own edit.                      *)
(*                                                                         *)
(* The inductive invariant says whose sessions the cookies in each jar,    *)
(* and in each request on its way, belong to (Cookies), how a working copy *)
(* differs from what was loaded (Works), and when a transaction has a      *)
(* session at all (Begun). None of the three is seen from TypeOK alone: a  *)
(* step of one worker could then change any session.                       *)
(***************************************************************************)
EXTENDS SharedClient, TLAPS

\* Session s belongs to those whose requests are made with the jar j.
Keeper(j, s) ==
    /\ s \in SessionIds
    /\ session[s] # None
    /\ j \in Transactions => session[s].owner = j
    /\ j \notin Transactions => session[s].owner \in Callers

\* The same of a session as the step leaves it.
KeeperNext(j, s) ==
    /\ s \in SessionIds
    /\ session'[s] # None
    /\ j \in Transactions => session'[s].owner = j
    /\ j \notin Transactions => session'[s].owner \in Callers

Cookies ==
    /\ \A j \in Workers \cup {Shared} : jar[j] # None => Keeper(j, jar[j])
    /\ \A w \in Workers : carried[w] # None => Keeper(w, carried[w])

Work(s) ==
    /\ session[s].base \subseteq session[s].work
    /\ session[s].owner \in Transactions =>
          session[s].work \subseteq session[s].base \cup {session[s].owner}

Works == \A s \in SessionIds : session[s] # None => Work(s)

Begins(t) ==
    /\ pc[t] \in {"version", "create"} => \A s \in SessionIds : ~OwnedBy(s, t)
    /\ err[t] # "none" => pc[t] \in {"terminate", "done"}
    /\ err[t] = "session" => pc[t] = "done" /\ \A s \in SessionIds : ~OwnedBy(s, t)

Begun == \A t \in Transactions : Begins(t)

Inv == TypeOK /\ Cookies /\ Works /\ Begun

(***************************************************************************)
(* What a request that is served does to the sessions: it changes only the *)
(* one it carries, never its owner, and closes it only to terminate it.    *)
(***************************************************************************)
Same(s) == session'[s] = session[s]

Moves(w) ==
    /\ session' \in [SessionIds -> SessionRecords \cup {None}]
    /\ active' \in Configurations
    /\ \A s \in SessionIds \ {carried[w]} : Same(s)
    /\ \A s \in SessionIds : session[s] # None =>
          /\ session'[s] # None
          /\ session'[s].owner = session[s].owner
          /\ session[s].loaded => session'[s].loaded
          /\ pc[w] # "terminate" /\ session[s].open => session'[s].open
    /\ \A s \in SessionIds : session[s] = None => session'[s] = None

Activates(w) == active' \in {active, active \cup {w}}

\* A request to load, edit, activate or terminate is served in an open session,
\* which is that of the worker or, for a caller, of a caller.
LEMMA ServedInSession ==
    ASSUME Inv, NEW w \in Workers, Served(w), pc[w] \in InSession
    PROVE  /\ carried[w] \in SessionIds
           /\ session[carried[w]] \in SessionRecords
           /\ Keeper(w, carried[w])
           /\ Work(carried[w])
  <1>1. Open(carried[w])
    BY DEF Served, Refused, InSession, LoadedIn
  <1>2. carried[w] \in SessionIds /\ session[carried[w]] # None
    BY <1>1 DEF Open
  <1>3. session[carried[w]] \in SessionRecords
    BY <1>2 DEF Inv, TypeOK
  <1>4. Keeper(w, carried[w])
    BY <1>2, SharedClientAssumption DEF Inv, Cookies
  <1> QED  BY <1>2, <1>3, <1>4 DEF Inv, Works

LEMMA RecordMoves ==
    ASSUME Inv, NEW w \in Workers, NEW r \in SessionRecords,
           carried[w] \in SessionIds,
           session[carried[w]] \in SessionRecords,
           session' = [session EXCEPT ![carried[w]] = r],
           r.owner = session[carried[w]].owner,
           session[carried[w]].loaded => r.loaded,
           pc[w] # "terminate" /\ session[carried[w]].open => r.open,
           r.base \subseteq r.work,
           r.owner \in Transactions => r.work \subseteq r.base \cup {r.owner},
           active' \in Configurations
    PROVE  Moves(w) /\ Works'
  <1>1. r # None /\ session[carried[w]] # None
    BY SharedClientAssumption
  <1>2. session' \in [SessionIds -> SessionRecords \cup {None}]
    BY DEF Inv, TypeOK
  <1>3. session'[carried[w]] = r /\ \A s \in SessionIds \ {carried[w]} : Same(s)
    BY DEF Inv, TypeOK, Same
  <1>4. Moves(w)
    BY <1>1, <1>2, <1>3 DEF Moves, Same
  <1>5. Works'
    BY <1>1, <1>3 DEF Inv, Works, Work, Same
  <1> QED  BY <1>4, <1>5

\* What TakesEffect does, for every request that is served.
LEMMA EffectMoves ==
    ASSUME Inv, NEW w \in Workers, Served(w), pc[w] # "create", TakesEffect(w)
    PROVE  /\ Moves(w)
           /\ Works'
           /\ pc[w] = "load" => session'[carried[w]].open /\ session'[carried[w]].loaded
           /\ w \in Transactions => Activates(w)
  <1> DEFINE c == carried[w]
  <1>0. active \in Configurations
    BY DEF Inv, TypeOK
  <1>1. CASE pc[w] \in {"version", "validate"}
    <2>1. session' = session /\ active' = active
      BY <1>1 DEF TakesEffect
    <2>2. Moves(w)
      BY <2>1, <1>0, <1>1 DEF Moves, Same, Inv, TypeOK
    <2>3. Works'
      BY <2>1 DEF Inv, Works, Work
    <2> QED  BY <2>1, <2>2, <2>3, <1>1 DEF Activates
  <1>2. CASE pc[w] = "load"
    <2> DEFINE r == [session[c] EXCEPT !.loaded = TRUE, !.base = active, !.work = active]
    <2>1. /\ c \in SessionIds
          /\ session[c] \in SessionRecords
          /\ session[c] # None
          /\ session[c].open
      BY <1>2, ServedInSession DEF InSession, Served, Refused, Open
    <2>2. session' = [session EXCEPT ![c] = r] /\ active' = active
      BY <1>2 DEF TakesEffect, LoadedNow, Becomes
    <2>3. /\ r \in SessionRecords
          /\ r.owner = session[c].owner /\ r.open = session[c].open
          /\ r.loaded = TRUE /\ r.base = active /\ r.work = active
      BY <2>1, <1>0 DEF SessionRecords
    <2> HIDE DEF r
    <2>4. Moves(w) /\ Works'
      BY <2>1, <2>2, <2>3, <1>0, RecordMoves
    <2>5. session'[c] = r
      BY <2>1, <2>2 DEF Inv, TypeOK
    <2>6. session'[c].open /\ session'[c].loaded
      BY <2>1, <2>3, <2>5
    <2> QED  BY <2>2, <2>4, <2>6, <1>2 DEF Activates
  <1>3. CASE pc[w] = "edit"
    <2> DEFINE r == [session[c] EXCEPT !.work = session[c].work \cup {w}]
    <2>1. /\ c \in SessionIds
          /\ session[c] \in SessionRecords
          /\ Keeper(w, c)
          /\ Work(c)
      BY <1>3, ServedInSession DEF InSession
    <2>2. session' = [session EXCEPT ![c] = r] /\ active' = active
      BY <1>3 DEF TakesEffect, Edited, Becomes
    <2>3. /\ r.owner = session[c].owner /\ r.open = session[c].open
          /\ r.loaded = session[c].loaded /\ r.base = session[c].base
          /\ r.work = session[c].work \cup {w}
      BY <2>1 DEF SessionRecords
    <2>4. r \in SessionRecords
      BY <2>1 DEF SessionRecords, Configurations
    <2> HIDE DEF r
    <2>5. r.base \subseteq r.work
      BY <2>1, <2>3 DEF Work
    <2>6. r.owner \in Transactions => r.work \subseteq r.base \cup {r.owner}
      BY <2>1, <2>3, SharedClientAssumption DEF Work, Keeper, Workers
    <2>7. Moves(w) /\ Works'
      BY <2>1, <2>2, <2>3, <2>4, <2>5, <2>6, <1>0, RecordMoves
    <2> QED  BY <2>2, <2>7, <1>3 DEF Activates
  <1>4. CASE pc[w] = "activate"
    <2> DEFINE r == [session[c] EXCEPT !.base = session[c].work]
    <2>1. /\ c \in SessionIds
          /\ session[c] \in SessionRecords
          /\ Keeper(w, c)
          /\ Work(c)
      BY <1>4, ServedInSession DEF InSession
    <2>2. session' = [session EXCEPT ![c] = r] /\ active' = session[c].work
      BY <1>4 DEF TakesEffect, Activated, Becomes
    <2>3. /\ r.owner = session[c].owner /\ r.open = session[c].open
          /\ r.loaded = session[c].loaded /\ r.base = session[c].work
          /\ r.work = session[c].work
          /\ session[c].work \in Configurations
      BY <2>1 DEF SessionRecords
    <2>4. r \in SessionRecords
      BY <2>1 DEF SessionRecords, Configurations
    <2> HIDE DEF r
    <2>5. Moves(w) /\ Works'
      BY <2>1, <2>2, <2>3, <2>4, RecordMoves
    <2>6. session[c].base = active
      BY <1>4 DEF Served, Outdated
    <2>7. w \in Transactions => Activates(w)
      BY <2>1, <2>2, <2>6 DEF Activates, Keeper, Work
    <2> QED  BY <2>5, <2>7, <1>4
  <1>5. CASE pc[w] = "terminate"
    <2> DEFINE r == [session[c] EXCEPT !.open = FALSE]
    <2>1. /\ c \in SessionIds
          /\ session[c] \in SessionRecords
          /\ Work(c)
      BY <1>5, ServedInSession DEF InSession
    <2>2. session' = [session EXCEPT ![c] = r] /\ active' = active
      BY <1>5 DEF TakesEffect, Closed, Becomes
    <2>3. /\ r \in SessionRecords
          /\ r.owner = session[c].owner /\ r.loaded = session[c].loaded
          /\ r.base = session[c].base /\ r.work = session[c].work
      BY <2>1 DEF SessionRecords
    <2> HIDE DEF r
    <2>4. Moves(w) /\ Works'
      BY <2>1, <2>2, <2>3, <1>0, <1>5, RecordMoves DEF Work
    <2> QED  BY <2>2, <2>4, <1>5 DEF Activates
  <1> QED  BY <1>1, <1>2, <1>3, <1>4, <1>5 DEF TakesEffect

\* A created session belongs to its worker and changes no other.
LEMMA CreatedMoves ==
    ASSUME Inv, NEW w \in Workers, NEW s \in SessionIds, session[s] = None, Created(w, s)
    PROVE  /\ session' \in [SessionIds -> SessionRecords \cup {None}]
           /\ \A r \in SessionIds \ {s} : Same(r)
           /\ session'[s] # None
           /\ session'[s].owner = w
           /\ session'[s].open
           /\ Works'
  <1> DEFINE new == [owner |-> w, open |-> TRUE, loaded |-> FALSE, base |-> {}, work |-> {}]
  <1>1. new \in SessionRecords /\ new.owner = w /\ new.open /\ new.base = {} /\ new.work = {}
    BY DEF SessionRecords, Configurations
  <1>2. session' = [session EXCEPT ![s] = new]
    BY DEF Created
  <1> HIDE DEF new
  <1>3. session'[s] = new /\ \A r \in SessionIds \ {s} : Same(r)
    BY <1>2 DEF Inv, TypeOK, Same
  <1>4. session' \in [SessionIds -> SessionRecords \cup {None}]
    BY <1>1, <1>2 DEF Inv, TypeOK
  <1>5. new # None
    BY <1>1, SharedClientAssumption
  <1>6. Works'
    BY <1>1, <1>3, <1>5 DEF Inv, Works, Work, Same
  <1> QED  BY <1>1, <1>3, <1>4, <1>5, <1>6

(***************************************************************************)
(* The steps of the worker's own pc, request and error. Rests and Begins   *)
(* of the other workers are as before if their sessions are.               *)
(***************************************************************************)
\* Everything but the sessions of the workers that do not take a step.
Still(w) ==
    /\ \A v \in Workers \ {w} :
          pc'[v] = pc[v] /\ sent'[v] = sent[v] /\ carried'[v] = carried[v] /\ err'[v] = err[v]
    /\ \A j \in (Workers \cup {Shared}) \ {JarOf(w)} : jar'[j] = jar[j]

\* What a step does to the sessions of a worker that does not take it.
Kept(t) ==
    /\ \A s \in SessionIds : OwnedBy(s, t) => Same(s)
    /\ \A s \in SessionIds : OwnedBy(s, t)' => OwnedBy(s, t)

LEMMA OthersRest ==
    ASSUME Inv, NEW w \in Workers, NEW t \in Transactions, t # w, Still(w), Kept(t)
    PROVE  Rests(t)' /\ Begins(t)'
  <1>1. t \in Workers /\ JarOf(w) # t
    BY SharedClientAssumption DEF Workers, JarOf
  <1>2. pc'[t] = pc[t] /\ sent'[t] = sent[t] /\ carried'[t] = carried[t] /\ err'[t] = err[t]
    BY <1>1 DEF Still
  <1>3. jar'[t] = jar[t]
    BY <1>1 DEF Still
  <1>4. Rests(t) /\ Begins(t)
    BY DEF Inv, TypeOK, Begun
  <1>5. Rests(t)'
    BY <1>2, <1>3, <1>4 DEF Rests, OwnedBy, Open, LoadedIn, Kept, Same, InSession
  <1>6. Begins(t)'
    BY <1>2, <1>4 DEF Begins, Kept, OwnedBy
  <1> QED  BY <1>5, <1>6

\* A session that a request changes is the worker's, or a caller's.
LEMMA MovesKept ==
    ASSUME Inv, NEW w \in Workers, Moves(w), NEW t \in Transactions, t # w
    PROVE  Kept(t)
  <1>1. ASSUME NEW s \in SessionIds, OwnedBy(s, t)
        PROVE  Same(s)
    <2>1. CASE s = carried[w]
      <3>1. carried[w] # None /\ Keeper(w, s)
        BY <2>1, SharedClientAssumption DEF Inv, Cookies
      <3> QED  BY <1>1, <3>1, SharedClientAssumption DEF Keeper, OwnedBy, Workers
    <2> QED  BY <2>1 DEF Moves
  <1>2. ASSUME NEW s \in SessionIds, OwnedBy(s, t)'
        PROVE  OwnedBy(s, t)
    BY <1>2 DEF Moves, OwnedBy
  <1> QED  BY <1>1, <1>2 DEF Kept

LEMMA MovesKeepers ==
    ASSUME NEW w \in Workers, Moves(w), NEW j \in Workers \cup {Shared}, NEW s, Keeper(j, s)
    PROVE  KeeperNext(j, s)
  BY DEF Moves, Keeper, KeeperNext

LEMMA CookiesNext ==
    ASSUME \A j \in Workers \cup {Shared} : jar'[j] # None => KeeperNext(j, jar'[j]),
           \A w \in Workers : carried'[w] # None => KeeperNext(w, carried'[w])
    PROVE  Cookies'
  BY DEF Cookies, Keeper, KeeperNext

\* The parts of Inv that concern the other workers follow from what a step
\* does to their sessions.
LEMMA Preserved ==
    ASSUME Inv, NEW w \in Workers, Still(w),
           \A t \in Transactions \ {w} : Kept(t),
           jar' \in [Workers \cup {Shared} -> SessionIds \cup {None}],
           pc' \in [Workers -> Requests \cup {"done"}],
           sent' \in [Workers -> BOOLEAN],
           carried' \in [Workers -> SessionIds \cup {None}],
           err' \in [Workers -> Errors],
           session' \in [SessionIds -> SessionRecords \cup {None}],
           active' \in Configurations,
           faults' \in 0 .. MaxFaults,
           waiting' \subseteq Workers,
           config' = config, http' = http,
           w \in Transactions => Rests(w)' /\ Begins(w)',
           Cookies', Works'
    PROVE  Inv'
  <1>1. \A t \in Transactions : Rests(t)' /\ Begins(t)'
    <2> SUFFICES ASSUME NEW t \in Transactions
                 PROVE  Rests(t)' /\ Begins(t)'
      OBVIOUS
    <2>1. CASE t = w
      BY <2>1
    <2>2. CASE t # w
      BY <2>2, OthersRest
    <2> QED  BY <2>1, <2>2
  <1>2. config' \in Configs /\ http' \in New(config')
    BY DEF Inv, TypeOK
  <1>3. TypeOK'
    BY <1>1, <1>2 DEF TypeOK
  <1>4. Begun'
    BY <1>1 DEF Begun
  <1> QED  BY <1>3, <1>4 DEF Inv

LEMMA SendPreserves ==
    ASSUME Inv, NEW w \in Workers, Send(w)
    PROVE  Inv'
  <1> USE DEF Send
  <1>1. JarOf(w) \in Workers \cup {Shared}
    BY DEF JarOf
  <1>2. Still(w)
    BY DEF Inv, TypeOK, Still
  <1>3. \A t \in Transactions \ {w} : Kept(t)
    BY DEF Kept, Same, OwnedBy
  <1>4. carried' \in [Workers -> SessionIds \cup {None}] /\ sent' \in [Workers -> BOOLEAN]
    BY <1>1 DEF Inv, TypeOK
  <1>5. carried'[w] = jar[JarOf(w)]
    BY DEF Inv, TypeOK
  <1>6. Cookies'
    <2>1. ASSUME NEW v \in Workers, carried'[v] # None
          PROVE  KeeperNext(v, carried'[v])
      <3>1. CASE v = w
        <4>1. Keeper(JarOf(w), carried'[w])
          BY <1>1, <1>5, <2>1, <3>1 DEF Inv, Cookies
        <4> QED  BY <3>1, <4>1, SharedClientAssumption DEF Keeper, KeeperNext, JarOf, Workers
      <3>2. CASE v # w
        BY <1>2, <2>1, <3>2 DEF Still, Inv, Cookies, Keeper, KeeperNext
      <3> QED  BY <3>1, <3>2
    <2>2. ASSUME NEW j \in Workers \cup {Shared}, jar'[j] # None
          PROVE  KeeperNext(j, jar'[j])
      BY <2>2 DEF Inv, Cookies, Keeper, KeeperNext
    <2> QED  BY <2>1, <2>2, CookiesNext
  <1>7. Works'
    BY DEF Inv, Works, Work
  <1>8. w \in Transactions => Rests(w)' /\ Begins(w)'
    <2> SUFFICES ASSUME w \in Transactions  PROVE  Rests(w)' /\ Begins(w)'
      OBVIOUS
    <2>1. Rests(w) /\ Begins(w) /\ carried'[w] = jar[w]
      BY <1>5 DEF Inv, TypeOK, Begun, JarOf
    <2>2. Rests(w)'
      BY <2>1 DEF Rests, OwnedBy, Open, LoadedIn
    <2>3. Begins(w)'
      BY <2>1 DEF Begins, OwnedBy
    <2> QED  BY <2>2, <2>3
  <1>9. /\ jar' \in [Workers \cup {Shared} -> SessionIds \cup {None}]
        /\ pc' \in [Workers -> Requests \cup {"done"}]
        /\ err' \in [Workers -> Errors]
        /\ session' \in [SessionIds -> SessionRecords \cup {None}]
        /\ active' \in Configurations /\ faults' \in 0 .. MaxFaults
        /\ config' = config /\ http' = http /\ waiting' \subseteq Workers
    BY DEF Inv, TypeOK
  <1> HIDE DEF Send
  <1> QED  BY <1>2, <1>3, <1>4, <1>6, <1>7, <1>8, <1>9, Preserved

(***************************************************************************)
(* A request that ends: its worker goes on, or fails, and carries nothing. *)
(***************************************************************************)
LEMMA ProceedsTypes ==
    ASSUME Inv, NEW w \in Workers, Proceeds(w)
    PROVE  /\ pc' \in [Workers -> Requests \cup {"done"}] /\ err' \in [Workers -> Errors]
           /\ pc'[w] = Following(pc[w]) /\ err'[w] = err[w]
           /\ \A v \in Workers \ {w} : pc'[v] = pc[v] /\ err'[v] = err[v]
  <1>1. Following(pc[w]) \in Requests \cup {"done"}
    BY DEF Following, Requests, InSession
  <1> QED  BY <1>1 DEF Proceeds, Inv, TypeOK

LEMMA FailsTypes ==
    ASSUME Inv, NEW w \in Workers, NEW e \in Errors, Fails(w, e)
    PROVE  /\ pc' \in [Workers -> Requests \cup {"done"}] /\ err' \in [Workers -> Errors]
           /\ pc'[w] = AfterError(pc[w]) /\ err'[w] = (IF err[w] = "none" THEN e ELSE err[w])
           /\ \A v \in Workers \ {w} : pc'[v] = pc[v] /\ err'[v] = err[v]
  <1>1. AfterError(pc[w]) \in Requests \cup {"done"}
    BY DEF AfterError, Requests, InSession
  <1> QED  BY <1>1 DEF Fails, Inv, TypeOK

LEMMA EndsTypes ==
    ASSUME Inv, NEW w \in Workers, Ends(w)
    PROVE  /\ sent' \in [Workers -> BOOLEAN] /\ carried' \in [Workers -> SessionIds \cup {None}]
           /\ sent'[w] = FALSE /\ carried'[w] = None
           /\ \A v \in Workers \ {w} : sent'[v] = sent[v] /\ carried'[v] = carried[v]
  BY DEF Ends, Inv, TypeOK

LEMMA FaultTypes ==
    ASSUME Inv, Fault
    PROVE  faults' \in 0 .. MaxFaults
  BY SharedClientAssumption DEF Fault, Inv, TypeOK

LEMMA UnansweredTypes ==
    ASSUME Inv, NEW w \in Workers, Unanswered(w)
    PROVE  Fails(w, "failed") /\ Ends(w) /\ waiting' \subseteq Workers
  BY DEF Unanswered, Inv, TypeOK

\* A step that changes no jar and leaves nothing carried.
LEMMA EndsStill ==
    ASSUME Inv, NEW w \in Workers, Ends(w), jar' = jar,
           \A v \in Workers \ {w} : pc'[v] = pc[v] /\ err'[v] = err[v]
    PROVE  Still(w)
  BY EndsTypes DEF Still

LEMMA EndsCookies ==
    ASSUME Inv, NEW w \in Workers, Ends(w), jar' = jar,
           \A j \in Workers \cup {Shared} : \A s : Keeper(j, s) => KeeperNext(j, s)
    PROVE  Cookies'
  <1>1. ASSUME NEW v \in Workers, carried'[v] # None
        PROVE  KeeperNext(v, carried'[v])
    <2>1. v # w /\ carried'[v] = carried[v]
      BY <1>1, EndsTypes
    <2> QED  BY <1>1, <2>1 DEF Inv, Cookies
  <1>2. ASSUME NEW j \in Workers \cup {Shared}, jar'[j] # None
        PROVE  KeeperNext(j, jar'[j])
    BY <1>2 DEF Inv, Cookies
  <1> QED  BY <1>1, <1>2, CookiesNext

\* What a transaction's request that was sent rests on.
LEMMA SentRests ==
    ASSUME Inv, NEW t \in Transactions, sent[t], pc[t] \in InSession
    PROVE  /\ carried[t] = jar[t] /\ OwnedBy(jar[t], t) /\ Open(jar[t])
           /\ pc[t] \in {"edit", "validate", "activate"} => LoadedIn(jar[t])
  BY DEF Inv, TypeOK, Rests

LEMMA AnswerPreserves ==
    ASSUME Inv, NEW w \in Workers, Answer(w)
    PROVE  Inv'
  <1>1. Served(w) /\ pc[w] # "create" /\ TakesEffect(w) /\ Proceeds(w) /\ Ends(w)
        /\ UNCHANGED <<config, http, waiting, jar, faults>>
    BY DEF Answer
  <1>2. Moves(w) /\ Works'
        /\ (pc[w] = "load" => session'[carried[w]].open /\ session'[carried[w]].loaded)
    BY <1>1, EffectMoves
  <1>3. \A t \in Transactions \ {w} : Kept(t)
    BY <1>2, MovesKept
  <1>4. Cookies'
    BY <1>1, <1>2, MovesKeepers, EndsCookies
  <1>5. Still(w)
    BY <1>1, ProceedsTypes, EndsStill
  <1>6. ASSUME w \in Transactions  PROVE  Rests(w)' /\ Begins(w)'
    <2>1. pc'[w] = Following(pc[w]) /\ err'[w] = err[w] /\ sent'[w] = FALSE /\ jar'[w] = jar[w]
      BY <1>1, ProceedsTypes, EndsTypes
    <2>2. pc[w] \in {"version", "validate", "load", "edit", "activate", "terminate"}
      BY <1>1 DEF TakesEffect
    <2>3. Rests(w)'
      <3>1. CASE pc[w] \in {"version", "terminate"}
        BY <2>1, <3>1 DEF Rests, Following, InSession
      <3>2. CASE pc[w] \in {"load", "edit", "validate", "activate"}
        <4>1. /\ carried[w] = jar[w] /\ OwnedBy(jar[w], w) /\ Open(jar[w])
              /\ pc[w] \in {"edit", "validate", "activate"} => LoadedIn(jar[w])
          BY <1>6, <1>1, <3>2, SentRests DEF Served, InSession
        <4>2. OwnedBy(jar[w], w)' /\ Open(jar[w])'
          BY <1>2, <2>1, <3>2, <4>1 DEF OwnedBy, Open, Moves
        <4>3. LoadedIn(jar[w])'
          BY <1>2, <2>1, <3>2, <4>1, <4>2 DEF LoadedIn, OwnedBy, Open, Moves
        <4> QED  BY <2>1, <4>2, <4>3 DEF Rests
      <3> QED  BY <2>2, <3>1, <3>2
    <2>4. \A s \in SessionIds : OwnedBy(s, w)' => OwnedBy(s, w)
      BY <1>2 DEF OwnedBy, Moves
    <2>5. Begins(w)
      BY <1>6 DEF Inv, Begun
    <2>6. Begins(w)'
      BY <2>1, <2>2, <2>4, <2>5 DEF Begins, Following
    <2> QED  BY <2>3, <2>6
  <1>7. /\ jar' \in [Workers \cup {Shared} -> SessionIds \cup {None}]
        /\ faults' \in 0 .. MaxFaults
        /\ config' = config /\ http' = http /\ waiting' \subseteq Workers
    BY <1>1 DEF Inv, TypeOK
  <1>8. /\ session' \in [SessionIds -> SessionRecords \cup {None}]
        /\ active' \in Configurations
    BY <1>2 DEF Moves
  <1> QED  BY <1>1, <1>2, <1>3, <1>4, <1>5, <1>6, <1>7, <1>8, ProceedsTypes, EndsTypes, Preserved

\* An error of a request that has not been followed by another.
LEMMA FailedBegins ==
    ASSUME Inv, NEW w \in Transactions, NEW e \in Errors \ {"none"}, Fails(w, e),
           \A s \in SessionIds : OwnedBy(s, w)' => OwnedBy(s, w),
           e = "session" => AfterError(pc[w]) = "done" /\ \A s \in SessionIds : ~OwnedBy(s, w)
    PROVE  Begins(w)'
  <1>1. w \in Workers /\ Begins(w)
    BY DEF Workers, Inv, Begun
  <1>2. pc'[w] = AfterError(pc[w]) /\ err'[w] = (IF err[w] = "none" THEN e ELSE err[w])
    BY <1>1, FailsTypes
  <1>3. pc'[w] \in {"terminate", "done"}
    BY <1>2 DEF AfterError
  <1>4. err'[w] = "session" =>
          pc'[w] = "done" /\ \A s \in SessionIds : ~OwnedBy(s, w)
    BY <1>1, <1>2 DEF Begins, AfterError, InSession
  <1> QED  BY <1>3, <1>4 DEF Begins

\* A transaction that fails before its session is ended still has it.
LEMMA FailedRests ==
    ASSUME Inv, NEW w \in Transactions, sent[w], NEW e \in Errors, Fails(w, e), Ends(w),
           jar'[w] = jar[w],
           pc[w] \in InSession \ {"terminate"} =>
               OwnedBy(jar[w], w)' /\ Open(jar[w])'
    PROVE  Rests(w)'
  <1>1. w \in Workers
    BY DEF Workers
  <1>2. pc'[w] = AfterError(pc[w]) /\ sent'[w] = FALSE
    BY <1>1, FailsTypes, EndsTypes
  <1> QED  BY <1>2 DEF Rests, AfterError, InSession

\* A request that fails without an effect.
LEMMA FailurePreserves ==
    ASSUME Inv, NEW w \in Workers, sent[w], NEW e \in Errors \ {"none"}, Fails(w, e), Ends(w),
           UNCHANGED <<config, http, jar, session, active>>, faults' \in 0 .. MaxFaults,
           waiting' \subseteq Workers,
           w \in Transactions /\ e = "session" =>
               AfterError(pc[w]) = "done" /\ \A s \in SessionIds : ~OwnedBy(s, w)
    PROVE  Inv'
  <1>1. \A t \in Transactions \ {w} : Kept(t)
    BY DEF Kept, Same, OwnedBy
  <1>2. \A j \in Workers \cup {Shared} : \A s : Keeper(j, s) => KeeperNext(j, s)
    BY DEF Keeper, KeeperNext
  <1>3. Cookies'
    BY <1>2, EndsCookies
  <1>4. Still(w)
    BY FailsTypes, EndsStill
  <1>5. Works'
    BY DEF Inv, Works, Work
  <1>6. ASSUME w \in Transactions  PROVE  Rests(w)' /\ Begins(w)'
    <2>1. pc[w] \in InSession \ {"terminate"} => OwnedBy(jar[w], w)' /\ Open(jar[w])'
      BY <1>6, SentRests DEF OwnedBy, Open
    <2>2. \A s \in SessionIds : OwnedBy(s, w)' => OwnedBy(s, w)
      BY DEF OwnedBy
    <2> QED  BY <1>6, <2>1, <2>2, FailedRests, FailedBegins
  <1>7. /\ jar' \in [Workers \cup {Shared} -> SessionIds \cup {None}]
        /\ session' \in [SessionIds -> SessionRecords \cup {None}]
        /\ active' \in Configurations
        /\ config' = config /\ http' = http
    BY DEF Inv, TypeOK
  <1> QED  BY <1>1, <1>3, <1>4, <1>5, <1>6, <1>7, FailsTypes, EndsTypes, Preserved

LEMMA RequestFailsPreserves ==
    ASSUME Inv, NEW w \in Workers, RequestFails(w)
    PROVE  Inv'
  <1>1. "failed" \in Errors \ {"none"} /\ "failed" # "session"
    BY DEF Errors
  <1>2. sent[w] /\ Fault /\ Fails(w, "failed") /\ Ends(w)
        /\ UNCHANGED <<config, http, jar, session, active>> /\ waiting' \subseteq Workers
    BY UnansweredTypes DEF RequestFails
  <1> QED  BY <1>1, <1>2, FaultTypes, FailurePreserves

\* The Gateway refuses a transaction only the session it never had.
LEMMA RefusePreserves ==
    ASSUME Inv, NEW w \in Workers, Refuse(w)
    PROVE  Inv'
  <1>1. sent[w] /\ Ends(w) /\ UNCHANGED <<config, http, waiting, jar, session, active, faults>>
    BY DEF Refuse
  <1>2. faults' \in 0 .. MaxFaults /\ waiting' \subseteq Workers
    BY <1>1 DEF Inv, TypeOK
  <1>3. CASE Refused(w) /\ Fails(w, "session")
    <2>1. ASSUME w \in Transactions
          PROVE  AfterError(pc[w]) = "done" /\ \A s \in SessionIds : ~OwnedBy(s, w)
      <3>1. pc[w] = "create"
        BY <1>1, <1>3, <2>1, SentRests DEF Refused, InSession
      <3>2. Begins(w)
        BY <2>1 DEF Inv, Begun
      <3> QED  BY <3>1, <3>2 DEF AfterError, InSession, Begins
    <2>2. "session" \in Errors \ {"none"}
      BY DEF Errors
    <2> QED  BY <1>1, <1>2, <1>3, <2>1, <2>2, FailurePreserves
  <1>4. CASE Fails(w, "conflict")
    <2>1. "conflict" \in Errors \ {"none"} /\ "conflict" # "session"
      BY DEF Errors
    <2> QED  BY <1>1, <1>2, <1>4, <2>1, FailurePreserves
  <1> QED  BY <1>3, <1>4 DEF Refuse

\* The sessions after a create, its reply received or lost.
LEMMA CreatedKept ==
    ASSUME Inv, NEW w \in Workers, NEW s \in SessionIds, session[s] = None, Created(w, s)
    PROVE  /\ \A t \in Transactions \ {w} : Kept(t)
           /\ \A j \in Workers \cup {Shared} : \A r : Keeper(j, r) => KeeperNext(j, r)
  <1>1. /\ \A r \in SessionIds \ {s} : Same(r)
        /\ session'[s] # None /\ session'[s].owner = w
    BY CreatedMoves
  <1>2. ASSUME NEW t \in Transactions \ {w}  PROVE  Kept(t)
    BY <1>1 DEF Kept, Same, OwnedBy
  <1>3. ASSUME NEW j \in Workers \cup {Shared}, NEW r, Keeper(j, r)
        PROVE  KeeperNext(j, r)
    BY <1>1, <1>3 DEF Keeper, KeeperNext, Same
  <1> QED  BY <1>2, <1>3

LEMMA AnswerLostPreserves ==
    ASSUME Inv, NEW w \in Workers, AnswerLost(w)
    PROVE  Inv'
  <1>1. Served(w) /\ sent[w] /\ Fault /\ Fails(w, "failed") /\ Ends(w)
        /\ UNCHANGED <<config, http, jar>> /\ waiting' \subseteq Workers
    BY UnansweredTypes DEF AnswerLost, Served
  <1>2. "failed" \in Errors \ {"none"} /\ "failed" # "session"
    BY DEF Errors
  <1>3. jar' \in [Workers \cup {Shared} -> SessionIds \cup {None}]
        /\ faults' \in 0 .. MaxFaults
        /\ config' = config /\ http' = http /\ waiting' \subseteq Workers
    BY <1>1, FaultTypes DEF Inv, TypeOK
  <1>4. Still(w)
    BY <1>1, <1>2, FailsTypes, EndsStill
  <1>5. CASE pc[w] # "create" /\ TakesEffect(w)
    <2>1. Moves(w) /\ Works'
      BY <1>1, <1>5, EffectMoves
    <2>2. \A t \in Transactions \ {w} : Kept(t)
      BY <2>1, MovesKept
    <2>3. Cookies'
      BY <1>1, <2>1, MovesKeepers, EndsCookies
    <2>4. ASSUME w \in Transactions  PROVE  Rests(w)' /\ Begins(w)'
      <3>1. \A s \in SessionIds : OwnedBy(s, w)' => OwnedBy(s, w)
        BY <2>1 DEF OwnedBy, Moves
      <3>2. ASSUME pc[w] \in InSession \ {"terminate"}
            PROVE  OwnedBy(jar[w], w)' /\ Open(jar[w])'
        <4>1. OwnedBy(jar[w], w) /\ Open(jar[w])
          BY <1>1, <2>4, <3>2, SentRests
        <4> QED  BY <1>1, <2>1, <3>2, <4>1 DEF OwnedBy, Open, Moves
      <3>3. jar'[w] = jar[w]
        BY <1>1
      <3> QED  BY <1>1, <1>2, <2>4, <3>1, <3>2, <3>3, FailedRests, FailedBegins
    <2>5. session' \in [SessionIds -> SessionRecords \cup {None}] /\ active' \in Configurations
      BY <2>1 DEF Moves
    <2> QED  BY <1>1, <1>2, <1>3, <1>4, <2>1, <2>2, <2>3, <2>4, <2>5,
                FailsTypes, EndsTypes, Preserved
  <1>6. CASE pc[w] = "create" /\ (\E s \in SessionIds : session[s] = None /\ Created(w, s))
             /\ UNCHANGED active
    <2>1. PICK s \in SessionIds : session[s] = None /\ Created(w, s)
      BY <1>6
    <2>2. Works' /\ session' \in [SessionIds -> SessionRecords \cup {None}]
      BY <2>1, CreatedMoves
    <2>3. \A t \in Transactions \ {w} : Kept(t)
      BY <2>1, CreatedKept
    <2>4. Cookies'
      BY <1>1, <2>1, CreatedKept, EndsCookies
    <2>5. ASSUME w \in Transactions  PROVE  Rests(w)' /\ Begins(w)'
      <3>1. pc'[w] = "done" /\ sent'[w] = FALSE
        BY <1>1, <1>2, <1>6, FailsTypes, EndsTypes DEF AfterError, InSession
      <3>2. err[w] = "none"
        BY <1>6, <2>5 DEF Inv, Begun, Begins
      <3>3. err'[w] = "failed"
        BY <1>1, <1>2, <3>2, FailsTypes
      <3>4. Rests(w)'
        BY <3>1 DEF Rests, InSession
      <3>5. Begins(w)'
        BY <3>1, <3>3 DEF Begins
      <3> QED  BY <3>4, <3>5
    <2>6. active' \in Configurations
      BY <1>6 DEF Inv, TypeOK
    <2> QED  BY <1>1, <1>2, <1>3, <1>4, <2>2, <2>3, <2>4, <2>5, <2>6,
                FailsTypes, EndsTypes, Preserved
  <1> QED  BY <1>5, <1>6 DEF AnswerLost

LEMMA CreateSessionPreserves ==
    ASSUME Inv, NEW w \in Workers, CreateSession(w)
    PROVE  Inv'
  <1>1. /\ sent[w] /\ pc[w] = "create" /\ Proceeds(w) /\ Ends(w)
        /\ UNCHANGED <<config, http, waiting, active, faults>>
    BY DEF CreateSession, Served
  <1>2. PICK s \in SessionIds :
          /\ session[s] = None
          /\ Created(w, s)
          /\ jar' = IF KeepsCookies(JarOf(w)) THEN [jar EXCEPT ![JarOf(w)] = s] ELSE jar
    BY DEF CreateSession
  <1>3. JarOf(w) \in Workers \cup {Shared}
    BY DEF JarOf
  <1>4. Works' /\ session' \in [SessionIds -> SessionRecords \cup {None}]
        /\ session'[s] # None /\ session'[s].owner = w /\ session'[s].open
    BY <1>2, CreatedMoves
  <1>5. \A t \in Transactions \ {w} : Kept(t)
    BY <1>2, CreatedKept
  <1>6. jar' \in [Workers \cup {Shared} -> SessionIds \cup {None}]
    BY <1>2, <1>3 DEF Inv, TypeOK
  <1>7. \A j \in Workers \cup {Shared} :
          jar'[j] = jar[j] \/ (j = JarOf(w) /\ jar'[j] = s)
    BY <1>2, <1>3 DEF Inv, TypeOK
  <1>8. Still(w)
    <2>1. \A j \in (Workers \cup {Shared}) \ {JarOf(w)} : jar'[j] = jar[j]
      BY <1>7
    <2> QED  BY <1>1, <2>1, ProceedsTypes, EndsTypes DEF Still
  <1>9. Cookies'
    <2>1. ASSUME NEW j \in Workers \cup {Shared}, jar'[j] # None
          PROVE  KeeperNext(j, jar'[j])
      <3>1. CASE jar'[j] = jar[j]
        BY <2>1, <3>1, <1>2, CreatedKept DEF Inv, Cookies
      <3>2. CASE j = JarOf(w) /\ jar'[j] = s
        BY <1>4, <3>2, SharedClientAssumption DEF KeeperNext, JarOf, Workers
      <3> QED  BY <1>7, <3>1, <3>2
    <2>2. ASSUME NEW v \in Workers, carried'[v] # None
          PROVE  KeeperNext(v, carried'[v])
      <3>1. carried'[v] = carried[v]
        BY <1>1, <2>2, EndsTypes
      <3> QED  BY <2>2, <3>1, <1>2, CreatedKept DEF Inv, Cookies
    <2> QED  BY <2>1, <2>2, CookiesNext
  <1>10. ASSUME w \in Transactions  PROVE  Rests(w)' /\ Begins(w)'
    <2>1. JarOf(w) = w /\ w # Shared
      BY <1>10, SharedClientAssumption DEF JarOf, Workers
    <2>2. jar'[w] = s
      BY <1>2, <1>3, <2>1 DEF KeepsCookies, Inv, TypeOK
    <2>3. pc'[w] = "load" /\ err'[w] = err[w] /\ sent'[w] = FALSE
      BY <1>1, ProceedsTypes, EndsTypes DEF Following
    <2>4. err[w] = "none"
      BY <1>1, <1>10 DEF Inv, Begun, Begins
    <2>5. Rests(w)'
      BY <1>4, <2>2, <2>3 DEF Rests, OwnedBy, Open
    <2>6. Begins(w)'
      BY <2>3, <2>4 DEF Begins
    <2> QED  BY <2>5, <2>6
  <1>11. active' \in Configurations /\ faults' \in 0 .. MaxFaults
        /\ config' = config /\ http' = http /\ waiting' \subseteq Workers
    BY <1>1 DEF Inv, TypeOK
  <1> QED  BY <1>1, <1>4, <1>5, <1>6, <1>8, <1>9, <1>10, <1>11, ProceedsTypes, EndsTypes, Preserved

LEMMA GivesUpPreserves ==
    ASSUME Inv, NEW w \in Workers, GivesUp(w)
    PROVE  Inv'
  <1>1. UNCHANGED <<config, http, jar, pc, sent, carried, err, session, active, faults>>
        /\ waiting' \subseteq Workers
    BY DEF GivesUp, Inv, TypeOK
  <1>2. TypeOK'
    BY <1>1 DEF Inv, TypeOK, Rests, OwnedBy, Open, LoadedIn
  <1>3. Cookies' /\ Works'
    BY <1>1 DEF Inv, Cookies, Keeper, Works, Work
  <1>4. Begun'
    BY <1>1 DEF Inv, Begun, Begins, OwnedBy
  <1> QED  BY <1>2, <1>3, <1>4 DEF Inv

(***************************************************************************)
(* The inductive invariant, and what it gives.                             *)
(***************************************************************************)
LEMMA InvInit == Init => Inv
  <1> SUFFICES ASSUME Init  PROVE  Inv
    OBVIOUS
  <1> USE DEF Init
  <1>1. TypeOK
    <2>1. \A t \in Transactions : Rests(t)
      BY DEF Rests, InSession, Workers
    <2>2. pc \in [Workers -> Requests \cup {"done"}] /\ err \in [Workers -> Errors]
          /\ active \in Configurations
      BY DEF Requests, Errors, Configurations
    <2>3. faults \in 0 .. MaxFaults
      BY SharedClientAssumption
    <2> QED  BY <2>1, <2>2, <2>3 DEF TypeOK
  <1>2. Cookies
    BY DEF Cookies
  <1>3. Works
    BY DEF Works
  <1>4. Begun
    BY DEF Begun, Begins, OwnedBy, Workers
  <1> QED  BY <1>1, <1>2, <1>3, <1>4 DEF Inv

LEMMA InvNext == Inv /\ [Next]_vars => Inv'
  <1> SUFFICES ASSUME Inv, [Next]_vars  PROVE  Inv'
    OBVIOUS
  <1>1. ASSUME NEW w \in Workers, Step(w)  PROVE  Inv'
    <2>1. CASE Send(w)           BY <2>1, SendPreserves
    <2>2. CASE Answer(w)         BY <2>2, AnswerPreserves
    <2>3. CASE CreateSession(w)  BY <2>3, CreateSessionPreserves
    <2>4. CASE Refuse(w)         BY <2>4, RefusePreserves
    <2>5. CASE RequestFails(w)   BY <2>5, RequestFailsPreserves
    <2>6. CASE AnswerLost(w)     BY <2>6, AnswerLostPreserves
    <2>7. CASE GivesUp(w)        BY <2>7, GivesUpPreserves
    <2> QED  BY <1>1, <2>1, <2>2, <2>3, <2>4, <2>5, <2>6, <2>7 DEF Step
  <1>2. CASE UNCHANGED vars
    <2>1. TypeOK'
      BY <1>2 DEF vars, Inv, TypeOK, Rests, OwnedBy, Open, LoadedIn
    <2>2. Cookies' /\ Works'
      BY <1>2 DEF vars, Inv, Cookies, Keeper, Works, Work
    <2>3. Begun'
      BY <1>2 DEF vars, Inv, Begun, Begins, OwnedBy
    <2> QED  BY <2>1, <2>2, <2>3 DEF Inv
  <1> QED  BY <1>1, <1>2 DEF Next, Terminating

LEMMA InvAlways == Spec => []Inv
  BY InvInit, InvNext, PTL DEF Spec

\* The state of every jar, worker and session keeps its type, and what the
\* requests of a transaction need is there when they are made: config.go and
\* certificate_sync.go send them without a look at the session.
THEOREM ClientTypeCorrect == Spec => []TypeOK
  <1>1. Inv => TypeOK
    BY DEF Inv
  <1> QED  BY <1>1, InvAlways, PTL

\* Nobody else's edit gets into the working copy of a transaction
\* (newSessionClient), however many transactions and low-level callers use one
\* Client and whatever requests fail.
THEOREM ClientIsolates == Spec => []Isolation
  <1>1. Inv => Isolation
    BY DEF Inv, Works, Work, Isolation, OwnedBy
  <1> QED  BY <1>1, InvAlways, PTL

\* No transaction finds its session ended, or has lost its cookie, also on a
\* Client whose HTTP client has no jar (WithHTTPClient).
THEOREM ClientNeverRefused == Spec => []NeverRefused
  <1>1. Inv => NeverRefused
    BY DEF Inv, Begun, Begins, NeverRefused
  <1> QED  BY <1>1, InvAlways, PTL

\* No request of a transaction reaches a session of another worker, and what it
\* activates is what was active with its own edit.
THEOREM ClientOwnEffects == Spec => OwnEffects
  <1> DEFINE Effects(t) ==
        /\ \A s \in SessionIds :
              (session[s] # None /\ ~OwnedBy(s, t)) => session'[s] = session[s]
        /\ active' \in {active, active \cup {t}}
  <1>1. ASSUME Inv, NEW t \in Transactions, Step(t)  PROVE  Effects(t)
    <2>1. t \in Workers
      BY DEF Workers
    <2>2. ASSUME Served(t), pc[t] # "create", TakesEffect(t)  PROVE  Effects(t)
      <3>1. Moves(t) /\ Activates(t)
        BY <1>1, <2>1, <2>2, EffectMoves
      <3>2. ASSUME NEW s \in SessionIds, session[s] # None, ~OwnedBy(s, t)
            PROVE  session'[s] = session[s]
        <4>1. s # carried[t]
          BY <1>1, <2>1, <3>2, SharedClientAssumption DEF Inv, Cookies, Keeper, OwnedBy
        <4> QED  BY <3>1, <4>1 DEF Moves, Same
      <3> QED  BY <3>1, <3>2 DEF Activates
    <2>3. ASSUME NEW s \in SessionIds, session[s] = None, Created(t, s), active' = active
          PROVE  Effects(t)
      <3>1. \A r \in SessionIds \ {s} : Same(r)
        BY <1>1, <2>1, <2>3, CreatedMoves
      <3> QED  BY <2>3, <3>1 DEF Same
    <2>4. ASSUME UNCHANGED <<session, active>>  PROVE  Effects(t)
      BY <2>4
    <2>5. CASE Send(t)           BY <2>4, <2>5 DEF Send
    <2>6. CASE Answer(t)         BY <2>2, <2>6 DEF Answer
    <2>7. CASE CreateSession(t)  BY <2>3, <2>7 DEF CreateSession
    <2>8. CASE Refuse(t)         BY <2>4, <2>8 DEF Refuse
    <2>9. CASE RequestFails(t)   BY <2>4, <2>9 DEF RequestFails
    <2>10. CASE AnswerLost(t)
      <3> HIDE DEF Effects
      <3> QED  BY <2>2, <2>3, <2>10 DEF AnswerLost
    <2>11. CASE GivesUp(t)       BY <2>4, <2>11 DEF GivesUp
    <2> QED  BY <1>1, <2>5, <2>6, <2>7, <2>8, <2>9, <2>10, <2>11 DEF Step
  <1>2. Inv /\ [Next]_vars => [\A t \in Transactions : Step(t) => Effects(t)]_vars
    BY <1>1
  <1> QED  BY <1>2, InvAlways, PTL DEF Spec, OwnEffects
\* New: every Client has every setting its Config asks for, and the rest from
\* the caller's HTTP client or the default: no option undoes another.
THEOREM SettingsTakeEffect ==
    ASSUME NEW c \in ConfigRecords, NEW h \in New(c)
    PROVE  /\ h \in HTTPClients
           /\ c.timeout > 0 => h.timeout = c.timeout
           /\ c.httpClient = None => h.timeout > 0 /\ h.jar
           /\ c.httpClient # None => h.jar = c.httpClient.jar
           /\ c.trusted # "" => "trusted certificate" \in h.tls
           /\ c.skipVerify => "skip verify" \in h.tls
           /\ c.httpClient # None => c.httpClient.tls \subseteq h.tls
  <1> DEFINE a == WithHTTPClient(c, DefaultHTTPClient)
             b == WithTimeout(c, a)
  <1>0. c.timeout \in Int
    BY Zenon DEF ConfigRecords
  <1>1. a \in HTTPClients /\ (c.httpClient = None => a = DefaultHTTPClient)
        /\ (c.httpClient # None => a = c.httpClient)
    BY DEF WithHTTPClient, DefaultHTTPClient, HTTPClients, ConfigRecords, TLSSettings
  <1>2. h \in WithTLSOptions(c, b)
    BY DEF New
  <1> HIDE DEF a
  <1>3. b \in HTTPClients /\ b.jar = a.jar /\ b.tls = a.tls
        /\ b.timeout = (IF c.timeout > 0 THEN c.timeout ELSE a.timeout)
    <2>1. CASE c.timeout > 0
      <3>1. b = [a EXCEPT !.timeout = c.timeout]
        BY <2>1 DEF WithTimeout
      <3>2. c.timeout \in Nat
        BY <1>0, <2>1
      <3> HIDE DEF b
      <3> QED  BY <1>1, <2>1, <3>1, <3>2 DEF HTTPClients
    <2>2. CASE ~(c.timeout > 0)
      BY <1>1, <2>2 DEF WithTimeout
    <2> QED  BY <2>1, <2>2
  <1> HIDE DEF b
  <1>4. h = [b EXCEPT !.tls = b.tls \cup TLSOptions(c)]
    BY <1>2 DEF WithTLSOptions
  <1>5. TLSOptions(c) \subseteq TLSSettings
        /\ (c.trusted # "" => "trusted certificate" \in TLSOptions(c))
        /\ (c.skipVerify => "skip verify" \in TLSOptions(c))
    BY DEF TLSOptions, TLSSettings
  <1>6. h \in HTTPClients /\ h.timeout = b.timeout /\ h.jar = b.jar
        /\ h.tls = b.tls \cup TLSOptions(c)
    BY <1>3, <1>4, <1>5 DEF HTTPClients
  <1>7. DefaultHTTPClient.timeout = 30 /\ DefaultHTTPClient.jar
    BY DEF DefaultHTTPClient
  <1>8. c.httpClient = None => h.timeout > 0
    BY <1>0, <1>1, <1>3, <1>6, <1>7
  <1>9. c.httpClient = None => h.jar
    BY <1>1, <1>3, <1>6, <1>7
  <1>10. c.httpClient # None => h.jar = c.httpClient.jar /\ c.httpClient.tls \subseteq h.tls
    BY <1>1, <1>3, <1>6
  <1>11. c.timeout > 0 => h.timeout = c.timeout
    BY <1>3, <1>6
  <1>12. (c.trusted # "" => "trusted certificate" \in h.tls)
         /\ (c.skipVerify => "skip verify" \in h.tls)
    BY <1>5, <1>6
  <1> QED  BY <1>6, <1>8, <1>9, <1>10, <1>11, <1>12
=============================================================================
