------------------------- MODULE ManagedCallsProofs --------------------------
(***************************************************************************)
(* What becomes of a call, and what it writes.                             *)
(*                                                                         *)
(* Order: a call is serialized with the others of its client, activates at *)
(* most once and only what was validated, leaves no session open, and its  *)
(* error says what it has done. The invariant Orderly relates the steps of *)
(* one transaction to its error, session, mutex and revisions, and Ordered *)
(* the activations of two transactions of one client. Every action has a   *)
(* lemma: it keeps Orderly of its transaction and leaves the others alone. *)
(*                                                                         *)
(* Updates: no activation undoes what somebody else has activated, a call  *)
(* that selects by name never tries to write a built-in certificate, and   *)
(* one whose name is not exactly one virtual host's writes nothing at all. *)
(* The invariant relates each working copy to the revision it was loaded   *)
(* from (Kept), each plan to its target (Chosen), and each ambiguous call  *)
(* to the steps it can get to (Refused).                                   *)
(*                                                                         *)
(* Soundness: no certificate without its key. What the Gateway holds, in a *)
(* working copy or active, can be served. GatewayConfigurationProofs says  *)
(* that whatever is sent to the Gateway is sound and that a PATCH of       *)
(* anything with sound attributes leaves a sound resource, although it     *)
(* keeps the passphrase the request omits. The invariant is then that of   *)
(* the type invariant, by which every bundle that is written is valid.     *)
(***************************************************************************)
EXTENDS ManagedLifecycleProofs, FiniteSetTheorems

(***************************************************************************)
(* Order: the invariant.                                                   *)
(***************************************************************************)
\* Nothing more is requested to be activated for a transaction that is over.
Over(s) == call[s].pc \in {"finish", "done"} \/ call[s].closed

\* There is no session before it is created, and none after the end unless the
\* request that creates or terminates it has failed.
Ends(s) ==
    /\ call[s].pc \in {"idle", "lock", "version", "create"} => session[s].state = "none"
    /\ call[s].closed => call[s].pc \in {"ready", "done"}
    /\ call[s].pc = "done" \/ call[s].closed => (session[s].state = "open" => s \in cut)
    /\ s \in Managed => call[s].pc # "ready"

\* What was activated, or will be by the Gateway, was requested once.
Once(s) ==
    /\ ActivatedBy(s) # {} \/ session[s].late => Over(s)
    /\ session[s].late => ActivatedBy(s) = {}
    /\ \A j, k \in ActivatedBy(s) : j = k

\* The error tells of an activation that came about or will.
Honest(s) ==
    s \in Managed =>
        /\ call[s].pc \notin {"abandon", "finish", "done"} => call[s].err = "none"
        /\ session[s].late => call[s].err = "activate"
        /\ ActivatedBy(s) # {} => call[s].err \in {"none", "activate", "terminate"}

Validates(s) == call[s].pc = "activate" \/ session[s].late => session[s].validated

\* A call that writes holds the mutex of its client.
Excludes(s) ==
    (/\ s \in Managed
     /\ call[s].pc \notin {"idle", "lock", "done"}
     /\ call[s].job.operation # "get") => mutex[ClientOf[s]] = s

\* A call that reads needs none, and has nothing to activate.
Reads(s) ==
    /\ (s \in Managed /\ call[s].pc # "idle" /\ call[s].job.operation = "get") =>
          /\ call[s].pc \in {"version", "create", "load", "abandon", "resolve", "finish", "done"}
          /\ ~session[s].late
          /\ ActivatedBy(s) = {}
    /\ call[s].pc \in {"idle", "lock"} => session[s].base = 0
    /\ ActivatedBy(s) # {} => session[s].base > 0

Orderly(s) ==
    Ends(s) /\ Once(s) /\ Honest(s) /\ Validates(s) /\ Excludes(s) /\ Reads(s)

\* No step of s disturbs what is said of another transaction.
Alone(s) ==
    \A t \in Transactions \ {s} :
        /\ call'[t] = call[t] /\ session'[t] = session[t]
        /\ t \in cut => t \in cut'
        /\ mutex[ClientOf[t]] = t => mutex'[ClientOf[t]] = t
        /\ ActivatedBy(t)' = ActivatedBy(t)

\* How the parts that the order of two transactions rests on change.
Moves(s) ==
    /\ session'[s].base \in {session[s].base, Len(log)}
    /\ call[s].pc = "done" =>
          /\ call'[s] = call[s]
          /\ session'[s].base = session[s].base
    /\ s \in Managed /\ call[s].pc # "idle" =>
          call'[s].pc # "idle" /\ call'[s].job = call[s].job
    /\ call[s].pc = "finish" /\ call'[s].err = "none" => call[s].err = "none"
    /\ ActivatedBy(s)' # ActivatedBy(s) =>
          /\ ActivatedBy(s)' = ActivatedBy(s) \cup {Len(log) + 1}
          /\ call[s].pc = "activate" \/ call'[s].err = "activate" \/ s \notin Managed

GoesOn(s) == Alone(s) /\ Orderly(s)' /\ Moves(s)

(***************************************************************************)
(* Order: the parts of a step.                                             *)
(***************************************************************************)
\* What a step makes of its call and its session.
CallTo(s, pc, err, closed) ==
    /\ call'[s].pc = pc /\ call'[s].err = err /\ call'[s].closed = closed
    /\ call'[s].job = call[s].job

SessionTo(s, state, base, validated, late) ==
    /\ session'[s].state = state /\ session'[s].base = base
    /\ session'[s].validated = validated /\ session'[s].late = late

OtherCalls(s) == \A t \in Transactions \ {s} : call'[t] = call[t]
OtherSessions(s) == \A t \in Transactions \ {s} : session'[t] = session[t]

\* What the updates of a call record do to it and to the others.
LEMMA CallRows ==
    ASSUME TypeOK, NEW s \in Transactions, NEW pc \in Steps, NEW err \in Errors,
           NEW changed \in BOOLEAN
    PROVE  LET c == call[s]
           IN  /\ Goto(s, pc) => OtherCalls(s) /\ CallTo(s, pc, c.err, c.closed)
               /\ Return(s, err) => OtherCalls(s) /\ CallTo(s, "done", err, c.closed)
               /\ Finishing(s, err) => OtherCalls(s) /\ CallTo(s, "finish", err, c.closed)
               /\ StageFails(s, err) =>
                    /\ OtherCalls(s)
                    /\ IF s \in Owned THEN CallTo(s, "ready", c.err, c.closed)
                       ELSE CallTo(s, "finish", err, c.closed)
               /\ StageSucceeds(s, changed) =>
                    /\ OtherCalls(s)
                    /\ IF s \in Owned THEN CallTo(s, "ready", c.err, c.closed)
                       ELSE \/ CallTo(s, "validate", c.err, c.closed)
                            \/ CallTo(s, "finish", c.err, c.closed) /\ ~changed
               /\ Closes(s, err) =>
                    OtherCalls(s) /\ CallTo(s, IF s \in Owned THEN "ready" ELSE "done", err, TRUE)
  BY DEF Goto, Return, Finishing, StageFails, StageSucceeds, Closes, TypeOK, CallRecords,
         CallTo, OtherCalls

\* What the updates of a session do to it and to the others.
LEMMA SessionRows ==
    ASSUME TypeOK, NEW s \in Transactions, NEW base \in Nat, NEW work, NEW late \in BOOLEAN
    PROVE  LET r == session[s]
           IN  /\ KeepsSession(s) =>
                    OtherSessions(s) /\ SessionTo(s, r.state, r.base, r.validated, r.late)
               /\ OpensSession(s) =>
                    OtherSessions(s) /\ SessionTo(s, "open", r.base, r.validated, r.late)
               /\ Terminated(s) =>
                    OtherSessions(s) /\ SessionTo(s, "closed", r.base, r.validated, FALSE)
               /\ LoadsSession(s, base, work) =>
                    OtherSessions(s) /\ SessionTo(s, r.state, base, r.validated, r.late)
               /\ EditsSession(s, work) =>
                    OtherSessions(s) /\ SessionTo(s, r.state, r.base, FALSE, r.late)
               /\ ValidatesSession(s) =>
                    OtherSessions(s) /\ SessionTo(s, r.state, r.base, TRUE, r.late)
               /\ LeavesLate(s, late) =>
                    OtherSessions(s) /\ SessionTo(s, r.state, r.base, r.validated, late)
  BY DEF KeepsSession, OpensSession, Terminated, LoadsSession, EditsSession, ValidatesSession,
         LeavesLate, TypeOK, SessionRecords, SessionTo, OtherSessions

\* Only the holder's own mutex is released.
LEMMA MutexRows ==
    ASSUME TypeOK, NEW s \in Transactions, mutex' \in {mutex, Released(s)},
           NEW t \in Transactions \ {s}, mutex[ClientOf[t]] = t
    PROVE  mutex'[ClientOf[t]] = t
<1>1. ClientOf[t] \in Clients /\ None \notin Transactions
  BY LifecycleAssumption
<1> QED
  BY <1>1 DEF Released, TypeOK

\* A step that activates nothing leaves the others alone.
LEMMA QuietStep ==
    ASSUME TypeOK, NEW s \in Transactions, OtherCalls(s), OtherSessions(s),
           mutex' \in {mutex, Released(s)}, cut' \in {cut, cut \cup {s}}, UNCHANGED log
    PROVE  Alone(s) /\ ActivatedBy(s)' = ActivatedBy(s)
<1>1. \A t : ActivatedBy(t)' = ActivatedBy(t)
  BY DEF ActivatedBy
<1> QED
  BY <1>1, MutexRows DEF Alone, OtherCalls, OtherSessions

(***************************************************************************)
(* Order: one lemma for each action.                                       *)
(***************************************************************************)
\* An owner starts; a call waits for nothing.
LEMMA StartOrder ==
    ASSUME TypeOK, NEW s \in Transactions, Orderly(s), Start(s)
    PROVE  GoesOn(s)
<1>1. /\ s \notin Managed /\ call[s].pc = "idle" /\ Goto(s, "version")
      /\ KeepsSession(s) /\ UNCHANGED <<log, mutex, cut>>
  BY DEF Start, Managed, KeepsSession
<1>2. OtherCalls(s) /\ CallTo(s, "version", call[s].err, call[s].closed)
  BY <1>1, CallRows DEF Steps, Errors
<1>3. OtherSessions(s) /\ UNCHANGED session
  BY <1>1, SessionRows, RecordTypes DEF KeepsSession
<1>4. Alone(s) /\ ActivatedBy(s)' = ActivatedBy(s)
  BY <1>1, <1>2, <1>3, QuietStep
<1> QED
  BY <1>1, <1>2, <1>3, <1>4
  DEF GoesOn, Orderly, Ends, Once, Honest, Validates, Excludes, Reads, Over,
     CallTo, SessionTo, Moves, Managed

\* A call goes to the mutex, to its first request or to its end.
LEMMA CallOrder ==
    ASSUME TypeOK, NEW s \in Transactions, Orderly(s), Call(s)
    PROVE  GoesOn(s)
<1>1. /\ s \in Managed /\ call[s].pc = "idle" /\ UNCHANGED <<log, mutex, cut, session>>
  BY DEF Call
<1>2. /\ OtherCalls(s) /\ call'[s].closed = call[s].closed
      /\ \/ /\ call'[s].err = call[s].err
            /\ call'[s].pc = IF call'[s].job.operation = "get" THEN "version" ELSE "lock"
         \/ call'[s].pc = "done" /\ call'[s].err = "arguments"
  BY DEF Call, TypeOK, CallRecords, OtherCalls
<1>3. OtherSessions(s)
  BY <1>1 DEF OtherSessions
<1>4. Alone(s) /\ ActivatedBy(s)' = ActivatedBy(s)
  BY <1>1, <1>2, <1>3, QuietStep
<1> QED
  BY <1>1, <1>2, <1>3, <1>4
  DEF GoesOn, Orderly, Ends, Once, Honest, Validates, Excludes, Reads, Over,
     CallTo, SessionTo, Moves, Managed

\* A call that writes takes the mutex.
LEMMA AcquireOrder ==
    ASSUME TypeOK, NEW s \in Transactions, Orderly(s), Acquire(s)
    PROVE  GoesOn(s)
<1>1. /\ call[s].pc = "lock" /\ Goto(s, "version") /\ UNCHANGED <<log, cut, session>>
      /\ mutex[ClientOf[s]] = None /\ mutex' = [mutex EXCEPT ![ClientOf[s]] = s]
  BY DEF Acquire, MutexIsFree
<1>2. OtherCalls(s) /\ CallTo(s, "version", call[s].err, call[s].closed)
  BY <1>1, CallRows DEF Steps, Errors
<1>3. \A t : ActivatedBy(t)' = ActivatedBy(t)
  BY <1>1 DEF ActivatedBy
<1>4. /\ mutex'[ClientOf[s]] = s
      /\ \A t \in Transactions : mutex[ClientOf[t]] = t => mutex'[ClientOf[t]] = t
  BY <1>1, LifecycleAssumption DEF TypeOK
<1>5. Alone(s)
  BY <1>1, <1>2, <1>3, <1>4 DEF Alone, OtherCalls
<1> QED
  BY <1>1, <1>2, <1>3, <1>4, <1>5
  DEF GoesOn, Orderly, Ends, Once, Honest, Validates, Excludes, Reads, Over,
     CallTo, SessionTo, Moves, Managed

\* The version request.
LEMMA VerifyOrder ==
    ASSUME TypeOK, NEW s \in Transactions, Orderly(s), VerifyGatewayVersion(s)
    PROVE  GoesOn(s)
<1>1. /\ call[s].pc = "version" /\ UNCHANGED <<log, cut, session>>
      /\ \/ Goto(s, "create") /\ UNCHANGED mutex
         \/ Return(s, "version") /\ mutex' = Released(s)
  BY DEF VerifyGatewayVersion, Return
<1>2. /\ OtherCalls(s)
      /\ \/ CallTo(s, "create", call[s].err, call[s].closed) /\ UNCHANGED mutex
         \/ CallTo(s, "done", "version", call[s].closed)
  BY <1>1, CallRows DEF Steps, Errors
<1>3. OtherSessions(s)
  BY <1>1 DEF OtherSessions
<1>4. Alone(s) /\ ActivatedBy(s)' = ActivatedBy(s)
  BY <1>1, <1>2, <1>3, QuietStep
<1> QED
  BY <1>1, <1>2, <1>3, <1>4
  DEF GoesOn, Orderly, Ends, Once, Honest, Validates, Excludes, Reads, Over,
     CallTo, SessionTo, Moves, Managed

\* The request that creates the session, or has created it unnoticed.
LEMMA CreateOrder ==
    ASSUME TypeOK, NEW s \in Transactions, Orderly(s), CreateSession(s)
    PROVE  GoesOn(s)
<1>1. /\ call[s].pc = "create" /\ UNCHANGED log
      /\ \/ OpensSession(s) /\ Goto(s, "load") /\ UNCHANGED <<mutex, cut>>
         \/ KeepsSession(s) /\ Return(s, "create") /\ mutex' = Released(s) /\ UNCHANGED cut
         \/ OpensSession(s) /\ Return(s, "create") /\ mutex' = Released(s) /\ cut' = cut \cup {s}
  BY Zenon DEF CreateSession, Return, OpensSession, KeepsSession
<1>2. /\ OtherCalls(s)
      /\ \/ CallTo(s, "load", call[s].err, call[s].closed) /\ UNCHANGED mutex
         \/ /\ CallTo(s, "done", "create", call[s].closed)
            /\ KeepsSession(s) \/ cut' = cut \cup {s}
  BY <1>1, CallRows DEF Steps, Errors
<1>3. /\ OtherSessions(s)
      /\ \E state \in {"open", session[s].state} :
            SessionTo(s, state, session[s].base, session[s].validated, session[s].late)
      /\ KeepsSession(s) => session'[s] = session[s]
  BY <1>1, SessionRows, RecordTypes DEF KeepsSession
<1>4. Alone(s) /\ ActivatedBy(s)' = ActivatedBy(s)
  BY <1>1, <1>2, <1>3, QuietStep
<1> QED
  BY <1>1, <1>2, <1>3, <1>4
  DEF GoesOn, Orderly, Ends, Once, Honest, Validates, Excludes, Reads, Over,
     CallTo, SessionTo, Moves, Managed

\* The request that loads the active configuration.
LEMMA LoadOrder ==
    ASSUME TypeOK, NEW s \in Transactions, Orderly(s), LoadActiveConfiguration(s)
    PROVE  GoesOn(s)
<1>1. /\ call[s].pc = "load" /\ UNCHANGED <<log, mutex, cut>>
      /\ \/ /\ LoadsSession(s, Len(log), Active)
            /\ Goto(s, IF s \in Owned THEN "ready" ELSE "resolve")
         \/ /\ KeepsSession(s)
            /\ call' = [call EXCEPT ![s].pc = "abandon", ![s].err = "load"]
  BY Zenon DEF LoadActiveConfiguration, LoadsSession, KeepsSession
<1>2. /\ OtherCalls(s)
      /\ \/ CallTo(s, IF s \in Owned THEN "ready" ELSE "resolve", call[s].err, call[s].closed)
         \/ CallTo(s, "abandon", "load", call[s].closed)
  <2>1. CASE call' = [call EXCEPT ![s].pc = "abandon", ![s].err = "load"]
    BY <2>1 DEF TypeOK, CallRecords, CallTo, OtherCalls
  <2> QED
    BY <1>1, <2>1, CallRows DEF Steps, Errors
<1>3. /\ OtherSessions(s)
      /\ \E base \in {session[s].base, Len(log)} :
            SessionTo(s, session[s].state, base, session[s].validated, session[s].late)
  BY <1>1, SessionRows, RecordTypes
<1>4. Alone(s) /\ ActivatedBy(s)' = ActivatedBy(s)
  BY <1>1, <1>2, <1>3, QuietStep
<1>5. Len(log) \in Nat \ {0} /\ session[s].base \in Nat
  BY RecordTypes
<1> QED
  BY <1>1, <1>2, <1>3, <1>4, <1>5
  DEF GoesOn, Orderly, Ends, Once, Honest, Validates, Excludes, Reads, Over,
     CallTo, SessionTo, Moves, Managed

\* The request that ends a session that could not be loaded.
LEMMA AbandonOrder ==
    ASSUME TypeOK, NEW s \in Transactions, Orderly(s), Abandon(s)
    PROVE  GoesOn(s)
<1>1. /\ call[s].pc = "abandon" /\ UNCHANGED log /\ mutex' = Released(s)
      /\ Return(s, call[s].err) /\ cut' \in {cut, cut \cup {s}}
      /\ Terminated(s) \/ (KeepsSession(s) /\ cut' = cut \cup {s})
  BY DEF Abandon, Return, TerminationFails, KeepsSession
<1>2. OtherCalls(s) /\ CallTo(s, "done", call[s].err, call[s].closed)
  BY <1>1, CallRows, RecordTypes DEF Steps
<1>3. /\ OtherSessions(s)
      /\ \/ SessionTo(s, "closed", session[s].base, session[s].validated, FALSE)
         \/ cut' = cut \cup {s} /\ session'[s] = session[s]
  BY <1>1, SessionRows, RecordTypes DEF KeepsSession
<1>4. Alone(s) /\ ActivatedBy(s)' = ActivatedBy(s)
  BY <1>1, <1>2, <1>3, QuietStep
<1> QED
  BY <1>1, <1>2, <1>3, <1>4
  DEF GoesOn, Orderly, Ends, Once, Honest, Validates, Excludes, Reads, Over,
     CallTo, SessionTo, Moves, Managed

\* The request that ends the session of a transaction.
LEMMA FinishOrder ==
    ASSUME TypeOK, NEW s \in Transactions, Orderly(s), Finish(s)
    PROVE  GoesOn(s)
<1>1. PICK err \in Errors :
          /\ Closes(s, err)
          /\ err = call[s].err \/ (call[s].err = "none" /\ err = "terminate")
          /\ Terminated(s) \/ (KeepsSession(s) /\ cut' = cut \cup {s})
          /\ cut' \in {cut, cut \cup {s}}
  BY RecordTypes DEF Finish, TerminationFails, KeepsSession, Errors
<1>2. mutex' = Released(s) /\ call[s].pc = "finish" /\ UNCHANGED log
  BY <1>1 DEF Closes, Finish
<1>3. OtherCalls(s) /\ CallTo(s, IF s \in Owned THEN "ready" ELSE "done", err, TRUE)
  BY <1>1, CallRows DEF Steps
<1>4. /\ OtherSessions(s)
      /\ \/ SessionTo(s, "closed", session[s].base, session[s].validated, FALSE)
         \/ cut' = cut \cup {s} /\ session'[s] = session[s]
  BY <1>1, SessionRows, RecordTypes DEF KeepsSession
<1>5. Alone(s) /\ ActivatedBy(s)' = ActivatedBy(s)
  BY <1>1, <1>2, <1>3, <1>4, QuietStep
<1> QED
  BY <1>1, <1>2, <1>3, <1>4, <1>5
  DEF GoesOn, Orderly, Ends, Once, Honest, Validates, Excludes, Reads, Over,
     CallTo, SessionTo, Moves, Managed

\* An owner stages, commits or aborts, at most until the end.
LEMMA OwnerOrder ==
    ASSUME TypeOK, NEW s \in Transactions, Orderly(s),
           Stage(s) \/ CommitWithOptions(s) \/ Abort(s)
    PROVE  GoesOn(s)
<1>1. /\ s \notin Managed /\ call[s].pc = "ready"
      /\ UNCHANGED <<log, mutex, cut, session>>
  BY DEF Stage, CommitWithOptions, Abort, Managed
<1>2. /\ OtherCalls(s) /\ call'[s].closed = call[s].closed
      /\ IF call[s].closed THEN call'[s].pc = "done"
         ELSE call'[s].pc \in {"resolve", "validate", "finish"}
  <2>1. CASE Stage(s)
    <3>1. PICK j : call' = [call EXCEPT ![s].job = j, ![s].pc = "resolve", ![s].stages = @ + 1]
      BY <2>1, Zenon DEF Stage
    <3>2. ~call[s].closed
      BY <2>1 DEF Stage
    <3> QED
      BY <3>1, <3>2 DEF TypeOK, CallRecords, OtherCalls
  <2>2. CASE CommitWithOptions(s)
    <3>1. CASE call[s].closed
      <4>1. call' = [call EXCEPT ![s].pc = "done"]
        BY <2>2, <3>1 DEF CommitWithOptions
      <4> QED
        BY <3>1, <4>1 DEF TypeOK, CallRecords, OtherCalls
    <3>2. CASE ~call[s].closed
      <4>1. PICK policy \in CommitPolicies, pc \in {"validate", "finish"} :
                call' = [call EXCEPT ![s].policy = policy, ![s].err = "none", ![s].pc = pc]
        BY <2>2, <3>2, Zenon DEF CommitWithOptions
      <4> QED
        BY <3>2, <4>1 DEF TypeOK, CallRecords, OtherCalls
    <3> QED
      BY <3>1, <3>2
  <2>3. CASE Abort(s)
    BY <2>3 DEF Abort, Finishing, TypeOK, CallRecords, OtherCalls
  <2> QED
    BY <2>1, <2>2, <2>3
<1>3. OtherSessions(s)
  BY <1>1 DEF OtherSessions
<1>4. Alone(s) /\ ActivatedBy(s)' = ActivatedBy(s)
  BY <1>1, <1>2, <1>3, QuietStep
<1> QED
  BY <1>1, <1>2, <1>3, <1>4
  DEF GoesOn, Orderly, Ends, Once, Honest, Validates, Excludes, Reads, Over,
     CallTo, SessionTo, Moves, Managed

\* A context that ends changes nothing else.
LEMMA CancelOrder ==
    ASSUME TypeOK, NEW s \in Transactions, Orderly(s), Cancel(s)
    PROVE  GoesOn(s)
<1>1. call[s].pc # "done" /\ UNCHANGED <<log, mutex, cut, session>>
  BY DEF Cancel
<1>2. OtherCalls(s) /\ CallTo(s, call[s].pc, call[s].err, call[s].closed)
  BY DEF Cancel, TypeOK, CallRecords, CallTo, OtherCalls
<1>3. OtherSessions(s)
  BY <1>1 DEF OtherSessions
<1>4. Alone(s) /\ ActivatedBy(s)' = ActivatedBy(s)
  BY <1>1, <1>2, <1>3, QuietStep
<1> QED
  BY <1>1, <1>2, <1>3, <1>4
  DEF GoesOn, Orderly, Ends, Once, Honest, Validates, Excludes, Reads, Over,
     CallTo, SessionTo, Moves, Managed

\* What a stage reads leads to a write, or ends it.
LEMMA ResolveOrder ==
    ASSUME TypeOK, NEW s \in Transactions, Orderly(s), Resolve(s)
    PROVE  GoesOn(s)
<1>1. /\ call[s].pc = "resolve" /\ UNCHANGED <<log, mutex, cut, session>>
      /\ \/ /\ call[s].job.operation # "get"
            /\ \E p \in Plans(session[s].work, call[s].job) :
                  call' = [call EXCEPT ![s].plan = p, ![s].pc = "write"]
         \/ call[s].job.operation # "get" /\ StageSucceeds(s, FALSE)
         \/ StageFails(s, "stage")
         \/ s \in Owned /\ Goto(s, "ready")
         \/ s \notin Owned /\ Goto(s, "finish")
  BY Zenon DEF Resolve
<1>2. /\ OtherCalls(s)
      /\ \/ /\ call[s].job.operation # "get"
            /\ \E pc \in {"write", "ready", "validate", "finish"} :
                  /\ CallTo(s, pc, call[s].err, call[s].closed)
                  /\ pc = "ready" => s \in Owned
         \/ s \in Owned /\ CallTo(s, "ready", call[s].err, call[s].closed)
         \/ \E err \in {call[s].err, "stage"} : CallTo(s, "finish", err, call[s].closed)
  <2>1. ASSUME NEW p, call' = [call EXCEPT ![s].plan = p, ![s].pc = "write"]
        PROVE  OtherCalls(s) /\ CallTo(s, "write", call[s].err, call[s].closed)
    BY <2>1 DEF TypeOK, CallRecords, CallTo, OtherCalls
  <2>2. \A pc \in {"ready", "finish"} :
            Goto(s, pc) => OtherCalls(s) /\ CallTo(s, pc, call[s].err, call[s].closed)
    BY CallRows DEF Steps, Errors
  <2>3. /\ StageSucceeds(s, FALSE) =>
              /\ OtherCalls(s)
              /\ IF s \in Owned THEN CallTo(s, "ready", call[s].err, call[s].closed)
                 ELSE \/ CallTo(s, "validate", call[s].err, call[s].closed)
                      \/ CallTo(s, "finish", call[s].err, call[s].closed)
        /\ StageFails(s, "stage") =>
              /\ OtherCalls(s)
              /\ IF s \in Owned THEN CallTo(s, "ready", call[s].err, call[s].closed)
                 ELSE CallTo(s, "finish", "stage", call[s].closed)
    BY CallRows DEF Steps, Errors
  <2> QED
    BY <1>1, <2>1, <2>2, <2>3, Zenon
<1>3. OtherSessions(s)
  BY <1>1 DEF OtherSessions
<1>4. Alone(s) /\ ActivatedBy(s)' = ActivatedBy(s)
  BY <1>1, <1>2, <1>3, QuietStep
<1> QED
  BY <1>1, <1>2, <1>3, <1>4
  DEF GoesOn, Orderly, Ends, Once, Honest, Validates, Excludes, Reads, Over,
     CallTo, SessionTo, Moves, Managed

\* An edit of the working copy needs its validation again.
LEMMA EditOrder ==
    ASSUME TypeOK, NEW s \in Transactions, Orderly(s), Write(s) \/ Bind(s) \/ Decode(s)
    PROVE  GoesOn(s)
<1>1. /\ call[s].pc \in {"write", "bind", "decode"} /\ UNCHANGED <<log, mutex, cut>>
      /\ KeepsSession(s) \/ \E work : EditsSession(s, work)
  BY Zenon DEF Write, Written, Bind, Connected, Decode, KeepsSession, EditsSession
<1>2. /\ OtherCalls(s)
      /\ \/ \E pc \in {"bind", "decode"} : CallTo(s, pc, call[s].err, call[s].closed)
         \/ s \in Owned /\ CallTo(s, "ready", call[s].err, call[s].closed)
         \/ CallTo(s, "validate", call[s].err, call[s].closed)
         \/ \E err \in {"default-entity", "stage"} : CallTo(s, "finish", err, call[s].closed)
  <2>1. ASSUME NEW id, NEW pc, call' = [call EXCEPT ![s].plan.id = id, ![s].pc = pc]
        PROVE  OtherCalls(s) /\ CallTo(s, pc, call[s].err, call[s].closed)
    BY <2>1 DEF TypeOK, CallRecords, CallTo, OtherCalls
  <2>2. \A err \in {"default-entity", "stage"} :
            StageFails(s, err) =>
              /\ OtherCalls(s)
              /\ IF s \in Owned THEN CallTo(s, "ready", call[s].err, call[s].closed)
                 ELSE CallTo(s, "finish", err, call[s].closed)
    BY CallRows DEF Steps, Errors
  <2>3. /\ StageSucceeds(s, TRUE) =>
              /\ OtherCalls(s)
              /\ IF s \in Owned THEN CallTo(s, "ready", call[s].err, call[s].closed)
                 ELSE CallTo(s, "validate", call[s].err, call[s].closed)
        /\ Goto(s, "decode") =>
              OtherCalls(s) /\ CallTo(s, "decode", call[s].err, call[s].closed)
    BY CallRows DEF Steps, Errors
  <2>4. CASE Write(s)
    <3>1. \/ \E id : \E pc \in {"bind", "decode"} :
                call' = [call EXCEPT ![s].plan.id = id, ![s].pc = pc]
          \/ \E err \in {"default-entity", "stage"} : StageFails(s, err)
      BY <2>4, Zenon DEF Write
    <3> QED
      BY <2>1, <2>2, <3>1, Zenon
  <2>5. CASE Bind(s)
    BY <2>2, <2>3, <2>5, Zenon DEF Bind
  <2>6. CASE Decode(s)
    BY <2>2, <2>3, <2>6, Zenon DEF Decode
  <2> QED
    BY <2>4, <2>5, <2>6
<1>3. /\ OtherSessions(s)
      /\ \E validated \in BOOLEAN :
            SessionTo(s, session[s].state, session[s].base, validated, session[s].late)
  <2>1. session[s].validated \in BOOLEAN
    BY RecordTypes DEF SessionRecords
  <2> QED
    BY <1>1, <2>1, SessionRows, RecordTypes
<1>4. Alone(s) /\ ActivatedBy(s)' = ActivatedBy(s)
  BY <1>1, <1>2, <1>3, QuietStep
<1> QED
  BY <1>1, <1>2, <1>3, <1>4
  DEF GoesOn, Orderly, Ends, Once, Honest, Validates, Excludes, Reads, Over,
     CallTo, SessionTo, Moves, Managed

\* Only a validation without messages leads to the activation.
LEMMA ValidateOrder ==
    ASSUME TypeOK, NEW s \in Transactions, Orderly(s), ValidateConfiguration(s)
    PROVE  GoesOn(s)
<1>1. /\ call[s].pc = "validate" /\ UNCHANGED <<log, mutex, cut>>
      /\ \/ ValidatesSession(s) /\ Goto(s, "activate")
         \/ KeepsSession(s) /\ \E err \in {"messages", "validate"} : Finishing(s, err)
  BY Zenon DEF ValidateConfiguration, MessagesReported, ValidatesSession, KeepsSession
<1>2. /\ OtherCalls(s)
      /\ \/ ValidatesSession(s) /\ CallTo(s, "activate", call[s].err, call[s].closed)
         \/ /\ KeepsSession(s)
            /\ \E err \in {"messages", "validate"} : CallTo(s, "finish", err, call[s].closed)
  BY <1>1, CallRows DEF Steps, Errors
<1>3. /\ OtherSessions(s)
      /\ \E validated \in BOOLEAN :
            /\ SessionTo(s, session[s].state, session[s].base, validated, session[s].late)
            /\ ValidatesSession(s) => validated
  <2>1. session[s].validated \in BOOLEAN
    BY RecordTypes DEF SessionRecords
  <2>2. CASE ValidatesSession(s)
    BY <2>2, SessionRows, RecordTypes
  <2>3. CASE KeepsSession(s) /\ ~ValidatesSession(s)
    BY <2>1, <2>3, SessionRows, RecordTypes
  <2> QED
    BY <1>1, <2>2, <2>3
<1>4. Alone(s) /\ ActivatedBy(s)' = ActivatedBy(s)
  BY <1>1, <1>2, <1>3, QuietStep
<1> QED
  BY <1>1, <1>2, <1>3, <1>4
  DEF GoesOn, Orderly, Ends, Once, Honest, Validates, Excludes, Reads, Over,
     CallTo, SessionTo, Moves, Managed

\* An activation adds one revision, of the transaction itself; without a merge
\* it is the working copy that was validated.
LEMMA ActivationAdds ==
    ASSUME TypeOK, NEW s \in Transactions, session[s].base > 0, Activates(s)
    PROVE  /\ \A t : ActivatedBy(t)' =
                   IF t = s THEN ActivatedBy(t) \cup {Len(log) + 1} ELSE ActivatedBy(t)
           /\ ValidatedBeforeActive /\ session[s].validated => ValidatedBeforeActive'
<1>1. session[s].base \in 1 .. Len(log)
  BY RecordTypes DEF Consistent
<1>2. /\ log[session[s].base].configuration \in Configurations
      /\ session[s].work \in Configurations /\ Active \in Configurations
  BY <1>1, RecordTypes, RevisionType
<1>3. \A cfg \in Activatable(s) : cfg \in Configurations
  BY <1>2, ActivatedType DEF Activatable
<1>4. call[s].policy \in ConflictPolicies
  BY RecordTypes DEF CallRecords
<1>5. PICK cfg \in Activatable(s) :
          log' = Append(log, Revision(s, cfg, call[s].policy,
                                      session[s].validated /\ cfg = session[s].work))
  BY Zenon DEF Activates
<1>6. call[s].policy # "merge" => cfg = session[s].work
  BY DEF Activatable, Activated, RequestOptions
<1> DEFINE valid == session[s].validated /\ cfg = session[s].work
           rev == Revision(s, cfg, call[s].policy, valid)
<1>7. valid \in BOOLEAN
  OBVIOUS
<1>8. call[s].policy # "merge" /\ session[s].validated => valid
  BY <1>6, Zenon
<1> HIDE DEF valid
<1>9. /\ rev \in Revisions /\ rev.by = s /\ rev.policy = call[s].policy
      /\ rev.validated = valid
  BY <1>3, <1>4, <1>7 DEF Revision, Revisions
<1>10. log' = Append(log, rev)
  BY <1>5 DEF valid
<1> HIDE DEF rev
<1>11. log \in Seq(Revisions) /\ Len(log) \in Nat
  BY DEF TypeOK
<1>12. /\ Len(log') = Len(log) + 1 /\ log'[Len(log) + 1] = rev
       /\ \A k \in 1 .. Len(log) : log'[k] = log[k]
  BY <1>9, <1>10, <1>11
<1>13. \A t : ActivatedBy(t)' =
           IF t = s THEN ActivatedBy(t) \cup {Len(log) + 1} ELSE ActivatedBy(t)
  BY <1>9, <1>11, <1>12 DEF ActivatedBy
<1>14. ValidatedBeforeActive /\ session[s].validated => ValidatedBeforeActive'
  BY <1>9, <1>11, <1>12, <1>8 DEF ValidatedBeforeActive
<1> QED
  BY <1>13, <1>14

\* The request that activates the working copy.
LEMMA ActivateOrder ==
    ASSUME TypeOK, NEW s \in Transactions, Orderly(s), ActivateConfigurationWithOptions(s)
    PROVE  GoesOn(s)
<1>1. /\ call[s].pc = "activate" /\ UNCHANGED <<mutex, cut>>
      /\ \/ Activates(s) /\ Goto(s, "finish") /\ KeepsSession(s)
         \/ /\ UNCHANGED log /\ KeepsSession(s)
            /\ \E err \in {"policy", "conflict", "activate"} : Finishing(s, err)
         \/ UNCHANGED log /\ LeavesLate(s, TRUE) /\ Finishing(s, "activate")
  BY Zenon DEF ActivateConfigurationWithOptions, KeepsSession, LeavesLate
<1>2. session[s].base > 0
  BY <1>1, RecordTypes DEF Consistent, LoadedSteps
<1>3. /\ OtherCalls(s)
      /\ \/ /\ Activates(s) /\ KeepsSession(s)
            /\ CallTo(s, "finish", call[s].err, call[s].closed)
         \/ /\ UNCHANGED log /\ KeepsSession(s)
            /\ \E err \in {"policy", "conflict", "activate"} :
                  CallTo(s, "finish", err, call[s].closed)
         \/ /\ UNCHANGED log /\ LeavesLate(s, TRUE)
            /\ CallTo(s, "finish", "activate", call[s].closed)
  BY <1>1, CallRows DEF Steps, Errors
<1>4. /\ OtherSessions(s)
      /\ KeepsSession(s) => session'[s] = session[s]
      /\ LeavesLate(s, TRUE) =>
            SessionTo(s, session[s].state, session[s].base, session[s].validated, TRUE)
  BY <1>1, SessionRows, RecordTypes DEF KeepsSession
<1>5. /\ \A t \in Transactions \ {s} : ActivatedBy(t)' = ActivatedBy(t)
      /\ Activates(s) => ActivatedBy(s)' = ActivatedBy(s) \cup {Len(log) + 1}
      /\ UNCHANGED log => ActivatedBy(s)' = ActivatedBy(s)
  BY <1>1, <1>2, ActivationAdds DEF ActivatedBy
<1>6. Alone(s)
  BY <1>1, <1>3, <1>4, <1>5 DEF Alone, OtherCalls, OtherSessions
<1> QED
  BY <1>1, <1>2, <1>3, <1>4, <1>5, <1>6
  DEF GoesOn, Orderly, Ends, Once, Honest, Validates, Excludes, Reads, Over,
     CallTo, SessionTo, Moves, Managed

\* The Gateway gets to an activation its client has given up.
LEMMA LateOrder ==
    ASSUME TypeOK, NEW s \in Transactions, Orderly(s), GatewayActivates(s)
    PROVE  GoesOn(s)
<1>1. /\ session[s].late /\ UNCHANGED <<mutex, cut, call>>
      /\ Activates(s) \/ UNCHANGED log
      /\ LeavesLate(s, FALSE)
  BY Zenon DEF GatewayActivates, LeavesLate
<1>2. session[s].base > 0
  BY <1>1, RecordTypes DEF Consistent
<1>3. /\ OtherSessions(s)
      /\ SessionTo(s, session[s].state, session[s].base, session[s].validated, FALSE)
  BY <1>1, SessionRows, RecordTypes
<1>4. /\ \A t \in Transactions \ {s} : ActivatedBy(t)' = ActivatedBy(t)
      /\ Activates(s) => ActivatedBy(s)' = ActivatedBy(s) \cup {Len(log) + 1}
      /\ UNCHANGED log => ActivatedBy(s)' = ActivatedBy(s)
  <2>1. CASE Activates(s)
    <3>1. \A t : ActivatedBy(t)' =
             IF t = s THEN ActivatedBy(t) \cup {Len(log) + 1} ELSE ActivatedBy(t)
      BY <1>2, <2>1, ActivationAdds
    <3>2. UNCHANGED log => ActivatedBy(s)' = ActivatedBy(s)
      BY DEF ActivatedBy
    <3> QED
      BY <3>1, <3>2
  <2>2. CASE UNCHANGED log /\ ~Activates(s)
    BY <2>2 DEF ActivatedBy
  <2> QED
    BY <1>1, <2>1, <2>2
<1>5. Alone(s)
  BY <1>1, <1>3, <1>4 DEF Alone, OtherSessions
<1> QED
  BY <1>1, <1>2, <1>3, <1>4, <1>5
  DEF GoesOn, Orderly, Ends, Once, Honest, Validates, Excludes, Reads, Over,
     CallTo, SessionTo, Moves, Managed

(***************************************************************************)
(* Order: two transactions of one client.                                  *)
(***************************************************************************)
InTime(s) == call[s].pc \in {"finish", "done"} /\ call[s].err = "none"

\* What s has activated and knows of, t has loaded, or has not begun to, or has
\* activated before, or does not know to have activated, or does not write.
Ordered(s, t) ==
    \A i \in ActivatedBy(s) :
        InTime(s) =>
            \/ session[t].base = 0 \/ session[t].base >= i
            \/ /\ Returned(t)
               /\ call[t].err # "none" \/ \A j \in ActivatedBy(t) : j < i
            \/ call[t].pc # "idle" /\ call[t].job.operation = "get"

Rivals == {p \in Managed \X Managed : p[1] # p[2] /\ ClientOf[p[1]] = ClientOf[p[2]]}

CallsInv ==
    /\ \A s \in Transactions : Orderly(s)
    /\ \A p \in Rivals : Ordered(p[1], p[2])
    /\ ValidatedBeforeActive

\* The revisions of a transaction are places in the log.
LEMMA Places ==
    ASSUME TypeOK, NEW s \in Transactions
    PROVE  /\ Len(log) \in Nat /\ session[s].base \in Nat
           /\ \A i \in ActivatedBy(s) : i \in Nat /\ i <= Len(log)
  BY RecordTypes DEF ActivatedBy

\* The invariant speaks of every two.
LEMMA RivalsOrdered ==
    ASSUME CallsInv, NEW s \in Managed, NEW t \in Managed, s # t, ClientOf[s] = ClientOf[t]
    PROVE  Ordered(s, t) /\ Orderly(s) /\ Orderly(t)
<1> DEFINE p == <<s, t>>
<1>1. p \in Rivals /\ p[1] = s /\ p[2] = t
  BY DEF Rivals
<1> HIDE DEF p
<1> QED
  BY <1>1 DEF CallsInv, Managed

\* A step of the second one: it loads what is active now, or ends.
LEMMA SecondGoesOn ==
    ASSUME TypeOK, CallsInv, NEW s \in Managed, NEW t \in Managed, s # t,
           ClientOf[s] = ClientOf[t], GoesOn(t)
    PROVE  Ordered(s, t)'
<1>1. s \in Transactions /\ t \in Transactions
  BY DEF Managed
<1>2. Ordered(s, t) /\ Orderly(s) /\ Orderly(t)
  BY <1>1, RivalsOrdered
<1>3. call'[s] = call[s] /\ ActivatedBy(s)' = ActivatedBy(s)
  BY <1>1 DEF GoesOn, Alone
<1>4. /\ session'[t].base \in {session[t].base, Len(log)}
      /\ call[t].pc = "done" => call'[t] = call[t] /\ session'[t].base = session[t].base
      /\ call[t].pc # "idle" => call'[t].pc # "idle" /\ call'[t].job = call[t].job
      /\ ActivatedBy(t)' # ActivatedBy(t) => call[t].pc = "activate" \/ call'[t].err = "activate"
  BY <1>1 DEF GoesOn, Moves
<1> SUFFICES ASSUME NEW i \in ActivatedBy(s), InTime(s)
             PROVE  \/ session'[t].base = 0 \/ session'[t].base >= i
                    \/ /\ call'[t].pc = "done"
                       /\ call'[t].err # "none" \/ \A j \in ActivatedBy(t)' : j < i
                    \/ call'[t].pc # "idle" /\ call'[t].job.operation = "get"
  BY <1>3 DEF Ordered, InTime, Returned
<1>5. /\ i \in Nat /\ i <= Len(log) /\ Len(log) \in Nat
      /\ session[t].base \in Nat
  BY <1>1, Places
<1>6. CASE session[t].base = 0 \/ session[t].base >= i
  BY <1>4, <1>5, <1>6
<1>7. CASE Returned(t) /\ (call[t].err # "none" \/ \A j \in ActivatedBy(t) : j < i)
  BY <1>4, <1>7 DEF Returned
<1>8. CASE call[t].pc # "idle" /\ call[t].job.operation = "get"
  BY <1>4, <1>8
<1> QED
  BY <1>2, <1>6, <1>7, <1>8 DEF Ordered

\* A step of the first one: while it activates it holds the mutex, so the other
\* one has returned, has not begun, or reads.
LEMMA FirstGoesOn ==
    ASSUME TypeOK, CallsInv, NEW s \in Managed, NEW t \in Managed, s # t,
           ClientOf[s] = ClientOf[t], GoesOn(s)
    PROVE  Ordered(s, t)'
<1>1. s \in Transactions /\ t \in Transactions
  BY DEF Managed
<1>2. Ordered(s, t) /\ Orderly(s) /\ Orderly(t) /\ Orderly(s)'
  BY <1>1, RivalsOrdered DEF GoesOn
<1>3. call'[t] = call[t] /\ session'[t] = session[t] /\ ActivatedBy(t)' = ActivatedBy(t)
  BY <1>1 DEF GoesOn, Alone
<1>4. /\ call[s].pc = "done" => call'[s] = call[s]
      /\ call[s].pc = "finish" /\ call'[s].err = "none" => call[s].err = "none"
      /\ ActivatedBy(s)' # ActivatedBy(s) =>
            /\ ActivatedBy(s)' = ActivatedBy(s) \cup {Len(log) + 1}
            /\ call[s].pc = "activate" \/ call'[s].err = "activate"
  BY <1>1 DEF GoesOn, Moves
<1>5. CASE ActivatedBy(s)' = ActivatedBy(s)
  <2>1. ASSUME NEW i \in ActivatedBy(s), InTime(s)'
        PROVE  InTime(s)
    <3>1. call[s].pc \in {"finish", "done"}
      BY <1>2, <2>1 DEF Orderly, Once, Ends, Over, Managed
    <3> QED
      BY <1>4, <2>1, <3>1 DEF InTime
  <2> QED
    BY <1>2, <1>3, <1>5, <2>1 DEF Ordered, Returned
<1>6. CASE ActivatedBy(s)' # ActivatedBy(s) /\ call'[s].err = "activate"
  BY <1>6 DEF Ordered, InTime
<1>7. CASE ActivatedBy(s)' # ActivatedBy(s) /\ call[s].pc = "activate"
  <2>1. ActivatedBy(s)' = {Len(log) + 1}
    BY <1>2, <1>4, <1>7 DEF Orderly, Once, Ends, Over
  <2>2. mutex[ClientOf[t]] = s
    BY <1>2, <1>7 DEF Orderly, Excludes, Reads
  <2>3. \/ call[t].pc \in {"idle", "lock", "done"}
        \/ call[t].pc # "idle" /\ call[t].job.operation = "get"
    BY <1>2, <2>2 DEF Orderly, Excludes
  <2>4. call[t].pc \in {"idle", "lock"} => session[t].base = 0
    BY <1>2 DEF Orderly, Reads
  <2>5. \A j \in ActivatedBy(t) : j < Len(log) + 1
    BY <1>1, Places
  <2> QED
    BY <1>3, <2>1, <2>3, <2>4, <2>5 DEF Ordered, Returned
<1> QED
  BY <1>4, <1>5, <1>6, <1>7

\* A step that goes on with one transaction keeps the invariant of all.
LEMMA GoesOnInv ==
    ASSUME TypeOK, CallsInv, NEW s \in Transactions, GoesOn(s), ValidatedBeforeActive'
    PROVE  CallsInv'
<1>1. ASSUME NEW t \in Transactions
      PROVE  Orderly(t)'
  <2>1. CASE t = s
    BY <2>1 DEF GoesOn
  <2>2. CASE t # s
    <3>1. Orderly(t)
      BY DEF CallsInv
    <3>2. /\ call'[t] = call[t] /\ session'[t] = session[t]
          /\ t \in cut => t \in cut'
          /\ mutex[ClientOf[t]] = t => mutex'[ClientOf[t]] = t
          /\ ActivatedBy(t)' = ActivatedBy(t)
      BY <2>2 DEF GoesOn, Alone
    <3> QED
      BY <3>1, <3>2 DEF Orderly, Ends, Once, Honest, Validates, Excludes, Reads, Over
  <2> QED
    BY <2>1, <2>2
<1>2. ASSUME NEW p \in Rivals
      PROVE  Ordered(p[1], p[2])'
  <2>1. /\ p[1] \in Managed /\ p[2] \in Managed /\ p[1] # p[2]
        /\ ClientOf[p[1]] = ClientOf[p[2]]
    BY DEF Rivals
  <2>2. CASE s = p[1]
    BY <2>1, <2>2, FirstGoesOn
  <2>3. CASE s = p[2]
    BY <2>1, <2>3, SecondGoesOn
  <2>4. CASE s # p[1] /\ s # p[2]
    <3>1. Ordered(p[1], p[2])
      BY DEF CallsInv
    <3>2. /\ call'[p[1]] = call[p[1]] /\ call'[p[2]] = call[p[2]]
          /\ session'[p[2]] = session[p[2]]
          /\ ActivatedBy(p[1])' = ActivatedBy(p[1]) /\ ActivatedBy(p[2])' = ActivatedBy(p[2])
      BY <2>1, <2>4 DEF GoesOn, Alone, Managed
    <3> QED
      BY <3>1, <3>2 DEF Ordered, InTime, Returned
  <2> QED
    BY <2>2, <2>3, <2>4
<1>3. Rivals' = Rivals
  BY DEF Rivals, Managed
<1> QED
  BY <1>1, <1>2, <1>3 DEF CallsInv

(***************************************************************************)
(* Order: the invariant is kept.                                           *)
(***************************************************************************)
\* Every step but an activation keeps the revisions, and what is said of them.
LEMMA RevisionsValidated ==
    ASSUME TypeOK, CallsInv, NEW s \in Transactions, Activates(s) \/ UNCHANGED log,
           call[s].pc = "activate" \/ session[s].late \/ UNCHANGED log
    PROVE  ValidatedBeforeActive'
<1>1. CASE UNCHANGED log
  BY <1>1 DEF CallsInv, ValidatedBeforeActive
<1>2. CASE Activates(s) /\ (call[s].pc = "activate" \/ session[s].late)
  <2>1. session[s].base > 0
    BY <1>2, RecordTypes DEF Consistent, LoadedSteps
  <2>2. session[s].validated /\ ValidatedBeforeActive
    BY <1>2 DEF CallsInv, Orderly, Validates
  <2> QED
    BY <1>2, <2>1, <2>2, ActivationAdds
<1> QED
  BY <1>1, <1>2

\* The Configuration Center's revisions are no transaction's.
LEMMA AdministratorOrder ==
    ASSUME TypeOK, AdministratorActivates
    PROVE  /\ \A t \in Transactions : ActivatedBy(t)' = ActivatedBy(t)
           /\ ValidatedBeforeActive => ValidatedBeforeActive'
<1>1. PICK cfg : log' = Append(log, Revision(None, cfg, "", TRUE))
  BY Zenon DEF AdministratorActivates
<1> DEFINE rev == Revision(None, cfg, "", TRUE)
<1>2. rev.by = None /\ rev.validated = TRUE
  BY DEF Revision
<1>3. log' = Append(log, rev)
  BY <1>1
<1> HIDE DEF rev
<1>4. /\ Len(log) \in Nat /\ Len(log') = Len(log) + 1 /\ log'[Len(log) + 1] = rev
      /\ \A k \in 1 .. Len(log) : log'[k] = log[k]
  BY <1>3 DEF TypeOK
<1>5. \A t \in Transactions : ActivatedBy(t)' = ActivatedBy(t)
  BY <1>2, <1>4, LifecycleAssumption DEF ActivatedBy
<1>6. ValidatedBeforeActive => ValidatedBeforeActive'
  BY <1>2, <1>4 DEF ValidatedBeforeActive
<1> QED
  BY <1>5, <1>6

\* The Configuration Center has nothing to do with any transaction.
LEMMA AdministratorInv ==
    ASSUME TypeOK, CallsInv, AdministratorActivates
    PROVE  CallsInv'
<1>1. UNCHANGED <<mutex, call, session, cut>>
  BY DEF AdministratorActivates
<1>2. /\ \A t \in Transactions : ActivatedBy(t)' = ActivatedBy(t)
      /\ ValidatedBeforeActive'
  BY AdministratorOrder DEF CallsInv
<1>3. \A t \in Transactions : Orderly(t)'
  BY <1>1, <1>2 DEF CallsInv, Orderly, Ends, Once, Honest, Validates, Excludes, Reads, Over
<1>4. ASSUME NEW p \in Rivals
      PROVE  Ordered(p[1], p[2])'
  <2>1. p[1] \in Transactions /\ p[2] \in Transactions /\ Ordered(p[1], p[2])
    BY DEF Rivals, Managed, CallsInv
  <2> QED
    BY <1>1, <1>2, <2>1 DEF Ordered, InTime, Returned
<1>5. Rivals' = Rivals
  BY DEF Rivals, Managed
<1> QED
  BY <1>2, <1>3, <1>4, <1>5 DEF CallsInv

\* A step of one transaction, or of the Gateway for it.
Acts(s) ==
    \/ Call(s) \/ Start(s) \/ Acquire(s) \/ Step(s) \/ Stage(s)
    \/ CommitWithOptions(s) \/ Abort(s) \/ GatewayActivates(s) \/ Cancel(s)

LEMMA StepGoesOn ==
    ASSUME TypeOK, CallsInv, NEW s \in Transactions, Acts(s)
    PROVE  GoesOn(s)
<1>1. Orderly(s)
  BY DEF CallsInv
<1> QED
  BY <1>1, CallOrder, StartOrder, AcquireOrder, VerifyOrder, CreateOrder, LoadOrder,
     AbandonOrder, FinishOrder, OwnerOrder, CancelOrder, ResolveOrder, EditOrder,
     ValidateOrder, ActivateOrder, LateOrder, Zenon DEF Acts, Step

\* Every step keeps the invariant.
LEMMA NextCalls == TypeOK /\ CallsInv /\ [Next]_vars => CallsInv'
<1> SUFFICES ASSUME TypeOK, CallsInv, [Next]_vars PROVE CallsInv'
  OBVIOUS
<1>1. ASSUME NEW s \in Transactions, GoesOn(s),
             ActivateConfigurationWithOptions(s) \/ GatewayActivates(s) \/ UNCHANGED log
      PROVE  CallsInv'
  <2>1. /\ Activates(s) \/ UNCHANGED log
        /\ call[s].pc = "activate" \/ session[s].late \/ UNCHANGED log
    BY <1>1, Zenon DEF ActivateConfigurationWithOptions, GatewayActivates
  <2> QED
    BY <1>1, <2>1, RevisionsValidated, GoesOnInv
<1>2. ASSUME NEW s \in Transactions, Acts(s)
      PROVE  CallsInv'
  <2>1. GoesOn(s)
    BY <1>2, StepGoesOn
  <2>2. ActivateConfigurationWithOptions(s) \/ GatewayActivates(s) \/ UNCHANGED log
    BY <1>2, Zenon DEF Acts, Step, Call, Start, Acquire, VerifyGatewayVersion, CreateSession,
       LoadActiveConfiguration, Abandon, Finish, Stage, CommitWithOptions, Abort, Cancel,
       Resolve, Write, Bind, Decode, ValidateConfiguration
  <2> QED
    BY <1>1, <2>1, <2>2
<1>3. CASE UNCHANGED vars
  <2>1. UNCHANGED <<log, mutex, call, session, cut>>
    BY <1>3 DEF vars
  <2>2. \A t : ActivatedBy(t)' = ActivatedBy(t)
    BY <2>1 DEF ActivatedBy
  <2>3. Rivals' = Rivals /\ ValidatedBeforeActive'
    BY <2>1 DEF Rivals, Managed, CallsInv, ValidatedBeforeActive
  <2> QED
    BY <2>1, <2>2, <2>3 DEF CallsInv, Orderly, Ends, Once, Honest, Validates, Excludes, Reads,
       Over, Ordered, InTime, Returned
<1> QED
  BY <1>2, <1>3, AdministratorInv, Zenon DEF Next, Acts, Terminating

\* Before the first step nothing has begun.
LEMMA InitCalls == Init => CallsInv
<1> SUFFICES ASSUME Init PROVE CallsInv
  OBVIOUS
<1>1. PICK c \in InitialConfigurations :
          /\ log = <<Revision(None, c, "", TRUE)>>
          /\ session = [s \in Transactions |->
                [state |-> "none", base |-> 0, work |-> c,
                 validated |-> FALSE, late |-> FALSE]]
  BY DEF Init
<1> DEFINE rev == Revision(None, c, "", TRUE)
<1>2. rev.by = None /\ rev.validated = TRUE
  BY DEF Revision
<1>3. log = <<rev>>
  BY <1>1
<1> HIDE DEF rev
<1>4. Len(log) = 1 /\ log[1] = rev
  BY <1>3
<1>5. \A s \in Transactions : ActivatedBy(s) = {}
  BY <1>2, <1>4, LifecycleAssumption DEF ActivatedBy
<1>6. ValidatedBeforeActive
  BY <1>2, <1>4 DEF ValidatedBeforeActive
<1>7. \A s \in Transactions :
          /\ session[s].state = "none" /\ session[s].base = 0 /\ session[s].late = FALSE
          /\ call[s].pc = "idle" /\ call[s].err = "none" /\ call[s].closed = FALSE
  BY <1>1 DEF Init, NoCall
<1>8. \A s \in Transactions : Orderly(s)
  BY <1>5, <1>7 DEF Orderly, Ends, Once, Honest, Validates, Excludes, Reads, Over
<1>9. \A p \in Rivals : Ordered(p[1], p[2])
  BY <1>5 DEF Rivals, Managed, Ordered
<1> QED
  BY <1>6, <1>8, <1>9 DEF CallsInv

LEMMA CallsInvariant == Spec => []CallsInv
<1>1. Init => CallsInv
  BY InitCalls
<1>2. TypeOK /\ CallsInv /\ [Next]_vars => CallsInv'
  BY NextCalls
<1> QED
  BY <1>1, <1>2, TypeCorrect, PTL DEF Spec

(***************************************************************************)
(* Order: the theorems.                                                    *)
(***************************************************************************)
\* Managed writes of one client are serialized: whatever requests fail, of two
\* calls that succeed the later one has loaded what the earlier has activated.
THEOREM CallsSerialized == Spec => []SerializedWrites
<1>1. TypeOK /\ CallsInv => SerializedWrites
  <2> SUFFICES ASSUME TypeOK, CallsInv, NEW s \in Managed, NEW t \in Managed, s # t,
                      ClientOf[s] = ClientOf[t], Succeeded(s), Succeeded(t),
                      NEW i \in ActivatedBy(s), NEW j \in ActivatedBy(t), i < j
               PROVE  session[t].base >= i
    BY DEF SerializedWrites
  <2>1. Ordered(s, t) /\ Orderly(t)
    BY RivalsOrdered
  <2>2. s \in Transactions /\ t \in Transactions
    BY DEF Managed
  <2>3. session[t].base \in Nat /\ i \in Nat /\ j \in Nat
    BY <2>2, Places
  <2>4. session[t].base > 0 /\ call[t].job.operation # "get"
    BY <2>1 DEF Orderly, Reads, Succeeded, Returned
  <2> QED
    BY <2>1, <2>3, <2>4 DEF Ordered, InTime, Succeeded, Returned
<1> QED
  BY <1>1, TypeCorrect, CallsInvariant, PTL

\* A transaction activates at most once, whatever its owner calls and whatever
\* the Gateway still gets to after the end.
THEOREM ActivatesOnce == Spec => []AtMostOneActivation
<1>1. TypeOK /\ CallsInv => AtMostOneActivation
  <2> SUFFICES ASSUME TypeOK, CallsInv, NEW s \in Transactions
               PROVE  Cardinality(ActivatedBy(s)) <= 1
    BY DEF AtMostOneActivation
  <2>1. \A j, k \in ActivatedBy(s) : j = k
    BY DEF CallsInv, Orderly, Once
  <2>2. CASE ActivatedBy(s) = {}
    BY <2>2, FS_EmptySet
  <2>3. CASE ActivatedBy(s) # {}
    <3>1. PICK k \in ActivatedBy(s) : ActivatedBy(s) = {k}
      BY <2>1, <2>3
    <3> QED
      <4>1. Cardinality(ActivatedBy(s)) = 1
        BY <3>1, FS_Singleton
      <4> QED
        BY <4>1
  <2> QED
    BY <2>2, <2>3
<1> QED
  BY <1>1, TypeCorrect, CallsInvariant, PTL

\* A call's error tells whether something was activated: unless it is that of the
\* activation request or of the session's end, nothing was or will be.
THEOREM ErrorsTell == Spec => []DefiniteErrors
<1>1. CallsInv => DefiniteErrors
  BY DEF CallsInv, Orderly, Honest, DefiniteErrors, Managed, Returned
<1> QED
  BY <1>1, CallsInvariant, PTL

\* No session outlives its transaction unless the request that created or
\* terminated it has failed.
THEOREM NoSessionLeft == Spec => []SessionsTerminated
<1>1. CallsInv => SessionsTerminated
  BY DEF CallsInv, Orderly, Ends, SessionsTerminated, Returned
<1> QED
  BY <1>1, CallsInvariant, PTL

\* Without a merge nothing becomes active that its own session has not validated
\* in just that form.
THEOREM ActiveWasValidated == Spec => []ValidatedBeforeActive
<1>1. CallsInv => ValidatedBeforeActive
  BY DEF CallsInv
<1> QED
  BY <1>1, CallsInvariant, PTL

(***************************************************************************)
(* Updates: the invariant.                                                 *)
(***************************************************************************)
\* Two configurations that differ at most in the resources t.
Agree(t, a, b) ==
    /\ \A i \in CertificateIds \ t.certificates : a.certificates[i] = b.certificates[i]
    /\ \A v \in VirtualHosts \ t.hosts : a.bound[v] = b.bound[v]

\* A working copy is what it was loaded from, but for what its requests edited.
Kept(s) ==
    session[s].base > 0 =>
        Agree(touched[s], session[s].work, log[session[s].base].configuration)

\* What is written under a built-in ID was selected by that ID.
Chosen(s) ==
    s \in Managed =>
        /\ call[s].pc = "write" /\ call[s].plan.id < 0 => call[s].job.target.kind = "id"
        /\ call[s].err = "default-entity" => call[s].job.target.kind = "id"

\* The target's name is that of no virtual host, or of several.
Ambiguous(job) ==
    /\ job.operation # "create"
    /\ job.target.kind = "virtualHost"
    /\ Cardinality(VirtualHostsOf(job.target)) # 1

Nothing == [certificates |-> {}, hosts |-> {}]

\* A call with such a name gets no further than the resolution of its target.
Refused(s) ==
    s \in Managed =>
        /\ call[s].pc = "idle" => touched[s] = Nothing
        /\ (call[s].pc # "idle" /\ Ambiguous(call[s].job)) =>
              /\ call[s].pc \in {"lock", "version", "create", "load", "abandon", "resolve",
                                 "finish", "done"}
              /\ call[s].pc \in {"abandon", "finish", "done"} => call[s].err # "none"
              /\ touched[s] = Nothing
              /\ ~session[s].late /\ ActivatedBy(s) = {}

UpdatesInv ==
    /\ \A s \in Transactions : Kept(s) /\ Chosen(s) /\ Refused(s)
    /\ NoLostUpdate

(***************************************************************************)
(* Updates: what a step appends and edits.                                 *)
(***************************************************************************)
\* The revisions are kept, and what is added changes no more than its
\* transaction has edited.
Appends ==
    \/ UNCHANGED log
    \/ /\ Len(log') = Len(log) + 1
       /\ \A k \in 1 .. Len(log) : log'[k] = log[k]
       /\ LET r == log'[Len(log) + 1]
          IN  (r.by \in Transactions /\ r.policy # "overwrite") =>
                  Agree(touched[r.by], r.configuration, Active)

\* Transaction s loads the active configuration, or edits what it notes.
Edited(s) ==
    /\ \A t \in Transactions \ {s} : touched'[t] = touched[t]
    /\ touched[s].certificates \subseteq touched'[s].certificates
    /\ touched[s].hosts \subseteq touched'[s].hosts
    /\ \/ session'[s].base = Len(log) /\ session'[s].work = Active /\ UNCHANGED log
       \/ /\ session'[s].base = session[s].base
          /\ Agree(touched'[s], session'[s].work, session[s].work)

\* An activation merges, or installs the working copy it is not behind.
LEMMA ActivationAppends ==
    ASSUME TypeOK, UpdatesInv, NEW s \in Transactions, session[s].base > 0, Activates(s)
    PROVE  Appends
<1>1. session[s].base \in 1 .. Len(log)
  BY RecordTypes DEF Consistent
<1> DEFINE base == log[session[s].base].configuration
           mine == session[s].work
<1>2. base \in Configurations /\ mine \in Configurations /\ Active \in Configurations
  BY <1>1, RecordTypes, RevisionType
<1>3. \A cfg \in Activatable(s) : cfg \in Configurations
  BY <1>2, ActivatedType DEF Activatable
<1>4. PICK cfg \in Activatable(s) :
          log' = Append(log, Revision(s, cfg, call[s].policy,
                                      session[s].validated /\ cfg = mine))
  BY Zenon DEF Activates
<1>5. call[s].policy # "overwrite" => Agree(touched[s], cfg, Active)
  <2> SUFFICES ASSUME call[s].policy # "overwrite" PROVE Agree(touched[s], cfg, Active)
    OBVIOUS
  <2>1. Agree(touched[s], mine, base)
    BY <1>1 DEF UpdatesInv, Kept
  <2>2. \/ session[s].base = Len(log) /\ cfg = mine
        \/ cfg = Merged(base, mine, Active)
    BY DEF Activatable, Activated, RequestOptions
  <2>3. CASE session[s].base = Len(log) /\ cfg = mine
    BY <2>1, <2>3 DEF Active
  <2>4. CASE cfg = Merged(base, mine, Active)
    BY <2>1, <2>4 DEF Merged, Agree
  <2> QED
    BY <2>2, <2>3, <2>4
<1> DEFINE valid == session[s].validated /\ cfg = mine
           rev == Revision(s, cfg, call[s].policy, valid)
<1>6. rev.by = s /\ rev.policy = call[s].policy /\ rev.configuration = cfg
  BY DEF Revision
<1>7. log' = Append(log, rev)
  BY <1>4
<1> HIDE DEF rev
<1>8. log \in Seq(Revisions) /\ Len(log) \in Nat
  BY DEF TypeOK
<1>9. /\ Len(log') = Len(log) + 1 /\ log'[Len(log) + 1] = rev
      /\ \A k \in 1 .. Len(log) : log'[k] = log[k]
  BY <1>7, <1>8
<1> QED
  BY <1>5, <1>6, <1>9 DEF Appends

\* Every step only adds to the revisions.
LEMMA StepAppends ==
    ASSUME TypeOK, UpdatesInv, NEW s \in Transactions, Acts(s)
    PROVE  Appends
<1>1. \/ UNCHANGED log
      \/ Activates(s) /\ (call[s].pc = "activate" \/ session[s].late)
  BY Zenon DEF Acts, Step, Call, Start, Acquire, VerifyGatewayVersion, CreateSession,
       LoadActiveConfiguration, Abandon, Finish, Stage, CommitWithOptions, Abort, Cancel,
       Resolve, Write, Bind, Decode, ValidateConfiguration,
       ActivateConfigurationWithOptions, GatewayActivates
<1>2. call[s].pc = "activate" \/ session[s].late => session[s].base > 0
  BY RecordTypes DEF Consistent, LoadedSteps
<1> QED
  BY <1>1, <1>2, ActivationAppends DEF Appends

LEMMA AdministratorAppends ==
    ASSUME TypeOK, AdministratorActivates
    PROVE  Appends
<1>1. PICK cfg : log' = Append(log, Revision(None, cfg, "", TRUE))
  BY Zenon DEF AdministratorActivates
<1> DEFINE rev == Revision(None, cfg, "", TRUE)
<1>2. rev.by = None
  BY DEF Revision
<1>3. log' = Append(log, rev)
  BY <1>1
<1> HIDE DEF rev
<1>4. /\ Len(log') = Len(log) + 1 /\ log'[Len(log) + 1] = rev
      /\ \A k \in 1 .. Len(log) : log'[k] = log[k]
  BY <1>3 DEF TypeOK
<1> QED
  BY <1>2, <1>4, LifecycleAssumption DEF Appends

\* A request that is not a write leaves the working copy and the notes alone.
LEMMA NoEdit ==
    ASSUME TypeOK, NEW s \in Transactions, UNCHANGED touched,
           \/ KeepsSession(s) \/ OpensSession(s) \/ Terminated(s) \/ ValidatesSession(s)
           \/ \E late : LeavesLate(s, late)
    PROVE  Edited(s)
<1>1. session'[s].base = session[s].base /\ session'[s].work = session[s].work
  BY DEF KeepsSession, OpensSession, Terminated, ValidatesSession, LeavesLate, TypeOK,
     SessionRecords
<1> QED
  BY <1>1 DEF Edited, Agree

\* A write edits the resource it notes.
LEMMA WriteEdits ==
    ASSUME TypeOK, NEW s \in Transactions, NEW id \in CertificateIds, Written(s, id)
    PROVE  Edited(s)
<1> DEFINE p == call[s].plan
           a == AttributesFromBundle(p.bundle)
           work == IF p.id = NoCertificate THEN CreateIn(session[s].work, id, a)
                   ELSE PatchIn(session[s].work, id, a)
<1>1. \A i \in CertificateIds \ {id} :
          work.certificates[i] = session[s].work.certificates[i]
  BY RecordTypes DEF CreateIn, PatchIn, Configurations
<1>2. work.bound = session[s].work.bound
  BY RecordTypes DEF CreateIn, PatchIn, Configurations
<1>3. EditsSession(s, work)
  BY Zenon DEF Written, EditsSession
<1>4. /\ touched'[s].certificates = touched[s].certificates \cup {id}
      /\ touched'[s].hosts = touched[s].hosts
      /\ \A t \in Transactions \ {s} : touched'[t] = touched[t]
  BY DEF Written, TypeOK
<1> HIDE DEF work
<1>5. session'[s].base = session[s].base /\ session'[s].work = work
  BY <1>3 DEF EditsSession, TypeOK, SessionRecords
<1> QED
  BY <1>1, <1>2, <1>4, <1>5 DEF Edited, Agree

\* Connecting a virtual host edits that one.
LEMMA BindEdits ==
    ASSUME TypeOK, NEW s \in Transactions, NEW v, Connected(s, v)
    PROVE  Edited(s)
<1> DEFINE work == ConnectIn(session[s].work, call[s].plan.id, v)
<1>1. \A h \in VirtualHosts \ {v} : work.bound[h] = session[s].work.bound[h]
  BY RecordTypes DEF ConnectIn, Configurations
<1>2. work.certificates = session[s].work.certificates
  BY RecordTypes DEF ConnectIn, Configurations
<1>3. EditsSession(s, work)
  BY Zenon DEF Connected, EditsSession
<1>4. /\ touched'[s].hosts = touched[s].hosts \cup {v}
      /\ touched'[s].certificates = touched[s].certificates
      /\ \A t \in Transactions \ {s} : touched'[t] = touched[t]
  BY DEF Connected, TypeOK
<1> HIDE DEF work
<1>5. session'[s].base = session[s].base /\ session'[s].work = work
  BY <1>3 DEF EditsSession, TypeOK, SessionRecords
<1> QED
  BY <1>1, <1>2, <1>4, <1>5 DEF Edited, Agree

LEMMA LoadEdits ==
    ASSUME TypeOK, NEW s \in Transactions, UNCHANGED <<log, touched>>,
           LoadsSession(s, Len(log), Active)
    PROVE  Edited(s)
<1>1. session'[s].base = Len(log) /\ session'[s].work = Active
  BY DEF LoadsSession, TypeOK, SessionRecords
<1> QED
  BY <1>1 DEF Edited

\* Every step edits at most what it notes.
LEMMA StepEdits ==
    ASSUME TypeOK, NEW s \in Transactions, Acts(s)
    PROVE  Edited(s)
<1>1. CASE Write(s)
  <2>1. WrittenId(s) \in CertificateIds
    BY <1>1, Zenon DEF Write
  <2>2. Written(s, WrittenId(s)) \/ (UNCHANGED touched /\ KeepsSession(s))
    BY <1>1, Zenon DEF Write, KeepsSession
  <2> QED
    BY <2>1, <2>2, WriteEdits, NoEdit
<1>2. CASE Bind(s)
  <2>1. (\E v : Connected(s, v)) \/ (UNCHANGED touched /\ KeepsSession(s))
    BY <1>2, Zenon DEF Bind, KeepsSession
  <2> QED
    BY <2>1, BindEdits, NoEdit
<1>3. CASE LoadActiveConfiguration(s)
  <2>1. UNCHANGED <<log, touched>>
    BY <1>3 DEF LoadActiveConfiguration
  <2>2. LoadsSession(s, Len(log), Active) \/ KeepsSession(s)
    BY <1>3, Zenon DEF LoadActiveConfiguration, LoadsSession, KeepsSession
  <2> QED
    BY <2>1, <2>2, LoadEdits, NoEdit
<1>4. CASE ~ (Write(s) \/ Bind(s) \/ LoadActiveConfiguration(s))
  <2>1. UNCHANGED touched
    BY <1>4, Zenon DEF Acts, Step, Call, Start, Acquire, VerifyGatewayVersion, CreateSession,
       Abandon, Finish, Stage, CommitWithOptions, Abort, Cancel, Resolve, Decode,
       ValidateConfiguration, ActivateConfigurationWithOptions, GatewayActivates
  <2>2. \/ KeepsSession(s) \/ OpensSession(s) \/ Terminated(s) \/ ValidatesSession(s)
        \/ \E late : LeavesLate(s, late)
    BY <1>4, Zenon DEF Acts, Step, Call, Start, Acquire, VerifyGatewayVersion, CreateSession,
       Abandon, Finish, Stage, CommitWithOptions, Abort, Cancel, Resolve, Decode,
       ValidateConfiguration, ActivateConfigurationWithOptions, GatewayActivates,
       KeepsSession, OpensSession, ValidatesSession, LeavesLate
  <2> QED
    BY <2>1, <2>2, NoEdit
<1> QED
  BY <1>1, <1>2, <1>3, <1>4

\* The working copies stay what they were loaded from, but for their edits.
LEMMA StepKept ==
    ASSUME TypeOK, UpdatesInv, NEW s \in Transactions, Alone(s), Edited(s), Appends,
           NEW t \in Transactions
    PROVE  Kept(t)'
<1>1. /\ session[t].base \in Nat /\ session[t].base <= Len(log) /\ Len(log) \in Nat \ {0}
      /\ \A k \in 1 .. Len(log) : log'[k] = log[k]
      /\ Kept(t)
  BY RecordTypes DEF Consistent, Appends, UpdatesInv
<1>2. CASE t # s
  BY <1>1, <1>2 DEF Alone, Edited, Kept
<1>3. CASE t = s
  <2>1. CASE session'[s].base = Len(log) /\ session'[s].work = Active /\ UNCHANGED log
    BY <1>3, <2>1 DEF Kept, Agree, Active
  <2>2. CASE /\ session'[s].base = session[s].base
             /\ Agree(touched'[s], session'[s].work, session[s].work)
    <3> SUFFICES ASSUME session[s].base > 0
                 PROVE  Agree(touched'[s], session'[s].work, log[session[s].base].configuration)
      BY <1>1, <1>3, <2>2 DEF Kept
    <3>1. Agree(touched[s], session[s].work, log[session[s].base].configuration)
      BY <1>1, <1>3 DEF Kept
    <3> QED
      BY <2>2, <3>1 DEF Agree, Edited
  <2> QED
    BY <1>3, <2>1, <2>2 DEF Edited
<1> QED
  BY <1>2, <1>3

\* No revision that is added undoes what the ones before it hold.
LEMMA StepLosesNothing ==
    ASSUME TypeOK, NoLostUpdate, Appends,
           \A t \in Transactions :
              /\ touched[t].certificates \subseteq touched'[t].certificates
              /\ touched[t].hosts \subseteq touched'[t].hosts
    PROVE  NoLostUpdate'
<1>1. Len(log) \in Nat
  BY DEF TypeOK
<1> SUFFICES ASSUME NEW k \in 2 .. Len(log'), log'[k].by \in Transactions,
                    log'[k].policy # "overwrite"
             PROVE  Agree(touched'[log'[k].by], log'[k].configuration,
                          log'[k - 1].configuration)
  BY DEF NoLostUpdate, Agree
<1>2. CASE k <= Len(log)
  <2>1. log'[k] = log[k] /\ log'[k - 1] = log[k - 1] /\ k \in 2 .. Len(log)
    BY <1>1, <1>2 DEF Appends
  <2>2. Agree(touched[log[k].by], log[k].configuration, log[k - 1].configuration)
    BY <2>1 DEF NoLostUpdate, Agree
  <2> QED
    BY <2>1, <2>2 DEF Agree
<1>3. CASE k > Len(log)
  <2>1. k = Len(log) + 1 /\ log'[Len(log)] = log[Len(log)]
    BY <1>1, <1>3 DEF Appends
  <2>2. Agree(touched[log'[k].by], log'[k].configuration, Active)
    BY <1>1, <1>3, <2>1 DEF Appends
  <2> QED
    BY <1>1, <2>1, <2>2 DEF Agree, Active
<1> QED
  BY <1>1, <1>2, <1>3

(***************************************************************************)
(* Updates: where the steps of a call lead.                                *)
(***************************************************************************)
EarlySteps == {"lock", "version", "create", "load", "abandon", "resolve", "finish", "done"}

\* A step that neither resolves nor writes goes on to no write, and an error it
\* adds is not that of a built-in certificate; before the target is resolved, what
\* ends the call is an error.
Onward(s) ==
    /\ call'[s].job = call[s].job /\ call'[s].pc \notin {"idle", "write"}
    /\ call'[s].err = call[s].err \/ call'[s].err \notin {"none", "default-entity"}
    /\ call[s].pc \in EarlySteps => call'[s].pc \in EarlySteps
    /\ (call'[s].pc \in {"abandon", "finish", "done"}
          /\ call[s].pc \in {"lock", "version", "create", "load"}) => call'[s].err # "none"

LEMMA StepOnward ==
    ASSUME TypeOK, NEW s \in Managed,
           \/ Acquire(s) \/ VerifyGatewayVersion(s) \/ CreateSession(s)
           \/ LoadActiveConfiguration(s) \/ Abandon(s) \/ Bind(s) \/ Decode(s)
           \/ ValidateConfiguration(s) \/ ActivateConfigurationWithOptions(s) \/ Finish(s)
    PROVE  Onward(s)
<1>1. s \in Transactions /\ s \notin Owned /\ call[s].err \in Errors
  BY RecordTypes DEF Managed
<1>2. CASE Acquire(s) \/ VerifyGatewayVersion(s) \/ CreateSession(s)
  <2>1. \/ call[s].pc = "lock" /\ Goto(s, "version")
        \/ call[s].pc = "version" /\ (Goto(s, "create") \/ Return(s, "version"))
        \/ call[s].pc = "create" /\ (Goto(s, "load") \/ Return(s, "create"))
    BY <1>2, Zenon DEF Acquire, VerifyGatewayVersion, CreateSession
  <2> QED
    BY <1>1, <2>1, CallRows DEF Steps, Errors, Onward, EarlySteps, CallTo
<1>3. CASE LoadActiveConfiguration(s)
  <2>1. /\ call[s].pc = "load"
        /\ \/ Goto(s, IF s \in Owned THEN "ready" ELSE "resolve")
           \/ call' = [call EXCEPT ![s].pc = "abandon", ![s].err = "load"]
    BY <1>3, Zenon DEF LoadActiveConfiguration
  <2>2. CASE call' = [call EXCEPT ![s].pc = "abandon", ![s].err = "load"]
    BY <1>1, <2>1, <2>2 DEF TypeOK, CallRecords, Onward, EarlySteps
  <2>3. CASE Goto(s, "resolve")
    BY <1>1, <2>1, <2>3, CallRows DEF Steps, Errors, Onward, EarlySteps, CallTo
  <2> QED
    BY <1>1, <2>1, <2>2, <2>3
<1>4. CASE Abandon(s) \/ Finish(s)
  <2>1. /\ call[s].pc \in {"abandon", "finish"}
        /\ \/ Return(s, call[s].err) \/ Closes(s, call[s].err)
           \/ Closes(s, "terminate")
    BY <1>4 DEF Abandon, Finish
  <2>2. \E err \in {call[s].err, "terminate"} : \E closed : CallTo(s, "done", err, closed)
    BY <1>1, <2>1, CallRows DEF Steps, Errors
  <2> QED
    BY <2>1, <2>2 DEF Onward, EarlySteps, CallTo
<1>5. CASE Bind(s) \/ Decode(s)
  <2>1. /\ call[s].pc \in {"bind", "decode"}
        /\ Goto(s, "decode") \/ StageFails(s, "stage") \/ StageSucceeds(s, TRUE)
    BY <1>5, Zenon DEF Bind, Decode
  <2> QED
    BY <1>1, <2>1, CallRows DEF Steps, Errors, Onward, EarlySteps, CallTo
<1>6. CASE ValidateConfiguration(s) \/ ActivateConfigurationWithOptions(s)
  <2>1. /\ call[s].pc \in {"validate", "activate"}
        /\ \/ \E pc \in {"activate", "finish"} : Goto(s, pc)
           \/ \E err \in {"messages", "validate", "policy", "conflict", "activate"} :
                 Finishing(s, err)
    BY <1>6 DEF ValidateConfiguration, ActivateConfigurationWithOptions, MessagesReported
  <2>2. \E pc \in {"activate", "finish"} :
        \E err \in {call[s].err, "messages", "validate", "policy", "conflict", "activate"} :
            CallTo(s, pc, err, call[s].closed)
    BY <1>1, <2>1, CallRows DEF Steps, Errors
  <2> QED
    BY <2>1, <2>2 DEF Onward, EarlySteps, CallTo
<1> QED
  BY <1>2, <1>3, <1>4, <1>5, <1>6

\* A plan for a built-in certificate is one for a target that is an ID; without
\* exactly one virtual host there is no plan.
LEMMA PlanTargets ==
    ASSUME NEW cfg \in Configurations, NEW job, job.target \in Targets
    PROVE  /\ \A p \in Plans(cfg, job) : p.id < 0 => job.target.kind = "id"
           /\ Ambiguous(job) => Plans(cfg, job) = {} /\ ~Readable(cfg, job)
<1>1. ASSUME NEW p \in Plans(cfg, job), p.id < 0
      PROVE  job.target.kind = "id"
  <2>1. p # Creation(job.bundle)
    BY <1>1 DEF Creation, NoCertificate
  <2>2. PICK id \in SelectedIds(cfg, job.target), b \in DesiredBundles(cfg, job) :
          p = Plan(cfg, job, id, b)
    BY <1>1, <2>1, Zenon DEF Plans
  <2>3. p.id = IF NeedsNewCertificate(job, id) THEN NoCertificate ELSE id
    BY <2>2 DEF Plan
  <2>4. ~NeedsNewCertificate(job, id) /\ id < 0
    BY <1>1, <2>3 DEF NoCertificate
  <2>5. ASSUME job.target.kind = "virtualHost" PROVE FALSE
    <3>1. PICK v \in VirtualHosts : id = cfg.bound[v]
      BY <2>2, <2>5 DEF SelectedIds, VirtualHostsOf
    <3>2. id \in Int
      BY <3>1, ConfigurationAssumption DEF Configurations, NoCertificate
    <3> QED
      BY <2>4, <2>5, <3>2 DEF NeedsNewCertificate, NoCertificate
  <2> QED
    BY <2>5 DEF Targets
<1>2. Ambiguous(job) => ~Resolvable(cfg, job.target)
  BY Zenon DEF Ambiguous, Resolvable
<1>3. Ambiguous(job) => Plans(cfg, job) = {}
  BY <1>2, Zenon DEF Ambiguous, Plans
<1> QED
  BY <1>1, <1>2, <1>3 DEF Readable

\* Only a write edits, and only what was requested activates.
LEMMA StepQuiet ==
    ASSUME TypeOK, NEW s \in Transactions, Acts(s), ~session[s].late,
           call[s].pc \notin {"write", "bind", "activate"}
    PROVE  UNCHANGED touched /\ ~session'[s].late /\ ActivatedBy(s)' = ActivatedBy(s)
<1>1. /\ UNCHANGED <<log, touched>>
      /\ \/ KeepsSession(s) \/ OpensSession(s) \/ Terminated(s) \/ ValidatesSession(s)
         \/ LoadsSession(s, Len(log), Active)
  BY Zenon DEF Acts, Step, Call, Start, Acquire, VerifyGatewayVersion, CreateSession,
     LoadActiveConfiguration, Abandon, Finish, Stage, CommitWithOptions, Abort, Cancel,
     Resolve, Write, Bind, Decode, ValidateConfiguration, ActivateConfigurationWithOptions,
     GatewayActivates, KeepsSession, OpensSession, ValidatesSession, LoadsSession
<1>2. \E state, base, validated : SessionTo(s, state, base, validated, FALSE)
  BY <1>1, SessionRows, RecordTypes
<1> QED
  BY <1>1, <1>2 DEF ActivatedBy, SessionTo

\* Resolving leaves the call at its end, or at a plan for what it was called with.
LEMMA ResolveLeads ==
    ASSUME TypeOK, NEW s \in Managed, Resolve(s)
    PROVE  /\ call'[s].job = call[s].job
           /\ \/ /\ call'[s].pc \in {"finish", "validate"}
                 /\ call'[s].err \in {call[s].err, "none", "stage"}
              \/ /\ call'[s].pc = "write" /\ call'[s].err = call[s].err
                 /\ call'[s].plan.id < 0 => call[s].job.target.kind = "id"
           /\ Ambiguous(call[s].job) => call'[s].pc = "finish" /\ call'[s].err = "stage"
<1> DEFINE job == call[s].job
           cfg == session[s].work
<1>1. s \in Transactions /\ s \notin Owned /\ cfg \in Configurations
  BY RecordTypes DEF Managed
<1>2. job \in Jobs
  BY <1>1, RecordTypes DEF Resolve, Consistent, StageSteps, ValidJobs
<1>3. /\ \A p \in Plans(cfg, job) : p.id < 0 => job.target.kind = "id"
      /\ Ambiguous(job) => Plans(cfg, job) = {} /\ ~Readable(cfg, job)
  BY <1>1, <1>2, JobType, PlanTargets
<1>4. \/ Goto(s, "finish") /\ Readable(cfg, job)
      \/ StageFails(s, "stage")
      \/ \E p \in Plans(cfg, job) :
            \/ StageSucceeds(s, FALSE)
            \/ call' = [call EXCEPT ![s].plan = p, ![s].pc = "write"]
  BY <1>1, Zenon DEF Resolve
<1>5. CASE StageFails(s, "stage")
  <2>1. CallTo(s, "finish", "stage", call[s].closed)
    BY <1>1, <1>5, CallRows DEF Steps, Errors
  <2> QED
    BY <2>1 DEF CallTo
<1>6. CASE Goto(s, "finish") /\ Readable(cfg, job)
  <2>1. CallTo(s, "finish", call[s].err, call[s].closed)
    BY <1>1, <1>6, CallRows DEF Steps, Errors
  <2> QED
    BY <1>3, <1>6, <2>1 DEF CallTo
<1>7. CASE StageSucceeds(s, FALSE) /\ Plans(cfg, job) # {}
  <2>1. \E pc \in {"validate", "finish"} : CallTo(s, pc, call[s].err, call[s].closed)
    BY <1>1, <1>7, CallRows DEF Steps, Errors
  <2> QED
    BY <1>3, <1>7, <2>1 DEF CallTo
<1>8. ASSUME NEW p \in Plans(cfg, job),
             call' = [call EXCEPT ![s].plan = p, ![s].pc = "write"]
      PROVE  /\ call'[s].pc = "write" /\ call'[s].err = call[s].err
             /\ call'[s].job = job /\ call'[s].plan = p
  BY <1>1, <1>8 DEF TypeOK, CallRecords
<1>9. CASE \E p \in Plans(cfg, job) :
              call' = [call EXCEPT ![s].plan = p, ![s].pc = "write"]
  BY <1>3, <1>8, <1>9
<1> QED
  BY <1>4, <1>5, <1>6, <1>7, <1>9

\* A write meets the error for a built-in certificate only with an ID of one.
LEMMA WriteLeads ==
    ASSUME TypeOK, NEW s \in Managed, Write(s)
    PROVE  /\ call'[s].job = call[s].job /\ call'[s].pc \in {"bind", "decode", "finish"}
           /\ \/ call'[s].err \in {call[s].err, "stage"}
              \/ call'[s].err = "default-entity" /\ call[s].plan.id < 0
<1>1. s \in Transactions /\ s \notin Owned
  BY DEF Managed
<1>2. \/ \E id, pc : /\ pc \in {"bind", "decode"}
                     /\ call' = [call EXCEPT ![s].plan.id = id, ![s].pc = pc]
      \/ StageFails(s, "stage")
      \/ StageFails(s, "default-entity") /\ WrittenId(s) < 0
  BY Zenon DEF Write
<1>3. CASE \E id, pc : /\ pc \in {"bind", "decode"}
                       /\ call' = [call EXCEPT ![s].plan.id = id, ![s].pc = pc]
  BY <1>1, <1>3 DEF TypeOK, CallRecords
<1>4. CASE StageFails(s, "stage")
  <2>1. CallTo(s, "finish", "stage", call[s].closed)
    BY <1>1, <1>4, CallRows DEF Steps, Errors
  <2> QED
    BY <2>1 DEF CallTo
<1>5. CASE StageFails(s, "default-entity") /\ WrittenId(s) < 0
  <2>1. CallTo(s, "finish", "default-entity", call[s].closed)
    BY <1>1, <1>5, CallRows DEF Steps, Errors
  <2>2. call[s].plan.id < 0
    BY <1>5 DEF WrittenId, NoCertificate, TypeOK
  <2> QED
    BY <2>1, <2>2 DEF CallTo
<1> QED
  BY <1>2, <1>3, <1>4, <1>5

\* What happens to a call besides its own steps changes nothing of these.
LEMMA AsideLeads ==
    ASSUME TypeOK, NEW s \in Transactions, Cancel(s) \/ GatewayActivates(s)
    PROVE  /\ call'[s].pc = call[s].pc /\ call'[s].job = call[s].job
           /\ call'[s].plan = call[s].plan /\ call'[s].err = call[s].err
<1>1. UNCHANGED call \/ call' = [call EXCEPT ![s].cancelled = TRUE]
  BY DEF Cancel, GatewayActivates
<1> QED
  BY <1>1 DEF TypeOK, CallRecords

LEMMA CallLeads ==
    ASSUME TypeOK, NEW s \in Transactions, Call(s)
    PROVE  /\ call[s].pc = "idle" /\ call'[s].pc \in {"version", "lock", "done"}
           /\ \/ call'[s].err = call[s].err /\ call'[s].pc # "done"
              \/ call'[s].err = "arguments"
  BY DEF Call, TypeOK, CallRecords

(***************************************************************************)
(* Updates: the invariant is kept.                                         *)
(***************************************************************************)
\* The steps of a managed call.
LEMMA ManagedSteps ==
    ASSUME NEW s \in Managed, Acts(s)
    PROVE  \/ Call(s) \/ Resolve(s) \/ Write(s) \/ Cancel(s) \/ GatewayActivates(s)
           \/ Acquire(s) \/ VerifyGatewayVersion(s) \/ CreateSession(s)
           \/ LoadActiveConfiguration(s) \/ Abandon(s) \/ Bind(s) \/ Decode(s)
           \/ ValidateConfiguration(s) \/ ActivateConfigurationWithOptions(s) \/ Finish(s)
  BY Zenon DEF Managed, Acts, Step, Start, Stage, CommitWithOptions, Abort

LEMMA StepChosen ==
    ASSUME TypeOK, CallsInv, UpdatesInv, NEW s \in Transactions, Acts(s)
    PROVE  Chosen(s)'
<1> SUFFICES ASSUME s \in Managed
             PROVE  /\ call'[s].pc = "write" /\ call'[s].plan.id < 0 =>
                          call'[s].job.target.kind = "id"
                    /\ call'[s].err = "default-entity" => call'[s].job.target.kind = "id"
  BY DEF Chosen, Managed
<1>1. /\ call[s].pc = "write" /\ call[s].plan.id < 0 => call[s].job.target.kind = "id"
      /\ call[s].err = "default-entity" => call[s].job.target.kind = "id"
  BY DEF UpdatesInv, Chosen
<1>2. CASE Call(s)
  <2>1. call[s].err = "none"
    BY <1>2, CallLeads DEF CallsInv, Orderly, Honest
  <2> QED
    BY <1>2, <2>1, CallLeads
<1>3. CASE Resolve(s)
  BY <1>1, <1>3, ResolveLeads
<1>4. CASE Write(s)
  <2>1. call[s].pc = "write"
    BY <1>4 DEF Write
  <2> QED
    BY <1>1, <1>4, <2>1, WriteLeads
<1>5. CASE Cancel(s) \/ GatewayActivates(s)
  BY <1>1, <1>5, AsideLeads
<1>6. CASE Onward(s)
  BY <1>1, <1>6 DEF Onward
<1> QED
  BY <1>2, <1>3, <1>4, <1>5, <1>6, ManagedSteps, StepOnward

LEMMA StepRefused ==
    ASSUME TypeOK, CallsInv, UpdatesInv, NEW s \in Transactions, Acts(s)
    PROVE  Refused(s)'
<1> SUFFICES ASSUME s \in Managed
             PROVE  Refused(s)'
  BY DEF Refused, Managed
<1>1. Refused(s) /\ Orderly(s)
  BY DEF UpdatesInv, CallsInv
<1>2. CASE Call(s)
  <2>1. /\ touched[s] = Nothing /\ ~session[s].late /\ ActivatedBy(s) = {}
        /\ call[s].pc = "idle"
    BY <1>1, <1>2, CallLeads DEF Refused, Orderly, Once, Over, Ends
  <2>2. UNCHANGED touched /\ ~session'[s].late /\ ActivatedBy(s)' = ActivatedBy(s)
    BY <2>1, StepQuiet
  <2> QED
    BY <1>2, <2>1, <2>2, CallLeads DEF Refused
<1>3. CASE call[s].pc = "idle" /\ ~Call(s)
  <2>1. ~session[s].late
    BY <1>1, <1>3 DEF Orderly, Once, Over, Ends
  <2>2. FALSE
    BY <1>3, <2>1, ManagedSteps, Zenon DEF Resolve, Write, Cancel, GatewayActivates, Acquire,
       VerifyGatewayVersion, CreateSession, LoadActiveConfiguration, Abandon, Bind, Decode,
       ValidateConfiguration, ActivateConfigurationWithOptions, Finish
  <2> QED
    BY <2>2
<1>4. CASE call[s].pc # "idle"
  <2>1. call'[s].pc # "idle" /\ call'[s].job = call[s].job
    BY <1>4, StepGoesOn DEF GoesOn, Moves
  <2> SUFFICES ASSUME Ambiguous(call[s].job)
               PROVE  /\ call'[s].pc \in EarlySteps
                      /\ call'[s].pc \in {"abandon", "finish", "done"} =>
                            call'[s].err # "none"
                      /\ touched'[s] = Nothing
                      /\ ~session'[s].late /\ ActivatedBy(s)' = {}
    BY <2>1 DEF Refused, EarlySteps, Ambiguous
  <2>2. /\ call[s].pc \in EarlySteps
        /\ call[s].pc \in {"abandon", "finish", "done"} => call[s].err # "none"
        /\ touched[s] = Nothing /\ ~session[s].late /\ ActivatedBy(s) = {}
    BY <1>1, <1>4 DEF Refused, EarlySteps
  <2>3. touched'[s] = Nothing /\ ~session'[s].late /\ ActivatedBy(s)' = {}
    BY <2>2, StepQuiet DEF EarlySteps
  <2>4. CASE Resolve(s)
    BY <2>3, <2>4, ResolveLeads DEF EarlySteps
  <2>5. CASE Cancel(s) \/ GatewayActivates(s)
    BY <2>2, <2>3, <2>5, AsideLeads
  <2>6. CASE Onward(s) /\ ~Resolve(s) /\ call[s].pc # "resolve"
    BY <2>2, <2>3, <2>6 DEF Onward, EarlySteps
  <2>7. ~Call(s) /\ ~Write(s)
    BY <1>4, <2>2 DEF Call, Write, EarlySteps
  <2>8. CASE ~(Resolve(s) \/ Cancel(s) \/ GatewayActivates(s))
    <3>1. call[s].pc # "resolve"
      BY <2>7, <2>8, ManagedSteps, Zenon DEF Acquire, VerifyGatewayVersion, CreateSession,
         LoadActiveConfiguration, Abandon, Bind, Decode, ValidateConfiguration,
         ActivateConfigurationWithOptions, Finish
    <3>2. Onward(s)
      BY <2>7, <2>8, ManagedSteps, StepOnward
    <3> QED
      BY <2>6, <2>8, <3>1, <3>2
  <2> QED
    BY <2>4, <2>5, <2>8
<1> QED
  BY <1>2, <1>3, <1>4

\* A step of one transaction keeps the invariant of all.
LEMMA ActsInv ==
    ASSUME TypeOK, CallsInv, UpdatesInv, NEW s \in Transactions, Acts(s)
    PROVE  UpdatesInv'
<1>1. Appends /\ Edited(s) /\ Alone(s)
  BY StepAppends, StepEdits, StepGoesOn DEF GoesOn
<1>2. ASSUME NEW t \in Transactions
      PROVE  (Kept(t) /\ Chosen(t) /\ Refused(t))'
  <2>1. Kept(t)'
    BY <1>1, StepKept
  <2>2. CASE t = s
    BY <2>1, <2>2, StepChosen, StepRefused
  <2>3. CASE t # s
    <3>1. /\ call'[t] = call[t] /\ session'[t] = session[t] /\ touched'[t] = touched[t]
          /\ ActivatedBy(t)' = ActivatedBy(t)
      BY <1>1, <2>3 DEF Alone, Edited
    <3>2. Chosen(t) /\ Refused(t)
      BY DEF UpdatesInv
    <3> QED
      BY <2>1, <3>1, <3>2 DEF Chosen, Refused, Managed
  <2> QED
    BY <2>2, <2>3
<1>3. NoLostUpdate'
  BY <1>1, StepLosesNothing DEF UpdatesInv, Edited
<1> QED
  BY <1>2, <1>3 DEF UpdatesInv

LEMMA NextUpdates == TypeOK /\ CallsInv /\ UpdatesInv /\ [Next]_vars => UpdatesInv'
<1> SUFFICES ASSUME TypeOK, CallsInv, UpdatesInv, [Next]_vars PROVE UpdatesInv'
  OBVIOUS
<1>1. CASE AdministratorActivates
  <2>1. UNCHANGED <<call, session, touched>> /\ Appends
    BY <1>1, AdministratorAppends DEF AdministratorActivates
  <2>2. NoLostUpdate'
    BY <2>1, StepLosesNothing DEF UpdatesInv
  <2>3. ASSUME NEW t \in Transactions
        PROVE  (Kept(t) /\ Chosen(t) /\ Refused(t))'
    <3>1. /\ session[t].base \in Nat /\ session[t].base <= Len(log)
          /\ \A k \in 1 .. Len(log) : log'[k] = log[k]
      BY <2>1, RecordTypes DEF Consistent, Appends
    <3>2. ActivatedBy(t)' = ActivatedBy(t)
      BY <1>1, AdministratorOrder
    <3>3. Kept(t) /\ Chosen(t) /\ Refused(t)
      BY DEF UpdatesInv
    <3> QED
      BY <2>1, <3>1, <3>2, <3>3 DEF Kept, Chosen, Refused
  <2> QED
    BY <2>2, <2>3 DEF UpdatesInv
<1>2. CASE UNCHANGED vars
  <2>1. UNCHANGED <<log, call, session, touched>>
    BY <1>2 DEF vars
  <2>2. \A t : ActivatedBy(t)' = ActivatedBy(t)
    BY <2>1 DEF ActivatedBy
  <2> QED
    BY <2>1, <2>2 DEF UpdatesInv, NoLostUpdate, Kept, Chosen, Refused
<1> QED
  BY <1>1, <1>2, ActsInv, Zenon DEF Next, Acts, Terminating

LEMMA InitUpdates == Init => UpdatesInv
<1> SUFFICES ASSUME Init PROVE UpdatesInv
  OBVIOUS
<1>1. PICK c \in InitialConfigurations :
          /\ log = <<Revision(None, c, "", TRUE)>>
          /\ session = [s \in Transactions |->
                [state |-> "none", base |-> 0, work |-> c,
                 validated |-> FALSE, late |-> FALSE]]
  BY DEF Init
<1>2. Len(log) = 1
  BY <1>1
<1>3. NoLostUpdate
  BY <1>2 DEF NoLostUpdate
<1>4. ASSUME NEW s \in Transactions
      PROVE  /\ session[s].base = 0 /\ call[s].pc = "idle" /\ call[s].err = "none"
             /\ touched[s] = Nothing
  BY <1>1 DEF Init, NoCall, Nothing
<1> QED
  BY <1>3, <1>4 DEF UpdatesInv, Kept, Chosen, Refused

LEMMA UpdatesInvariant == Spec => []UpdatesInv
<1>1. Init => UpdatesInv
  BY InitUpdates
<1>2. TypeOK /\ CallsInv /\ UpdatesInv /\ [Next]_vars => UpdatesInv'
  BY NextUpdates
<1> QED
  BY <1>1, <1>2, TypeCorrect, CallsInvariant, PTL DEF Spec

(***************************************************************************)
(* Updates: the theorems.                                                  *)
(***************************************************************************)
\* Without the overwrite policy no activation undoes what somebody else has
\* activated: it differs from the revision before it only where its transaction
\* has written, whatever was activated while that one worked.
THEOREM UpdatesKept == Spec => []NoLostUpdate
<1>1. UpdatesInv => NoLostUpdate
  BY DEF UpdatesInv
<1> QED
  BY <1>1, UpdatesInvariant, PTL

\* A call that selects by name never fails for a built-in certificate: it gets a
\* new one in its place.
THEOREM NamesReplaceDefaults == Spec => []NoDefaultEntityError
<1>1. UpdatesInv => NoDefaultEntityError
  BY DEF UpdatesInv, Chosen, NoDefaultEntityError, Managed
<1> QED
  BY <1>1, UpdatesInvariant, PTL

\* A call whose name is that of no virtual host or of several fails, and has
\* written and activated nothing.
THEOREM AmbiguousRefused == Spec => []AmbiguousNameChangesNothing
<1>1. UpdatesInv => AmbiguousNameChangesNothing
  <2> SUFFICES ASSUME UpdatesInv, NEW s \in Managed, Returned(s), Ambiguous(call[s].job)
               PROVE  /\ call[s].err # "none"
                      /\ touched[s] = [certificates |-> {}, hosts |-> {}]
                      /\ ActivatedBy(s) = {}
    BY DEF AmbiguousNameChangesNothing, Ambiguous
  <2>1. Refused(s)
    BY DEF UpdatesInv, Managed
  <2> QED
    BY <2>1 DEF Refused, Nothing, Returned
<1> QED
  BY <1>1, UpdatesInvariant, PTL


(***************************************************************************)
(* Soundness: configurations.                                              *)
(***************************************************************************)
\* The requests keep every resource of a working copy sound.
LEMMA EditSound ==
    ASSUME NEW cfg \in Configurations, SoundConfiguration(cfg),
           NEW id \in CertificateIds, NEW a \in Attributes, Sound(a)
    PROVE  /\ SoundConfiguration(CreateIn(cfg, id, a))
           /\ Exists(cfg, id) => SoundConfiguration(PatchIn(cfg, id, a))
<1>1. cfg.certificates \in [CertificateIds -> Attributes \cup {None}]
  BY DEF Configurations
<1>2. \A i \in CertificateIds :
          CreateIn(cfg, id, a).certificates[i] = IF i = id THEN a ELSE cfg.certificates[i]
  BY <1>1 DEF CreateIn, Configurations
<1>3. \A i \in CertificateIds :
          PatchIn(cfg, id, a).certificates[i] =
              IF i = id THEN Patched(cfg.certificates[id], a) ELSE cfg.certificates[i]
  BY <1>1 DEF PatchIn, Configurations
<1>4. Exists(cfg, id) => Sound(Patched(cfg.certificates[id], a))
  BY <1>1, PatchedSound DEF Exists
<1> QED
  BY <1>2, <1>3, <1>4 DEF SoundConfiguration, Exists

\* Binding a virtual host changes no resource.
LEMMA ConnectSound ==
    ASSUME NEW cfg \in Configurations, SoundConfiguration(cfg), NEW id, NEW v
    PROVE  SoundConfiguration(ConnectIn(cfg, id, v))
<1>1. ConnectIn(cfg, id, v).certificates = cfg.certificates
  BY DEF ConnectIn, Configurations
<1> QED
  BY <1>1 DEF SoundConfiguration, Exists

\* So does the Configuration Center.
LEMMA EditsSound ==
    ASSUME NEW cfg \in Configurations, SoundConfiguration(cfg),
           NEW attributes \in SUBSET Attributes, \A a \in attributes : Sound(a),
           NEW new \in Edits(cfg, attributes)
    PROVE  SoundConfiguration(new)
<1>1. ASSUME NEW i \in CertificateIds, Exists(cfg, i), NEW a \in attributes
      PROVE  SoundConfiguration(PatchIn(cfg, i, a))
  BY <1>1, EditSound
<1> QED
  BY <1>1, ConnectSound DEF Edits

\* A merge takes every resource from one of the two sides.
LEMMA ActivatedSound ==
    ASSUME NEW base \in Configurations, NEW mine \in Configurations,
           NEW active \in Configurations, NEW options, NEW outdated,
           SoundConfiguration(mine), SoundConfiguration(active),
           NEW cfg \in Activated(options, outdated, base, mine, active)
    PROVE  SoundConfiguration(cfg)
<1>1. cfg = mine \/ cfg = Merged(base, mine, active)
  BY DEF Activated
<1>2. \A i \in CertificateIds :
          \/ Merged(base, mine, active).certificates[i] = mine.certificates[i]
          \/ Merged(base, mine, active).certificates[i] = active.certificates[i]
  BY DEF Merged
<1> HIDE DEF Merged
<1>3. SoundConfiguration(Merged(base, mine, active))
  BY <1>2 DEF SoundConfiguration, Exists
<1> QED
  BY <1>1, <1>3

(***************************************************************************)
(* Soundness: the lifecycle.                                               *)
(***************************************************************************)
\* Every working copy and every revision is sound.
LEMMA SoundParts ==
    NoMismatchedPair <=> /\ \A s \in Transactions : SoundConfiguration(session[s].work)
                         /\ \A k \in 1 .. Len(log) : SoundConfiguration(log[k].configuration)
  BY Zenon DEF NoMismatchedPair

\* The active configuration is one of the revisions.
LEMMA ActiveSound ==
    ASSUME TypeOK, NoMismatchedPair
    PROVE  SoundConfiguration(Active)
<1>1. Len(log) \in 1 .. Len(log)
  BY RecordTypes DEF TypeOK
<1> QED
  BY <1>1, SoundParts DEF Active

\* The updates of a session that keep its working copy.
QuietSession(s) ==
    \/ KeepsSession(s) \/ OpensSession(s) \/ Terminated(s) \/ ValidatesSession(s)
    \/ LeavesLate(s, TRUE) \/ LeavesLate(s, FALSE)

\* They keep every working copy.
LEMMA QuietWork ==
    ASSUME TypeOK, NEW s \in Transactions, QuietSession(s), NEW t \in Transactions
    PROVE  session'[t].work = session[t].work
<1>1. PICK r \in SessionRecords : r = session[s]
  BY RecordTypes
<1> DEFINE open   == [r EXCEPT !.state = "open"]
           closed == [r EXCEPT !.state = "closed", !.late = FALSE]
           valid  == [r EXCEPT !.validated = TRUE]
           late   == [r EXCEPT !.late = TRUE]
           early  == [r EXCEPT !.late = FALSE]
<1>2. \/ session' = session
      \/ session' = [session EXCEPT ![s] = open]
      \/ session' = [session EXCEPT ![s] = closed]
      \/ session' = [session EXCEPT ![s] = valid]
      \/ session' = [session EXCEPT ![s] = late]
      \/ session' = [session EXCEPT ![s] = early]
  BY <1>1, Zenon DEF QuietSession, KeepsSession, OpensSession, Terminated,
                     ValidatesSession, LeavesLate
<1>3. /\ open.work = r.work /\ closed.work = r.work /\ valid.work = r.work
      /\ late.work = r.work /\ early.work = r.work
  BY DEF SessionRecords
<1> HIDE DEF open, closed, valid, late, early
<1> QED
  BY <1>1, <1>2, <1>3 DEF TypeOK

\* The actions that change neither a working copy nor the active configuration.
LEMMA QuietActions ==
    ASSUME NEW s \in Transactions,
           \/ Call(s) \/ Start(s) \/ Acquire(s) \/ VerifyGatewayVersion(s)
           \/ CreateSession(s) \/ Abandon(s) \/ Finish(s) \/ Stage(s) \/ Resolve(s)
           \/ Decode(s) \/ CommitWithOptions(s) \/ Abort(s) \/ ValidateConfiguration(s)
           \/ Cancel(s)
    PROVE  QuietSession(s) /\ UNCHANGED log
<1>1. CASE Call(s) \/ Start(s) \/ Acquire(s) \/ VerifyGatewayVersion(s) \/ Stage(s)
  BY <1>1, Zenon DEF Call, Start, Acquire, VerifyGatewayVersion, Stage,
                     QuietSession, KeepsSession
<1>2. CASE CreateSession(s) \/ Abandon(s) \/ Finish(s) \/ ValidateConfiguration(s)
  BY <1>2, Zenon DEF CreateSession, Abandon, Finish, ValidateConfiguration,
                     QuietSession, KeepsSession, OpensSession, ValidatesSession
<1>3. CASE Resolve(s) \/ Decode(s) \/ CommitWithOptions(s) \/ Abort(s) \/ Cancel(s)
  BY <1>3, Zenon DEF Resolve, Decode, CommitWithOptions, Abort, Cancel,
                     QuietSession, KeepsSession
<1> QED
  BY <1>1, <1>2, <1>3, Zenon

\* A step that writes one working copy leaves everything sound when that is.
LEMMA WorkSound ==
    ASSUME TypeOK, NoMismatchedPair, NEW s \in Transactions, NEW work \in Configurations,
           SoundConfiguration(work), NEW base \in Nat,
           LoadsSession(s, base, work) \/ EditsSession(s, work), UNCHANGED log
    PROVE  NoMismatchedPair'
<1>1. PICK r \in SessionRecords : r = session[s]
  BY RecordTypes
<1> DEFINE loaded == [r EXCEPT !.base = base, !.work = work]
           edited == [r EXCEPT !.validated = FALSE, !.work = work]
<1>2. session' = [session EXCEPT ![s] = loaded] \/ session' = [session EXCEPT ![s] = edited]
  BY <1>1, Zenon DEF LoadsSession, EditsSession
<1>3. loaded.work = work /\ edited.work = work
  BY DEF SessionRecords
<1> HIDE DEF loaded, edited
<1>4. ASSUME NEW t \in Transactions
      PROVE  session'[t].work = work \/ session'[t].work = session[t].work
  BY <1>2, <1>3 DEF TypeOK
<1>5. \A t \in Transactions : SoundConfiguration(session'[t].work)
  BY <1>4, SoundParts, Zenon
<1>6. \A k \in 1 .. Len(log') : SoundConfiguration(log'[k].configuration)
  BY SoundParts, Zenon
<1> QED
  BY <1>5, <1>6, Zenon DEF NoMismatchedPair

\* A step that keeps the working copies leaves everything sound when it adds
\* at most a sound revision.
LEMMA LogSound ==
    ASSUME TypeOK, NoMismatchedPair,
           \A t \in Transactions : session'[t].work = session[t].work,
           \/ UNCHANGED log
           \/ \E rev \in Revisions :
                 log' = Append(log, rev) /\ SoundConfiguration(rev.configuration)
    PROVE  NoMismatchedPair'
<1>1. \A t \in Transactions : SoundConfiguration(session'[t].work)
  BY SoundParts
<1>2. \A k \in 1 .. Len(log) : SoundConfiguration(log[k].configuration)
  BY SoundParts
<1>3. \A k \in 1 .. Len(log') : SoundConfiguration(log'[k].configuration)
  <2>1. CASE UNCHANGED log
    BY <1>2, <2>1, Zenon
  <2>2. ASSUME NEW rev \in Revisions, log' = Append(log, rev),
               SoundConfiguration(rev.configuration), NEW k \in 1 .. Len(log')
        PROVE  SoundConfiguration(log'[k].configuration)
    <3>1. log \in Seq(Revisions)
      BY DEF TypeOK
    <3>2. (k \in 1 .. Len(log) /\ log'[k] = log[k]) \/ log'[k] = rev
      BY <2>2, <3>1
    <3> QED
      BY <1>2, <2>2, <3>2, Zenon
  <2> QED
    BY <2>1, <2>2
<1> QED
  BY <1>1, <1>3, Zenon DEF NoMismatchedPair

\* The active configuration is loaded as it is.
LEMMA LoadSound ==
    ASSUME TypeOK, NoMismatchedPair, NEW s \in Transactions, LoadActiveConfiguration(s)
    PROVE  NoMismatchedPair'
<1>1. UNCHANGED log /\ (LoadsSession(s, Len(log), Active) \/ KeepsSession(s))
  BY Zenon DEF LoadActiveConfiguration, LoadsSession, KeepsSession
<1>2. CASE LoadsSession(s, Len(log), Active)
  BY <1>1, <1>2, RevisionType, ActiveSound, RecordTypes, WorkSound
<1>3. CASE KeepsSession(s)
  BY <1>1, <1>3, QuietWork, LogSound DEF QuietSession
<1> QED
  BY <1>1, <1>2, <1>3

\* What a call writes is a valid bundle.
LEMMA WriteSound ==
    ASSUME TypeOK, NoMismatchedPair, NEW s \in Transactions, Write(s)
    PROVE  NoMismatchedPair'
<1> DEFINE id == WrittenId(s)
           p == call[s].plan
           a == AttributesFromBundle(p.bundle)
           work == session[s].work
           new == IF p.id = NoCertificate THEN CreateIn(work, id, a) ELSE PatchIn(work, id, a)
<1>1. /\ call[s].pc = "write" /\ id \in CertificateIds /\ UNCHANGED log
      /\ EditsSession(s, new) \/ KeepsSession(s)
  BY Zenon DEF Write, Written, EditsSession, KeepsSession
<1>2. /\ p \in PlanRecords /\ ValidBundle(p.bundle)
      /\ p.id = NoCertificate \/ Exists(work, p.id)
  BY <1>1, RecordTypes DEF Consistent
<1>3. p.bundle \in Bundles
  BY <1>2 DEF PlanRecords
<1>4. a \in Attributes /\ Sound(a)
  BY <1>2, <1>3, AttributesType, BundleSound
<1>5. work \in Configurations /\ SoundConfiguration(work)
  BY RecordTypes, SoundParts
<1>6. p.id # NoCertificate => id = p.id
  BY DEF WrittenId
<1> HIDE DEF a, work, p, id
<1>7. new \in Configurations /\ SoundConfiguration(new)
  <2>1. /\ CreateIn(work, id, a) \in Configurations
        /\ SoundConfiguration(CreateIn(work, id, a))
        /\ Exists(work, id) => /\ PatchIn(work, id, a) \in Configurations
                               /\ SoundConfiguration(PatchIn(work, id, a))
    BY <1>1, <1>4, <1>5, CertificateEditType, EditSound, Zenon
  <2> QED
    BY <1>2, <1>6, <2>1, Zenon
<1> HIDE DEF new
<1>8. CASE EditsSession(s, new)
  BY <1>1, <1>7, <1>8, RecordTypes, WorkSound
<1>9. CASE KeepsSession(s)
  BY <1>1, <1>9, QuietWork, LogSound DEF QuietSession
<1> QED
  BY <1>1, <1>8, <1>9

\* Binding leaves the resources of the working copy alone.
LEMMA BindSound ==
    ASSUME TypeOK, NoMismatchedPair, NEW s \in Transactions, Bind(s)
    PROVE  NoMismatchedPair'
<1>1. PICK v \in call[s].plan.hosts :
          \/ EditsSession(s, ConnectIn(session[s].work, call[s].plan.id, v))
          \/ KeepsSession(s)
  BY Zenon DEF Bind, Connected, EditsSession, KeepsSession
<1>2. call[s].pc = "bind" /\ UNCHANGED log
  BY DEF Bind
<1> DEFINE new == ConnectIn(session[s].work, call[s].plan.id, v)
<1>3. /\ v \in VirtualHosts
      /\ call[s].plan.id \in CertificateIds \cup {NoCertificate}
  BY <1>2, RecordTypes DEF Consistent, PlanRecords
<1>4. session[s].work \in Configurations /\ SoundConfiguration(session[s].work)
  BY RecordTypes, SoundParts
<1>5. new \in Configurations /\ SoundConfiguration(new)
  BY <1>3, <1>4, ConnectType, ConnectSound
<1> HIDE DEF new
<1>6. CASE EditsSession(s, new)
  BY <1>2, <1>5, <1>6, RecordTypes, WorkSound
<1>7. CASE KeepsSession(s)
  BY <1>2, <1>7, QuietWork, LogSound DEF QuietSession
<1> QED
  BY <1>1, <1>6, <1>7, Zenon DEF new

\* Activating takes the working copy, or merges it with what is active.
LEMMA ActivationSound ==
    ASSUME TypeOK, NoMismatchedPair, NEW s \in Transactions, session[s].base > 0,
           QuietSession(s), Activates(s) \/ UNCHANGED log
    PROVE  NoMismatchedPair'
<1>1. \A t \in Transactions : session'[t].work = session[t].work
  BY QuietWork
<1>2. CASE UNCHANGED log
  BY <1>1, <1>2, LogSound
<1>3. CASE Activates(s)
  <2>1. session[s].base \in 1 .. Len(log)
    BY RecordTypes DEF Consistent
  <2>2. /\ log[session[s].base].configuration \in Configurations
        /\ session[s].work \in Configurations /\ Active \in Configurations
    BY <2>1, RecordTypes, RevisionType
  <2>3. SoundConfiguration(session[s].work) /\ SoundConfiguration(Active)
    BY SoundParts, ActiveSound
  <2>4. \A cfg \in Activatable(s) : cfg \in Configurations /\ SoundConfiguration(cfg)
    BY <2>2, <2>3, ActivatedType, ActivatedSound DEF Activatable
  <2>5. call[s].policy \in ConflictPolicies
    BY RecordTypes DEF CallRecords
  <2>6. PICK cfg \in Activatable(s) : \E validated \in BOOLEAN :
            log' = Append(log, Revision(s, cfg, call[s].policy, validated))
    BY <1>3, Zenon DEF Activates
  <2>7. PICK validated \in BOOLEAN :
            log' = Append(log, Revision(s, cfg, call[s].policy, validated))
    BY <2>6
  <2>8. PICK rev \in Revisions : log' = Append(log, rev) /\ rev.configuration = cfg
    BY <2>4, <2>5, <2>7 DEF Revision, Revisions
  <2> QED
    BY <1>1, <2>4, <2>8, LogSound
<1> QED
  BY <1>2, <1>3

\* So do the two ways an activation takes effect, in time and too late.
LEMMA ActivateSound ==
    ASSUME TypeOK, NoMismatchedPair, NEW s \in Transactions,
           ActivateConfigurationWithOptions(s) \/ GatewayActivates(s)
    PROVE  NoMismatchedPair'
<1>1. /\ call[s].pc = "activate" \/ session[s].late
      /\ Activates(s) \/ UNCHANGED log
      /\ QuietSession(s)
  BY Zenon DEF ActivateConfigurationWithOptions, GatewayActivates, QuietSession,
               KeepsSession, LeavesLate
<1>2. session[s].base > 0
  BY <1>1, RecordTypes DEF Consistent, LoadedSteps
<1> QED
  BY <1>1, <1>2, ActivationSound

\* The Configuration Center activates sound edits.
LEMMA AdministratorSound ==
    ASSUME TypeOK, NoMismatchedPair, AdministratorActivates
    PROVE  NoMismatchedPair'
<1>1. PICK cfg \in Edits(Active, AdminAttributes) :
          log' = Append(log, Revision(None, cfg, "", TRUE))
  BY Zenon DEF AdministratorActivates
<1>2. UNCHANGED session
  BY DEF AdministratorActivates
<1>3. cfg \in Configurations
  BY RevisionType, EditsType, LifecycleAssumption
<1>4. SoundConfiguration(cfg)
  BY RevisionType, ActiveSound, EditsSound, LifecycleAssumption, SoundAssumption
<1> DEFINE rev == Revision(None, cfg, "", TRUE)
<1>5. rev \in Revisions /\ rev.configuration = cfg
  BY <1>3 DEF Revision, Revisions, ConflictPolicies
<1> HIDE DEF rev
<1>6. log' = Append(log, rev)
  BY <1>1 DEF rev
<1> QED
  BY <1>2, <1>4, <1>5, <1>6, LogSound

\* Every step keeps every working copy and every revision sound.
LEMMA NextSound ==
    TypeOK /\ NoMismatchedPair /\ [Next]_vars => NoMismatchedPair'
<1> SUFFICES ASSUME TypeOK, NoMismatchedPair, [Next]_vars PROVE NoMismatchedPair'
  OBVIOUS
<1>1. ASSUME NEW s \in Transactions, QuietSession(s), UNCHANGED log
      PROVE  NoMismatchedPair'
  BY <1>1, QuietWork, LogSound
<1>2. ASSUME NEW s \in Transactions,
             \/ Call(s) \/ Start(s) \/ Acquire(s) \/ Step(s) \/ Stage(s)
             \/ CommitWithOptions(s) \/ Abort(s) \/ GatewayActivates(s) \/ Cancel(s)
      PROVE  NoMismatchedPair'
  BY <1>1, <1>2, QuietActions, LoadSound, WriteSound, BindSound, ActivateSound, Zenon
     DEF Step
<1>3. CASE UNCHANGED vars
  <2>1. UNCHANGED <<log, session>>
    BY <1>3 DEF vars
  <2> QED
    BY <2>1, LogSound
<1> QED
  BY <1>2, <1>3, AdministratorSound, Zenon DEF Next, Terminating

\* Before the first step there is one sound configuration.
LEMMA InitSound == Init => NoMismatchedPair
<1> SUFFICES ASSUME Init PROVE NoMismatchedPair
  OBVIOUS
<1>1. PICK c \in InitialConfigurations :
          /\ log = <<Revision(None, c, "", TRUE)>>
          /\ session = [s \in Transactions |->
                [state |-> "none", base |-> 0, work |-> c,
                 validated |-> FALSE, late |-> FALSE]]
  BY DEF Init
<1>2. SoundConfiguration(c)
  BY SoundAssumption
<1>3. \A s \in Transactions : session[s].work = c
  BY <1>1
<1> DEFINE rev == Revision(None, c, "", TRUE)
<1>4. rev.configuration = c
  BY DEF Revision
<1> HIDE DEF rev
<1>5. \A k \in 1 .. Len(log) : log[k].configuration = c
  <2>1. log = <<rev>>
    BY <1>1 DEF rev
  <2> QED
    BY <1>4, <2>1
<1> QED
  BY <1>2, <1>3, <1>5, SoundParts

\* SyncLeafCertificate: no mismatched intermediate device state. Whatever calls
\* overlap, whatever is merged, lost or cancelled, the key of every resource the
\* Gateway holds belongs to its certificate and can be opened with the
\* passphrase the Gateway has for it.
THEOREM SoundOnGateway == Spec => []NoMismatchedPair
<1>1. Init => NoMismatchedPair
  BY InitSound
<1>2. TypeOK /\ NoMismatchedPair /\ [Next]_vars => NoMismatchedPair'
  BY NextSound
<1> QED
  BY <1>1, <1>2, TypeCorrect, PTL DEF Spec
==============================================================================
