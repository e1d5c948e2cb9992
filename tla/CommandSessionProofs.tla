------------------------- MODULE CommandSessionProofs -------------------------
(***************************************************************************)
(* For every set of invocations and commands, and for every number of lost *)
(* requests, kills and activations by the Configuration Center: an         *)
(* invocation's exit status tells whether its change is active, its        *)
(* session ends with it, and what it activates or saves is its whole       *)
(* command. And for all names, certificates and PEM texts: find-domain     *)
(* lists what serves the domain.                                           *)
(*                                                                         *)
(* The invariant relates the step an invocation is at to its command       *)
(* (Begun), to its session (Ends), and to its error and its activations    *)
(* (Tells). For whole commands, it relates the working copy to what was    *)
(* loaded and the requests still to be sent (Progress). A step changes one *)
(* invocation and its session; every action has a lemma.                   *)
(***************************************************************************)
EXTENDS CommandSession, CertificateSearch, SequenceTheorems, TLAPS

(***************************************************************************)
(* The invariant.                                                          *)
(***************************************************************************)
InvocationRecords ==
    [pc : Steps, command : Commands \cup {None}, todo : Seq(Requests),
     created : CertificateIds \cup {0}, err : Errors]

SessionRecords ==
    [state : {"none", "open", "closed"}, base : Nat, work : Configurations, late : BOOLEAN]

Revisions == [by : Invocations \cup {None}, configuration : Configurations]

\* The variables that do not belong to one invocation are typed.
AroundOK ==
    /\ log \in Seq(Revisions) \ {<< >>}
    /\ saved \in Seq([by : Invocations, configuration : Configurations])
    /\ nextId \in Nat \ {0}
    /\ cut \subseteq Invocations
    /\ faults \in 0 .. MaxFaults

RecordsOK ==
    /\ invocation \in [Invocations -> InvocationRecords]
    /\ session \in [Invocations -> SessionRecords]

\* An invocation that has begun has one of its commands, and only one with a
\* session gets past the version.
Begun(s) ==
    LET i == invocation[s]
    IN  /\ i.pc # "idle" => i.command \in CommandsOf[s]
        /\ i.pc \notin {"idle", "version", "done", "killed"} =>
              i.command.name # "verify-version"
        /\ i.pc = "request" => i.todo # << >>
        /\ i.pc \in {"validate", "activate", "save", "print"} => i.todo = << >>
        /\ i.pc = "validate" => i.command.name = "validate" \/ i.command.activate
        /\ i.pc = "activate" => i.command.activate
        /\ i.pc = "save" => ~i.command.activate
        /\ session[s].late => i.pc # "idle" /\ i.command.activate
        /\ session[s].base <= Len(log)

\* There is no session before it is created, and none after the end unless the
\* request that creates or terminates it has failed.
Ends(s) ==
    /\ invocation[s].pc \in {"idle", "version", "create"} => session[s].state = "none"
    /\ (invocation[s].pc = "done" /\ session[s].state = "open") => s \in cut

\* Until the result is to be printed or the session terminated there is no error
\* and nothing is active; from then on the error tells of it.
Tells(s) ==
    LET i == invocation[s]  active == ActivatedBy(s) # {}
    IN  /\ i.pc \notin {"print", "terminate", "done", "killed"} =>
              i.err = "none" /\ ~active /\ ~session[s].late
        /\ i.pc = "print" => i.err = "none"
        /\ i.pc \in {"print", "terminate", "done"} =>
              /\ i.err \in {"none", "output"} =>
                    ~session[s].late /\ (active <=> i.command.activate)
              /\ i.err = "activate" => i.command.activate
              /\ i.err \notin {"none", "output", "activate"} => ~active /\ ~session[s].late

Proper(s) == Begun(s) /\ Ends(s) /\ Tells(s)

Inv ==
    /\ AroundOK
    /\ RecordsOK
    /\ \A s \in Invocations : Proper(s)

(***************************************************************************)
(* The parts of a step.                                                    *)
(***************************************************************************)
\* The step leaves s at `pc' with the error `err', and the others as they were.
InvocationTo(s, pc, err) ==
    /\ \A t \in Invocations \ {s} : invocation'[t] = invocation[t]
    /\ invocation'[s].pc = pc /\ invocation'[s].err = err
    /\ invocation'[s].command = invocation[s].command

SessionTo(s, state, base, late) ==
    /\ \A t \in Invocations \ {s} : session'[t] = session[t]
    /\ session'[s].state = state /\ session'[s].base = base /\ session'[s].late = late

\* What the updates do to an invocation and to the others.
LEMMA InvocationRows ==
    ASSUME RecordsOK, NEW s \in Invocations, NEW pc \in Steps, NEW err \in Errors
    PROVE  /\ Goto(s, pc) => InvocationTo(s, pc, invocation[s].err)
           /\ Return(s, err) => InvocationTo(s, "done", err)
           /\ Fails(s, err) => InvocationTo(s, "terminate", err)
           /\ Goto(s, pc) \/ Return(s, err) \/ Fails(s, err) =>
                 /\ invocation' \in [Invocations -> InvocationRecords]
                 /\ invocation'[s].todo = invocation[s].todo
<1> DEFINE i == invocation[s]
<1>1. i \in InvocationRecords
  BY DEF RecordsOK
<1>2. \A p \in Steps, e \in Errors : [i EXCEPT !.pc = p, !.err = e] \in InvocationRecords
  BY <1>1 DEF InvocationRecords
<1>3. ASSUME NEW p \in Steps, NEW e \in Errors,
             invocation' = [invocation EXCEPT ![s] = [i EXCEPT !.pc = p, !.err = e]]
      PROVE  /\ InvocationTo(s, p, e) /\ invocation'[s].todo = i.todo
             /\ invocation' \in [Invocations -> InvocationRecords]
  BY <1>1, <1>2, <1>3 DEF RecordsOK, InvocationRecords, InvocationTo
<1>4. /\ Goto(s, pc) =>
            invocation' = [invocation EXCEPT ![s] = [i EXCEPT !.pc = pc, !.err = i.err]]
      /\ Return(s, err) =>
            invocation' = [invocation EXCEPT ![s] = [i EXCEPT !.pc = "done", !.err = err]]
      /\ Fails(s, err) =>
            invocation' = [invocation EXCEPT ![s] = [i EXCEPT !.pc = "terminate", !.err = err]]
  BY <1>1 DEF Goto, Return, Fails, InvocationRecords
<1>5. "done" \in Steps /\ "terminate" \in Steps /\ i.err \in Errors
  BY <1>1 DEF Steps, InvocationRecords
<1> HIDE DEF i
<1> QED
  BY <1>3, <1>4, <1>5 DEF i

Keeps(s) == UNCHANGED session
Opens(s) == session' = [session EXCEPT ![s].state = "open"]
Closes(s) == session' = [session EXCEPT ![s].state = "closed", ![s].late = FALSE]
Leaves(s, late) == session' = [session EXCEPT ![s].late = late]
Loads(s, base, work) == session' = [session EXCEPT ![s].base = base, ![s].work = work]
Edits(s, work) == session' = [session EXCEPT ![s].work = work]

\* What the updates do to a session and to the others.
LEMMA SessionRows ==
    ASSUME RecordsOK, NEW s \in Invocations, NEW base \in Nat, NEW work \in Configurations,
           NEW late \in BOOLEAN
    PROVE  LET r == session[s]
               typed == session' \in [Invocations -> SessionRecords]
           IN  /\ Keeps(s) => typed /\ SessionTo(s, r.state, r.base, r.late)
               /\ Opens(s) => typed /\ SessionTo(s, "open", r.base, r.late)
               /\ Closes(s) => typed /\ SessionTo(s, "closed", r.base, FALSE)
               /\ Leaves(s, late) => typed /\ SessionTo(s, r.state, r.base, late)
               /\ Loads(s, base, work) => typed /\ SessionTo(s, r.state, base, r.late)
               /\ Edits(s, work) => typed /\ SessionTo(s, r.state, r.base, r.late)
  BY DEF RecordsOK, SessionRecords, SessionTo, Keeps, Opens, Closes, Leaves, Loads, Edits

\* A step that activates nothing leaves what is said of the others as it is.
LEMMA StepInv ==
    ASSUME Inv, NEW s \in Invocations, AroundOK', RecordsOK', Proper(s)',
           \A t \in Invocations \ {s} :
              /\ invocation'[t] = invocation[t] /\ session'[t] = session[t]
              /\ ActivatedBy(t)' = ActivatedBy(t),
           Len(log') >= Len(log), cut \subseteq cut'
    PROVE  Inv'
<1>1. ASSUME NEW t \in Invocations
      PROVE  Proper(t)'
  <2>1. CASE t = s
    BY <2>1
  <2>2. CASE t # s
    <3>1. session[t].base \in Nat /\ Len(log) \in Nat /\ Len(log') \in Nat
      BY DEF Inv, AroundOK, RecordsOK, SessionRecords
    <3>2. Proper(t)
      BY DEF Inv
    <3> QED
      BY <2>2, <3>1, <3>2 DEF Proper, Begun, Ends, Tells
  <2> QED
    BY <2>1, <2>2
<1> QED
  BY <1>1 DEF Inv

\* The same, while no revision is added.
LEMMA QuietStep ==
    ASSUME Inv, NEW s \in Invocations, UNCHANGED log, AroundOK', RecordsOK',
           \E pc, err : InvocationTo(s, pc, err),
           \E state, base, late : SessionTo(s, state, base, late),
           cut \subseteq cut', ActivatedBy(s)' = ActivatedBy(s) => Proper(s)'
    PROVE  Inv'
<1>1. \A t : ActivatedBy(t)' = ActivatedBy(t)
  BY DEF ActivatedBy
<1>2. Len(log') >= Len(log)
  BY DEF Inv, AroundOK
<1> QED
  BY <1>1, <1>2, StepInv DEF InvocationTo, SessionTo

\* The history counters are typed after a request.
LEMMA FaultType ==
    ASSUME Inv, Answered \/ Fault
    PROVE  faults' \in 0 .. MaxFaults
  BY CommandAssumption DEF Inv, AroundOK, Answered, Fault

\* The commands of an invocation.
LEMMA CommandTypes ==
    ASSUME Inv, NEW s \in Invocations, invocation[s].pc # "idle"
    PROVE  LET c == invocation[s].command
           IN  c \in Commands /\ (c.name \in Reading => ~c.activate)
  BY CommandAssumption DEF Inv, Proper, Begun

(***************************************************************************)
(* One lemma for each action.                                              *)
(***************************************************************************)
LEMMA RunInv ==
    ASSUME Inv, NEW s \in Invocations, Run(s)
    PROVE  Inv'
<1>1. PICK c \in CommandsOf[s] :
          invocation' = [invocation EXCEPT
              ![s].command = c,
              ![s].pc = IF c.name \in ReadingInSession THEN "create" ELSE "version"]
  BY DEF Run
<1>2. invocation[s].pc = "idle" /\ UNCHANGED <<log, saved, nextId, session, cut, faults>>
  BY DEF Run
<1>3. c \in Commands
  BY CommandAssumption
<1> DEFINE pc == IF c.name \in ReadingInSession THEN "create" ELSE "version"
<1>4. pc \in {"create", "version"} /\ (pc = "create" => c.name # "verify-version")
  BY DEF ReadingInSession
<1>5. invocation' = [invocation EXCEPT ![s].command = c, ![s].pc = pc]
  BY <1>1
<1> HIDE DEF pc
<1>6. /\ RecordsOK' /\ invocation'[s].pc = pc /\ invocation'[s].command = c
      /\ invocation'[s].err = invocation[s].err
      /\ \A t \in Invocations \ {s} : invocation'[t] = invocation[t]
  BY <1>2, <1>3, <1>4, <1>5 DEF Inv, RecordsOK, InvocationRecords, Steps
<1>7. AroundOK' /\ Len(log') >= Len(log) /\ \A t : ActivatedBy(t)' = ActivatedBy(t)
  BY <1>2 DEF Inv, AroundOK, ActivatedBy
<1>8. Proper(s)
  BY DEF Inv
<1>9. Proper(s)'
  BY <1>2, <1>4, <1>6, <1>7, <1>8 DEF Proper, Begun, Ends, Tells
<1> QED
  BY <1>2, <1>6, <1>7, <1>9, StepInv

LEMMA VerifyInv ==
    ASSUME Inv, NEW s \in Invocations, VerifyGatewayVersion(s)
    PROVE  Inv'
<1>1. /\ invocation[s].pc = "version" /\ UNCHANGED <<log, saved, nextId, session, cut>>
      /\ Answered \/ Fault
      /\ \/ invocation[s].command.name = "verify-version" /\ Return(s, "none")
         \/ invocation[s].command.name # "verify-version" /\ Goto(s, "create")
         \/ Return(s, "version")
  BY DEF VerifyGatewayVersion
<1>2. AroundOK' /\ RecordsOK /\ Proper(s)
  BY <1>1, FaultType DEF Inv, AroundOK
<1>3. /\ invocation' \in [Invocations -> InvocationRecords]
      /\ \/ invocation[s].command.name = "verify-version" /\ InvocationTo(s, "done", "none")
         \/ /\ invocation[s].command.name # "verify-version"
            /\ InvocationTo(s, "create", invocation[s].err)
         \/ InvocationTo(s, "done", "version")
  BY <1>1, <1>2, InvocationRows DEF Steps, Errors
<1>4. SessionTo(s, session[s].state, session[s].base, session[s].late)
  BY <1>1 DEF SessionTo
<1>5. RecordsOK'
  BY <1>1, <1>2, <1>3 DEF RecordsOK
<1>6. "verify-version" \in Reading
  BY DEF Reading
<1>7. ActivatedBy(s)' = ActivatedBy(s) => Proper(s)'
  BY <1>1, <1>2, <1>3, <1>6, CommandTypes DEF InvocationTo, Proper, Begun, Ends, Tells
<1> QED
  BY <1>1, <1>2, <1>3, <1>4, <1>5, <1>7, QuietStep

LEMMA CreateInv ==
    ASSUME Inv, NEW s \in Invocations, CreateSession(s)
    PROVE  Inv'
<1>1. /\ invocation[s].pc = "create" /\ UNCHANGED <<log, saved, nextId>>
      /\ Answered \/ Fault
      /\ \/ Opens(s) /\ Goto(s, "load") /\ UNCHANGED cut
         \/ Return(s, "create") /\ Keeps(s) /\ UNCHANGED cut
         \/ Return(s, "create") /\ Opens(s) /\ cut' = cut \cup {s}
  BY DEF CreateSession, Opens, Keeps
<1>2. AroundOK' /\ RecordsOK /\ Proper(s)
  BY <1>1, FaultType DEF Inv, AroundOK
<1>3. /\ invocation' \in [Invocations -> InvocationRecords]
      /\ \/ InvocationTo(s, "load", invocation[s].err)
         \/ InvocationTo(s, "done", "create") /\ (Keeps(s) \/ s \in cut')
  BY <1>1, <1>2, InvocationRows DEF Steps, Errors
<1>4. /\ session' \in [Invocations -> SessionRecords]
      /\ \E state \in {"open", session[s].state} :
            SessionTo(s, state, session[s].base, session[s].late)
      /\ Keeps(s) => session'[s].state = session[s].state
  BY <1>1, <1>2, SessionRows DEF RecordsOK, SessionRecords, SessionTo
<1>5. RecordsOK'
  BY <1>3, <1>4 DEF RecordsOK
<1>6. ActivatedBy(s)' = ActivatedBy(s) => Proper(s)'
  BY <1>1, <1>2, <1>3, <1>4 DEF InvocationTo, SessionTo, Proper, Begun, Ends, Tells
<1> QED
  BY <1>1, <1>2, <1>3, <1>4, <1>5, <1>6, QuietStep

\* The request that ends the session.
LEMMA TerminateInv ==
    ASSUME Inv, NEW s \in Invocations, TerminateSession(s)
    PROVE  Inv'
<1>1. /\ invocation[s].pc = "terminate" /\ UNCHANGED <<log, saved, nextId>>
      /\ Answered \/ Fault
      /\ Return(s, invocation[s].err)
      /\ \/ Closes(s) /\ cut' \in {cut, cut \cup {s}}
         \/ Keeps(s) /\ cut' = cut \cup {s}
  BY DEF TerminateSession, Closes, Keeps
<1>2. AroundOK' /\ RecordsOK /\ Proper(s) /\ invocation[s].err \in Errors
  BY <1>1, FaultType DEF Inv, AroundOK, RecordsOK, InvocationRecords
<1>3. /\ invocation' \in [Invocations -> InvocationRecords]
      /\ InvocationTo(s, "done", invocation[s].err)
  BY <1>1, <1>2, InvocationRows DEF Steps
<1>4. /\ session' \in [Invocations -> SessionRecords]
      /\ \/ SessionTo(s, "closed", session[s].base, FALSE)
         \/ SessionTo(s, session[s].state, session[s].base, session[s].late) /\ s \in cut'
  BY <1>1, <1>2, SessionRows DEF RecordsOK, SessionRecords
<1>5. RecordsOK'
  BY <1>3, <1>4 DEF RecordsOK
<1>6. ActivatedBy(s)' = ActivatedBy(s) => Proper(s)'
  BY <1>1, <1>2, <1>3, <1>4 DEF InvocationTo, SessionTo, Proper, Begun, Ends, Tells
<1> QED
  BY <1>1, <1>2, <1>3, <1>4, <1>5, <1>6, QuietStep

\* The validation request and the request that saves.
LEMMA ValidateInv ==
    ASSUME Inv, NEW s \in Invocations, ValidateConfiguration(s)
    PROVE  Inv'
<1>1. /\ invocation[s].pc = "validate" /\ UNCHANGED <<log, saved, nextId, session, cut>>
      /\ Answered \/ Fault
      /\ \/ invocation[s].command.name = "validate" /\ Goto(s, "print")
         \/ invocation[s].command.name # "validate" /\ Goto(s, "activate")
         \/ Fails(s, "messages") \/ Fails(s, "validate")
  BY DEF ValidateConfiguration, MessagesFail
<1>2. AroundOK' /\ RecordsOK /\ Proper(s)
  BY <1>1, FaultType DEF Inv, AroundOK
<1>3. /\ invocation' \in [Invocations -> InvocationRecords]
      /\ invocation'[s].todo = invocation[s].todo
      /\ \/ /\ invocation[s].command.name = "validate"
            /\ InvocationTo(s, "print", invocation[s].err)
         \/ /\ invocation[s].command.name # "validate"
            /\ InvocationTo(s, "activate", invocation[s].err)
         \/ \E err \in {"messages", "validate"} : InvocationTo(s, "terminate", err)
  BY <1>1, <1>2, InvocationRows DEF Steps, Errors
<1>4. SessionTo(s, session[s].state, session[s].base, session[s].late)
  BY <1>1 DEF SessionTo
<1>5. RecordsOK'
  BY <1>1, <1>2, <1>3 DEF RecordsOK
<1>6. "validate" \in Reading
  BY DEF Reading, ReadingInSession
<1>7. ActivatedBy(s)' = ActivatedBy(s) => Proper(s)'
  BY <1>1, <1>2, <1>3, <1>6, CommandTypes DEF InvocationTo, Proper, Begun, Ends, Tells
<1> QED
  BY <1>1, <1>2, <1>3, <1>4, <1>5, <1>7, QuietStep

\* Where a command ends.
LEMMA OutputLeads == \A c : Output(c) \in {"print", "terminate"}
  BY DEF Output

LEMMA SaveInv ==
    ASSUME Inv, NEW s \in Invocations, SaveConfiguration(s)
    PROVE  Inv'
<1> DEFINE entry   == [by |-> s, configuration |-> session[s].work]
           entries == [by : Invocations, configuration : Configurations]
<1>1. /\ invocation[s].pc = "save" /\ UNCHANGED <<log, nextId, session, cut>>
      /\ Answered \/ Fault
      /\ saved' \in {saved, Append(saved, entry)}
      /\ (\E pc \in {"print", "terminate"} : Goto(s, pc)) \/ Fails(s, "save")
  BY OutputLeads DEF SaveConfiguration
<1>2. RecordsOK /\ Proper(s)
  BY DEF Inv
<1>3. entry \in entries /\ saved \in Seq(entries)
  BY <1>2 DEF RecordsOK, SessionRecords, Inv, AroundOK
<1>4. saved' \in Seq(entries)
  <2> HIDE DEF entry, entries
  <2> QED
    BY <1>1, <1>3
<1> HIDE DEF entry
<1>5. AroundOK'
  BY <1>1, <1>4, FaultType DEF Inv, AroundOK
<1>6. /\ invocation' \in [Invocations -> InvocationRecords]
      /\ invocation'[s].todo = invocation[s].todo
      /\ \/ \E pc \in {"print", "terminate"} : InvocationTo(s, pc, invocation[s].err)
         \/ InvocationTo(s, "terminate", "save")
  BY <1>1, <1>2, InvocationRows DEF Steps, Errors
<1>7. SessionTo(s, session[s].state, session[s].base, session[s].late)
  BY <1>1 DEF SessionTo
<1>8. RecordsOK'
  BY <1>1, <1>2, <1>6 DEF RecordsOK
<1>9. ActivatedBy(s)' = ActivatedBy(s) => Proper(s)'
  BY <1>1, <1>2, <1>6 DEF InvocationTo, Proper, Begun, Ends, Tells
<1> QED
  BY <1>1, <1>5, <1>6, <1>7, <1>8, <1>9, QuietStep

LEMMA PrintInv ==
    ASSUME Inv, NEW s \in Invocations, PrintResult(s)
    PROVE  Inv'
<1>1. /\ invocation[s].pc = "print" /\ UNCHANGED <<log, saved, nextId, session, cut>>
      /\ Answered \/ Fault
      /\ Goto(s, "terminate") \/ Fails(s, "output")
  BY DEF PrintResult
<1>2. AroundOK' /\ RecordsOK /\ Proper(s)
  BY <1>1, FaultType DEF Inv, AroundOK
<1>3. /\ invocation' \in [Invocations -> InvocationRecords]
      /\ \E err \in {invocation[s].err, "output"} : InvocationTo(s, "terminate", err)
  BY <1>1, <1>2, InvocationRows DEF Steps, Errors
<1>4. SessionTo(s, session[s].state, session[s].base, session[s].late)
  BY <1>1 DEF SessionTo
<1>5. RecordsOK'
  BY <1>1, <1>2, <1>3 DEF RecordsOK
<1>6. ActivatedBy(s)' = ActivatedBy(s) => Proper(s)'
  BY <1>1, <1>2, <1>3 DEF InvocationTo, Proper, Begun, Ends, Tells
<1> QED
  BY <1>1, <1>2, <1>3, <1>4, <1>5, <1>6, QuietStep

\* The process is killed: its session stays as it is.
LEMMA KillInv ==
    ASSUME Inv, NEW s \in Invocations, Kill(s)
    PROVE  Inv'
<1>1. /\ invocation[s].pc \notin {"idle", "done", "killed"} /\ Fault
      /\ Goto(s, "killed") /\ UNCHANGED <<log, saved, nextId, session, cut>>
  BY DEF Kill
<1>2. AroundOK' /\ RecordsOK /\ Proper(s)
  BY <1>1, FaultType DEF Inv, AroundOK
<1>3. /\ invocation' \in [Invocations -> InvocationRecords]
      /\ InvocationTo(s, "killed", invocation[s].err)
  BY <1>1, <1>2, InvocationRows DEF Steps, Errors
<1>4. SessionTo(s, session[s].state, session[s].base, session[s].late)
  BY <1>1 DEF SessionTo
<1>5. RecordsOK'
  BY <1>1, <1>2, <1>3 DEF RecordsOK
<1>6. ActivatedBy(s)' = ActivatedBy(s) => Proper(s)'
  BY <1>1, <1>2, <1>3 DEF InvocationTo, Proper, Begun, Ends, Tells
<1> QED
  BY <1>1, <1>2, <1>3, <1>4, <1>5, <1>6, QuietStep

(***************************************************************************)
(* What a command requests.                                                *)
(***************************************************************************)
\* The requests of a command are typed.
LEMMA RequestsType ==
    ASSUME NEW c \in Commands, NEW cfg \in Configurations, NEW r \in Requests
    PROVE  /\ c.name # "verify-version" => FirstRequests(c) \in Seq(Requests)
           /\ RequestsAfter(c, r, cfg) \in Seq(Requests)
<1>1. \A op \in {"read", "get", "create", "update", "delete", "connect", "disconnect"},
         id \in CertificateIds \cup {0}, targets \in SUBSET Targets :
            Req(op, id, targets) \in Requests
  BY DEF Req, Requests
<1>2. /\ c.id \in CertificateIds \cup {0} /\ c.targets \in SUBSET Targets
      /\ c.name \in Names
  BY DEF Commands
<1>3. ASSUME NEW i \in 1 .. 4
      PROVE  Move(cfg, c.id, i) \in Seq(Requests)
  <2> DEFINE refs == {t \in LinkedTo(cfg, c.id) : RelationshipOf[t] = RelationshipOrder[i]}
  <2>1. refs \in SUBSET Targets
    BY DEF LinkedTo
  <2>2. Req("connect", 0, refs) \in Requests /\ Req("disconnect", c.id, refs) \in Requests
    BY <1>1, <1>2, <2>1
  <2> HIDE DEF refs
  <2>3. /\ << >> \in Seq(Requests)
        /\ <<Req("connect", 0, refs), Req("disconnect", c.id, refs)>> \in Seq(Requests)
    BY <2>2
  <2> QED
    BY <2>3, Zenon DEF Move, refs
<1>4. Moves(cfg, c.id) \in Seq(Requests)
  <2>1. /\ Move(cfg, c.id, 1) \in Seq(Requests) /\ Move(cfg, c.id, 2) \in Seq(Requests)
        /\ Move(cfg, c.id, 3) \in Seq(Requests) /\ Move(cfg, c.id, 4) \in Seq(Requests)
    BY <1>3
  <2> QED
    BY <2>1 DEF Moves
<1>5. /\ <<Req("create", 0, {})>> \in Seq(Requests) /\ <<Req("delete", c.id, {})>> \in Seq(Requests)
      /\ << >> \in Seq(Requests)
  BY <1>1, <1>2
<1>6. RequestsAfter(c, r, cfg) \in Seq(Requests)
  BY <1>4, <1>5 DEF RequestsAfter
<1>7. /\ Req("get", c.id, {}) \in Requests /\ Req("read", 0, {}) \in Requests
      /\ Req("create", 0, {}) \in Requests
      /\ c.name \in {"update", "delete"} => Req(c.name, c.id, {}) \in Requests
      /\ c.name \in {"connect", "disconnect"} => Req(c.name, c.id, c.targets) \in Requests
  BY <1>1, <1>2
<1>8. c.name # "verify-version" => FirstRequests(c) \in Seq(Requests)
  BY <1>2, <1>7 DEF FirstRequests, Names, Reading, ReadingInSession
<1> QED
  BY <1>6, <1>8

\* The Gateway's answers leave a working copy that is typed.
LEMMA RequestedType ==
    ASSUME Inv, NEW cfg \in Configurations, NEW c \in Commands, NEW r \in Requests, NEW id,
           ~Refused(cfg, r, id), r.op = "create" => id \in CertificateIds
    PROVE  Requested(cfg, r, id, c.attributes) \in Configurations
<1> DEFINE sent == c.attributes
<1>1. /\ cfg.certificates \in [CertificateIds -> Stored \cup {None}]
      /\ cfg.linked \subseteq CertificateIds \X Targets
      /\ cfg = [certificates |-> cfg.certificates, linked |-> cfg.linked]
  BY DEF Configurations
<1>2. sent \in [Fields -> Values \cup {Omitted}]
  BY DEF Commands
<1> HIDE DEF sent
<1>3. \A old \in Stored : PatchedAttributes(old, sent) \in Stored
  BY <1>2 DEF PatchedAttributes, Stored
<1>4. CASE r.op \in {"read", "get"}
  BY <1>4 DEF Requested
<1>5. CASE r.op = "create"
  <2>1. PatchedAttributes([f \in Fields |-> Unset], sent) \in Stored
    BY <1>3 DEF Stored
  <2> QED
    BY <1>1, <1>5, <2>1 DEF Requested, CreateIn, Configurations, sent
<1>6. CASE r.op = "update"
  <2>1. id \in CertificateIds /\ cfg.certificates[id] \in Stored
    BY <1>1, <1>6 DEF Refused, Exists
  <2>2. PatchedAttributes(cfg.certificates[id], sent) \in Stored
    BY <1>3, <2>1
  <2> QED
    BY <1>1, <1>6, <2>1, <2>2 DEF Requested, UpdateIn, Configurations, sent
<1>7. CASE r.op = "delete"
  BY <1>1, <1>7 DEF Requested, DeleteIn, Unlink, Configurations
<1>8. CASE r.op \in {"connect", "disconnect"}
  <2>1. id \in CertificateIds /\ r.targets \subseteq Targets
    BY <1>8 DEF Refused, Exists, Requests
  <2> QED
    BY <1>1, <1>8, <2>1 DEF Requested, Link, Unlink, Configurations
<1> QED
  BY <1>4, <1>5, <1>6, <1>7, <1>8 DEF Requests

\* Where a command goes on to.
LEMMA ContinueLeads ==
    ASSUME NEW c \in Commands, NEW todo
    PROVE  LET pc == Continue(c, todo)
           IN  /\ pc \in {"request", "validate", "save", "print", "terminate"}
               /\ pc = "request" <=> todo # << >>
               /\ pc = "validate" => c.name = "validate" \/ c.activate
               /\ pc \in {"save", "print", "terminate"} => ~c.activate
  BY DEF Continue, Finishing, Output

\* An invocation that goes on with other requests than before.
LEMMA ProceedRows ==
    ASSUME RecordsOK, NEW s \in Invocations, NEW todo \in Seq(Requests), NEW pc \in Steps,
           NEW created \in CertificateIds \cup {0},
           \/ invocation' = [invocation EXCEPT ![s].todo = todo, ![s].pc = pc]
           \/ invocation' = [invocation EXCEPT ![s].todo = todo, ![s].created = created,
                                               ![s].pc = pc]
    PROVE  /\ invocation' \in [Invocations -> InvocationRecords]
           /\ invocation'[s].todo = todo
           /\ InvocationTo(s, pc, invocation[s].err)
<1> DEFINE i == invocation[s]
           next(n) == [i EXCEPT !.todo = todo, !.created = n, !.pc = pc]
<1>1. i \in InvocationRecords
  BY DEF RecordsOK
<1>2. \A n \in CertificateIds \cup {0} :
          /\ next(n) \in InvocationRecords
          /\ next(n).todo = todo /\ next(n).pc = pc /\ next(n).err = i.err
          /\ next(n).command = i.command
  BY <1>1 DEF InvocationRecords
<1>3. i.created \in CertificateIds \cup {0}
  BY <1>1 DEF InvocationRecords
<1>4. [i EXCEPT !.todo = todo, !.pc = pc] = next(i.created)
  BY <1>1 DEF InvocationRecords
<1>5. \E n \in CertificateIds \cup {0} : invocation' = [invocation EXCEPT ![s] = next(n)]
  <2>1. CASE invocation' = [invocation EXCEPT ![s].todo = todo, ![s].pc = pc]
    <3>1. invocation' = [invocation EXCEPT ![s] = [i EXCEPT !.todo = todo, !.pc = pc]]
      BY <2>1
    <3> QED
      BY <1>3, <1>4, <3>1
  <2>2. CASE invocation' = [invocation EXCEPT ![s].todo = todo, ![s].created = created,
                                              ![s].pc = pc]
    BY <2>2
  <2> QED
    BY <2>1, <2>2
<1> HIDE DEF next, i
<1> QED
  BY <1>2, <1>5 DEF i, RecordsOK, InvocationTo

\* Both ways to load: the active configuration, or a saved one over it.
LEMMA LoadedInv ==
    ASSUME Inv, NEW s \in Invocations, NEW base \in Nat, NEW cfg \in Configurations,
           NEW last \in BOOLEAN, Loaded(s, base, cfg, last), base <= Len(log),
           invocation[s].pc \in {"load", "config"},
           UNCHANGED <<log, saved, nextId, cut>>, Answered \/ Fault
    PROVE  Inv'
<1> DEFINE c    == invocation[s].command
           todo == FirstRequests(c)
           pc   == IF last THEN Continue(c, todo) ELSE "config"
<1>1. AroundOK' /\ RecordsOK /\ Proper(s)
  BY FaultType DEF Inv, AroundOK
<1>2. c \in Commands /\ c.name # "verify-version"
  BY <1>1, CommandTypes DEF Proper, Begun
<1>3. todo \in Seq(Requests)
  <2>1. Req("read", 0, {}) \in Requests
    BY DEF Req, Requests
  <2> QED
    BY <1>2, <2>1, RequestsType
<1>4. /\ pc \in {"request", "validate", "save", "print", "terminate", "config"}
      /\ pc = "request" => todo # << >>
      /\ pc \in {"validate", "save", "print", "terminate"} => todo = << >>
      /\ pc = "validate" => c.name = "validate" \/ c.activate
      /\ pc \in {"save", "print", "terminate"} => ~c.activate
  <2> DEFINE next == Continue(c, todo)
  <2>1. /\ next \in {"request", "validate", "save", "print", "terminate"}
        /\ next = "request" <=> todo # << >>
        /\ next = "validate" => c.name = "validate" \/ c.activate
        /\ next \in {"save", "print", "terminate"} => ~c.activate
    BY <1>2, ContinueLeads, Zenon
  <2>2. pc \in {next, "config"}
    OBVIOUS
  <2> HIDE DEF next, pc, todo
  <2> QED
    BY <2>1, <2>2
<1>5. /\ invocation' = [invocation EXCEPT ![s].todo = todo, ![s].pc = pc]
      /\ Loads(s, base, cfg)
  BY DEF Loaded, Loads
<1> HIDE DEF todo, pc
<1>6. /\ invocation' \in [Invocations -> InvocationRecords]
      /\ invocation'[s].todo = todo /\ InvocationTo(s, pc, invocation[s].err)
  <2>1. pc \in Steps
    BY <1>4 DEF Steps
  <2> QED
    BY <1>1, <1>3, <1>5, <2>1, ProceedRows
<1>7. /\ session' \in [Invocations -> SessionRecords]
      /\ SessionTo(s, session[s].state, base, session[s].late)
  BY <1>1, <1>5, SessionRows
<1>8. RecordsOK'
  BY <1>6, <1>7 DEF RecordsOK
<1>9. ActivatedBy(s)' = ActivatedBy(s) => Proper(s)'
  BY <1>1, <1>4, <1>6, <1>7 DEF InvocationTo, SessionTo, Proper, Begun, Ends, Tells
<1> QED
  BY <1>1, <1>6, <1>7, <1>8, <1>9, QuietStep

\* A configuration that could not be loaded.
LEMMA LoadFailsInv ==
    ASSUME Inv, NEW s \in Invocations, Fails(s, "load"), invocation[s].pc \in {"load", "config"},
           UNCHANGED <<log, saved, nextId, cut, session>>, Answered \/ Fault
    PROVE  Inv'
<1>1. AroundOK' /\ RecordsOK /\ Proper(s)
  BY FaultType DEF Inv, AroundOK
<1>2. /\ invocation' \in [Invocations -> InvocationRecords]
      /\ InvocationTo(s, "terminate", "load")
  BY <1>1, InvocationRows DEF Steps, Errors
<1>3. SessionTo(s, session[s].state, session[s].base, session[s].late)
  BY DEF SessionTo
<1>4. RecordsOK'
  BY <1>1, <1>2 DEF RecordsOK
<1>5. ActivatedBy(s)' = ActivatedBy(s) => Proper(s)'
  BY <1>1, <1>2 DEF InvocationTo, Proper, Begun, Ends, Tells
<1> QED
  BY <1>1, <1>2, <1>3, <1>4, <1>5, QuietStep

LEMMA LoadInv ==
    ASSUME Inv, NEW s \in Invocations,
           LoadActiveConfiguration(s) \/ LoadConfiguration(s)
    PROVE  Inv'
<1>1. /\ invocation[s].pc \in {"load", "config"} /\ UNCHANGED <<log, saved, nextId, cut>>
      /\ Answered \/ Fault
  BY Zenon DEF LoadActiveConfiguration, LoadConfiguration
<1>2. \/ Loaded(s, Len(log), Active, ~invocation[s].command.load)
      \/ \E i \in 1 .. Len(saved) : Loaded(s, 0, saved[i].configuration, TRUE)
      \/ Fails(s, "load") /\ UNCHANGED session
  BY Zenon DEF LoadActiveConfiguration, LoadConfiguration
<1>3. /\ Len(log) \in Nat /\ Active \in Configurations
      /\ \A i \in 1 .. Len(saved) : saved[i].configuration \in Configurations
  <2> DEFINE entries == [by : Invocations, configuration : Configurations]
  <2>1. log \in Seq(Revisions) /\ log # << >> /\ saved \in Seq(entries)
    BY DEF Inv, AroundOK
  <2>2. /\ \A x \in Revisions : x.configuration \in Configurations
        /\ \A x \in entries : x.configuration \in Configurations
    BY DEF Revisions
  <2> HIDE DEF entries
  <2>3. Len(log) \in 1 .. Len(log)
    BY <2>1
  <2> QED
    BY <2>1, <2>2, <2>3 DEF Active
<1>4. CASE Loaded(s, Len(log), Active, ~invocation[s].command.load)
  <2> DEFINE last == ~invocation[s].command.load
  <2>1. last \in BOOLEAN /\ Len(log) <= Len(log)
    BY <1>3
  <2> HIDE DEF last
  <2> QED
    BY <1>1, <1>3, <1>4, <2>1, LoadedInv DEF last
<1>5. CASE \E i \in 1 .. Len(saved) : Loaded(s, 0, saved[i].configuration, TRUE)
  <2>1. PICK i \in 1 .. Len(saved) : Loaded(s, 0, saved[i].configuration, TRUE)
    BY <1>5
  <2>2. /\ 0 \in Nat /\ 0 <= Len(log) /\ TRUE \in BOOLEAN
        /\ saved[i].configuration \in Configurations
    BY <1>3
  <2> QED
    BY <1>1, <2>1, <2>2, LoadedInv
<1>6. CASE Fails(s, "load") /\ UNCHANGED session
  BY <1>1, <1>6, LoadFailsInv
<1> QED
  BY <1>2, <1>4, <1>5, <1>6

\* A request of the command.
LEMMA RequestInv ==
    ASSUME Inv, NEW s \in Invocations, Request(s)
    PROVE  Inv'
<1> DEFINE c    == invocation[s].command
           r    == Head(invocation[s].todo)
           id   == IF r.op = "create" THEN nextId
                   ELSE IF r.id = 0 THEN invocation[s].created ELSE r.id
           todo == Tail(invocation[s].todo) \o RequestsAfter(c, r, session[s].work)
           made == IF r.op = "create" THEN id ELSE invocation[s].created
<1>1. /\ invocation[s].pc = "request" /\ UNCHANGED <<log, saved, cut>>
      /\ r.op = "create" => nextId \in CertificateIds
      /\ Answered \/ Fault
  BY Zenon DEF Request
<1>2. RecordsOK /\ Proper(s) /\ c \in Commands
  BY <1>1, CommandTypes DEF Inv
<1>3. r \in Requests /\ Tail(invocation[s].todo) \in Seq(Requests)
  BY <1>1, <1>2 DEF RecordsOK, InvocationRecords, Proper, Begun
<1>4. session[s].work \in Configurations
  BY <1>2 DEF RecordsOK, SessionRecords
<1>5. todo \in Seq(Requests)
  BY <1>2, <1>3, <1>4, RequestsType
<1>6. /\ id \in CertificateIds \/ r.op # "create"
      /\ made \in CertificateIds \cup {0}
  BY <1>1, <1>2 DEF RecordsOK, InvocationRecords
<1>7. \/ /\ ~Refused(session[s].work, r, id) /\ TakesEffect(s, r, id)
         /\ invocation' = [invocation EXCEPT
                ![s].todo = todo, ![s].created = made, ![s].pc = Continue(c, todo)]
      \/ Fails(s, "request") /\ UNCHANGED <<session, nextId>>
      \/ /\ Fails(s, "request")
         /\ ~Refused(session[s].work, r, id) /\ TakesEffect(s, r, id)
  BY DEF Request
<1>8. r.op \in {"read", "get", "create", "update", "delete", "connect", "disconnect"}
  BY <1>3 DEF Requests
<1> DEFINE work == Requested(session[s].work, r, id, c.attributes)
<1>9. TakesEffect(s, r, id) => Edits(s, work) /\ nextId' \in {nextId, nextId + 1}
  BY DEF TakesEffect, Edits
<1>10. ~Refused(session[s].work, r, id) => work \in Configurations
  BY <1>2, <1>3, <1>4, <1>6, RequestedType
<1> DEFINE pc == Continue(c, todo)
<1>11. /\ pc \in {"request", "validate", "save", "print", "terminate"}
       /\ pc = "request" <=> todo # << >>
       /\ pc = "validate" => c.name = "validate" \/ c.activate
       /\ pc \in {"save", "print", "terminate"} => ~c.activate
  BY <1>2, ContinueLeads, Zenon
<1> HIDE DEF todo, made, work, pc, id, r
<1>12. /\ session' \in [Invocations -> SessionRecords]
       /\ SessionTo(s, session[s].state, session[s].base, session[s].late)
       /\ nextId' \in {nextId, nextId + 1}
  BY <1>2, <1>7, <1>9, <1>10, SessionRows DEF RecordsOK, SessionTo
<1>13. AroundOK'
  BY <1>1, <1>12, FaultType DEF Inv, AroundOK
<1>14. CASE invocation' = [invocation EXCEPT
                ![s].todo = todo, ![s].created = made, ![s].pc = pc]
  <2>1. /\ invocation' \in [Invocations -> InvocationRecords]
        /\ invocation'[s].todo = todo /\ InvocationTo(s, pc, invocation[s].err)
    <3>1. pc \in Steps
      BY <1>11 DEF Steps
    <3> QED
      BY <1>2, <1>5, <1>6, <1>14, <3>1, ProceedRows
  <2>2. RecordsOK'
    BY <1>12, <2>1 DEF RecordsOK
  <2>3. ActivatedBy(s)' = ActivatedBy(s) => Proper(s)'
    BY <1>1, <1>2, <1>11, <1>12, <2>1 DEF InvocationTo, SessionTo, Proper, Begun, Ends, Tells
  <2> QED
    BY <1>1, <1>12, <1>13, <2>1, <2>2, <2>3, QuietStep
<1>15. CASE Fails(s, "request")
  <2>1. /\ invocation' \in [Invocations -> InvocationRecords]
        /\ InvocationTo(s, "terminate", "request")
    BY <1>2, <1>15, InvocationRows DEF Steps, Errors
  <2>2. RecordsOK'
    BY <1>12, <2>1 DEF RecordsOK
  <2>3. ActivatedBy(s)' = ActivatedBy(s) => Proper(s)'
    BY <1>1, <1>2, <1>12, <2>1 DEF InvocationTo, SessionTo, Proper, Begun, Ends, Tells
  <2> QED
    BY <1>1, <1>12, <1>13, <2>1, <2>2, <2>3, QuietStep
<1> QED
  BY <1>7, <1>14, <1>15 DEF pc

\* A revision more: who activates it has activated something, nobody else.
LEMMA RevisionAdds ==
    ASSUME Inv, NEW r \in Revisions, log' = Append(log, r)
    PROVE  /\ log' \in Seq(Revisions) \ {<< >>} /\ Len(log') >= Len(log)
           /\ \A t : ActivatedBy(t)' = IF r.by = t THEN ActivatedBy(t) \cup {Len(log) + 1}
                                       ELSE ActivatedBy(t)
<1>1. log \in Seq(Revisions)
  BY DEF Inv, AroundOK
<1>2. /\ Len(log) \in Nat /\ Len(log') = Len(log) + 1 /\ log'[Len(log) + 1] = r
      /\ \A k \in 1 .. Len(log) : log'[k] = log[k]
      /\ log' \in Seq(Revisions) /\ log' # << >>
  BY <1>1
<1> QED
  BY <1>2 DEF ActivatedBy

LEMMA ActivatesAdds ==
    ASSUME Inv, NEW s \in Invocations, Activates(s)
    PROVE  /\ log' \in Seq(Revisions) \ {<< >>} /\ Len(log') >= Len(log)
           /\ ActivatedBy(s)' # {}
           /\ \A t \in Invocations \ {s} : ActivatedBy(t)' = ActivatedBy(t)
<1> DEFINE r == [by |-> s, configuration |-> session[s].work]
<1>1. r \in Revisions /\ r.by = s
  BY DEF Inv, RecordsOK, SessionRecords, Revisions
<1>2. log' = Append(log, r)
  BY DEF Activates
<1> HIDE DEF r
<1> QED
  BY <1>1, <1>2, RevisionAdds

LEMMA ActivateInv ==
    ASSUME Inv, NEW s \in Invocations, ActivateConfiguration(s)
    PROVE  Inv'
<1>1. /\ invocation[s].pc = "activate" /\ UNCHANGED <<saved, nextId, cut>>
      /\ Answered \/ Fault
      /\ \/ Activates(s) /\ Keeps(s) /\ \E pc \in {"print", "terminate"} : Goto(s, pc)
         \/ Fails(s, "conflict") /\ Keeps(s) /\ UNCHANGED log
         \/ Fails(s, "activate") /\ (Keeps(s) \/ Leaves(s, TRUE)) /\ UNCHANGED log
  BY OutputLeads DEF ActivateConfiguration, Keeps, Leaves
<1>2. RecordsOK /\ Proper(s)
  BY DEF Inv
<1>3. CASE Activates(s) /\ Keeps(s) /\ \E pc \in {"print", "terminate"} : Goto(s, pc)
  <2>1. AroundOK'
    BY <1>1, <1>3, ActivatesAdds, FaultType DEF Inv, AroundOK
  <2>2. /\ invocation' \in [Invocations -> InvocationRecords]
        /\ invocation'[s].todo = invocation[s].todo
        /\ \E pc \in {"print", "terminate"} : InvocationTo(s, pc, invocation[s].err)
    BY <1>2, <1>3, InvocationRows DEF Steps, Errors
  <2>3. RecordsOK'
    BY <1>2, <1>3, <2>2 DEF RecordsOK, Keeps
  <2>4. session[s].base \in Nat /\ Len(log) \in Nat /\ Len(log') \in Nat
    BY <1>2, <2>1 DEF Inv, AroundOK, RecordsOK, SessionRecords
  <2>5. Proper(s)'
    BY <1>1, <1>2, <1>3, <2>2, <2>4, ActivatesAdds
    DEF InvocationTo, Keeps, Proper, Begun, Ends, Tells
  <2> QED
    BY <1>1, <1>3, <2>1, <2>2, <2>3, <2>5, ActivatesAdds, StepInv DEF Keeps, InvocationTo
<1>4. CASE UNCHANGED log /\ ~Activates(s)
  <2>1. AroundOK'
    BY <1>1, <1>4, FaultType DEF Inv, AroundOK
  <2>2. /\ invocation' \in [Invocations -> InvocationRecords]
        /\ \/ InvocationTo(s, "terminate", "conflict") /\ Keeps(s)
           \/ InvocationTo(s, "terminate", "activate") /\ (Keeps(s) \/ Leaves(s, TRUE))
    BY <1>1, <1>2, <1>4, InvocationRows DEF Steps, Errors
  <2>3. /\ session' \in [Invocations -> SessionRecords]
        /\ \E late \in BOOLEAN : SessionTo(s, session[s].state, session[s].base, late)
        /\ Keeps(s) => session'[s].late = session[s].late
    BY <1>2, <2>2, SessionRows DEF RecordsOK, SessionRecords, SessionTo
  <2>4. RecordsOK'
    BY <2>2, <2>3 DEF RecordsOK
  <2>5. ActivatedBy(s)' = ActivatedBy(s) => Proper(s)'
    BY <1>1, <1>2, <1>4, <2>2, <2>3 DEF InvocationTo, SessionTo, Proper, Begun, Ends, Tells
  <2> QED
    BY <1>1, <1>4, <2>1, <2>2, <2>3, <2>4, <2>5, QuietStep
<1>5. Activates(s) => ~UNCHANGED log
  <2>1. Activates(s) => Len(log') = Len(log) + 1
    BY DEF Activates, Inv, AroundOK
  <2> QED
    BY <2>1 DEF Inv, AroundOK
<1> QED
  BY <1>1, <1>3, <1>4, <1>5

\* The Gateway activates what its client has given up on, or refuses to.
LEMMA LateInv ==
    ASSUME Inv, NEW s \in Invocations, GatewayActivates(s)
    PROVE  Inv'
<1>1. /\ session[s].late /\ Leaves(s, FALSE)
      /\ UNCHANGED <<saved, nextId, invocation, cut, faults>>
      /\ Activates(s) \/ UNCHANGED log
  BY DEF GatewayActivates, Leaves
<1>2. RecordsOK /\ Proper(s)
  BY DEF Inv
<1>3. /\ AroundOK' /\ Len(log') >= Len(log)
      /\ \A t \in Invocations \ {s} : ActivatedBy(t)' = ActivatedBy(t)
  <2>1. UNCHANGED log => \A t : ActivatedBy(t)' = ActivatedBy(t)
    BY DEF ActivatedBy
  <2>2. Len(log) \in Nat
    BY DEF Inv, AroundOK
  <2> QED
    BY <1>1, <2>1, <2>2, ActivatesAdds DEF Inv, AroundOK
<1>4. /\ session' \in [Invocations -> SessionRecords]
      /\ SessionTo(s, session[s].state, session[s].base, FALSE)
  BY <1>1, <1>2, SessionRows DEF RecordsOK, SessionRecords
<1>5. RecordsOK'
  BY <1>1, <1>2, <1>4 DEF RecordsOK
<1>6. session[s].base \in Nat /\ Len(log) \in Nat /\ Len(log') \in Nat
  BY <1>2, <1>3 DEF Inv, AroundOK, RecordsOK, SessionRecords
<1>7. /\ invocation[s].pc \in {"terminate", "done", "killed"}
      /\ invocation[s].pc # "killed" =>
            invocation[s].err = "activate" /\ invocation[s].command.activate
  BY <1>1, <1>2 DEF Proper, Tells
<1>8. Proper(s)'
  BY <1>1, <1>2, <1>3, <1>4, <1>6, <1>7 DEF SessionTo, Proper, Begun, Ends, Tells
<1> QED
  BY <1>1, <1>3, <1>4, <1>5, <1>8, StepInv DEF SessionTo

\* The Configuration Center's revisions are no invocation's.
LEMMA AdministratorInv ==
    ASSUME Inv, AdministratorActivates
    PROVE  Inv'
<1>1. PICK id \in {i \in CertificateIds : Exists(Active, i)}, t \in Targets :
          log' = Append(log, [by |-> None, configuration |-> Link(Active, id, {t})])
  BY DEF AdministratorActivates
<1>2. UNCHANGED <<saved, nextId, invocation, session, cut, faults>>
  BY DEF AdministratorActivates
<1> DEFINE r == [by |-> None, configuration |-> Link(Active, id, {t})]
<1>3. Active \in Configurations
  <2>1. log \in Seq(Revisions) /\ Len(log) \in 1 .. Len(log)
    BY DEF Inv, AroundOK
  <2>2. log[Len(log)] \in Revisions
    BY <2>1
  <2> QED
    BY <2>2 DEF Active, Revisions
<1>4. r \in Revisions /\ r.by = None
  BY <1>3 DEF Revisions, Link, Configurations
<1>5. log' = Append(log, r)
  BY <1>1
<1> HIDE DEF r
<1>6. /\ log' \in Seq(Revisions) \ {<< >>} /\ Len(log') >= Len(log)
      /\ \A s \in Invocations : ActivatedBy(s)' = ActivatedBy(s)
  BY <1>4, <1>5, RevisionAdds, CommandAssumption
<1>7. AroundOK' /\ RecordsOK'
  BY <1>2, <1>6 DEF Inv, AroundOK, RecordsOK
<1>8. ASSUME NEW s \in Invocations
      PROVE  Proper(s)'
  <2>1. session[s].base \in Nat /\ Len(log) \in Nat /\ Len(log') \in Nat
    BY <1>7 DEF Inv, AroundOK, RecordsOK, SessionRecords
  <2>2. Proper(s)
    BY DEF Inv
  <2> QED
    BY <1>2, <1>6, <2>1, <2>2 DEF Proper, Begun, Ends, Tells
<1> QED
  BY <1>7, <1>8 DEF Inv

(***************************************************************************)
(* The invariant is kept.                                                  *)
(***************************************************************************)
LEMMA InitInv == Init => Inv
<1> SUFFICES ASSUME Init PROVE Inv
  OBVIOUS
<1>1. PICK c \in InitialConfigurations :
          /\ log = <<[by |-> None, configuration |-> c]>>
          /\ session = [s \in Invocations |->
                [state |-> "none", base |-> 0, work |-> c, late |-> FALSE]]
  BY DEF Init
<1>2. c \in Configurations
  BY CommandAssumption
<1> DEFINE r == [by |-> None, configuration |-> c]
<1>3. r \in Revisions /\ r.by = None
  BY <1>2 DEF Revisions
<1>4. log = <<r>>
  BY <1>1
<1> HIDE DEF r
<1>5. log \in Seq(Revisions) \ {<< >>} /\ Len(log) = 1 /\ log[1] = r
  BY <1>3, <1>4
<1>6. AroundOK
  BY <1>5, CommandAssumption DEF Init, AroundOK
<1>7. RecordsOK
  <2>1. [state |-> "none", base |-> 0, work |-> c, late |-> FALSE] \in SessionRecords
    BY <1>2 DEF SessionRecords
  <2>2. [pc |-> "idle", command |-> None, todo |-> << >>, created |-> 0, err |-> "none"]
            \in InvocationRecords
    BY DEF InvocationRecords, Steps, Errors
  <2> QED
    BY <1>1, <2>1, <2>2 DEF Init, RecordsOK
<1>8. \A s \in Invocations : ActivatedBy(s) = {}
  BY <1>3, <1>5, CommandAssumption DEF ActivatedBy
<1>9. ASSUME NEW s \in Invocations
      PROVE  Proper(s)
  <2>1. /\ invocation[s].pc = "idle" /\ invocation[s].err = "none"
        /\ session[s].state = "none" /\ session[s].base = 0 /\ session[s].late = FALSE
    BY <1>1 DEF Init
  <2> QED
    BY <1>5, <1>8, <2>1 DEF Proper, Begun, Ends, Tells
<1> QED
  BY <1>6, <1>7, <1>9 DEF Inv

LEMMA NextInv == Inv /\ [Next]_vars => Inv'
<1> SUFFICES ASSUME Inv, [Next]_vars PROVE Inv'
  OBVIOUS
<1>1. CASE UNCHANGED vars
  BY <1>1 DEF vars, Inv, AroundOK, RecordsOK, Proper, Begun, Ends, Tells, ActivatedBy
<1> QED
  BY <1>1, RunInv, VerifyInv, CreateInv, LoadInv, RequestInv, ValidateInv, ActivateInv, SaveInv,
     PrintInv, TerminateInv, LateInv, KillInv, AdministratorInv, Zenon DEF Next, Terminating

LEMMA Invariance == Spec => []Inv
  BY InitInv, NextInv, PTL DEF Spec

(***************************************************************************)
(* The theorems.                                                           *)
(***************************************************************************)
\* The state keeps its type, and no command is finished before all of its
\* requests were answered.
THEOREM CommandTypeCorrect == Spec => []TypeOK
<1>1. Inv => TypeOK
  <2> SUFFICES ASSUME Inv PROVE TypeOK
    OBVIOUS
  <2>1. /\ log \in Seq([by : Invocations \cup {None}, configuration : Configurations])
        /\ saved \in Seq([by : Invocations, configuration : Configurations])
        /\ nextId \in Nat \ {0} /\ cut \subseteq Invocations /\ faults \in 0 .. MaxFaults
    BY Zenon DEF Inv, AroundOK, Revisions
  <2>2. invocation \in [Invocations ->
          [pc : Steps, command : Commands \cup {None}, todo : Seq(Requests),
           created : CertificateIds \cup {0}, err : Errors]]
    BY Zenon DEF Inv, RecordsOK, InvocationRecords
  <2>3. session \in [Invocations ->
          [state : {"none", "open", "closed"}, base : 0 .. Len(log),
           work : Configurations, late : BOOLEAN]]
    <3>1. Len(log) \in Nat
      BY DEF Inv, AroundOK
    <3>2. \A s \in Invocations : session[s] \in SessionRecords /\ session[s].base <= Len(log)
      BY DEF Inv, RecordsOK, Proper, Begun
    <3>3. \A s \in Invocations :
              session[s] \in [state : {"none", "open", "closed"}, base : 0 .. Len(log),
                              work : Configurations, late : BOOLEAN]
      BY <3>1, <3>2 DEF SessionRecords
    <3> QED
      BY <3>3 DEF Inv, RecordsOK
  <2>4. \A s \in Invocations :
          /\ invocation[s].pc = "request" => invocation[s].todo # << >>
          /\ invocation[s].pc \in {"validate", "activate", "save", "print"} =>
                invocation[s].todo = << >>
          /\ session[s].late => invocation[s].command.activate
    BY DEF Inv, Proper, Begun
  <2> QED
    BY <2>1, <2>2, <2>3, <2>4 DEF TypeOK
<1> QED
  BY <1>1, Invariance, PTL

\* The exit status and the error of every command tell whether its change is
\* active, whatever was lost, whether or not its result could be printed, and
\* whatever the Gateway does after the process has ended.
THEOREM ExitStatusTrue == Spec => []ExitStatusTellsActivation
<1>1. Inv => ExitStatusTellsActivation
  BY DEF Inv, Proper, Tells, ExitStatusTellsActivation, Returned
<1> QED
  BY <1>1, Invariance, PTL

\* No session outlives its process unless that one was killed, or the request
\* that creates or terminates the session has failed.
THEOREM CommandSessionsEnd == Spec => []SessionsTerminated
<1>1. Inv => SessionsTerminated
  BY DEF Inv, Proper, Ends, SessionsTerminated, Returned
<1> QED
  BY <1>1, Invariance, PTL

(***************************************************************************)
(* Whole commands. The configurations an invocation can have loaded, and   *)
(* how far the requests it has sent have brought its working copy from the *)
(* one it has loaded. The requests that move the targets of a certificate  *)
(* commute, so that only the set of those still to be sent matters.        *)
(***************************************************************************)
RequestsIn(todo) == {todo[i] : i \in 1 .. Len(todo)}

SingleLinks(cfg) ==
    \A t \in ToOne : \A i, j \in CertificateIds :
        {<<i, t>>, <<j, t>>} \subseteq cfg.linked => i = j

\* No certificate has an ID from `next' on, the ones still to be given out.
Regular(cfg, next) ==
    /\ \A i \in CertificateIds : i >= next => cfg.certificates[i] = None
    /\ SingleLinks(cfg)

GatewayRegular ==
    /\ \A k \in 1 .. Len(log) : Regular(log[k].configuration, nextId)
    /\ \A k \in 1 .. Len(saved) : Regular(saved[k].configuration, nextId)
    /\ \A s \in Invocations : Regular(session[s].work, nextId)

\* A replacement under way: the certificate n is created, `connected' are linked
\* to it, `disconnected' are no longer linked to the old one, which may be gone.
Replaced(cfg, c, n, connected, disconnected, gone) ==
    LET new   == CreateIn(cfg, n, c.attributes)
        freed == disconnected \cup (connected \cap ToOne) \cup (IF gone THEN Targets ELSE {})
    IN  [certificates |-> IF gone THEN [new.certificates EXCEPT ![c.id] = None]
                          ELSE new.certificates,
         linked |-> (cfg.linked \ ({c.id} \X freed)) \cup ({n} \X connected)]

TargetsOf(requests, op) == UNION {r.targets : r \in {q \in requests : q.op = op}}

\* What replace-with-new does once it has created the new certificate.
Script(cfg, c) ==
    Moves(cfg, c.id) \o (IF c.deleteOld THEN <<Req("delete", c.id, {})>> ELSE << >>)

AfterRequests(cfg, c, n, sent) ==
    Replaced(cfg, c, n, TargetsOf(sent, "connect"), TargetsOf(sent, "disconnect"),
             \E r \in sent : r.op = "delete")

\* A command c in whose session cfg was loaded, with the requests `todo' before
\* it and the working copy `work'.
Progress(cfg, c, todo, created, work) ==
    \/ todo = FirstRequests(c) /\ created = 0 /\ work = cfg
    \/ todo = << >> /\ work \in Effects(cfg, c)
    \/ /\ c.name = "replace" /\ Exists(cfg, c.id)
       /\ todo = <<Req("create", 0, {})>> \o Script(cfg, c) /\ work = cfg
    \/ /\ c.name = "replace" /\ Exists(cfg, c.id)
       /\ created \in Free(cfg)
       /\ \E sent \in SUBSET RequestsIn(Script(cfg, c)) :
             /\ sent \cup RequestsIn(todo) = RequestsIn(Script(cfg, c))
             /\ work = AfterRequests(cfg, c, created, sent)

\* The configurations an invocation can have loaded.
LoadedBy(s) ==
    IF invocation[s].command.load THEN {saved[k].configuration : k \in 1 .. Len(saved)}
    ELSE {log[k].configuration : k \in {session[s].base} \cap (1 .. Len(log))}

Progresses(s) ==
    LET i == invocation[s]
    IN  \E cfg \in LoadedBy(s) : Progress(cfg, i.command, i.todo, i.created, session[s].work)

Working(s) ==
    invocation[s].pc \in {"request", "validate", "activate", "save"} \/ session[s].late

\* What an invocation has done to its working copy.
Follows(s) ==
    LET i == invocation[s]
    IN  /\ Working(s) => Progresses(s)
        /\ session[s].late => i.todo = << >>
        /\ i.pc \in {"idle", "version", "create", "load", "config"} => i.created = 0
        /\ i.pc = "config" => i.command.load
        /\ i.pc = "idle" => SavedBy(s) = {}

WholeInv ==
    /\ log[1].by = None
    /\ GatewayRegular
    /\ \A s \in Invocations : Follows(s)
    /\ EveryChangeIsWhole

(***************************************************************************)
(* The requests that replace a certificate.                                *)
(***************************************************************************)
LEMMA RequestsInParts ==
    ASSUME NEW S, NEW a \in Seq(S), NEW b \in Seq(S)
    PROVE  /\ RequestsIn(a \o b) = RequestsIn(a) \cup RequestsIn(b)
           /\ a # << >> => RequestsIn(a) = {Head(a)} \cup RequestsIn(Tail(a))
<1>1. RequestsIn(a \o b) = RequestsIn(a) \cup RequestsIn(b)
  <2>1. a \o b \in Seq(S)
    BY ConcatProperties
  <2>2. /\ Range(a \o b) = RequestsIn(a \o b)
        /\ Range(a) = RequestsIn(a) /\ Range(b) = RequestsIn(b)
    BY <2>1, RangeEquality, Zenon DEF RequestsIn
  <2>3. Range(a \o b) = Range(a) \cup Range(b)
    BY RangeConcatenation
  <2> QED
    BY <2>2, <2>3
<1>2. ASSUME a # << >>
      PROVE  RequestsIn(a) = {Head(a)} \cup RequestsIn(Tail(a))
  <2>1. /\ Len(a) \in Nat \ {0} /\ Len(Tail(a)) = Len(a) - 1 /\ Head(a) = a[1]
        /\ \A i \in 1 .. Len(Tail(a)) : Tail(a)[i] = a[i + 1]
    BY <1>2, EmptySeq, HeadTailProperties
  <2>2. ASSUME NEW i \in 1 .. Len(a)
        PROVE  a[i] \in {Head(a)} \cup RequestsIn(Tail(a))
    <3>1. i # 1 => i - 1 \in 1 .. Len(Tail(a)) /\ Tail(a)[i - 1] = a[i]
      BY <2>1
    <3> QED
      BY <2>1, <3>1 DEF RequestsIn
  <2>3. ASSUME NEW i \in 1 .. Len(Tail(a))
        PROVE  Tail(a)[i] \in RequestsIn(a)
    <3>1. i + 1 \in 1 .. Len(a) /\ Tail(a)[i] = a[i + 1]
      BY <2>1
    <3> QED
      BY <3>1 DEF RequestsIn
  <2>4. Head(a) \in RequestsIn(a)
    BY <2>1 DEF RequestsIn
  <2> QED
    BY <2>2, <2>3, <2>4 DEF RequestsIn
<1> QED
  BY <1>1, <1>2

LEMMA RequestsInOne ==
    ASSUME NEW a, NEW b
    PROVE  RequestsIn(<< >>) = {} /\ RequestsIn(<<a>>) = {a} /\ RequestsIn(<<a, b>>) = {a, b}
<1>1. Len(<<a>>) = 1 /\ <<a>>[1] = a /\ Len(<<a, b>>) = 2 /\ <<a, b>>[1] = a /\ <<a, b>>[2] = b
  OBVIOUS
<1>2. 1 .. 0 = {} /\ 1 .. 1 = {1} /\ 1 .. 2 = {1, 2} /\ Len(<< >>) = 0
  OBVIOUS
<1> QED
  BY <1>1, <1>2 DEF RequestsIn

\* The targets of the i-th relationship, as replace-with-new finds them.
RelatedTargets(cfg, c, i) ==
    {t \in LinkedTo(cfg, c.id) : RelationshipOf[t] = RelationshipOrder[i]}

\* What replace-with-new sends after it has created the certificate.
LEMMA ScriptRequests ==
    ASSUME NEW c \in Commands, NEW cfg \in Configurations
    PROVE  /\ Script(cfg, c) \in Seq(Requests) /\ Moves(cfg, c.id) \in Seq(Requests)
           /\ \A r : r \in RequestsIn(Script(cfg, c)) <=>
                 \/ \E i \in 1 .. 4 :
                       /\ RelatedTargets(cfg, c, i) # {}
                       /\ r \in {Req("connect", 0, RelatedTargets(cfg, c, i)),
                                 Req("disconnect", c.id, RelatedTargets(cfg, c, i))}
                 \/ c.deleteOld /\ r = Req("delete", c.id, {})
<1> DEFINE connect(i)    == Req("connect", 0, RelatedTargets(cfg, c, i))
           disconnect(i) == Req("disconnect", c.id, RelatedTargets(cfg, c, i))
           last == IF c.deleteOld THEN <<Req("delete", c.id, {})>> ELSE << >>
<1>1. c.id \in CertificateIds \cup {0} /\ c.deleteOld \in BOOLEAN
  BY DEF Commands
<1>2. ASSUME NEW i \in 1 .. 4
      PROVE  /\ connect(i) \in Requests /\ disconnect(i) \in Requests
             /\ Move(cfg, c.id, i) =
                   IF RelatedTargets(cfg, c, i) = {} THEN << >> ELSE <<connect(i), disconnect(i)>>
  <2>1. RelatedTargets(cfg, c, i) \subseteq Targets
    BY DEF RelatedTargets, LinkedTo
  <2>2. connect(i) \in Requests /\ disconnect(i) \in Requests
    BY <1>1, <2>1 DEF Req, Requests
  <2> QED
    BY <2>2 DEF Move, RelatedTargets
<1> HIDE DEF connect, disconnect
<1>3. ASSUME NEW i \in 1 .. 4
      PROVE  /\ Move(cfg, c.id, i) \in Seq(Requests)
             /\ RequestsIn(Move(cfg, c.id, i)) =
                   IF RelatedTargets(cfg, c, i) = {} THEN {} ELSE {connect(i), disconnect(i)}
  <2>1. << >> \in Seq(Requests) /\ <<connect(i), disconnect(i)>> \in Seq(Requests)
    BY <1>2
  <2> QED
    BY <1>2, <2>1, RequestsInOne
<1> DEFINE m(i) == Move(cfg, c.id, i)
<1>4. /\ m(1) \in Seq(Requests) /\ m(2) \in Seq(Requests) /\ m(3) \in Seq(Requests)
      /\ m(4) \in Seq(Requests)
  BY <1>3
<1>5. /\ m(1) \o m(2) \in Seq(Requests) /\ m(1) \o m(2) \o m(3) \in Seq(Requests)
      /\ m(1) \o m(2) \o m(3) \o m(4) \in Seq(Requests)
  <2> HIDE DEF m
  <2> QED
    BY <1>4
<1>6. Moves(cfg, c.id) = m(1) \o m(2) \o m(3) \o m(4)
  BY DEF Moves
<1>7. RequestsIn(Moves(cfg, c.id)) =
          RequestsIn(m(1)) \cup RequestsIn(m(2)) \cup RequestsIn(m(3)) \cup RequestsIn(m(4))
  <2> HIDE DEF m
  <2>1. RequestsIn(m(1) \o m(2)) = RequestsIn(m(1)) \cup RequestsIn(m(2))
    BY <1>4, RequestsInParts
  <2> DEFINE two == m(1) \o m(2)  three == two \o m(3)
  <2>2. two \in Seq(Requests) /\ three \in Seq(Requests)
    BY <1>5
  <2>3. Moves(cfg, c.id) = three \o m(4)
    BY <1>6
  <2> HIDE DEF two
  <2>4. RequestsIn(three) = RequestsIn(two) \cup RequestsIn(m(3))
    BY <1>4, <2>2, RequestsInParts
  <2> HIDE DEF three
  <2>5. RequestsIn(three \o m(4)) = RequestsIn(three) \cup RequestsIn(m(4))
    BY <1>4, <2>2, RequestsInParts
  <2> QED
    BY <2>1, <2>3, <2>4, <2>5 DEF two
<1>8. /\ last \in Seq(Requests)
      /\ RequestsIn(last) = IF c.deleteOld THEN {Req("delete", c.id, {})} ELSE {}
  <2>1. Req("delete", c.id, {}) \in Requests
    BY <1>1 DEF Req, Requests
  <2>2. << >> \in Seq(Requests) /\ <<Req("delete", c.id, {})>> \in Seq(Requests)
    BY <2>1
  <2> QED
    BY <2>2, RequestsInOne
<1>9. Script(cfg, c) = Moves(cfg, c.id) \o last
  BY DEF Script
<1>10. /\ Script(cfg, c) \in Seq(Requests)
       /\ RequestsIn(Script(cfg, c)) = RequestsIn(Moves(cfg, c.id)) \cup RequestsIn(last)
  <2> HIDE DEF last, m
  <2>1. Moves(cfg, c.id) \in Seq(Requests)
    BY <1>5, <1>6
  <2> QED
    BY <1>8, <1>9, <2>1, RequestsInParts, ConcatProperties
<1>11. ASSUME NEW r
       PROVE  r \in RequestsIn(Moves(cfg, c.id)) <=>
                 \E i \in 1 .. 4 : RelatedTargets(cfg, c, i) # {} /\ r \in {connect(i), disconnect(i)}
  <2>1. \A i \in 1 .. 4 : r \in RequestsIn(m(i)) <=>
            RelatedTargets(cfg, c, i) # {} /\ r \in {connect(i), disconnect(i)}
    BY <1>3
  <2>2. (\E i \in 1 .. 4 : r \in RequestsIn(m(i))) <=>
            \/ r \in RequestsIn(m(1)) \/ r \in RequestsIn(m(2))
            \/ r \in RequestsIn(m(3)) \/ r \in RequestsIn(m(4))
    <3> HIDE DEF m
    <3>1. \A i \in 1 .. 4 : i = 1 \/ i = 2 \/ i = 3 \/ i = 4
      OBVIOUS
    <3> QED
      BY <3>1
  <2> HIDE DEF m
  <2> QED
    BY <1>7, <2>1, <2>2
<1>12. Moves(cfg, c.id) \in Seq(Requests)
  BY <1>5, <1>6
<1> HIDE DEF last
<1> QED
  BY <1>8, <1>10, <1>11, <1>12 DEF connect, disconnect

\* Each of them is about targets of the old certificate, and all of them together
\* about all of its targets.
LEMMA ScriptCovers ==
    ASSUME NEW c \in Commands, NEW cfg \in Configurations
    PROVE  LET all    == RequestsIn(Script(cfg, c))
               linked == LinkedTo(cfg, c.id)
           IN  /\ \A r \in all :
                     \/ r.op = "connect" /\ r.id = 0 /\ r.targets \subseteq linked
                     \/ r.op = "disconnect" /\ r.id = c.id /\ r.targets \subseteq linked
                     \/ r.op = "delete" /\ r.id = c.id
               /\ TargetsOf(all, "connect") = linked
               /\ TargetsOf(all, "disconnect") = linked
               /\ (\E r \in all : r.op = "delete") <=> c.deleteOld
<1> DEFINE all    == RequestsIn(Script(cfg, c))
           linked == LinkedTo(cfg, c.id)
<1>1. \A r : r \in all <=>
            \/ \E i \in 1 .. 4 :
                  /\ RelatedTargets(cfg, c, i) # {}
                  /\ r \in {Req("connect", 0, RelatedTargets(cfg, c, i)),
                            Req("disconnect", c.id, RelatedTargets(cfg, c, i))}
            \/ c.deleteOld /\ r = Req("delete", c.id, {})
  BY ScriptRequests
<1>2. \A i : RelatedTargets(cfg, c, i) \subseteq linked
  BY DEF RelatedTargets
<1>3. \A op, id, targets : /\ Req(op, id, targets).op = op
                           /\ Req(op, id, targets).id = id
                           /\ Req(op, id, targets).targets = targets
  BY DEF Req
<1>4. \A t \in linked : \E i \in 1 .. 4 : t \in RelatedTargets(cfg, c, i)
  BY CommandAssumption DEF LinkedTo, RelatedTargets
<1> HIDE DEF all, linked
<1>5. \A r \in all :
          \/ r.op = "connect" /\ r.id = 0 /\ r.targets \subseteq linked
          \/ r.op = "disconnect" /\ r.id = c.id /\ r.targets \subseteq linked
          \/ r.op = "delete" /\ r.id = c.id
  BY <1>1, <1>2, <1>3
<1>6. (\E r \in all : r.op = "delete") <=> c.deleteOld
  BY <1>1, <1>3
<1>7. \A t \in linked : /\ \E r \in all : r.op = "connect" /\ t \in r.targets
                        /\ \E r \in all : r.op = "disconnect" /\ t \in r.targets
  <2> SUFFICES ASSUME NEW t \in linked
               PROVE  /\ \E r \in all : r.op = "connect" /\ t \in r.targets
                      /\ \E r \in all : r.op = "disconnect" /\ t \in r.targets
    OBVIOUS
  <2>1. PICK i \in 1 .. 4 : t \in RelatedTargets(cfg, c, i)
    BY <1>4
  <2>2. /\ Req("connect", 0, RelatedTargets(cfg, c, i)) \in all
        /\ Req("disconnect", c.id, RelatedTargets(cfg, c, i)) \in all
    BY <1>1, <2>1
  <2> QED
    BY <1>3, <2>1, <2>2
<1>8. TargetsOf(all, "connect") = linked
  <2>1. \A t : t \in TargetsOf(all, "connect") <=> \E r \in all : r.op = "connect" /\ t \in r.targets
    BY DEF TargetsOf
  <2> QED
    BY <1>5, <1>7, <2>1
<1>9. TargetsOf(all, "disconnect") = linked
  <2>1. \A t : t \in TargetsOf(all, "disconnect") <=>
               \E r \in all : r.op = "disconnect" /\ t \in r.targets
    BY DEF TargetsOf
  <2> QED
    BY <1>5, <1>7, <2>1
<1> QED
  BY <1>5, <1>6, <1>8, <1>9 DEF all, linked

(***************************************************************************)
(* What the requests of a replacement do to the working copy.              *)
(***************************************************************************)
LEMMA SameLinks ==
    \A A, B : /\ A \subseteq CertificateIds \X Targets
              /\ B \subseteq CertificateIds \X Targets
              /\ \A i \in CertificateIds, t \in Targets : <<i, t>> \in A <=> <<i, t>> \in B
              => A = B
  OBVIOUS

TargetSets == SUBSET Targets

\* A certificate to replace, and an ID for the new one.
Replaceable(cfg, c, n) ==
    /\ cfg \in Configurations /\ c \in Commands
    /\ Exists(cfg, c.id) /\ n \in Free(cfg)

\* Who is linked to what in the configuration w.
LinkedAs(w, cfg, c, n, m, d, gone) ==
    /\ w = [certificates |-> w.certificates, linked |-> w.linked]
    /\ w.linked \subseteq CertificateIds \X Targets
    /\ \A i \in CertificateIds, t \in Targets :
          <<i, t>> \in w.linked <=>
             \/ /\ <<i, t>> \in cfg.linked
                /\ ~(i = c.id /\ (t \in d \/ (t \in m /\ t \in ToOne) \/ gone))
             \/ i = n /\ t \in m

LEMMA ReplacedLinks ==
    ASSUME NEW cfg, NEW c, NEW n, Replaceable(cfg, c, n),
           NEW m \in TargetSets, NEW d \in TargetSets, NEW gone \in BOOLEAN
    PROVE  /\ c.id \in CertificateIds /\ n \in CertificateIds /\ n # c.id
           /\ LinkedAs(Replaced(cfg, c, n, m, d, gone), cfg, c, n, m, d, gone)
<1>1. /\ c.id \in CertificateIds /\ n \in CertificateIds /\ n # c.id
      /\ cfg.linked \subseteq CertificateIds \X Targets
  BY DEF Replaceable, Exists, Free, Configurations
<1> DEFINE freed == d \cup (m \cap ToOne) \cup (IF gone THEN Targets ELSE {})
           w == Replaced(cfg, c, n, m, d, gone)
<1>2. w.linked = (cfg.linked \ ({c.id} \X freed)) \cup ({n} \X m)
  BY DEF Replaced
<1>3. w = [certificates |-> w.certificates, linked |-> w.linked]
  BY DEF Replaced
<1> HIDE DEF w
<1>4. w.linked \subseteq CertificateIds \X Targets
  BY <1>1, <1>2 DEF TargetSets
<1>5. ASSUME NEW i \in CertificateIds, NEW t \in Targets
      PROVE  <<i, t>> \in w.linked <=>
                \/ /\ <<i, t>> \in cfg.linked
                   /\ ~(i = c.id /\ (t \in d \/ (t \in m /\ t \in ToOne) \/ gone))
                \/ i = n /\ t \in m
  BY <1>2
<1> QED
  BY <1>1, <1>3, <1>4, <1>5 DEF LinkedAs, w

\* A replacement is as the new certificate says before anything is moved.
LEMMA ReplacedStart ==
    ASSUME NEW cfg, NEW c, NEW n, Replaceable(cfg, c, n)
    PROVE  Replaced(cfg, c, n, {}, {}, FALSE) = CreateIn(cfg, n, c.attributes)
<1> DEFINE new == CreateIn(cfg, n, c.attributes)
<1>1. cfg \in Configurations
  BY DEF Replaceable
<1>2. new.linked = cfg.linked
      /\ new = [certificates |-> new.certificates, linked |-> new.linked]
  BY <1>1 DEF CreateIn, Configurations
<1> HIDE DEF new
<1>3. (cfg.linked \ ({c.id} \X ({} \cup ({} \cap ToOne) \cup {}))) \cup ({n} \X {}) = cfg.linked
  OBVIOUS
<1> QED
  BY <1>2, <1>3 DEF Replaced, new

LEMMA ReplacedConnect ==
    ASSUME NEW cfg, NEW c, NEW n, Replaceable(cfg, c, n), SingleLinks(cfg),
           NEW m \in TargetSets, NEW d \in TargetSets, NEW gone \in BOOLEAN,
           NEW T \in SUBSET LinkedTo(cfg, c.id)
    PROVE  Link(Replaced(cfg, c, n, m, d, gone), n, T) = Replaced(cfg, c, n, m \cup T, d, gone)
<1> DEFINE w == Replaced(cfg, c, n, m, d, gone)
           v == Replaced(cfg, c, n, m \cup T, d, gone)
           u == Link(w, n, T)
<1>1. T \subseteq Targets /\ m \cup T \in TargetSets
  BY DEF LinkedTo, TargetSets
<1>2. /\ c.id \in CertificateIds /\ n \in CertificateIds /\ n # c.id
      /\ LinkedAs(w, cfg, c, n, m, d, gone)
  BY ReplacedLinks
<1>4. LinkedAs(v, cfg, c, n, m \cup T, d, gone)
  BY <1>1, ReplacedLinks
<1>6. v.certificates = w.certificates
  BY DEF Replaced
<1> HIDE DEF w, v
<1>7. /\ u = [certificates |-> u.certificates, linked |-> u.linked]
      /\ u.certificates = w.certificates
      /\ u.linked = (w.linked \ (CertificateIds \X (T \cap ToOne))) \cup ({n} \X T)
  <2>1. w = [certificates |-> w.certificates, linked |-> w.linked]
    BY <1>2 DEF LinkedAs
  <2>2. u = [w EXCEPT !.linked = (w.linked \ (CertificateIds \X (T \cap ToOne))) \cup ({n} \X T)]
    BY DEF Link
  <2> HIDE DEF u
  <2> QED
    BY <2>1, <2>2
<1> HIDE DEF u
<1>8. u.linked \subseteq CertificateIds \X Targets
  BY <1>1, <1>2, <1>7 DEF LinkedAs
<1>9. ASSUME NEW i \in CertificateIds, NEW t \in Targets
      PROVE  <<i, t>> \in u.linked <=> <<i, t>> \in v.linked
  <2>1. <<i, t>> \in u.linked <=>
            (<<i, t>> \in w.linked /\ ~(t \in T /\ t \in ToOne)) \/ (i = n /\ t \in T)
    BY <1>7
  <2>2. t \in T /\ t \in ToOne /\ <<i, t>> \in cfg.linked => i = c.id
    BY <1>2 DEF SingleLinks, LinkedTo
  <2> QED
    BY <1>2, <1>4, <2>1, <2>2 DEF LinkedAs
<1>10. u.linked = v.linked
  BY <1>4, <1>8, <1>9, SameLinks DEF LinkedAs
<1> QED
  BY <1>4, <1>6, <1>7, <1>10 DEF LinkedAs, u, v, w

LEMMA LinkedOnce ==
    ASSUME NEW cfg, NEW c, NEW n, NEW m, NEW d, NEW gone, NEW u, NEW v,
           LinkedAs(u, cfg, c, n, m, d, gone), LinkedAs(v, cfg, c, n, m, d, gone),
           u.certificates = v.certificates
    PROVE  u = v
<1>1. /\ u.linked \subseteq CertificateIds \X Targets
      /\ v.linked \subseteq CertificateIds \X Targets
      /\ \A i \in CertificateIds, t \in Targets : <<i, t>> \in u.linked <=> <<i, t>> \in v.linked
  BY DEF LinkedAs
<1>2. u.linked = v.linked
  BY <1>1, SameLinks
<1>3. /\ u = [certificates |-> u.certificates, linked |-> u.linked]
      /\ v = [certificates |-> v.certificates, linked |-> v.linked]
  BY DEF LinkedAs
<1> QED
  BY <1>2, <1>3

\* A target is not with the old certificate any more once it is in T.
Freed(d, T, gone, e, g) ==
    \A t \in Targets : (t \in e \/ g) <=> (t \in d \/ t \in T \/ gone)

\* Targets that are taken from the old certificate.
LEMMA UnlinkLinks ==
    ASSUME NEW cfg, NEW c, NEW n, NEW m, NEW d, NEW gone \in BOOLEAN, NEW w, n # c.id,
           LinkedAs(w, cfg, c, n, m, d, gone), NEW T, NEW e, NEW g \in BOOLEAN,
           Freed(d, T, gone, e, g)
    PROVE  /\ Unlink(w, c.id, T).certificates = w.certificates
           /\ LinkedAs(Unlink(w, c.id, T), cfg, c, n, m, e, g)
<1> DEFINE u == Unlink(w, c.id, T)
<1>1. /\ w = [certificates |-> w.certificates, linked |-> w.linked]
      /\ w.linked \subseteq CertificateIds \X Targets
  BY DEF LinkedAs
<1>2. /\ u.certificates = w.certificates /\ u.linked = w.linked \ ({c.id} \X T)
      /\ u = [certificates |-> u.certificates, linked |-> u.linked]
  <2>1. u = [w EXCEPT !.linked = w.linked \ ({c.id} \X T)]
    BY DEF Unlink
  <2> HIDE DEF u
  <2> QED
    BY <1>1, <2>1
<1> HIDE DEF u
<1>3. u.linked \subseteq CertificateIds \X Targets
  BY <1>1, <1>2
<1>4. ASSUME NEW i \in CertificateIds, NEW t \in Targets
      PROVE  <<i, t>> \in u.linked <=>
                \/ /\ <<i, t>> \in cfg.linked
                   /\ ~(i = c.id /\ (t \in e \/ (t \in m /\ t \in ToOne) \/ g))
                \/ i = n /\ t \in m
  <2>1. <<i, t>> \in u.linked <=> <<i, t>> \in w.linked /\ ~(i = c.id /\ t \in T)
    BY <1>2
  <2>2. <<i, t>> \in w.linked <=>
           \/ /\ <<i, t>> \in cfg.linked
              /\ ~(i = c.id /\ (t \in d \/ (t \in m /\ t \in ToOne) \/ gone))
           \/ i = n /\ t \in m
    BY DEF LinkedAs
  <2> QED
    BY <2>1, <2>2 DEF Freed
<1>5. LinkedAs(u, cfg, c, n, m, e, g)
  BY <1>2, <1>3, <1>4 DEF LinkedAs
<1> QED
  BY <1>2, <1>5 DEF u

LEMMA ReplacedDisconnect ==
    ASSUME NEW cfg, NEW c, NEW n, Replaceable(cfg, c, n),
           NEW m \in TargetSets, NEW d \in TargetSets, NEW gone \in BOOLEAN,
           NEW T, NEW e \in TargetSets, Freed(d, T, gone, e, gone)
    PROVE  Unlink(Replaced(cfg, c, n, m, d, gone), c.id, T) = Replaced(cfg, c, n, m, e, gone)
<1> DEFINE w == Replaced(cfg, c, n, m, d, gone)
           v == Replaced(cfg, c, n, m, e, gone)
<1>2. v.certificates = w.certificates
  BY DEF Replaced
<1>3. LinkedAs(v, cfg, c, n, m, e, gone)
  BY ReplacedLinks
<1>4. LinkedAs(w, cfg, c, n, m, d, gone) /\ n # c.id
  BY ReplacedLinks
<1> HIDE DEF w, v
<1>5. /\ Unlink(w, c.id, T).certificates = w.certificates
      /\ LinkedAs(Unlink(w, c.id, T), cfg, c, n, m, e, gone)
  BY <1>4, UnlinkLinks
<1>6. Unlink(w, c.id, T) = v
  BY <1>2, <1>3, <1>5, LinkedOnce
<1> QED
  BY <1>6 DEF v, w

LEMMA ReplacedDelete ==
    ASSUME NEW cfg, NEW c, NEW n, Replaceable(cfg, c, n),
           NEW m \in TargetSets, NEW d \in TargetSets, NEW gone \in BOOLEAN
    PROVE  DeleteIn(Replaced(cfg, c, n, m, d, gone), c.id) = Replaced(cfg, c, n, m, d, TRUE)
<1> DEFINE w == Replaced(cfg, c, n, m, d, gone)
           v == Replaced(cfg, c, n, m, d, TRUE)
           u == Unlink(w, c.id, Targets)
           x == [u EXCEPT !.certificates[c.id] = None]
<1>1. v.certificates = [w.certificates EXCEPT ![c.id] = None]
  <2> DEFINE new == CreateIn(cfg, n, c.attributes).certificates
  <2>1. w.certificates = IF gone THEN [new EXCEPT ![c.id] = None] ELSE new
    BY DEF Replaced
  <2>2. v.certificates = [new EXCEPT ![c.id] = None]
    BY DEF Replaced
  <2> HIDE DEF w, v, new
  <2> QED
    BY <2>1, <2>2
<1>2. TRUE \in BOOLEAN
  OBVIOUS
<1>3. LinkedAs(v, cfg, c, n, m, d, TRUE)
  BY <1>2, ReplacedLinks
<1>4. LinkedAs(w, cfg, c, n, m, d, gone) /\ n # c.id
  BY ReplacedLinks
<1> HIDE DEF w, v
<1>5. /\ u.certificates = w.certificates
      /\ LinkedAs(u, cfg, c, n, m, d, TRUE)
  <2>1. Freed(d, Targets, gone, d, TRUE)
    BY DEF Freed
  <2> QED
    BY <1>2, <1>4, <2>1, UnlinkLinks
<1> HIDE DEF u
<1>6. u = [certificates |-> u.certificates, linked |-> u.linked]
  BY <1>5 DEF LinkedAs
<1>7. /\ x = [certificates |-> x.certificates, linked |-> x.linked]
      /\ x.certificates = [u.certificates EXCEPT ![c.id] = None] /\ x.linked = u.linked
  BY <1>6
<1> HIDE DEF x
<1>8. LinkedAs(x, cfg, c, n, m, d, TRUE)
  BY <1>5, <1>7 DEF LinkedAs
<1>9. x = v
  BY <1>1, <1>3, <1>5, <1>7, <1>8, LinkedOnce
<1> QED
  BY <1>9 DEF DeleteIn, x, u, v, w

\* Once everything is moved, the replacement is whole.
LEMMA ReplacedWhole ==
    ASSUME NEW cfg, NEW c, NEW n, Replaceable(cfg, c, n), c.name = "replace"
    PROVE  LET linked == LinkedTo(cfg, c.id)
           IN  Replaced(cfg, c, n, linked, linked, c.deleteOld) \in Effects(cfg, c)
<1> DEFINE linked == LinkedTo(cfg, c.id)
           w == Replaced(cfg, c, n, linked, linked, c.deleteOld)
           move(l) == IF l[1] = c.id THEN <<n, l[2]>> ELSE l
           moved == {move(l) : l \in cfg.linked}
           new == CreateIn(cfg, n, c.attributes)
           certificates == IF c.deleteOld THEN [new.certificates EXCEPT ![c.id] = None]
                           ELSE new.certificates
<1>1. /\ cfg.linked \subseteq CertificateIds \X Targets /\ c.deleteOld \in BOOLEAN
      /\ n \in Free(cfg) /\ linked \in TargetSets
  BY DEF TargetSets, Replaceable, Configurations, Commands, LinkedTo
<1>2. /\ c.id \in CertificateIds /\ n \in CertificateIds /\ n # c.id
      /\ LinkedAs(w, cfg, c, n, linked, linked, c.deleteOld)
  BY <1>1, ReplacedLinks
<1>3. w.certificates = certificates
  BY DEF Replaced
<1>4. \A t \in Targets : t \in linked <=> <<c.id, t>> \in cfg.linked
  BY DEF LinkedTo
<1> HIDE DEF w, linked
<1>5. \A i \in CertificateIds, t \in Targets :
          move(<<i, t>>) = IF i = c.id THEN <<n, t>> ELSE <<i, t>>
  OBVIOUS
<1>6. \A l \in cfg.linked : move(l) \in CertificateIds \X Targets
  BY <1>1, <1>2
<1>7. ASSUME NEW i \in CertificateIds, NEW t \in Targets
      PROVE  <<i, t>> \in moved <=>
                (<<i, t>> \in cfg.linked /\ i # c.id) \/ (i = n /\ <<c.id, t>> \in cfg.linked)
  <2>1. ASSUME <<i, t>> \in moved
        PROVE  (<<i, t>> \in cfg.linked /\ i # c.id) \/ (i = n /\ <<c.id, t>> \in cfg.linked)
    <3>1. PICK l \in cfg.linked : <<i, t>> = move(l)
      BY <2>1
    <3>2. PICK j \in CertificateIds, u \in Targets : l = <<j, u>>
      BY <1>1
    <3>3. <<i, t>> = IF j = c.id THEN <<n, u>> ELSE <<j, u>>
      BY <3>1, <3>2
    <3> QED
      BY <3>2, <3>3
  <2>2. ASSUME <<i, t>> \in cfg.linked, i # c.id
        PROVE  <<i, t>> \in moved
    <3>1. move(<<i, t>>) = <<i, t>>
      BY <1>5, <2>2
    <3> HIDE DEF move
    <3> QED
      BY <2>2, <3>1
  <2>3. ASSUME i = n, <<c.id, t>> \in cfg.linked
        PROVE  <<i, t>> \in moved
    <3>1. move(<<c.id, t>>) = <<i, t>>
      BY <1>2, <1>5, <2>3
    <3> HIDE DEF move
    <3> QED
      BY <2>3, <3>1
  <2> QED
    BY <2>1, <2>2, <2>3
<1>8. moved \subseteq CertificateIds \X Targets
  <2> HIDE DEF move
  <2> QED
    BY <1>6
<1>9. w.linked = moved
  <2> HIDE DEF moved
  <2>1. w.linked \subseteq CertificateIds \X Targets
    BY <1>2 DEF LinkedAs
  <2>2. \A i \in CertificateIds, t \in Targets : <<i, t>> \in w.linked <=> <<i, t>> \in moved
    BY <1>2, <1>4, <1>7 DEF LinkedAs
  <2> QED
    BY <1>8, <2>1, <2>2, SameLinks
<1>10. w = [certificates |-> certificates, linked |-> moved]
  BY <1>2, <1>3, <1>9 DEF LinkedAs
<1>11. [certificates |-> certificates, linked |-> moved] \in Effects(cfg, c)
  BY <1>1 DEF Effects
<1> QED
  BY <1>10, <1>11 DEF w, linked

\* What has been sent, with one request more.
LEMMA TargetsGrow ==
    ASSUME NEW sent \in SUBSET Requests, NEW r \in Requests, NEW op
    PROVE  /\ TargetsOf(sent, op) \in TargetSets
           /\ TargetsOf(sent \cup {r}, op) =
                 IF r.op = op THEN TargetsOf(sent, op) \cup r.targets ELSE TargetsOf(sent, op)
<1>1. \A q \in Requests : q.targets \subseteq Targets
  BY DEF Requests
<1> QED
  BY <1>1 DEF TargetsOf, TargetSets

\* The requests commute: only the set of those that were sent matters.
LEMMA ReplacementMoves ==
    ASSUME NEW cfg, NEW c, NEW n, Replaceable(cfg, c, n), SingleLinks(cfg),
           NEW sent \in SUBSET RequestsIn(Script(cfg, c)), NEW r \in RequestsIn(Script(cfg, c)),
           0 \notin CertificateIds
    PROVE  /\ r.op # "create"
           /\ Requested(AfterRequests(cfg, c, n, sent), r, IF r.id = 0 THEN n ELSE r.id, c.attributes)
                 = AfterRequests(cfg, c, n, sent \cup {r})
<1> DEFINE m == TargetsOf(sent, "connect")
           d == TargetsOf(sent, "disconnect")
           gone == \E q \in sent : q.op = "delete"
           w == AfterRequests(cfg, c, n, sent)
<1>1. cfg \in Configurations /\ c \in Commands /\ c.id \in CertificateIds /\ c.id # 0
  BY DEF Replaceable, Exists
<1>2. \/ r.op = "connect" /\ r.id = 0 /\ r.targets \subseteq LinkedTo(cfg, c.id)
      \/ r.op = "disconnect" /\ r.id = c.id /\ r.targets \subseteq LinkedTo(cfg, c.id)
      \/ r.op = "delete" /\ r.id = c.id
  BY <1>1, ScriptCovers
<1>3. sent \in SUBSET Requests /\ r \in Requests
  <2>1. Script(cfg, c) \in Seq(Requests)
    BY <1>1, ScriptRequests
  <2>2. RequestsIn(Script(cfg, c)) \subseteq Requests
    BY <2>1, ElementOfSeq DEF RequestsIn
  <2> QED
    BY <2>2
<1>4. /\ m \in TargetSets /\ d \in TargetSets /\ gone \in BOOLEAN
      /\ r.targets \in TargetSets
  BY <1>3, TargetsGrow DEF Requests, TargetSets
<1>5. /\ TargetsOf(sent \cup {r}, "connect") = IF r.op = "connect" THEN m \cup r.targets ELSE m
      /\ TargetsOf(sent \cup {r}, "disconnect") = IF r.op = "disconnect" THEN d \cup r.targets ELSE d
  BY <1>3, TargetsGrow
<1>6. (\E q \in sent \cup {r} : q.op = "delete") <=> gone \/ r.op = "delete"
  OBVIOUS
<1>7. w = Replaced(cfg, c, n, m, d, gone)
  BY DEF AfterRequests
<1> HIDE DEF m, d, gone, w
<1>8. AfterRequests(cfg, c, n, sent \cup {r}) =
          Replaced(cfg, c, n, IF r.op = "connect" THEN m \cup r.targets ELSE m,
                   IF r.op = "disconnect" THEN d \cup r.targets ELSE d, gone \/ r.op = "delete")
  <2> DEFINE all == sent \cup {r}
             after == \E q \in all : q.op = "delete"
  <2>1. after = (gone \/ r.op = "delete")
    BY <1>4, <1>6
  <2>2. AfterRequests(cfg, c, n, all) =
            Replaced(cfg, c, n, TargetsOf(all, "connect"), TargetsOf(all, "disconnect"), after)
    BY DEF AfterRequests
  <2> HIDE DEF after
  <2> QED
    BY <1>5, <2>1, <2>2
<1>9. CASE r.op = "connect"
  <2>1. Requested(w, r, n, c.attributes) = Link(w, n, r.targets)
    BY <1>9 DEF Requested
  <2>2. Link(w, n, r.targets) = Replaced(cfg, c, n, m \cup r.targets, d, gone)
    BY <1>2, <1>4, <1>7, <1>9, ReplacedConnect
  <2>3. (gone \/ r.op = "delete") = gone
    BY <1>4, <1>9
  <2> QED
    BY <1>2, <1>8, <1>9, <2>1, <2>2, <2>3 DEF w
<1>10. CASE r.op = "disconnect"
  <2>1. Requested(w, r, c.id, c.attributes) = Unlink(w, c.id, r.targets)
    BY <1>10 DEF Requested
  <2> DEFINE e == d \cup r.targets
  <2>2. Unlink(Replaced(cfg, c, n, m, d, gone), c.id, r.targets) = Replaced(cfg, c, n, m, e, gone)
    <3>1. e \in TargetSets /\ Freed(d, r.targets, gone, e, gone)
      BY <1>4 DEF TargetSets, Freed
    <3> HIDE DEF e
    <3> QED
      BY <1>4, <3>1, ReplacedDisconnect
  <2>3. (gone \/ r.op = "delete") = gone
    BY <1>4, <1>10
  <2> QED
    BY <1>1, <1>2, <1>7, <1>8, <1>10, <2>1, <2>2, <2>3 DEF w
<1>11. CASE r.op = "delete"
  <2>1. Requested(w, r, c.id, c.attributes) = DeleteIn(w, c.id)
    BY <1>11 DEF Requested
  <2>2. DeleteIn(Replaced(cfg, c, n, m, d, gone), c.id) = Replaced(cfg, c, n, m, d, TRUE)
    BY <1>4, ReplacedDelete
  <2>3. (gone \/ r.op = "delete") = TRUE
    BY <1>4, <1>11
  <2> QED
    BY <1>1, <1>2, <1>7, <1>8, <1>11, <2>1, <2>2, <2>3 DEF w
<1> QED
  BY <1>2, <1>9, <1>10, <1>11

(***************************************************************************)
(* A request brings a command forward.                                     *)
(***************************************************************************)
LEMMA RegularGrows ==
    ASSUME NEW cfg, NEW next \in Int, NEW later \in Int, next <= later, Regular(cfg, next)
    PROVE  Regular(cfg, later)
<1>1. \A i \in CertificateIds : i \in Int
  BY GatewayAssumption
<1> QED
  BY <1>1 DEF Regular

LEMMA SingleLinksKept ==
    ASSUME NEW cfg, NEW work, SingleLinks(cfg), work.linked \subseteq cfg.linked
    PROVE  SingleLinks(work)
  BY DEF SingleLinks

\* A link of a target that can have one certificate replaces the one it had.
LEMMA LinkRegular ==
    ASSUME NEW cfg \in Configurations, NEW next, Regular(cfg, next), NEW id \in CertificateIds,
           NEW targets
    PROVE  Regular(Link(cfg, id, targets), next)
<1> DEFINE work == Link(cfg, id, targets)
<1>1. cfg = [certificates |-> cfg.certificates, linked |-> cfg.linked]
  BY DEF Configurations
<1>2. work = [cfg EXCEPT !.linked = (cfg.linked \ (CertificateIds \X (targets \cap ToOne)))
                                        \cup ({id} \X targets)]
  BY DEF Link
<1> HIDE DEF work
<1>3. /\ work.certificates = cfg.certificates
      /\ work.linked = (cfg.linked \ (CertificateIds \X (targets \cap ToOne)))
                            \cup ({id} \X targets)
  BY <1>1, <1>2
<1>4. ASSUME NEW t \in ToOne, NEW i \in CertificateIds, NEW j \in CertificateIds,
             <<i, t>> \in work.linked, <<j, t>> \in work.linked
      PROVE  i = j
  <2>1. CASE t \in targets
    <3>1. \A k \in CertificateIds : <<k, t>> \in work.linked => k = id
      BY <1>3, <2>1
    <3> QED
      BY <1>4, <3>1
  <2>2. CASE t \notin targets
    <3>1. \A k \in CertificateIds : <<k, t>> \in work.linked => <<k, t>> \in cfg.linked
      BY <1>3, <2>2
    <3> QED
      BY <1>4, <3>1 DEF Regular, SingleLinks
  <2> QED
    BY <2>1, <2>2
<1> QED
  BY <1>3, <1>4 DEF Regular, SingleLinks, work

LEMMA RequestedRegular ==
    ASSUME NEW cfg \in Configurations, NEW c \in Commands, NEW r \in Requests, NEW id,
           NEW next \in Nat, Regular(cfg, next), ~Refused(cfg, r, id),
           r.op = "create" => id = next /\ next \in CertificateIds
    PROVE  Regular(Requested(cfg, r, id, c.attributes), IF r.op = "create" THEN next + 1 ELSE next)
<1> DEFINE work == Requested(cfg, r, id, c.attributes)
           sent == c.attributes
<1>1. /\ cfg.certificates \in [CertificateIds -> Stored \cup {None}]
      /\ cfg.linked \subseteq CertificateIds \X Targets
      /\ cfg = [certificates |-> cfg.certificates, linked |-> cfg.linked]
  BY DEF Configurations
<1>2. /\ \A i \in CertificateIds : i \in Int
      /\ \A i \in CertificateIds : i >= next => cfg.certificates[i] = None
      /\ SingleLinks(cfg)
  BY GatewayAssumption DEF Regular
<1> HIDE DEF sent
<1>3. CASE r.op \in {"read", "get"}
  BY <1>3 DEF Requested
<1>4. CASE r.op = "create"
  <2>1. work = CreateIn(cfg, id, sent)
    BY <1>4 DEF Requested, sent
  <2> HIDE DEF work
  <2>2. /\ work.linked = cfg.linked
        /\ \A i \in CertificateIds : i # id => work.certificates[i] = cfg.certificates[i]
    BY <1>1, <2>1 DEF CreateIn
  <2>3. SingleLinks(work)
    BY <1>2, <2>2, SingleLinksKept
  <2>4. \A i \in CertificateIds : i >= next + 1 => work.certificates[i] = None
    BY <1>2, <1>4, <2>2
  <2> QED
    BY <1>4, <2>3, <2>4 DEF Regular, work
<1>5. CASE r.op = "update"
  <2>1. work = UpdateIn(cfg, id, sent)
    BY <1>5 DEF Requested, sent
  <2>2. id \in CertificateIds /\ cfg.certificates[id] # None
    BY <1>5 DEF Refused, Exists
  <2> HIDE DEF work
  <2>3. /\ work.linked = cfg.linked
        /\ \A i \in CertificateIds : i # id => work.certificates[i] = cfg.certificates[i]
    BY <1>1, <2>1 DEF UpdateIn
  <2>4. SingleLinks(work)
    BY <1>2, <2>3, SingleLinksKept
  <2>5. \A i \in CertificateIds : i >= next => work.certificates[i] = None
    BY <1>2, <2>2, <2>3
  <2> QED
    BY <1>5, <2>4, <2>5 DEF Regular, work
<1>6. CASE r.op = "delete"
  <2>1. work = DeleteIn(cfg, id)
    BY <1>6 DEF Requested
  <2> HIDE DEF work
  <2>2. /\ work.linked \subseteq cfg.linked
        /\ \A i \in CertificateIds : work.certificates[i] \in {None, cfg.certificates[i]}
    BY <1>1, <2>1 DEF DeleteIn, Unlink
  <2>3. SingleLinks(work)
    BY <1>2, <2>2, SingleLinksKept
  <2>4. \A i \in CertificateIds : i >= next => work.certificates[i] = None
    BY <1>2, <2>2
  <2> QED
    BY <1>6, <2>3, <2>4 DEF Regular, work
<1>7. CASE r.op = "disconnect"
  <2>1. work = Unlink(cfg, id, r.targets)
    BY <1>7 DEF Requested
  <2> HIDE DEF work
  <2>2. work.linked \subseteq cfg.linked /\ work.certificates = cfg.certificates
    BY <1>1, <2>1 DEF Unlink
  <2>3. SingleLinks(work)
    BY <1>2, <2>2, SingleLinksKept
  <2> QED
    BY <1>2, <1>7, <2>2, <2>3 DEF Regular, work
<1>8. CASE r.op = "connect"
  <2>1. work = Link(cfg, id, r.targets)
    BY <1>8 DEF Requested
  <2>2. id \in CertificateIds
    BY <1>8 DEF Refused, Exists
  <2> HIDE DEF work
  <2>3. Regular(work, next)
    BY <2>1, <2>2, LinkRegular
  <2> QED
    BY <1>8, <2>3 DEF work
<1> QED
  BY <1>3, <1>4, <1>5, <1>6, <1>7, <1>8 DEF Requests

\* A request that is alone.
LEMMA HeadOfOne ==
    ASSUME NEW x, NEW S, NEW s \in Seq(S)
    PROVE  /\ <<x>> # << >> /\ Head(<<x>>) = x /\ Tail(<<x>>) = << >>
           /\ << >> \o << >> = << >> /\ << >> \o s = s /\ s \o << >> = s
  BY ConcatEmptySeq

\* The first request of every command but a replacement is its whole effect.
LEMMA FirstRequestWhole ==
    ASSUME NEW cfg, NEW c \in Commands, c.name \notin {"verify-version", "replace"},
           FirstRequests(c) # << >>, NEW next \in Int, Regular(cfg, next),
           NEW r, r = Head(FirstRequests(c)),
           NEW id, id = (IF r.op = "create" THEN next ELSE r.id),
           r.op = "create" => next \in CertificateIds
    PROVE  /\ Tail(FirstRequests(c)) = << >>
           /\ Requested(cfg, r, id, c.attributes) \in Effects(cfg, c)
<1>1. c.name \in Names
  BY DEF Commands
<1>2. \A op, n, targets : /\ Req(op, n, targets).op = op
                          /\ Req(op, n, targets).id = n
                          /\ Req(op, n, targets).targets = targets
  BY DEF Req
<1>3. \A x : Head(<<x>>) = x /\ Tail(<<x>>) = << >>
  OBVIOUS
<1>4. CASE c.name = "create"
  <2>1. FirstRequests(c) = <<Req("create", 0, {})>>
    BY <1>4 DEF FirstRequests
  <2>2. next \in CertificateIds
    BY <1>2, <1>3, <2>1
  <2>3. next \in Free(cfg)
    BY <2>2 DEF Regular, Free, Exists
  <2>4. CreateIn(cfg, next, c.attributes) \in Effects(cfg, c)
    BY <1>4, <2>3 DEF Effects
  <2>5. r.op = "create" => Requested(cfg, r, next, c.attributes) = CreateIn(cfg, next, c.attributes)
    BY DEF Requested
  <2> QED
    BY <1>2, <1>3, <2>1, <2>4, <2>5
<1>5. CASE c.name \in {"get", "list", "find-domain", "schema", "version"}
  <2>1. \E x : FirstRequests(c) = <<x>> /\ x.op \in {"read", "get"}
    BY <1>2, <1>5 DEF FirstRequests
  <2>2. cfg \in Effects(cfg, c)
    BY <1>5 DEF Effects
  <2>3. r.op \in {"read", "get"} => Requested(cfg, r, id, c.attributes) = cfg
    BY DEF Requested
  <2> QED
    BY <1>3, <2>1, <2>2, <2>3
<1>6. CASE c.name \in {"update", "delete", "connect", "disconnect"}
  <2>1. PICK x : /\ FirstRequests(c) = <<x>> /\ x.op = c.name /\ x.id = c.id
                 /\ c.name \in {"connect", "disconnect"} => x.targets = c.targets
    BY <1>2, <1>6 DEF FirstRequests
  <2>2. Requested(cfg, x, c.id, c.attributes) \in Effects(cfg, c)
    BY <1>6, <2>1 DEF Effects, Requested
  <2> QED
    BY <1>3, <1>6, <2>1, <2>2
<1>7. c.name \notin {"save", "activate", "validate"}
  BY DEF FirstRequests
<1> QED
  BY <1>1, <1>4, <1>5, <1>6, <1>7 DEF Names, Reading, ReadingInSession

LEMMA ProgressStep ==
    ASSUME NEW cfg \in Configurations, NEW c \in Commands, c.name # "verify-version",
           NEW next \in Nat, Regular(cfg, next),
           NEW todo \in Seq(Requests), todo # << >>, NEW created \in CertificateIds \cup {0},
           NEW work, Progress(cfg, c, todo, created, work),
           NEW id, id = (IF Head(todo).op = "create" THEN next
                         ELSE IF Head(todo).id = 0 THEN created ELSE Head(todo).id),
           Head(todo).op = "create" => next \in CertificateIds,
           ~Refused(work, Head(todo), id)
    PROVE  Progress(cfg, c, Tail(todo) \o RequestsAfter(c, Head(todo), work),
                    IF Head(todo).op = "create" THEN id ELSE created,
                    Requested(work, Head(todo), id, c.attributes))
<1> DEFINE r == Head(todo)
           after == Tail(todo) \o RequestsAfter(c, r, work)
           made == IF r.op = "create" THEN id ELSE created
           result == Requested(work, r, id, c.attributes)
<1>1. \A op, i, targets : /\ Req(op, i, targets).op = op
                          /\ Req(op, i, targets).id = i
                          /\ Req(op, i, targets).targets = targets
  BY DEF Req
<1>2. r \in Requests /\ Tail(todo) \in Seq(Requests)
  BY HeadTailProperties
<1>3. /\ 0 \notin CertificateIds /\ SingleLinks(cfg)
      /\ next \in CertificateIds => next \in Free(cfg)
  BY GatewayAssumption DEF Regular, Free, Exists
<1>4. Script(cfg, c) \in Seq(Requests)
  BY ScriptRequests
<1>5. CASE todo = FirstRequests(c) /\ created = 0 /\ work = cfg /\ c.name # "replace"
  <2>1. Tail(todo) = << >> /\ result \in Effects(cfg, c)
    <3>1. /\ r = Head(FirstRequests(c)) /\ FirstRequests(c) # << >>
          /\ id = (IF r.op = "create" THEN next ELSE r.id)
          /\ r.op = "create" => next \in CertificateIds
          /\ c.name \notin {"verify-version", "replace"} /\ next \in Int
      BY <1>5
    <3> HIDE DEF r
    <3>2. /\ Tail(FirstRequests(c)) = << >>
          /\ Requested(cfg, r, id, c.attributes) \in Effects(cfg, c)
      BY <3>1, FirstRequestWhole
    <3> QED
      BY <1>5, <3>2
  <2>2. RequestsAfter(c, r, work) = << >>
    BY <1>5 DEF RequestsAfter
  <2>3. after = << >>
    BY <2>1, <2>2, HeadOfOne
  <2> QED
    BY <2>1, <2>3 DEF Progress
<1>6. CASE todo = FirstRequests(c) /\ created = 0 /\ work = cfg /\ c.name = "replace"
  <2>1. todo = <<Req("get", c.id, {})>>
    BY <1>6 DEF FirstRequests
  <2>2. r = Req("get", c.id, {}) /\ Tail(todo) = << >>
    BY <2>1
  <2>3. Exists(cfg, c.id)
    BY <1>1, <1>6, <2>2 DEF Refused
  <2>4. RequestsAfter(c, r, work) = <<Req("create", 0, {})>> \o Script(cfg, c)
    <3> DEFINE one  == <<Req("create", 0, {})>>
               last == IF c.deleteOld THEN <<Req("delete", c.id, {})>> ELSE << >>
    <3>1. RequestsAfter(c, r, work) = one \o Moves(cfg, c.id) \o last
      BY <1>1, <1>6, <2>2 DEF RequestsAfter
    <3>2. Script(cfg, c) = Moves(cfg, c.id) \o last
      BY DEF Script
    <3>3. one \in Seq(Requests) /\ Moves(cfg, c.id) \in Seq(Requests) /\ last \in Seq(Requests)
      <4>1. Req("create", 0, {}) \in Requests /\ Req("delete", c.id, {}) \in Requests
        BY DEF Commands, Requests, Req
      <4> QED
        BY <4>1, ScriptRequests
    <3> HIDE DEF one, last
    <3>4. (one \o Moves(cfg, c.id)) \o last = one \o (Moves(cfg, c.id) \o last)
      BY <3>3, ConcatAssociative
    <3> QED
      BY <3>1, <3>2, <3>4 DEF one
  <2>5. RequestsAfter(c, r, work) \in Seq(Requests)
    BY <1>2, <1>6, RequestsType
  <2>6. after = <<Req("create", 0, {})>> \o Script(cfg, c)
    BY <2>2, <2>4, <2>5, HeadOfOne
  <2>7. result = cfg
    BY <1>1, <1>6, <2>2 DEF Requested
  <2> QED
    BY <1>6, <2>3, <2>6, <2>7 DEF Progress
<1>7. CASE /\ c.name = "replace" /\ Exists(cfg, c.id)
           /\ todo = <<Req("create", 0, {})>> \o Script(cfg, c) /\ work = cfg
  <2> DEFINE one == <<Req("create", 0, {})>>
  <2>1. one \in Seq(Requests) /\ Len(one) = 1 /\ one[1] = Req("create", 0, {})
    BY DEF Requests, Req
  <2>2. r = Req("create", 0, {}) /\ Tail(todo) = Script(cfg, c)
    <3> HIDE DEF one
    <3>1. /\ Len(todo) = 1 + Len(Script(cfg, c)) /\ Len(Script(cfg, c)) \in Nat
          /\ \A i \in 1 .. 1 + Len(Script(cfg, c)) :
                todo[i] = IF i <= 1 THEN one[i] ELSE Script(cfg, c)[i - 1]
      BY <1>4, <1>7, <2>1, ConcatProperties DEF one
    <3>2. r = Req("create", 0, {})
      BY <2>1, <3>1
    <3>3. /\ Tail(todo) \in Seq(Requests) /\ Len(Tail(todo)) = Len(todo) - 1
          /\ \A i \in 1 .. Len(Tail(todo)) : Tail(todo)[i] = todo[i + 1]
      BY HeadTailProperties
    <3>4. Tail(todo) = Script(cfg, c)
      <4>1. Len(Tail(todo)) = Len(Script(cfg, c))
        BY <3>1, <3>3
      <4>2. \A i \in 1 .. Len(Tail(todo)) : Tail(todo)[i] = Script(cfg, c)[i]
        BY <3>1, <3>3, <4>1
      <4> QED
        BY <1>4, <3>3, <4>1, <4>2, SeqEqual
    <3> QED
      BY <3>2, <3>4
  <2>3. r.op = "create"
    BY <1>1, <2>2
  <2>4. after = Script(cfg, c) /\ made = next /\ next \in Free(cfg)
    <3>1. RequestsAfter(c, r, work) = << >>
      BY <2>3 DEF RequestsAfter
    <3> QED
      BY <1>3, <1>4, <2>2, <2>3, <3>1, HeadOfOne
  <2>5. result = AfterRequests(cfg, c, next, {})
    <3>1. Replaceable(cfg, c, next)
      BY <1>7, <2>4 DEF Replaceable
    <3>2. result = CreateIn(cfg, next, c.attributes)
      BY <1>7, <2>3 DEF Requested
    <3>3. TargetsOf({}, "connect") = {} /\ TargetsOf({}, "disconnect") = {}
      BY DEF TargetsOf
    <3>4. (\E q \in {} : q.op = "delete") = FALSE
      OBVIOUS
    <3>5. AfterRequests(cfg, c, next, {}) = Replaced(cfg, c, next, {}, {}, FALSE)
      BY <3>3, <3>4 DEF AfterRequests
    <3> QED
      BY <3>1, <3>2, <3>5, ReplacedStart
  <2>6. {} \cup RequestsIn(after) = RequestsIn(Script(cfg, c))
    BY <2>4
  <2> HIDE DEF after, made, result
  <2> QED
    BY <1>7, <2>4, <2>5, <2>6 DEF Progress, after, made, result
<1>8. ASSUME c.name = "replace", Exists(cfg, c.id), created \in Free(cfg),
             NEW sent \in SUBSET RequestsIn(Script(cfg, c)),
             sent \cup RequestsIn(todo) = RequestsIn(Script(cfg, c)),
             work = AfterRequests(cfg, c, created, sent)
      PROVE  Progress(cfg, c, after, made, result)
  <2>1. RequestsIn(todo) = {r} \cup RequestsIn(Tail(todo))
    BY RequestsInParts
  <2>2. r \in RequestsIn(Script(cfg, c))
    BY <1>8, <2>1
  <2>3. Replaceable(cfg, c, created)
    BY <1>8 DEF Replaceable
  <2>4. /\ r.op # "create"
        /\ Requested(work, r, IF r.id = 0 THEN created ELSE r.id, c.attributes)
              = AfterRequests(cfg, c, created, sent \cup {r})
    BY <1>3, <1>8, <2>2, <2>3, ReplacementMoves
  <2>5. r.op # "get"
    BY <2>2, ScriptCovers
  <2>6. RequestsAfter(c, r, work) = << >>
    BY <2>5 DEF RequestsAfter
  <2>7. after = Tail(todo)
    BY <1>2, <2>6, HeadOfOne
  <2>8. made = created /\ result = AfterRequests(cfg, c, created, sent \cup {r})
    BY <2>4
  <2>9. /\ sent \cup {r} \in SUBSET RequestsIn(Script(cfg, c))
        /\ (sent \cup {r}) \cup RequestsIn(Tail(todo)) = RequestsIn(Script(cfg, c))
    BY <1>8, <2>1, <2>2
  <2> HIDE DEF after, made, result, r
  <2> QED
    BY <1>8, <2>7, <2>8, <2>9 DEF Progress
<1> HIDE DEF after, made, result, r
<1>9. \/ todo = FirstRequests(c) /\ created = 0 /\ work = cfg
      \/ /\ c.name = "replace" /\ Exists(cfg, c.id)
         /\ todo = <<Req("create", 0, {})>> \o Script(cfg, c) /\ work = cfg
      \/ /\ c.name = "replace" /\ Exists(cfg, c.id)
         /\ created \in Free(cfg)
         /\ \E sent \in SUBSET RequestsIn(Script(cfg, c)) :
               /\ sent \cup RequestsIn(todo) = RequestsIn(Script(cfg, c))
               /\ work = AfterRequests(cfg, c, created, sent)
  BY Zenon DEF Progress
<1> QED
  <2>1. CASE todo = FirstRequests(c) /\ created = 0 /\ work = cfg
    BY <1>5, <1>6, <2>1, Zenon
  <2>2. CASE /\ c.name = "replace" /\ Exists(cfg, c.id) /\ created \in Free(cfg)
             /\ \E sent \in SUBSET RequestsIn(Script(cfg, c)) :
                   /\ sent \cup RequestsIn(todo) = RequestsIn(Script(cfg, c))
                   /\ work = AfterRequests(cfg, c, created, sent)
    <3>1. PICK sent \in SUBSET RequestsIn(Script(cfg, c)) :
              /\ sent \cup RequestsIn(todo) = RequestsIn(Script(cfg, c))
              /\ work = AfterRequests(cfg, c, created, sent)
      BY <2>2
    <3> QED
      BY <1>8, <2>2, <3>1 DEF after, made, result, r
  <2> QED
    BY <1>7, <1>9, <2>1, <2>2, Zenon

\* A command with no request before it is done.
LEMMA ProgressDone ==
    ASSUME NEW cfg \in Configurations, NEW c \in Commands, c.name # "verify-version",
           NEW created, NEW work, Progress(cfg, c, << >>, created, work)
    PROVE  work \in Effects(cfg, c)
<1>1. CASE << >> = FirstRequests(c) /\ work = cfg
  <2>1. c.name \in Names /\ \A x : <<x>> # << >>
    BY DEF Commands
  <2>2. c.name \in {"save", "activate", "validate"}
    BY <1>1, <2>1 DEF FirstRequests, Names, Reading, ReadingInSession
  <2> QED
    BY <1>1, <2>2 DEF Effects
<1>2. << >> # <<Req("create", 0, {})>> \o Script(cfg, c)
  <2>1. Script(cfg, c) \in Seq(Requests) /\ <<Req("create", 0, {})>> \in Seq(Requests)
    <3>1. Req("create", 0, {}) \in Requests
      BY DEF Requests, Req
    <3> QED
      BY <3>1, ScriptRequests
  <2>2. Len(<<Req("create", 0, {})>>) = 1 /\ Len(Script(cfg, c)) \in Nat
    BY <2>1
  <2>3. Len(<<Req("create", 0, {})>> \o Script(cfg, c)) =
            Len(<<Req("create", 0, {})>>) + Len(Script(cfg, c))
    BY <2>1, ConcatProperties
  <2>4. Len(<< >>) = 0
    OBVIOUS
  <2> QED
    BY <2>2, <2>3, <2>4
<1>3. ASSUME c.name = "replace", Exists(cfg, c.id), created \in Free(cfg),
             NEW sent \in SUBSET RequestsIn(Script(cfg, c)),
             sent \cup RequestsIn(<< >>) = RequestsIn(Script(cfg, c)),
             work = AfterRequests(cfg, c, created, sent)
      PROVE  work \in Effects(cfg, c)
  <2> DEFINE all == RequestsIn(Script(cfg, c))
             deleted == \E q \in all : q.op = "delete"
  <2>1. sent = all
    BY <1>3, RequestsInOne
  <2>2. work = Replaced(cfg, c, created, TargetsOf(all, "connect"),
                        TargetsOf(all, "disconnect"), deleted)
    BY <1>3, <2>1 DEF AfterRequests
  <2>3. /\ TargetsOf(all, "connect") = LinkedTo(cfg, c.id)
        /\ TargetsOf(all, "disconnect") = LinkedTo(cfg, c.id)
        /\ deleted <=> c.deleteOld
    BY ScriptCovers
  <2>4. deleted = c.deleteOld
    BY <2>3 DEF Commands
  <2>5. Replaceable(cfg, c, created)
    BY <1>3 DEF Replaceable
  <2> HIDE DEF all, deleted
  <2> QED
    BY <1>3, <2>2, <2>3, <2>4, <2>5, ReplacedWhole
<1> QED
  BY <1>1, <1>2, <1>3 DEF Progress

(***************************************************************************)
(* What a step does to the invocations and to what they have changed.      *)
(***************************************************************************)
\* Nothing that was active or saved is forgotten.
Grown ==
    /\ Len(log) <= Len(log') /\ \A k \in 1 .. Len(log) : log'[k] = log[k]
    /\ Len(saved) <= Len(saved') /\ \A k \in 1 .. Len(saved) : saved'[k] = saved[k]

SameCommand(s) ==
    /\ invocation'[s].command = invocation[s].command
    /\ invocation'[s].todo = invocation[s].todo
    /\ invocation'[s].created = invocation[s].created
    /\ session'[s].base = session[s].base /\ session'[s].work = session[s].work

\* The ways in which a step may lead on without a request that takes effect.
Calm(s) ==
    /\ Working(s)' => Working(s)
    /\ session'[s].late => invocation[s].todo = << >>
    /\ invocation'[s].pc \notin {"idle", "config"}
    /\ invocation'[s].pc \in {"version", "create", "load"} =>
          invocation[s].pc \in {"version", "create", "load"}

LEMMA LengthsTyped ==
    ASSUME Inv
    PROVE  /\ Len(log) \in Nat \ {0} /\ Len(saved) \in Nat
           /\ \A k \in 1 .. Len(log) :
                 log[k].configuration \in Configurations /\ log[k].by \in Invocations \cup {None}
           /\ \A k \in 1 .. Len(saved) :
                 saved[k].configuration \in Configurations /\ saved[k].by \in Invocations
<1> DEFINE entries == [by : Invocations, configuration : Configurations]
<1>1. log \in Seq(Revisions) /\ log # << >> /\ saved \in Seq(entries)
  BY DEF Inv, AroundOK
<1>2. /\ \A x \in Revisions : x.configuration \in Configurations /\ x.by \in Invocations \cup {None}
      /\ \A x \in entries : x.configuration \in Configurations /\ x.by \in Invocations
  BY DEF Revisions
<1> HIDE DEF entries
<1> QED
  BY <1>1, <1>2, ElementOfSeq, EmptySeq

\* What is appended is the only thing that is new.
LEMMA LogGrows ==
    ASSUME Inv, NEW r, log' \in {log, Append(log, r)}, NEW e, saved' \in {saved, Append(saved, e)}
    PROVE  /\ Grown
           /\ \A k \in (Len(log) + 1) .. Len(log') :
                 log' = Append(log, r) /\ k = Len(log) + 1 /\ log'[k] = r
           /\ \A k \in (Len(saved) + 1) .. Len(saved') :
                 saved' = Append(saved, e) /\ k = Len(saved) + 1 /\ saved'[k] = e
<1> DEFINE entries == [by : Invocations, configuration : Configurations]
<1>1. log \in Seq(Revisions) /\ saved \in Seq(entries)
  BY DEF Inv, AroundOK
<1> HIDE DEF entries
<1>2. /\ Len(log) \in Nat /\ Len(saved) \in Nat
      /\ log' = Append(log, r) =>
            /\ Len(log') = Len(log) + 1 /\ log'[Len(log) + 1] = r
            /\ \A k \in 1 .. Len(log) : log'[k] = log[k]
      /\ saved' = Append(saved, e) =>
            /\ Len(saved') = Len(saved) + 1 /\ saved'[Len(saved) + 1] = e
            /\ \A k \in 1 .. Len(saved) : saved'[k] = saved[k]
  BY <1>1
<1>3. /\ log' = log => Len(log') = Len(log) /\ \A k \in 1 .. Len(log) : log'[k] = log[k]
      /\ saved' = saved => Len(saved') = Len(saved) /\ \A k \in 1 .. Len(saved) : saved'[k] = saved[k]
  OBVIOUS
<1> QED
  BY <1>2, <1>3 DEF Grown

\* What a session has loaded stays available.
LEMMA ProgressKept ==
    ASSUME Inv, Grown, NEW s \in Invocations, SameCommand(s), Progresses(s)
    PROVE  Progresses(s)'
<1>1. /\ Len(log) \in Nat /\ Len(saved) \in Nat /\ session[s].base \in Nat
      /\ Len(log) <= Len(log') /\ Len(saved) <= Len(saved')
  BY LengthsTyped DEF Inv, RecordsOK, SessionRecords, Grown
<1>2. LoadedBy(s) \subseteq LoadedBy(s)'
  <2>1. CASE invocation[s].command.load
    <3>1. /\ LoadedBy(s) = {saved[k].configuration : k \in 1 .. Len(saved)}
          /\ LoadedBy(s)' = {saved'[k].configuration : k \in 1 .. Len(saved')}
      BY <2>1 DEF LoadedBy, SameCommand
    <3>2. \A k \in 1 .. Len(saved) :
              saved'[k].configuration = saved[k].configuration /\ k \in 1 .. Len(saved')
      BY <1>1 DEF Grown
    <3> QED
      BY <3>1, <3>2
  <2>2. CASE ~invocation[s].command.load
    <3> DEFINE here == {session[s].base} \cap (1 .. Len(log))
               then == {session[s].base} \cap (1 .. Len(log'))
    <3>1. /\ LoadedBy(s) = {log[k].configuration : k \in here}
          /\ LoadedBy(s)' = {log'[k].configuration : k \in then}
      BY <2>2 DEF LoadedBy, SameCommand
    <3>2. \A k \in here : log'[k].configuration = log[k].configuration /\ k \in then
      BY <1>1 DEF Grown
    <3> QED
      BY <3>1, <3>2
  <2> QED
    BY <2>1, <2>2
<1> QED
  BY <1>2 DEF Progresses, SameCommand

\* A step that neither chooses a command, nor loads, nor takes effect.
LEMMA CalmFollows ==
    ASSUME Inv, Grown, NEW s \in Invocations, SameCommand(s), Calm(s), Follows(s)
    PROVE  Follows(s)'
  BY ProgressKept DEF Follows, Calm, SameCommand

LEMMA OthersFollow ==
    ASSUME Inv, Grown, NEW s \in Invocations, invocation'[s] = invocation[s],
           session'[s] = session[s], SavedBy(s)' = SavedBy(s), Follows(s)
    PROVE  Follows(s)'
<1>1. SameCommand(s) /\ (Working(s)' <=> Working(s))
  BY DEF SameCommand, Working
<1> QED
  BY <1>1, ProgressKept DEF Follows, SameCommand

\* The configurations stay regular.
LEMMA RegularKept ==
    ASSUME Inv, Inv', Grown, nextId <= nextId', GatewayRegular,
           \A k \in (Len(log) + 1) .. Len(log') : Regular(log'[k].configuration, nextId'),
           \A k \in (Len(saved) + 1) .. Len(saved') : Regular(saved'[k].configuration, nextId'),
           \A s \in Invocations : \/ session'[s].work = session[s].work
                                  \/ Regular(session'[s].work, nextId')
    PROVE  GatewayRegular'
<1>1. /\ Len(log) \in Nat /\ Len(saved) \in Nat /\ Len(log') \in Nat /\ Len(saved') \in Nat
      /\ nextId \in Int /\ nextId' \in Int
  BY LengthsTyped DEF Inv, AroundOK
<1>2. \A cfg : Regular(cfg, nextId) => Regular(cfg, nextId')
  BY <1>1, RegularGrows
<1>3. ASSUME NEW k \in 1 .. Len(log')
      PROVE  Regular(log'[k].configuration, nextId')
  <2>1. CASE k \in 1 .. Len(log)
    BY <1>2, <2>1 DEF GatewayRegular, Grown
  <2>2. CASE k \in (Len(log) + 1) .. Len(log')
    BY <2>2
  <2> QED
    BY <1>1, <2>1, <2>2
<1>4. ASSUME NEW k \in 1 .. Len(saved')
      PROVE  Regular(saved'[k].configuration, nextId')
  <2>1. CASE k \in 1 .. Len(saved)
    BY <1>2, <2>1 DEF GatewayRegular, Grown
  <2>2. CASE k \in (Len(saved) + 1) .. Len(saved')
    BY <2>2
  <2> QED
    BY <1>1, <2>1, <2>2
<1>5. \A s \in Invocations : Regular(session'[s].work, nextId')
  BY <1>2 DEF GatewayRegular
<1> QED
  BY <1>3, <1>4, <1>5 DEF GatewayRegular

(***************************************************************************)
(* Every change on its own.                                                *)
(***************************************************************************)
LoadedConfigurations == {saved[i].configuration : i \in 1 .. Len(saved)}
ActiveConfigurations == {log[k].configuration : k \in 1 .. Len(log)}

\* The k-th revision, and the k-th configuration that was saved.
WholeRevision(k) ==
    log[k].by \in Invocations =>
        \E cfg \in IF invocation[log[k].by].command.load THEN LoadedConfigurations
                   ELSE {log[k - 1].configuration} :
            WholeEffectOn(cfg, log[k].configuration, log[k].by)

WholeSave(k) ==
    \E cfg \in IF invocation[saved[k].by].command.load THEN LoadedConfigurations
               ELSE ActiveConfigurations :
        WholeEffectOn(cfg, saved[k].configuration, saved[k].by)

LEMMA ChangeByChange ==
    ASSUME Inv
    PROVE  EveryChangeIsWhole <=> /\ \A k \in 1 .. Len(log) : WholeRevision(k)
                                  /\ \A k \in 1 .. Len(saved) : WholeSave(k)
<1>1. \A k \in 1 .. Len(saved) : saved[k].by \in Invocations
  BY LengthsTyped
<1> QED
  BY <1>1 DEF EveryChangeIsWhole, WholeRevision, WholeSave, LoadedConfigurations,
              ActiveConfigurations, ActivatedBy, SavedBy

\* What was changed before the step stays a whole change: whoever has made it
\* carries out no other command.
LEMMA ChangesKept ==
    ASSUME Inv, Inv', Grown, log[1].by = None, EveryChangeIsWhole,
           \A s \in Invocations : \/ invocation'[s].command = invocation[s].command
                                  \/ ActivatedBy(s) = {} /\ SavedBy(s) = {},
           \A k \in (Len(log) + 1) .. Len(log') : WholeRevision(k)',
           \A k \in (Len(saved) + 1) .. Len(saved') : WholeSave(k)'
    PROVE  EveryChangeIsWhole' /\ log'[1].by = None
<1>1. /\ Len(log) \in Nat \ {0} /\ Len(saved) \in Nat /\ Len(log') \in Nat /\ Len(saved') \in Nat
      /\ Len(log) <= Len(log') /\ Len(saved) <= Len(saved')
      /\ \A k \in 1 .. Len(log) : log'[k] = log[k]
      /\ \A k \in 1 .. Len(saved) : saved'[k] = saved[k] /\ saved[k].by \in Invocations
  BY LengthsTyped DEF Grown
<1>2. /\ LoadedConfigurations \subseteq LoadedConfigurations'
      /\ ActiveConfigurations \subseteq ActiveConfigurations'
  <2>1. /\ \A k \in 1 .. Len(saved) : k \in 1 .. Len(saved')
        /\ \A k \in 1 .. Len(log) : k \in 1 .. Len(log')
    BY <1>1
  <2> QED
    BY <1>1, <2>1 DEF LoadedConfigurations, ActiveConfigurations
<1>3. ASSUME NEW k \in 1 .. Len(log)
      PROVE  WholeRevision(k)'
  <2> SUFFICES ASSUME log[k].by \in Invocations
               PROVE  WholeRevision(k)'
    BY <1>1 DEF WholeRevision
  <2> DEFINE s == log[k].by
  <2>1. k # 1 /\ k - 1 \in 1 .. Len(log)
    <3>1. k # 1
      BY CommandAssumption
    <3> QED
      BY <1>1, <3>1
  <2>2. log'[k] = log[k] /\ log'[k - 1] = log[k - 1]
    BY <1>1, <2>1
  <2>3. invocation'[s].command = invocation[s].command
    BY DEF ActivatedBy
  <2>4. WholeRevision(k)
    BY ChangeByChange
  <2> QED
    BY <1>2, <2>2, <2>3, <2>4 DEF WholeRevision, WholeEffectOn
<1>4. ASSUME NEW k \in 1 .. Len(saved)
      PROVE  WholeSave(k)'
  <2> DEFINE s == saved[k].by
  <2>1. saved'[k] = saved[k] /\ s \in Invocations
    BY <1>1
  <2>2. invocation'[s].command = invocation[s].command
    BY <2>1 DEF SavedBy
  <2>3. WholeSave(k)
    BY ChangeByChange
  <2> QED
    BY <1>2, <2>1, <2>2, <2>3 DEF WholeSave, WholeEffectOn
<1>5. /\ \A k \in 1 .. Len(log') : WholeRevision(k)'
      /\ \A k \in 1 .. Len(saved') : WholeSave(k)'
  <2>1. /\ \A k \in 1 .. Len(log') : k \in 1 .. Len(log) \/ k \in (Len(log) + 1) .. Len(log')
        /\ \A k \in 1 .. Len(saved') :
              k \in 1 .. Len(saved) \/ k \in (Len(saved) + 1) .. Len(saved')
    BY <1>1
  <2> QED
    BY <1>3, <1>4, <2>1
<1>6. EveryChangeIsWhole'
  <2>1. (EveryChangeIsWhole <=> /\ \A k \in 1 .. Len(log) : WholeRevision(k)
                                /\ \A k \in 1 .. Len(saved) : WholeSave(k))'
    BY ChangeByChange, PTL
  <2> QED
    BY <1>5, <2>1
<1> QED
  BY <1>1, <1>6

(***************************************************************************)
(* Each action keeps changes whole.                                        *)
(***************************************************************************)
\* A step that neither activates nor saves.
LEMMA QuietWhole ==
    ASSUME Inv, Inv', WholeInv, NEW s \in Invocations,
           UNCHANGED <<log, saved>>, nextId <= nextId',
           \A t \in Invocations \ {s} : invocation'[t] = invocation[t] /\ session'[t] = session[t],
           \/ invocation'[s].command = invocation[s].command
           \/ ActivatedBy(s) = {} /\ SavedBy(s) = {},
           session'[s].work = session[s].work \/ Regular(session'[s].work, nextId'),
           Follows(s)'
    PROVE  WholeInv'
<1>1. Grown /\ Len(log) \in Nat /\ Len(saved) \in Nat /\ \A t : SavedBy(t)' = SavedBy(t)
  BY LengthsTyped DEF Grown, SavedBy
<1>2. /\ (Len(log) + 1) .. Len(log') = {}
      /\ (Len(saved) + 1) .. Len(saved') = {}
  BY <1>1
<1>3. EveryChangeIsWhole' /\ log'[1].by = None
  BY <1>1, <1>2, ChangesKept DEF WholeInv
<1>4. GatewayRegular'
  BY <1>1, <1>2, RegularKept DEF WholeInv
<1>5. \A t \in Invocations \ {s} : Follows(t)'
  BY <1>1, OthersFollow DEF WholeInv
<1> QED
  BY <1>3, <1>4, <1>5 DEF WholeInv

LEMMA CalmWhole ==
    ASSUME Inv, Inv', WholeInv, NEW s \in Invocations, UNCHANGED <<log, saved, nextId>>,
           \A t \in Invocations \ {s} : invocation'[t] = invocation[t] /\ session'[t] = session[t],
           SameCommand(s), Calm(s)
    PROVE  WholeInv'
<1>1. Grown /\ nextId <= nextId'
  BY LengthsTyped DEF Grown, Inv, AroundOK
<1>2. Follows(s)'
  BY <1>1, CalmFollows DEF WholeInv
<1> QED
  BY <1>1, <1>2, QuietWhole DEF SameCommand

\* The steps that neither load nor take effect.
LEMMA PlainRows ==
    ASSUME Inv, NEW s \in Invocations, NEW pc, NEW err,
           Goto(s, pc) \/ Return(s, err) \/ Fails(s, err) \/ UNCHANGED invocation,
           Keeps(s) \/ Opens(s) \/ Closes(s) \/ Leaves(s, TRUE) \/ Leaves(s, FALSE)
    PROVE  /\ SameCommand(s)
           /\ \A t \in Invocations \ {s} :
                 invocation'[t] = invocation[t] /\ session'[t] = session[t]
           /\ Goto(s, pc) => invocation'[s].pc = pc
           /\ Return(s, err) => invocation'[s].pc = "done"
           /\ Fails(s, err) => invocation'[s].pc = "terminate"
           /\ Keeps(s) \/ Opens(s) => session'[s].late = session[s].late
           /\ Closes(s) \/ Leaves(s, FALSE) => session'[s].late = FALSE
<1>1. /\ invocation \in [Invocations -> InvocationRecords] /\ session \in [Invocations -> SessionRecords]
      /\ invocation[s] \in InvocationRecords /\ session[s] \in SessionRecords
  BY DEF Inv, RecordsOK
<1>2. /\ \A t \in Invocations \ {s} : invocation'[t] = invocation[t]
      /\ invocation'[s].command = invocation[s].command
      /\ invocation'[s].todo = invocation[s].todo
      /\ invocation'[s].created = invocation[s].created
      /\ Goto(s, pc) => invocation'[s].pc = pc
      /\ Return(s, err) => invocation'[s].pc = "done"
      /\ Fails(s, err) => invocation'[s].pc = "terminate"
  BY <1>1 DEF Goto, Return, Fails, InvocationRecords
<1>3. /\ \A t \in Invocations \ {s} : session'[t] = session[t]
      /\ session'[s].base = session[s].base /\ session'[s].work = session[s].work
      /\ Keeps(s) \/ Opens(s) => session'[s].late = session[s].late
      /\ Closes(s) \/ Leaves(s, FALSE) => session'[s].late = FALSE
  BY <1>1 DEF Keeps, Opens, Closes, Leaves, SessionRecords
<1> QED
  BY <1>2, <1>3 DEF SameCommand

\* Before its session is to be terminated, no activation of it is left behind.
LEMMA NotLate ==
    ASSUME Inv, NEW s \in Invocations
    PROVE  /\ invocation[s].pc \notin {"print", "terminate", "done", "killed"} =>
                 ~session[s].late /\ ActivatedBy(s) = {}
           /\ invocation[s].pc = "print" => ~session[s].late
           /\ invocation[s].pc \in {"validate", "activate", "save", "print"} =>
                 invocation[s].todo = << >>
  BY DEF Inv, Proper, Begun, Tells

LEMMA RunWhole ==
    ASSUME Inv, Inv', WholeInv, NEW s \in Invocations, Run(s)
    PROVE  WholeInv'
<1>1. PICK c : invocation' = [invocation EXCEPT
              ![s].command = c,
              ![s].pc = IF c.name \in ReadingInSession THEN "create" ELSE "version"]
  BY DEF Run
<1>2. invocation[s].pc = "idle" /\ UNCHANGED <<log, saved, nextId, session>>
  BY DEF Run
<1>3. ActivatedBy(s) = {} /\ ~session[s].late /\ SavedBy(s) = {} /\ invocation[s].created = 0
  BY <1>2, NotLate DEF WholeInv, Follows
<1>4. /\ \A t \in Invocations \ {s} : invocation'[t] = invocation[t]
      /\ invocation'[s].pc \in {"create", "version"}
      /\ invocation'[s].created = invocation[s].created
  BY <1>1 DEF Inv, RecordsOK, InvocationRecords
<1>5. ~session'[s].late
  BY <1>2, <1>3
<1>6. Follows(s)'
  BY <1>3, <1>4, <1>5 DEF Follows, Working
<1>7. nextId <= nextId'
  BY <1>2 DEF Inv, AroundOK
<1> QED
  BY <1>2, <1>3, <1>4, <1>6, <1>7, QuietWhole

\* The requests that leave the working copy as it is.
LEMMA PlainWhole ==
    ASSUME Inv, Inv', WholeInv, NEW s \in Invocations,
           \/ VerifyGatewayVersion(s) \/ CreateSession(s) \/ ValidateConfiguration(s)
           \/ PrintResult(s) \/ TerminateSession(s) \/ Kill(s)
    PROVE  WholeInv'
<1>1. CASE VerifyGatewayVersion(s)
  <2>1. /\ invocation[s].pc = "version" /\ UNCHANGED <<log, saved, nextId, session>>
        /\ Return(s, "none") \/ Return(s, "version") \/ Goto(s, "create")
    BY <1>1 DEF VerifyGatewayVersion
  <2>2. ~session[s].late
    BY <2>1, NotLate
  <2>3. /\ SameCommand(s)
        /\ \A t \in Invocations \ {s} : invocation'[t] = invocation[t] /\ session'[t] = session[t]
        /\ invocation'[s].pc \in {"done", "create"} /\ session'[s].late = session[s].late
    BY <2>1, PlainRows DEF Keeps
  <2>4. Calm(s)
    BY <2>1, <2>2, <2>3 DEF Calm, Working
  <2> QED
    BY <2>1, <2>3, <2>4, CalmWhole
<1>2. CASE CreateSession(s)
  <2>1. /\ invocation[s].pc = "create" /\ UNCHANGED <<log, saved, nextId>>
        /\ Return(s, "create") \/ Goto(s, "load")
        /\ Keeps(s) \/ Opens(s)
    BY <1>2 DEF CreateSession, Keeps, Opens
  <2>2. ~session[s].late
    BY <2>1, NotLate
  <2>3. /\ SameCommand(s)
        /\ \A t \in Invocations \ {s} : invocation'[t] = invocation[t] /\ session'[t] = session[t]
        /\ invocation'[s].pc \in {"done", "load"} /\ session'[s].late = session[s].late
    BY <2>1, PlainRows
  <2>4. Calm(s)
    BY <2>1, <2>2, <2>3 DEF Calm, Working
  <2> QED
    BY <2>1, <2>3, <2>4, CalmWhole
<1>3. CASE ValidateConfiguration(s)
  <2>1. /\ invocation[s].pc = "validate" /\ UNCHANGED <<log, saved, nextId>> /\ Keeps(s)
        /\ \/ Goto(s, "print") \/ Goto(s, "activate")
           \/ Fails(s, "messages") \/ Fails(s, "validate")
    BY <1>3 DEF ValidateConfiguration, MessagesFail, Keeps
  <2>2. ~session[s].late
    BY <2>1, NotLate
  <2>3. /\ SameCommand(s)
        /\ \A t \in Invocations \ {s} : invocation'[t] = invocation[t] /\ session'[t] = session[t]
        /\ invocation'[s].pc \in {"print", "terminate", "activate"} /\ session'[s].late = session[s].late
    BY <2>1, PlainRows
  <2>4. Calm(s)
    BY <2>1, <2>2, <2>3 DEF Calm, Working
  <2> QED
    BY <2>1, <2>3, <2>4, CalmWhole
<1>4. CASE TerminateSession(s)
  <2>1. /\ invocation[s].pc = "terminate" /\ UNCHANGED <<log, saved, nextId>>
        /\ Return(s, invocation[s].err) /\ (Keeps(s) \/ Closes(s))
    BY <1>4 DEF TerminateSession, Keeps, Closes
  <2>2. /\ SameCommand(s)
        /\ \A t \in Invocations \ {s} : invocation'[t] = invocation[t] /\ session'[t] = session[t]
        /\ invocation'[s].pc = "done" /\ session'[s].late \in {session[s].late, FALSE}
    BY <2>1, PlainRows
  <2>3. session[s].late => invocation[s].todo = << >>
    BY DEF WholeInv, Follows
  <2>4. Calm(s)
    BY <2>1, <2>2, <2>3 DEF Calm, Working
  <2> QED
    BY <2>1, <2>2, <2>4, CalmWhole
<1>5. CASE Kill(s)
  <2>1. UNCHANGED <<log, saved, nextId>> /\ Goto(s, "killed") /\ Keeps(s)
    BY <1>5 DEF Kill, Keeps
  <2>2. /\ SameCommand(s)
        /\ \A t \in Invocations \ {s} : invocation'[t] = invocation[t] /\ session'[t] = session[t]
        /\ invocation'[s].pc = "killed" /\ session'[s].late = session[s].late
    BY <2>1, PlainRows
  <2>3. session[s].late => invocation[s].todo = << >>
    BY DEF WholeInv, Follows
  <2>4. Calm(s)
    BY <2>2, <2>3 DEF Calm, Working
  <2> QED
    BY <2>1, <2>2, <2>4, CalmWhole
<1>6. CASE PrintResult(s)
  <2>1. /\ invocation[s].pc = "print" /\ UNCHANGED <<log, saved, nextId>> /\ Keeps(s)
        /\ Goto(s, "terminate") \/ Fails(s, "output")
    BY <1>6 DEF PrintResult, Keeps
  <2>2. ~session[s].late
    BY <2>1, NotLate
  <2>3. /\ SameCommand(s)
        /\ \A t \in Invocations \ {s} : invocation'[t] = invocation[t] /\ session'[t] = session[t]
        /\ invocation'[s].pc = "terminate" /\ session'[s].late = session[s].late
    BY <2>1, PlainRows
  <2>4. Calm(s)
    BY <2>1, <2>2, <2>3 DEF Calm, Working
  <2> QED
    BY <2>1, <2>3, <2>4, CalmWhole
<1> QED
  BY <1>1, <1>2, <1>3, <1>4, <1>5, <1>6

\* What an invocation has loaded is a configuration of the Gateway.
LEMMA LoadedTyped ==
    ASSUME Inv, GatewayRegular, NEW s \in Invocations, NEW cfg \in LoadedBy(s)
    PROVE  cfg \in Configurations /\ Regular(cfg, nextId)
  BY LengthsTyped DEF LoadedBy, GatewayRegular

LEMMA SessionCommand ==
    ASSUME Inv, NEW s \in Invocations,
           invocation[s].pc \notin {"idle", "version", "done", "killed"} \/ session[s].late
    PROVE  invocation[s].command \in Commands /\ invocation[s].command.name # "verify-version"
<1>1. invocation[s].pc # "idle" /\ (session[s].late => invocation[s].command.activate)
  BY DEF Inv, Proper, Begun
<1>2. "verify-version" \in Reading
  BY DEF Reading
<1> QED
  BY <1>1, <1>2, CommandTypes DEF Inv, Proper, Begun

LEMMA LoadedWhole ==
    ASSUME Inv, Inv', WholeInv, NEW s \in Invocations, NEW base \in Nat,
           NEW cfg \in Configurations, NEW last \in BOOLEAN, Loaded(s, base, cfg, last),
           invocation[s].pc \in {"load", "config"}, UNCHANGED <<log, saved, nextId>>,
           Regular(cfg, nextId), ~last => invocation[s].command.load,
           last => IF invocation[s].command.load
                   THEN \E i \in 1 .. Len(saved) : cfg = saved[i].configuration
                   ELSE base \in 1 .. Len(log) /\ cfg = log[base].configuration
    PROVE  WholeInv'
<1> DEFINE c    == invocation[s].command
           todo == FirstRequests(c)
           pc   == IF last THEN Continue(c, todo) ELSE "config"
<1>1. ~session[s].late /\ invocation[s].created = 0 /\ c \in Commands
  BY NotLate, SessionCommand DEF WholeInv, Follows
<1>2. /\ pc \in {"request", "validate", "save", "print", "terminate", "config"}
      /\ pc = "config" <=> ~last
  BY <1>1, ContinueLeads
<1>3. /\ invocation' = [invocation EXCEPT ![s].todo = todo, ![s].pc = pc]
      /\ session' = [session EXCEPT ![s].base = base, ![s].work = cfg]
  BY DEF Loaded
<1> HIDE DEF todo, pc
<1>4. /\ \A t \in Invocations \ {s} : invocation'[t] = invocation[t]
      /\ invocation'[s].pc = pc /\ invocation'[s].todo = todo
      /\ invocation'[s].created = 0 /\ invocation'[s].command = c
  BY <1>1, <1>3 DEF Inv, RecordsOK, InvocationRecords
<1>5. /\ \A t \in Invocations \ {s} : session'[t] = session[t]
      /\ session'[s].base = base /\ session'[s].work = cfg /\ ~session'[s].late
  BY <1>1, <1>3 DEF Inv, RecordsOK, SessionRecords
<1>6. Working(s)' => Progresses(s)'
  <2> SUFFICES ASSUME Working(s)'
               PROVE  Progresses(s)'
    OBVIOUS
  <2>1. last
    BY <1>2, <1>4, <1>5 DEF Working
  <2>2. cfg \in LoadedBy(s)'
    <3>1. CASE c.load
      <4>1. LoadedBy(s)' = {saved[k].configuration : k \in 1 .. Len(saved)}
        BY <1>4, <3>1 DEF LoadedBy
      <4> QED
        BY <2>1, <3>1, <4>1
    <3>2. CASE ~c.load
      <4>1. LoadedBy(s)' = {log[k].configuration : k \in {base} \cap (1 .. Len(log))}
        BY <1>4, <1>5, <3>2 DEF LoadedBy
      <4> QED
        BY <2>1, <3>2, <4>1
    <3> QED
      BY <3>1, <3>2
  <2>3. Progress(cfg, c, todo, 0, cfg)
    BY DEF Progress, todo
  <2> QED
    BY <1>4, <1>5, <2>2, <2>3 DEF Progresses
<1>7. Follows(s)'
  BY <1>2, <1>4, <1>5, <1>6 DEF Follows
<1>8. nextId <= nextId'
  BY DEF Inv, AroundOK
<1> QED
  BY <1>4, <1>5, <1>7, <1>8, QuietWhole

LEMMA LoadWhole ==
    ASSUME Inv, Inv', WholeInv, NEW s \in Invocations,
           LoadActiveConfiguration(s) \/ LoadConfiguration(s)
    PROVE  WholeInv'
<1>1. invocation[s].pc \in {"load", "config"} /\ UNCHANGED <<log, saved, nextId>>
  BY Zenon DEF LoadActiveConfiguration, LoadConfiguration
<1>2. \/ Loaded(s, Len(log), Active, ~invocation[s].command.load)
      \/ /\ invocation[s].pc = "config"
         /\ \E i \in 1 .. Len(saved) : Loaded(s, 0, saved[i].configuration, TRUE)
      \/ Fails(s, "load") /\ Keeps(s)
  BY Zenon DEF LoadActiveConfiguration, LoadConfiguration, Keeps
<1>3. CASE Loaded(s, Len(log), Active, ~invocation[s].command.load)
  <2> DEFINE base == Len(log)  last == ~invocation[s].command.load
  <2>1. /\ base \in Nat /\ base \in 1 .. Len(log) /\ last \in BOOLEAN
        /\ Active \in Configurations /\ Regular(Active, nextId) /\ Active = log[base].configuration
    BY LengthsTyped DEF Active, WholeInv, GatewayRegular
  <2>2. (last <=> ~invocation[s].command.load) /\ Loaded(s, base, Active, last)
    BY <1>3
  <2> HIDE DEF base, last
  <2> QED
    BY <1>1, <2>1, <2>2, LoadedWhole
<1>4. CASE /\ invocation[s].pc = "config"
           /\ \E i \in 1 .. Len(saved) : Loaded(s, 0, saved[i].configuration, TRUE)
  <2>1. PICK i \in 1 .. Len(saved) : Loaded(s, 0, saved[i].configuration, TRUE)
    BY <1>4
  <2> DEFINE cfg == saved[i].configuration
  <2>2. /\ cfg \in Configurations /\ Regular(cfg, nextId) /\ invocation[s].command.load
        /\ \E j \in 1 .. Len(saved) : cfg = saved[j].configuration
    BY <1>4, LengthsTyped DEF WholeInv, GatewayRegular, Follows
  <2>3. 0 \in Nat /\ TRUE \in BOOLEAN /\ Loaded(s, 0, cfg, TRUE)
    BY <2>1
  <2> HIDE DEF cfg
  <2> QED
    BY <1>1, <2>2, <2>3, LoadedWhole
<1>5. CASE Fails(s, "load") /\ Keeps(s)
  <2>1. ~session[s].late
    BY <1>1, NotLate
  <2>2. /\ SameCommand(s)
        /\ \A t \in Invocations \ {s} : invocation'[t] = invocation[t] /\ session'[t] = session[t]
        /\ invocation'[s].pc = "terminate" /\ session'[s].late = session[s].late
    BY <1>5, PlainRows
  <2>3. Calm(s)
    BY <2>1, <2>2 DEF Calm, Working
  <2> QED
    BY <1>1, <2>2, <2>3, CalmWhole
<1> QED
  BY <1>2, <1>3, <1>4, <1>5

\* A request that is answered brings the command forward, one that is lost ends it.
LEMMA RequestWhole ==
    ASSUME Inv, Inv', WholeInv, NEW s \in Invocations, Request(s)
    PROVE  WholeInv'
<1> DEFINE c    == invocation[s].command
           before == invocation[s].todo
           r    == Head(before)
           id   == IF r.op = "create" THEN nextId
                   ELSE IF r.id = 0 THEN invocation[s].created ELSE r.id
           work == session[s].work
           todo == Tail(before) \o RequestsAfter(c, r, work)
           made == IF r.op = "create" THEN id ELSE invocation[s].created
           result == Requested(work, r, id, c.attributes)
           pc   == Continue(c, todo)
<1>1. /\ invocation[s].pc = "request" /\ UNCHANGED <<log, saved>>
      /\ r.op = "create" => nextId \in CertificateIds
  BY Zenon DEF Request
<1>2. \/ /\ ~Refused(work, r, id) /\ TakesEffect(s, r, id)
         /\ invocation' = [invocation EXCEPT
                ![s].todo = todo, ![s].created = made, ![s].pc = pc]
      \/ Fails(s, "request") /\ UNCHANGED <<session, nextId>>
      \/ /\ Fails(s, "request")
         /\ ~Refused(work, r, id) /\ TakesEffect(s, r, id)
  BY DEF Request
<1>3. c \in Commands /\ c.name # "verify-version" /\ ~session[s].late
  BY <1>1, SessionCommand, NotLate
<1>4. /\ before \in Seq(Requests) /\ before # << >> /\ work \in Configurations
      /\ invocation[s].created \in CertificateIds \cup {0} /\ nextId \in Nat
  BY <1>1 DEF Inv, AroundOK, RecordsOK, InvocationRecords, SessionRecords, Proper, Begun
<1>5. r \in Requests
  BY <1>4, HeadTailProperties
<1>6. Regular(work, nextId) /\ Progresses(s)
  BY <1>1 DEF WholeInv, GatewayRegular, Follows, Working
<1>7. pc \in {"request", "validate", "save", "print", "terminate"}
  BY <1>3, ContinueLeads
<1>8. TakesEffect(s, r, id) =>
          /\ session' = [session EXCEPT ![s].work = result]
          /\ nextId' = IF r.op = "create" THEN nextId + 1 ELSE nextId
  BY DEF TakesEffect
<1>9. ~Refused(work, r, id) => Regular(result, IF r.op = "create" THEN nextId + 1 ELSE nextId)
  <2>1. r.op = "create" => id = nextId /\ nextId \in CertificateIds
    BY <1>1
  <2> HIDE DEF id, r, work
  <2> QED
    BY <1>3, <1>4, <1>5, <1>6, <2>1, RequestedRegular
<1>10. ASSUME ~Refused(work, r, id), NEW cfg \in LoadedBy(s),
              Progress(cfg, c, before, invocation[s].created, work)
       PROVE  Progress(cfg, c, todo, made, result)
  <2>1. cfg \in Configurations /\ Regular(cfg, nextId)
    BY <1>10, LoadedTyped DEF WholeInv
  <2>2. id = (IF Head(before).op = "create" THEN nextId
              ELSE IF Head(before).id = 0 THEN invocation[s].created ELSE Head(before).id)
    OBVIOUS
  <2> HIDE DEF id, before, work, c
  <2> QED
    BY <1>1, <1>3, <1>4, <1>10, <2>1, <2>2, ProgressStep
<1> HIDE DEF todo, made, result, pc, id, r, work
<1>11. /\ \A t \in Invocations \ {s} : invocation'[t] = invocation[t]
       /\ invocation'[s].command = c
       /\ \/ /\ invocation'[s].pc = pc /\ invocation'[s].todo = todo
             /\ invocation'[s].created = made
          \/ invocation'[s].pc = "terminate"
  <2>1. CASE invocation' = [invocation EXCEPT
                ![s].todo = todo, ![s].created = made, ![s].pc = pc]
    BY <2>1 DEF Inv, RecordsOK, InvocationRecords
  <2>2. CASE Fails(s, "request")
    BY <2>2 DEF Inv, RecordsOK, InvocationRecords, Fails
  <2> QED
    BY <1>2, <2>1, <2>2
<1>12. /\ \A t \in Invocations \ {s} : session'[t] = session[t]
       /\ session'[s].late = session[s].late /\ session'[s].base = session[s].base
       /\ \/ session'[s].work = result /\ ~Refused(work, r, id)
          \/ session'[s].work = session[s].work /\ Fails(s, "request")
       /\ nextId <= nextId'
       /\ session'[s].work # session[s].work => Regular(session'[s].work, nextId')
  <2>1. CASE /\ session' = [session EXCEPT ![s].work = result] /\ ~Refused(work, r, id)
             /\ nextId' = IF r.op = "create" THEN nextId + 1 ELSE nextId
    <3>1. /\ \A t \in Invocations \ {s} : session'[t] = session[t]
          /\ session'[s].late = session[s].late /\ session'[s].base = session[s].base
          /\ session'[s].work = result
      BY <2>1 DEF Inv, RecordsOK, SessionRecords
    <3>2. nextId <= nextId'
      BY <1>4, <2>1
    <3> QED
      BY <1>9, <2>1, <3>1, <3>2
  <2>2. CASE UNCHANGED <<session, nextId>> /\ Fails(s, "request")
    BY <1>4, <2>2
  <2> QED
    BY <1>2, <1>8, <2>1, <2>2
<1>13. Fails(s, "request") => invocation'[s].pc = "terminate"
  BY DEF Inv, RecordsOK, InvocationRecords, Fails
<1>14. Working(s)' => Progresses(s)'
  <2> SUFFICES ASSUME Working(s)'
               PROVE  Progresses(s)'
    OBVIOUS
  <2>1. /\ invocation'[s].todo = todo /\ invocation'[s].created = made
        /\ session'[s].work = result /\ ~Refused(work, r, id)
    BY <1>3, <1>11, <1>12, <1>13 DEF Working
  <2>2. PICK cfg \in LoadedBy(s) : Progress(cfg, c, before, invocation[s].created, work)
    BY <1>6 DEF Progresses, work
  <2>3. Progress(cfg, c, todo, made, result)
    BY <1>10, <2>1, <2>2
  <2>4. cfg \in LoadedBy(s)'
    BY <1>1, <1>11, <1>12, <2>2 DEF LoadedBy
  <2> QED
    BY <1>11, <2>1, <2>3, <2>4 DEF Progresses
<1>15. Follows(s)'
  BY <1>3, <1>7, <1>11, <1>12, <1>14 DEF Follows
<1> QED
  BY <1>1, <1>11, <1>12, <1>15, QuietWhole

\* What an invocation has worked out once all its requests were answered.
LEMMA WorkWhole ==
    ASSUME Inv, WholeInv, NEW s \in Invocations, Working(s), invocation[s].todo = << >>
    PROVE  \E cfg \in LoadedBy(s) : WholeEffectOn(cfg, session[s].work, s)
<1> DEFINE c == invocation[s].command
<1>1. PICK cfg \in LoadedBy(s) : Progress(cfg, c, << >>, invocation[s].created, session[s].work)
  BY DEF WholeInv, Follows, Progresses
<1>2. c \in Commands /\ c.name # "verify-version"
  BY SessionCommand DEF Working
<1>3. cfg \in Configurations
  BY LoadedTyped DEF WholeInv
<1> HIDE DEF c
<1>4. session[s].work \in Effects(cfg, c)
  BY <1>1, <1>2, <1>3, ProgressDone
<1> QED
  BY <1>1, <1>4 DEF WholeEffectOn, c

\* An activation makes the whole command active, on the configuration that was
\* active just before: nobody has activated another one since it was loaded.
LEMMA ActivatesWhole ==
    ASSUME Inv, Inv', WholeInv, NEW s \in Invocations, Activates(s), UNCHANGED <<saved, nextId>>,
           \A t \in Invocations \ {s} : invocation'[t] = invocation[t] /\ session'[t] = session[t],
           SameCommand(s), Calm(s), Working(s), invocation[s].todo = << >>
    PROVE  WholeInv'
<1> DEFINE r == [by |-> s, configuration |-> session[s].work]
           n == Len(log)
<1>1. /\ log' = Append(log, r) /\ saved' = saved
      /\ log' \in {log, Append(log, r)} /\ saved' \in {saved, Append(saved, r)}
  BY DEF Activates
<1>2. r.by = s /\ r.configuration = session[s].work
  OBVIOUS
<1> HIDE DEF r
<1>3. /\ Grown /\ n \in Nat \ {0} /\ Len(saved) \in Nat
      /\ \A k \in (n + 1) .. Len(log') : k = n + 1 /\ log'[k] = r
  <2>1. Grown /\ \A k \in (Len(log) + 1) .. Len(log') : k = Len(log) + 1 /\ log'[k] = r
    BY <1>1, LogGrows
  <2> QED
    BY <2>1, LengthsTyped
<1>4. (Len(saved) + 1) .. Len(saved') = {}
  BY <1>1, <1>3
<1>5. PICK cfg \in LoadedBy(s) : WholeEffectOn(cfg, session[s].work, s)
  BY WorkWhole
<1>6. invocation'[s].command = invocation[s].command
  BY DEF SameCommand
<1>7. cfg \in IF invocation[s].command.load THEN LoadedConfigurations ELSE {log[n].configuration}
  <2>1. CASE invocation[s].command.load
    BY <1>5, <2>1 DEF LoadedBy, LoadedConfigurations
  <2>2. CASE ~invocation[s].command.load
    <3>1. session[s].base \in 1 .. n /\ cfg = log[session[s].base].configuration
      BY <1>5, <2>2 DEF LoadedBy
    <3>2. session[s].base = n
      <4>1. session[s].base # 0
        BY <1>3, <3>1, SMT
      <4>2. TRUE \in {session[s].base = Len(log)}
        BY <4>1, Zenon DEF Activates, CurrentWorkingCopy
      <4> QED
        BY <4>2, Zenon DEF n
    <3> QED
      BY <2>2, <3>1, <3>2
  <2> QED
    BY <2>1, <2>2
<1>8. ASSUME NEW k \in (n + 1) .. Len(log')
      PROVE  WholeRevision(k)'
  <2>1. log'[k] = r /\ log'[k - 1] = log[n]
    BY <1>3 DEF Grown
  <2>2. LoadedConfigurations' = LoadedConfigurations
    BY <1>1 DEF LoadedConfigurations
  <2> QED
    BY <1>2, <1>5, <1>6, <1>7, <2>1, <2>2 DEF WholeRevision, WholeEffectOn
<1>9. EveryChangeIsWhole' /\ log'[1].by = None
  <2>1. \A t \in Invocations : invocation'[t].command = invocation[t].command
    BY <1>6
  <2> QED
    BY <1>3, <1>4, <1>8, <2>1, ChangesKept DEF WholeInv
<1>10. GatewayRegular'
  <2>1. \A k \in (n + 1) .. Len(log') : Regular(log'[k].configuration, nextId')
    BY <1>2, <1>3 DEF WholeInv, GatewayRegular
  <2>2. nextId <= nextId' /\ \A t \in Invocations : session'[t].work = session[t].work
    BY DEF SameCommand, Inv, AroundOK
  <2> QED
    BY <1>3, <1>4, <2>1, <2>2, RegularKept DEF WholeInv
<1>11. ASSUME NEW t \in Invocations
       PROVE  Follows(t)'
  <2>1. SavedBy(t)' = SavedBy(t)
    BY <1>1 DEF SavedBy
  <2> QED
    BY <1>3, <2>1, CalmFollows, OthersFollow DEF WholeInv
<1> QED
  BY <1>9, <1>10, <1>11 DEF WholeInv

LEMMA ActivateWhole ==
    ASSUME Inv, Inv', WholeInv, NEW s \in Invocations,
           ActivateConfiguration(s) \/ GatewayActivates(s)
    PROVE  WholeInv'
<1>1. CASE ActivateConfiguration(s)
  <2>1. /\ invocation[s].pc = "activate" /\ UNCHANGED <<saved, nextId>>
        /\ \/ Activates(s) /\ Keeps(s) /\ \E pc \in {"print", "terminate"} : Goto(s, pc)
           \/ Fails(s, "conflict") /\ Keeps(s) /\ UNCHANGED log
           \/ Fails(s, "activate") /\ (Keeps(s) \/ Leaves(s, TRUE)) /\ UNCHANGED log
    BY <1>1, OutputLeads DEF ActivateConfiguration, Keeps, Leaves
  <2>2. /\ SameCommand(s)
        /\ \A t \in Invocations \ {s} : invocation'[t] = invocation[t] /\ session'[t] = session[t]
        /\ invocation'[s].pc \in {"print", "terminate"}
    BY <2>1, PlainRows
  <2>3. Working(s) /\ invocation[s].todo = << >>
    BY <2>1, NotLate DEF Working
  <2>4. Calm(s)
    BY <2>2, <2>3 DEF Calm
  <2> QED
    BY <2>1, <2>2, <2>3, <2>4, ActivatesWhole, CalmWhole
<1>2. CASE GatewayActivates(s)
  <2>1. /\ session[s].late /\ Leaves(s, FALSE) /\ UNCHANGED <<saved, nextId, invocation>>
        /\ Activates(s) \/ UNCHANGED log
    BY <1>2 DEF GatewayActivates, Leaves
  <2>2. /\ SameCommand(s)
        /\ \A t \in Invocations \ {s} : invocation'[t] = invocation[t] /\ session'[t] = session[t]
        /\ session'[s].late = FALSE
    BY <2>1, PlainRows
  <2>3. /\ Working(s) /\ invocation[s].todo = << >>
        /\ invocation[s].pc \in {"terminate", "done", "killed"}
    BY <2>1, NotLate DEF Working, WholeInv, Follows
  <2>4. Calm(s)
    BY <2>1, <2>2, <2>3 DEF Calm
  <2> QED
    BY <2>1, <2>2, <2>3, <2>4, ActivatesWhole, CalmWhole
<1> QED
  BY <1>1, <1>2

LEMMA SavingGrows ==
    ASSUME Inv, NEW e, log' = log, saved' \in {saved, Append(saved, e)}
    PROVE  /\ Grown
           /\ \A k \in (Len(saved) + 1) .. Len(saved') : k = Len(saved) + 1 /\ saved'[k] = e
<1>1. log' \in {log, Append(log, e)}
  OBVIOUS
<1> QED
  BY <1>1, LogGrows

LEMMA SaveWhole ==
    ASSUME Inv, Inv', WholeInv, NEW s \in Invocations, SaveConfiguration(s)
    PROVE  WholeInv'
<1> DEFINE e == [by |-> s, configuration |-> session[s].work]
           n == Len(saved)
<1>1. /\ invocation[s].pc = "save" /\ UNCHANGED <<log, nextId>> /\ Keeps(s)
      /\ saved' \in {saved, Append(saved, e)}
      /\ (\E pc \in {"print", "terminate"} : Goto(s, pc)) \/ Fails(s, "save")
  BY OutputLeads DEF SaveConfiguration, Keeps
<1>2. e.by = s /\ e.configuration = session[s].work
  OBVIOUS
<1> HIDE DEF e
<1>3. /\ Grown /\ n \in Nat /\ Len(log) \in Nat
      /\ \A k \in (n + 1) .. Len(saved') : k = n + 1 /\ saved'[k] = e
  <2>1. log' = log /\ saved' \in {saved, Append(saved, e)}
    BY <1>1
  <2>2. Grown /\ \A k \in (Len(saved) + 1) .. Len(saved') : k = Len(saved) + 1 /\ saved'[k] = e
    BY <2>1, SavingGrows
  <2> QED
    BY <2>2, LengthsTyped
<1>4. (Len(log) + 1) .. Len(log') = {}
  BY <1>1, <1>3
<1>5. /\ SameCommand(s)
      /\ \A t \in Invocations \ {s} : invocation'[t] = invocation[t] /\ session'[t] = session[t]
      /\ invocation'[s].pc \in {"print", "terminate"}
  BY <1>1, PlainRows
<1>6. Working(s) /\ invocation[s].todo = << >>
  BY <1>1, NotLate DEF Working
<1>7. Calm(s)
  BY <1>5, <1>6 DEF Calm
<1>8. PICK cfg \in LoadedBy(s) : WholeEffectOn(cfg, session[s].work, s)
  BY <1>6, WorkWhole
<1>9. invocation'[s].command = invocation[s].command
  BY <1>5 DEF SameCommand
<1>10. cfg \in IF invocation[s].command.load THEN LoadedConfigurations' ELSE ActiveConfigurations'
  <2>1. CASE invocation[s].command.load
    <3>1. PICK k \in 1 .. n : cfg = saved[k].configuration
      BY <1>8, <2>1 DEF LoadedBy
    <3>2. k \in 1 .. Len(saved') /\ cfg = saved'[k].configuration
      BY <1>1, <1>2, <1>3, <3>1, LengthsTyped DEF Grown
    <3> QED
      BY <2>1, <3>2 DEF LoadedConfigurations
  <2>2. CASE ~invocation[s].command.load
    <3>1. \E k \in 1 .. Len(log) : cfg = log[k].configuration
      BY <1>8, <2>2 DEF LoadedBy
    <3> QED
      BY <1>1, <2>2, <3>1 DEF ActiveConfigurations
  <2> QED
    BY <2>1, <2>2
<1>11. ASSUME NEW k \in (n + 1) .. Len(saved')
       PROVE  WholeSave(k)'
  <2>1. saved'[k] = e
    BY <1>3
  <2> QED
    BY <1>2, <1>8, <1>9, <1>10, <2>1 DEF WholeSave, WholeEffectOn
<1>12. EveryChangeIsWhole' /\ log'[1].by = None
  <2>1. \A t \in Invocations : invocation'[t].command = invocation[t].command
    BY <1>5, <1>9
  <2> QED
    BY <1>3, <1>4, <1>11, <2>1, ChangesKept DEF WholeInv
<1>13. GatewayRegular'
  <2>1. \A k \in (n + 1) .. Len(saved') : Regular(saved'[k].configuration, nextId')
    BY <1>1, <1>2, <1>3 DEF WholeInv, GatewayRegular
  <2>2. nextId <= nextId' /\ \A t \in Invocations : session'[t].work = session[t].work
    BY <1>1, <1>5 DEF SameCommand, Inv, AroundOK
  <2> QED
    BY <1>3, <1>4, <2>1, <2>2, RegularKept DEF WholeInv
<1>14. ASSUME NEW t \in Invocations \ {s}
       PROVE  SavedBy(t)' = SavedBy(t)
  <2>1. \A k \in 1 .. n : saved'[k] = saved[k] /\ k \in 1 .. Len(saved')
    BY <1>3 DEF Grown
  <2>2. \A k \in 1 .. Len(saved') : k \in 1 .. n \/ saved'[k].by = s
    <3>1. Len(saved') \in Nat
      BY LengthsTyped
    <3> QED
      BY <1>2, <1>3, <3>1
  <2> QED
    BY <2>1, <2>2 DEF SavedBy
<1>15. ASSUME NEW t \in Invocations
       PROVE  Follows(t)'
  BY <1>3, <1>5, <1>7, <1>14, CalmFollows, OthersFollow DEF WholeInv
<1> QED
  BY <1>12, <1>13, <1>15 DEF WholeInv

LEMMA RevisionGrows ==
    ASSUME Inv, NEW r, log' = Append(log, r), saved' = saved
    PROVE  Grown /\ \A k \in (Len(log) + 1) .. Len(log') : log'[k] = r
<1>1. log' \in {log, Append(log, r)} /\ saved' \in {saved, Append(saved, r)}
  OBVIOUS
<1>2. Grown /\ \A k \in (Len(log) + 1) .. Len(log') : k = Len(log) + 1 /\ log'[k] = r
  BY <1>1, LogGrows
<1> QED
  BY <1>2

\* The Configuration Center's changes are nobody's command.
LEMMA AdministratorWhole ==
    ASSUME Inv, Inv', WholeInv, AdministratorActivates
    PROVE  WholeInv'
<1>1. PICK id \in {i \in CertificateIds : Exists(Active, i)}, t \in Targets :
          log' = Append(log, [by |-> None, configuration |-> Link(Active, id, {t})])
  BY DEF AdministratorActivates
<1> DEFINE r == [by |-> None, configuration |-> Link(Active, id, {t})]
<1>2. UNCHANGED <<saved, nextId, invocation, session>>
  BY DEF AdministratorActivates
<1>3. log' = Append(log, r) /\ r.by = None /\ r.configuration = Link(Active, id, {t})
  BY <1>1
<1> HIDE DEF r
<1>4. /\ Grown /\ Len(saved) \in Nat /\ (Len(saved) + 1) .. Len(saved') = {}
      /\ \A k \in (Len(log) + 1) .. Len(log') : log'[k] = r
  <2>1. Len(saved) \in Nat
    BY LengthsTyped
  <2>2. log' = Append(log, r) /\ saved' = saved
    BY <1>2, <1>3
  <2>3. Grown /\ \A k \in (Len(log) + 1) .. Len(log') : log'[k] = r
    BY <2>2, RevisionGrows, Zenon
  <2> QED
    BY <1>2, <2>1, <2>3
<1>5. Regular(Link(Active, id, {t}), nextId)
  BY LengthsTyped, LinkRegular DEF Active, WholeInv, GatewayRegular
<1>6. EveryChangeIsWhole' /\ log'[1].by = None
  <2>1. \A k \in (Len(log) + 1) .. Len(log') : WholeRevision(k)'
    BY <1>3, <1>4, CommandAssumption DEF WholeRevision
  <2> QED
    BY <1>2, <1>4, <2>1, ChangesKept DEF WholeInv
<1>7. GatewayRegular'
  <2>1. nextId <= nextId'
    BY <1>2 DEF Inv, AroundOK
  <2> QED
    BY <1>2, <1>3, <1>4, <1>5, <2>1, RegularKept DEF WholeInv
<1>8. ASSUME NEW s \in Invocations
      PROVE  Follows(s)'
  <2>1. SavedBy(s)' = SavedBy(s)
    BY <1>2 DEF SavedBy
  <2> QED
    BY <1>2, <1>4, <2>1, OthersFollow DEF WholeInv
<1> QED
  BY <1>6, <1>7, <1>8 DEF WholeInv

LEMMA InitWhole == Init => WholeInv
<1> SUFFICES ASSUME Init PROVE WholeInv
  OBVIOUS
<1>1. PICK c \in InitialConfigurations :
          /\ log = <<[by |-> None, configuration |-> c]>>
          /\ session = [s \in Invocations |->
                [state |-> "none", base |-> 0, work |-> c, late |-> FALSE]]
  BY DEF Init
<1>2. Len(log) = 1 /\ log[1].by = None /\ log[1].configuration = c
  BY <1>1
<1>3. saved = << >> /\ Len(saved) = 0 /\ nextId = FirstId
  BY DEF Init
<1>4. 1 .. 1 = {1} /\ 1 .. 0 = {}
  OBVIOUS
<1>5. Regular(c, FirstId)
  BY GatewayAssumption DEF Regular, SingleLinks
<1>6. GatewayRegular
  BY <1>1, <1>2, <1>3, <1>4, <1>5 DEF GatewayRegular
<1>7. EveryChangeIsWhole
  BY <1>2, <1>3, <1>4, CommandAssumption DEF EveryChangeIsWhole, ActivatedBy, SavedBy
<1>8. ASSUME NEW s \in Invocations
      PROVE  Follows(s)
  <2>1. invocation[s].pc = "idle" /\ invocation[s].created = 0 /\ ~session[s].late
    BY <1>1 DEF Init
  <2> QED
    BY <1>3, <1>4, <2>1 DEF Follows, Working, SavedBy
<1> QED
  BY <1>2, <1>6, <1>7, <1>8 DEF WholeInv

LEMMA NextWhole == Inv /\ Inv' /\ WholeInv /\ [Next]_vars => WholeInv'
<1> SUFFICES ASSUME Inv, Inv', WholeInv, [Next]_vars PROVE WholeInv'
  OBVIOUS
<1>1. CASE UNCHANGED vars
  BY <1>1 DEF vars, WholeInv, GatewayRegular, Follows, Working, Progresses, LoadedBy,
              SavedBy, EveryChangeIsWhole, ActivatedBy, WholeEffectOn
<1> QED
  BY <1>1, RunWhole, PlainWhole, LoadWhole, RequestWhole, ActivateWhole, SaveWhole,
     AdministratorWhole, Zenon DEF Next, Terminating

\* What an invocation activates or saves is its whole command, carried out on the
\* configuration that was active just before, or on one it could have loaded:
\* whatever it replaces, whoever else changes the configuration meanwhile, and
\* wherever its requests are lost or its process is killed.
THEOREM ChangesAreWhole == Spec => []EveryChangeIsWhole
<1>1. Inv /\ Inv' /\ WholeInv /\ [Next]_vars => WholeInv'
  BY NextWhole
<1>2. WholeInv => EveryChangeIsWhole
  BY DEF WholeInv
<1> QED
  BY <1>1, <1>2, InitWhole, Invariance, PTL DEF Spec

(***************************************************************************)
(* find-domain.                                                            *)
(***************************************************************************)
\* normalizeHostForMatch: lower case stays lower case, and no name gets lost.
LEMMA LowerCaseNames ==
    ASSUME NEW n \in Seq(Spellings)
    PROVE  /\ ToLower(n) \in Seq(Spellings)
           /\ ToLower(ToLower(n)) = ToLower(n)
           /\ ToLower(n) = << >> <=> n = << >>
<1>1. ToLower(n) \in Seq(Spellings) /\ Len(ToLower(n)) = Len(n)
  BY SearchAssumption DEF ToLower
<1>2. \A i \in DOMAIN n : ToLower(n)[i] = LowerCase[n[i]] /\ n[i] \in Spellings
  BY DEF ToLower
<1>3. \A i \in DOMAIN n : LowerCase[ToLower(n)[i]] = ToLower(n)[i]
  BY <1>2, SearchAssumption
<1>4. DOMAIN ToLower(n) = DOMAIN n
  BY DEF ToLower
<1>5. ToLower(ToLower(n)) = [i \in DOMAIN n |-> LowerCase[ToLower(n)[i]]]
  BY <1>4 DEF ToLower
<1>6. ToLower(ToLower(n)) = [i \in DOMAIN n |-> ToLower(n)[i]]
  BY <1>3, <1>5
<1>7. ToLower(ToLower(n)) = ToLower(n)
  BY <1>4, <1>6 DEF ToLower
<1> QED
  BY <1>1, <1>7

\* strings.HasSuffix and the number of labels together: one label in place of
\* the "*".
LEMMA WildcardExact ==
    ASSUME NEW p \in Seq(Spellings), NEW h \in Seq(Spellings), IsWildcard(p)
    PROVE  EndsWith(h, Tail(p)) /\ Len(h) = Len(Tail(p)) + 1
              <=> \E l \in Spellings : h = <<l>> \o Tail(p)
<1> DEFINE t == Tail(p)
<1>1. t \in Seq(Spellings) /\ Len(t) \in Nat /\ Len(t) > 0
  BY DEF IsWildcard
<1> HIDE DEF t
<1>2. ASSUME EndsWith(h, t), Len(h) = Len(t) + 1
      PROVE  \E l \in Spellings : h = <<l>> \o t
  <2>1. SubSeq(h, 2, Len(h)) = t
    BY <1>1, <1>2 DEF EndsWith
  <2>2. h[1] \in Spellings
    BY <1>1, <1>2
  <2>3. \A i \in 1 .. Len(t) : t[i] = h[i + 1]
    BY <1>1, <1>2, <2>1
  <2>4. h = <<h[1]>> \o t
    <3> DEFINE g == <<h[1]>> \o t
    <3>1. g \in Seq(Spellings) /\ Len(g) = Len(h)
      BY <1>1, <1>2, <2>2
    <3>2. ASSUME NEW i \in 1 .. Len(h) PROVE g[i] = h[i]
      <4>1. CASE i = 1
        BY <1>1, <2>2, <4>1
      <4>2. CASE i # 1
        <5>1. i - 1 \in 1 .. Len(t) /\ g[i] = t[i - 1]
          BY <1>1, <1>2, <2>2, <4>2
        <5> QED
          BY <2>3, <5>1
      <4> QED
        BY <4>1, <4>2
    <3> HIDE DEF g
    <3>3. g = h
      BY <3>1, <3>2, SeqEqual
    <3> QED
      BY <3>3 DEF g
  <2> QED
    BY <2>2, <2>4
<1>3. ASSUME NEW l \in Spellings, h = <<l>> \o t
      PROVE  EndsWith(h, t) /\ Len(h) = Len(t) + 1
  <2>1. Len(h) = Len(t) + 1
    BY <1>1, <1>3
  <2>2. SubSeq(h, 2, Len(h)) = t
    BY <1>1, <1>3, <2>1
  <2> QED
    BY <1>1, <2>1, <2>2 DEF EndsWith
<1> QED
  BY <1>2, <1>3 DEF t

\* hostnameMatchesPattern, for a name and a pattern as they are written.
LEMMA PatternExact ==
    ASSUME NEW pattern \in HostNames, NEW host \in HostNames
    PROVE  HostnameMatchesPattern(pattern, host)
              <=> /\ pattern.labels # << >> /\ host.labels # << >>
                  /\ StandsFor(ToLower(pattern.labels), ToLower(host.labels))
<1> DEFINE p == ToLower(pattern.labels)
           h == ToLower(host.labels)
<1>1. p \in Seq(Spellings) /\ h \in Seq(Spellings)
  BY LowerCaseNames DEF HostNames
<1>2. (p = << >> <=> pattern.labels = << >>) /\ (h = << >> <=> host.labels = << >>)
  BY LowerCaseNames DEF HostNames
<1>3. HostnameMatchesPattern(pattern, host)
         <=> /\ p # << >> /\ h # << >>
             /\ \/ p = h
                \/ IsWildcard(p) /\ EndsWith(h, Tail(p)) /\ Len(h) = Len(Tail(p)) + 1
  BY DEF HostnameMatchesPattern, NormalizeHostForMatch
<1> HIDE DEF p, h
<1>4. IsWildcard(p) => (EndsWith(h, Tail(p)) /\ Len(h) = Len(Tail(p)) + 1
                           <=> \E l \in Spellings : h = <<l>> \o Tail(p))
  BY <1>1, WildcardExact
<1>5. HostnameMatchesPattern(pattern, host) <=> p # << >> /\ h # << >> /\ StandsFor(p, h)
  BY <1>3, <1>4, Zenon DEF StandsFor
<1> QED
  BY <1>2, <1>5 DEF p, h

\* certificateMatchesDomain.
LEMMA CertificateExact ==
    ASSUME NEW c \in X509Certificates, NEW domain \in HostNames
    PROVE  CertificateMatchesDomain(c, domain) <=> domain.labels # << >> /\ Serves(c, domain)
<1> DEFINE target == NormalizeHostForMatch(domain)
           h == ToLower(domain.labels)
           names == c.dnsNames \cup {c.commonName}
<1>1. domain.labels \in Seq(Spellings) /\ h \in Seq(Spellings) /\ ToLower(h) = h
      /\ (h = << >> <=> domain.labels = << >>)
  BY LowerCaseNames DEF HostNames
<1>2. target = [labels |-> h, padded |-> FALSE, dot |-> FALSE]
  BY DEF NormalizeHostForMatch
<1>3. target \in HostNames /\ target.labels = h /\ ToLower(target.labels) = h
  BY <1>1, <1>2 DEF HostNames
<1>4. \A name \in names : name \in HostNames
  BY DEF X509Certificates
<1> HIDE DEF target
<1>5. \A name \in names :
         HostnameMatchesPattern(name, target)
            <=> name.labels # << >> /\ h # << >> /\ StandsFor(ToLower(name.labels), h)
  BY <1>3, <1>4, PatternExact
<1>6. CertificateMatchesDomain(c, domain)
         <=> /\ h # << >>
             /\ IF h \in DOMAIN AddressOf THEN AddressOf[h] \in c.ipAddresses
                ELSE \E name \in names : HostnameMatchesPattern(name, target)
  BY <1>3, Zenon DEF CertificateMatchesDomain, target
<1>7. Serves(c, domain)
         <=> IF h \in DOMAIN AddressOf THEN AddressOf[h] \in c.ipAddresses
             ELSE \E name \in names : name.labels # << >> /\ StandsFor(ToLower(name.labels), h)
  BY Zenon DEF Serves
<1> HIDE DEF h, names
<1>8. CASE h = << >>
  BY <1>1, <1>6, <1>8
<1>9. CASE h # << >>
  <2>1. (\E name \in names : HostnameMatchesPattern(name, target))
           <=> \E name \in names : name.labels # << >> /\ StandsFor(ToLower(name.labels), h)
    BY <1>5, <1>9, Zenon
  <2> QED
    BY <1>1, <1>6, <1>7, <1>9, <2>1, Zenon
<1> QED
  BY <1>8, <1>9

\* find-domain lists exactly the resources that serve the domain, for all names,
\* certificates and PEM texts.
THEOREM SearchExact ==
    ASSUME NEW pem \in Seq(PEMBlocks), NEW domain \in HostNames
    PROVE  FindsServing(pem, domain)
<1> DEFINE First(i) == /\ pem[i].type = "CERTIFICATE"
                       /\ \A k \in 1 .. i - 1 : pem[k].type # "CERTIFICATE"
<1>1. \A i \in DOMAIN pem : pem[i].content # NoPEM => pem[i].content \in X509Certificates
  <2>1. \A i \in DOMAIN pem : pem[i] \in PEMBlocks
    OBVIOUS
  <2> QED
    BY <2>1 DEF PEMBlocks
<1>2. \A i \in DOMAIN pem :
         pem[i].content # NoPEM =>
            (CertificateMatchesDomain(pem[i].content, domain)
                <=> domain.labels # << >> /\ Serves(pem[i].content, domain))
  BY <1>1, CertificateExact
<1>3. FirstCertificateFromPEM(pem) = {pem[i].content : i \in {j \in DOMAIN pem : First(j)}} \ {NoPEM}
  BY Zenon DEF FirstCertificateFromPEM
<1>4. pem # NoPEM
  BY SearchAssumption
<1> HIDE DEF First
<1>5. Found(pem, domain)
         <=> \E i \in DOMAIN pem : /\ First(i) /\ pem[i].content # NoPEM
                                   /\ CertificateMatchesDomain(pem[i].content, domain)
  BY <1>3, <1>4, Zenon DEF Found
<1>6. Found(pem, domain)
         <=> \E i \in DOMAIN pem : /\ First(i) /\ pem[i].content # NoPEM
                                   /\ domain.labels # << >> /\ Serves(pem[i].content, domain)
  BY <1>2, <1>5, Zenon
<1> QED
  BY <1>6, Zenon DEF FindsServing, First
=============================================================================
