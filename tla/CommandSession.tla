---------------------------- MODULE CommandSession ----------------------------
(***************************************************************************)
(* Invocations of airlock-certctl that talk to the Gateway: each is a      *)
(* process of its own, with a REST session of its own, whose requests      *)
(* interleave with those of other invocations and with the Configuration   *)
(* Center. Flags and attribute files are parsed before the first request   *)
(* and are not modelled, nor is what a command prints, only whether it can. *)
(*                                                                         *)
(* The Gateway (external) keeps certificates, each linked to the resources *)
(* that use it: virtual hosts, back-end groups, remote JWKS and nodes. A   *)
(* request is answered, has no effect and fails, or takes effect and fails.*)
(***************************************************************************)
EXTENDS Integers, FiniteSets, Sequences

CONSTANTS
    Invocations,
    CommandsOf,             \* the commands an invocation can be started with
    CertificateIds,
    Fields,                 \* the attributes of a certificate
    Values,                 \* and their values
    Omitted,                \* an attribute that an attribute file leaves out
    Unset,                  \* the value of an attribute that was never given
    Targets,                \* the resources a certificate can be linked to
    RelationshipOf,         \* the relationship each target belongs to
    ToOne,                  \* targets with at most one certificate
    BuiltIn,                \* targets whose ID is not positive
    None,
    InitialConfigurations,  \* what is active at the start
    FirstId,                \* the first ID the Gateway gives out
    MaxFaults,              \* bound: failed or lost requests, failed output
    MaxRevisions            \* bound: activations by the Configuration Center

\* The order in which replace-with-new moves them.
RelationshipOrder == <<"virtual-hosts", "back-end-groups", "remote-jwks", "nodes">>

Stored == [Fields -> Values \cup {Unset}]

Configurations ==
    [certificates : [CertificateIds -> Stored \cup {None}],
     linked : SUBSET (CertificateIds \X Targets)]

\* The commands that only read; verify-version does without a session.
ReadingInSession == {"list", "get", "find-domain", "validate", "schema", "version"}
Reading == ReadingInSession \cup {"verify-version"}

Names == {"create", "update", "replace", "delete", "connect", "disconnect",
          "save", "activate"} \cup Reading

\* The commands that return the error of printing their result, or of writing it
\* to a file (schema); the others drop it.
Printing ==
    {"create", "update", "replace", "list", "get", "find-domain", "validate", "schema"}

\* A command with its flags: the certificate it names, the attributes it
\* reads, the targets it links (one relationship's), --delete-old, --config-id,
\* --save-comment and --activate.
Commands ==
    [name : Names, id : CertificateIds \cup {0}, attributes : [Fields -> Values \cup {Omitted}],
     targets : SUBSET Targets, deleteOld : BOOLEAN, load : BOOLEAN,
     save : BOOLEAN, activate : BOOLEAN]

ASSUME CommandAssumption ==
    /\ \A s \in Invocations : CommandsOf[s] \subseteq Commands
    /\ \A s \in Invocations : \A c \in CommandsOf[s] : c.name \in Reading => ~c.activate
    /\ RelationshipOf \in [Targets -> {RelationshipOrder[i] : i \in 1 .. 4}]
    /\ ToOne \subseteq Targets /\ BuiltIn \subseteq Targets
    /\ None \notin Stored \cup Invocations
    /\ Omitted \notin Values
    /\ InitialConfigurations \subseteq Configurations
    /\ FirstId \in Nat \ {0} /\ MaxFaults \in Nat

\* What the Gateway has at the start: no certificate has an ID it is still to
\* give out, and no target that can have one certificate has two.
ASSUME GatewayAssumption ==
    /\ CertificateIds \subseteq Int \ {0}
    /\ \A cfg \in InitialConfigurations :
          /\ \A i \in CertificateIds : i >= FirstId => cfg.certificates[i] = None
          /\ \A t \in ToOne : \A i, j \in CertificateIds :
                {<<i, t>>, <<j, t>>} \subseteq cfg.linked => i = j

VARIABLES
    log,         \* the configurations that were active, the last one now
    saved,       \* the configurations that were saved, in order
    nextId,      \* the next certificate ID the Gateway gives out
    invocation,  \* each process: its command and how far it is
    session,     \* its REST session on the Gateway, with the working copy
    cut,         \* history: invocations whose create or terminate request failed
    faults       \* history: how many requests and outputs failed so far, and kills

vars == <<log, saved, nextId, invocation, session, cut, faults>>

Active == log[Len(log)].configuration

Steps == {"idle", "version", "create", "load", "config", "request", "validate",
          "activate", "save", "print", "terminate", "done", "killed"}

Errors == {"none", "version", "create", "load", "request", "messages",
           "validate", "activate", "conflict", "save", "output"}

\* What is left of a command after its session was set up. The certificate 0
\* is the one the command has created.
Requests ==
    [op : {"read", "get", "create", "update", "delete", "connect", "disconnect"},
     id : CertificateIds \cup {0}, targets : SUBSET Targets]

Init ==
    /\ \E c \in InitialConfigurations :
          /\ log = <<[by |-> None, configuration |-> c]>>
          /\ session = [s \in Invocations |->
                [state |-> "none", base |-> 0, work |-> c, late |-> FALSE]]
    /\ saved = << >>
    /\ nextId = FirstId
    /\ invocation = [s \in Invocations |->
          [pc |-> "idle", command |-> None, todo |-> << >>, created |-> 0, err |-> "none"]]
    /\ cut = {}
    /\ faults = 0

(***************************************************************************)
(* Requests on a working copy (external).                                  *)
(***************************************************************************)
Exists(cfg, id) == id \in CertificateIds /\ cfg.certificates[id] # None

LinkedTo(cfg, id) == {t \in Targets : <<id, t>> \in cfg.linked}

\* Linking a target with at most one certificate takes it from the other.
Link(cfg, id, targets) ==
    [cfg EXCEPT !.linked = (@ \ (CertificateIds \X (targets \cap ToOne)))
                               \cup ({id} \X targets)]

Unlink(cfg, id, targets) == [cfg EXCEPT !.linked = @ \ ({id} \X targets)]

\* Omitted attributes remain unchanged.
PatchedAttributes(old, sent) ==
    [f \in Fields |-> IF sent[f] = Omitted THEN old[f] ELSE sent[f]]

CreateIn(cfg, id, sent) ==
    [cfg EXCEPT !.certificates[id] = PatchedAttributes([f \in Fields |-> Unset], sent)]

UpdateIn(cfg, id, sent) ==
    [cfg EXCEPT !.certificates[id] = PatchedAttributes(@, sent)]

DeleteIn(cfg, id) == [Unlink(cfg, id, Targets) EXCEPT !.certificates[id] = None]

Requested(cfg, r, id, sent) ==
    CASE r.op \in {"read", "get"} -> cfg
      [] r.op = "create"     -> CreateIn(cfg, id, sent)
      [] r.op = "update"     -> UpdateIn(cfg, id, sent)
      [] r.op = "delete"     -> DeleteIn(cfg, id)
      [] r.op = "connect"    -> Link(cfg, id, r.targets)
      [] r.op = "disconnect" -> Unlink(cfg, id, r.targets)

\* The Gateway knows no such certificate, or the client rejects a target.
Refused(cfg, r, id) ==
    \/ r.op \notin {"read", "create"} /\ ~Exists(cfg, id)
    \/ r.targets \cap BuiltIn # {}

(***************************************************************************)
(* The requests of a command.                                              *)
(***************************************************************************)
Req(op, id, targets) == [op |-> op, id |-> id, targets |-> targets]

\* The i-th relationship: its targets, as they were read from the old certificate,
\* are connected to the new one and disconnected from the old.
Move(cfg, old, i) ==
    LET refs == {t \in LinkedTo(cfg, old) : RelationshipOf[t] = RelationshipOrder[i]}
    IN  IF refs = {} THEN << >>
        ELSE <<Req("connect", 0, refs), Req("disconnect", old, refs)>>

\* Mutant: the relationship added last is forgotten.
MovesWithoutNodes(cfg, old) == Move(cfg, old, 1) \o Move(cfg, old, 2) \o Move(cfg, old, 3)

\* One relationship after the other.
Moves(cfg, old) ==
    Move(cfg, old, 1) \o Move(cfg, old, 2) \o Move(cfg, old, 3) \o Move(cfg, old, 4)

FirstRequests(c) ==
    CASE c.name = "create"                    -> <<Req("create", 0, {})>>
      [] c.name \in {"replace", "get"}        -> <<Req("get", c.id, {})>>
      [] c.name \in {"list", "find-domain", "schema", "version"} -> <<Req("read", 0, {})>>
      [] c.name \in {"save", "activate", "validate"} -> << >>
      [] c.name \in {"update", "delete"}      -> <<Req(c.name, c.id, {})>>
      [] c.name \in {"connect", "disconnect"} -> <<Req(c.name, c.id, c.targets)>>

\* replace-with-new learns from the old certificate what it has to move.
RequestsAfter(c, r, cfg) ==
    IF c.name = "replace" /\ r.op = "get"
    THEN <<Req("create", 0, {})>> \o Moves(cfg, c.id)
             \o (IF c.deleteOld THEN <<Req("delete", c.id, {})>> ELSE << >>)
    ELSE << >>

\* What is left once the configuration is finished with.
Output(c) == IF c.name \in Printing THEN "print" ELSE "terminate"

\* finishConfig: --activate comes before --save-comment, and without either of
\* them the working copy ends with the session.
Finishing(c) ==
    IF c.activate \/ c.name = "validate" THEN "validate" ELSE IF c.save THEN "save" ELSE Output(c)

\* Mutant: the last request is not sent.
ContinueTooEarly(c, todo) == IF Len(todo) <= 1 THEN Finishing(c) ELSE "request"

Continue(c, todo) == IF todo = << >> THEN Finishing(c) ELSE "request"

(***************************************************************************)
(* The ways a request ends.                                                *)
(***************************************************************************)
Fault == faults < MaxFaults /\ faults' = faults + 1

Answered == UNCHANGED faults

Goto(s, step) == invocation' = [invocation EXCEPT ![s].pc = step]

Return(s, error) == invocation' = [invocation EXCEPT ![s].pc = "done", ![s].err = error]

\* Mutant: an error returns at once, with the session left open.
FailsAtOnce(s, error) == Return(s, error)

\* An error of what is done in the session: the session is terminated first.
Fails(s, error) == invocation' = [invocation EXCEPT ![s].pc = "terminate", ![s].err = error]

(***************************************************************************)
(* One invocation.                                                         *)
(***************************************************************************)
Run(s) ==
    /\ invocation[s].pc = "idle"
    /\ \E c \in CommandsOf[s] :
          invocation' = [invocation EXCEPT
              ![s].command = c,
              ![s].pc = IF c.name \in ReadingInSession THEN "create" ELSE "version"]
    /\ UNCHANGED <<log, saved, nextId, session, cut, faults>>

VerifyGatewayVersion(s) ==
    /\ invocation[s].pc = "version"
    /\ \/ /\ Answered
          /\ IF invocation[s].command.name = "verify-version"
             THEN Return(s, "none")
             ELSE Goto(s, "create")
       \/ Answered /\ Return(s, "version")  \* another release line
       \/ Fault /\ Return(s, "version")
    /\ UNCHANGED <<log, saved, nextId, session, cut>>

CreateSession(s) ==
    /\ invocation[s].pc = "create"
    /\ \/ /\ Answered
          /\ session' = [session EXCEPT ![s].state = "open"]
          /\ Goto(s, "load")
          /\ UNCHANGED cut
       \/ /\ Fault
          /\ Return(s, "create")
          /\ \/ UNCHANGED <<session, cut>>
             \/ /\ session' = [session EXCEPT ![s].state = "open"]
                /\ cut' = cut \cup {s}
    /\ UNCHANGED <<log, saved, nextId>>

\* The next step in a session in which cfg is loaded.
Loaded(s, base, cfg, last) ==
    LET c == invocation[s].command  todo == FirstRequests(c)
    IN  /\ session' = [session EXCEPT ![s].base = base, ![s].work = cfg]
        /\ invocation' = [invocation EXCEPT
              ![s].todo = todo,
              ![s].pc = IF last THEN Continue(c, todo) ELSE "config"]

LoadActiveConfiguration(s) ==
    /\ invocation[s].pc = "load"
    /\ \/ Answered /\ Loaded(s, Len(log), Active, ~invocation[s].command.load)
       \/ Fault /\ Fails(s, "load") /\ UNCHANGED session
    /\ UNCHANGED <<log, saved, nextId, cut>>

\* --config-id: a saved configuration is loaded over the active one. What it is
\* compared with at its activation is up to the Gateway: base is 0.
LoadConfiguration(s) ==
    /\ invocation[s].pc = "config"
    /\ \/ /\ Answered
          /\ \E i \in 1 .. Len(saved) : Loaded(s, 0, saved[i].configuration, TRUE)
       \/ /\ Answered
          /\ saved = << >>
          /\ Fails(s, "load")
          /\ UNCHANGED session
       \/ Fault /\ Fails(s, "load") /\ UNCHANGED session
    /\ UNCHANGED <<log, saved, nextId, cut>>

\* A request of the command takes effect.
TakesEffect(s, r, id) ==
    /\ session' = [session EXCEPT
          ![s].work = Requested(@, r, id, invocation[s].command.attributes)]
    /\ nextId' = IF r.op = "create" THEN nextId + 1 ELSE nextId

Request(s) ==
    LET r    == Head(invocation[s].todo)
        id   == IF r.op = "create" THEN nextId
                ELSE IF r.id = 0 THEN invocation[s].created ELSE r.id
        todo == Tail(invocation[s].todo)
                    \o RequestsAfter(invocation[s].command, r, session[s].work)
    IN  /\ invocation[s].pc = "request"
        /\ r.op = "create" => nextId \in CertificateIds
        /\ \/ /\ Answered
              /\ ~Refused(session[s].work, r, id)
              /\ TakesEffect(s, r, id)
              /\ invocation' = [invocation EXCEPT
                    ![s].todo = todo,
                    ![s].created = IF r.op = "create" THEN id ELSE @,
                    ![s].pc = Continue(invocation[s].command, todo)]
           \/ /\ Answered
              /\ Refused(session[s].work, r, id)
              /\ Fails(s, "request")
              /\ UNCHANGED <<session, nextId>>
           \/ /\ Fault
              /\ Fails(s, "request")
              /\ \/ UNCHANGED <<session, nextId>>
                 \/ ~Refused(session[s].work, r, id) /\ TakesEffect(s, r, id)
        /\ UNCHANGED <<log, saved, cut>>

\* Mutant: the messages end the command, not with an error.
MessagesEndCommand(s) == Goto(s, "terminate")

\* One message of severity ERROR is an error of the command.
MessagesFail(s) == Fails(s, "messages")

ValidateConfiguration(s) ==
    /\ invocation[s].pc = "validate"
    /\ \/ Answered /\ invocation[s].command.name = "validate" /\ Goto(s, "print")
       \/ /\ Answered
          /\ invocation[s].command.name # "validate"
          /\ Goto(s, "activate") \/ MessagesFail(s)
       \/ Fault /\ Fails(s, "validate")
    /\ UNCHANGED <<log, saved, nextId, session, cut>>

\* Mutant: the Gateway is asked to ignore that the working copy is outdated.
IgnoringOutdated(s) == {TRUE}

\* The command line has no policy: an outdated working copy is rejected.
CurrentWorkingCopy(s) ==
    IF session[s].base = 0 THEN BOOLEAN ELSE {session[s].base = Len(log)}

Activates(s) ==
    /\ TRUE \in CurrentWorkingCopy(s)
    /\ log' = Append(log, [by |-> s, configuration |-> session[s].work])

ActivateConfiguration(s) ==
    /\ invocation[s].pc = "activate"
    /\ \/ /\ Answered
          /\ Activates(s)
          /\ Goto(s, Output(invocation[s].command))
          /\ UNCHANGED session
       \/ /\ Answered
          /\ FALSE \in CurrentWorkingCopy(s)
          /\ Fails(s, "conflict")
          /\ UNCHANGED <<log, session>>
       \/ /\ Fault
          /\ Fails(s, "activate")
          /\ session' \in {session, [session EXCEPT ![s].late = TRUE]}
          /\ UNCHANGED log
    /\ UNCHANGED <<saved, nextId, cut>>

SaveConfiguration(s) ==
    /\ invocation[s].pc = "save"
    /\ \/ /\ Answered
          /\ saved' = Append(saved, [by |-> s, configuration |-> session[s].work])
          /\ Goto(s, Output(invocation[s].command))
       \/ /\ Fault
          /\ Fails(s, "save")
          /\ \/ UNCHANGED saved
             \/ saved' = Append(saved, [by |-> s, configuration |-> session[s].work])
    /\ UNCHANGED <<log, nextId, session, cut>>

\* The result is printed last: an error leaves what is activated or saved as it
\* is, and becomes the command's.
PrintResult(s) ==
    /\ invocation[s].pc = "print"
    /\ \/ Answered /\ Goto(s, "terminate")
       \/ Fault /\ Fails(s, "output")
    /\ UNCHANGED <<log, saved, nextId, session, cut>>

\* The deferred TerminateSession, whose error is dropped.
TerminateSession(s) ==
    /\ invocation[s].pc = "terminate"
    /\ \/ /\ Answered
          /\ session' = [session EXCEPT ![s].state = "closed", ![s].late = FALSE]
          /\ UNCHANGED cut
       \/ /\ Fault
          /\ cut' = cut \cup {s}
          /\ \/ UNCHANGED session
             \/ session' = [session EXCEPT ![s].state = "closed", ![s].late = FALSE]
    /\ Return(s, invocation[s].err)
    /\ UNCHANGED <<log, saved, nextId>>

(***************************************************************************)
(* The environment.                                                        *)
(***************************************************************************)
\* The Gateway gets to an activation whose client has given up on it.
GatewayActivates(s) ==
    /\ session[s].late
    /\ \/ Activates(s)
       \/ FALSE \in CurrentWorkingCopy(s) /\ UNCHANGED log
    /\ session' = [session EXCEPT ![s].late = FALSE]
    /\ UNCHANGED <<saved, nextId, invocation, cut, faults>>

\* The process is interrupted: nothing of it runs any more. Of a request in
\* flight the answer is lost first.
Kill(s) ==
    /\ invocation[s].pc \notin {"idle", "done", "killed"}
    /\ Fault
    /\ Goto(s, "killed")
    /\ UNCHANGED <<log, saved, nextId, session, cut>>

\* The Configuration Center changes a certificate or what it is linked to.
AdministratorActivates ==
    /\ Len(log) < MaxRevisions
    /\ \E id \in {i \in CertificateIds : Exists(Active, i)}, t \in Targets :
          LET cfg == Link(Active, id, {t})
          IN  /\ cfg # Active
              /\ log' = Append(log, [by |-> None, configuration |-> cfg])
    /\ UNCHANGED <<saved, nextId, invocation, session, cut, faults>>

Terminating ==
    /\ \A s \in Invocations : invocation[s].pc \in {"done", "killed"}
    /\ UNCHANGED vars

Next ==
    \/ \E s \in Invocations :
          \/ Run(s) \/ VerifyGatewayVersion(s) \/ CreateSession(s)
          \/ LoadActiveConfiguration(s) \/ LoadConfiguration(s) \/ Request(s)
          \/ ValidateConfiguration(s) \/ ActivateConfiguration(s)
          \/ SaveConfiguration(s) \/ PrintResult(s) \/ TerminateSession(s)
          \/ GatewayActivates(s) \/ Kill(s)
    \/ AdministratorActivates
    \/ Terminating

Spec == Init /\ [][Next]_vars

(***************************************************************************)
(* Correctness.                                                            *)
(***************************************************************************)
ActivatedBy(s) == {k \in 1 .. Len(log) : log[k].by = s}

SavedBy(s) == {k \in 1 .. Len(saved) : saved[k].by = s}

Returned(s) == invocation[s].pc = "done"

Free(cfg) == {n \in CertificateIds : ~Exists(cfg, n)}

\* A command carried out on a configuration as a whole. A replacement leaves
\* every target of the old certificate with the new one, and no target with the
\* old.
Effects(cfg, c) ==
    CASE c.name = "create"     -> {CreateIn(cfg, n, c.attributes) : n \in Free(cfg)}
      [] c.name = "update"     -> {UpdateIn(cfg, c.id, c.attributes)}
      [] c.name = "delete"     -> {DeleteIn(cfg, c.id)}
      [] c.name = "connect"    -> {Link(cfg, c.id, c.targets)}
      [] c.name = "disconnect" -> {Unlink(cfg, c.id, c.targets)}
      [] c.name = "replace"    ->
            {LET new   == CreateIn(cfg, n, c.attributes)
                 moved == {IF l[1] = c.id THEN <<n, l[2]>> ELSE l : l \in cfg.linked}
             IN  [certificates |-> IF c.deleteOld THEN [new.certificates EXCEPT ![c.id] = None]
                                   ELSE new.certificates,
                  linked |-> moved] : n \in Free(cfg)}
      [] OTHER                 -> {cfg}

WholeEffectOn(cfg, result, s) == result \in Effects(cfg, invocation[s].command)

\* docs/CERTIFICATE_ROTATION.md: a replacement is one atomic change. What an
\* invocation activates or saves is its whole command, carried out on the
\* configuration that was active just before, or on the one it has loaded:
\* never a part of it, and never at the expense of somebody else's change.
EveryChangeIsWhole ==
    \A s \in Invocations :
        LET loaded == {saved[i].configuration : i \in 1 .. Len(saved)}
            active == {log[k].configuration : k \in 1 .. Len(log)}
        IN  /\ \A k \in ActivatedBy(s) :
                  \E cfg \in IF invocation[s].command.load THEN loaded
                             ELSE {log[k - 1].configuration} :
                      WholeEffectOn(cfg, log[k].configuration, s)
            /\ \A k \in SavedBy(s) :
                  \E cfg \in IF invocation[s].command.load THEN loaded ELSE active :
                      WholeEffectOn(cfg, saved[k].configuration, s)

\* The exit status and the error tell whether the change is active: 0 with
\* --activate means it is, and so does an error of printing the result, which
\* comes after it; 0 without --activate, or an error of anything else but the
\* activation request, means that it is not and will not be.
ExitStatusTellsActivation ==
    \A s \in Invocations :
        Returned(s) =>
            LET active == ActivatedBy(s) # {}  c == invocation[s].command
            IN  CASE invocation[s].err \in {"none", "output"} -> active <=> c.activate
                  [] invocation[s].err = "activate"           -> c.activate
                  [] OTHER -> ~active /\ ~session[s].late

\* docs/CLI.md: every configuration command terminates its session. One that
\* stays open is that of a process that was killed, or its own requests failed.
SessionsTerminated ==
    \A s \in Invocations :
        (Returned(s) /\ session[s].state = "open") => s \in cut

\* --save-comment: "save the configuration with this comment after the change".
SavedAsRequested ==
    \A s \in Invocations :
        (Returned(s) /\ invocation[s].err = "none" /\ invocation[s].command.save) =>
            SavedBy(s) # {}

\* Types, and what the requests rest on: no command is finished before all of
\* its requests were answered.
TypeOK ==
    /\ log \in Seq([by : Invocations \cup {None}, configuration : Configurations])
    /\ saved \in Seq([by : Invocations, configuration : Configurations])
    /\ nextId \in Nat \ {0}
    /\ invocation \in [Invocations ->
          [pc : Steps, command : Commands \cup {None}, todo : Seq(Requests),
           created : CertificateIds \cup {0}, err : Errors]]
    /\ session \in [Invocations ->
          [state : {"none", "open", "closed"}, base : 0 .. Len(log),
           work : Configurations, late : BOOLEAN]]
    /\ cut \subseteq Invocations
    /\ faults \in 0 .. MaxFaults
    /\ \A s \in Invocations :
          /\ invocation[s].pc = "request" => invocation[s].todo # << >>
          /\ invocation[s].pc \in {"validate", "activate", "save", "print"} =>
                invocation[s].todo = << >>
          /\ session[s].late => invocation[s].command.activate
=============================================================================
