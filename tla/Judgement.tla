----------------------------- MODULE Judgement -----------------------------
(***************************************************************************)
(* What becomes of one event on its way to an agent: which label and which *)
(* instruction the interpreter of its channel gives it                     *)
(* (packages/interpreter, pipeline.ts), and whether the start gate of the  *)
(* worker lets it start (packages/policy-gateway) under the policy that    *)
(* was made of file and environment when the worker started.               *)
(*                                                                         *)
(* Between these decisions channels are edited and workers restarted with  *)
(* other settings.  Pipeline and ExecutionPlane have the interleavings of  *)
(* many events and tasks; here there is one event at a time, and the       *)
(* decisions are computed, not chosen.  What a model or an endpoint        *)
(* answers is external: anything at all.  Of a text only whether it is     *)
(* empty or blank is told apart.                                           *)
(***************************************************************************)
EXTENDS Configuration, SequencesExt

CONSTANTS Channel,
          Label,      \* labels that appear in configurations
          LabelLists, ChannelLists, \* what a file may exempt, as sets
          OtherLabel, \* a label that no configuration has
          None        \* undefined

ASSUME JudgementAssumption ==
  /\ OtherLabel \notin Label /\ None \notin Label \union Channel
  /\ LabelLists \subseteq SUBSET Label /\ ChannelLists \subseteq SUBSET Channel

VARIABLES
  conf,    \* Channel -> the configuration its runtime was made of
  event,   \* the event that is being judged, and how far it got
  file,    \* what the worker's configuration file said when it started
  env,     \* SAMDI_REQUIRE_APPROVAL then; "" stands for unset too
  policy   \* the policy of its start gate, None if it did not come up

vars == <<conf, event, file, env, policy>>

\* interpreter.labels, a list without repetition, and the channel's label.
Catalogue == { s \in UNION { [1 .. n -> Label] : n \in 0 .. 2 } : IsInjective(s) }
Conf == [mode : {"passthrough", "claude", "http"}, label : Label, labels : Catalogue]

Text == {"text", "blank", "empty"}

NoEvent == [at |-> "none", channel |-> None, conf |-> None, label |-> None,
            instruction |-> None, offered |-> {}, approved |-> FALSE]

\* The startGate section of a file: left out, written without a body (YAML
\* null), or a mapping with any of its three keys.
Perhaps(key, values) == {empty} \union { Property(key, Leaf(v)) : v \in values }
Section ==
  { Spread(Spread(r, l), c) : r \in Perhaps("requireApproval", BOOLEAN),
                              l \in Perhaps("autoPassLabels", LabelLists),
                              c \in Perhaps("autoPassChannels", ChannelLists) }
StartGate(v) == Map(Property("startGate", v))
File == {Map(empty), StartGate(null)} \union { StartGate(Map(s)) : s \in Section }
Env == {"", "false", "true"}

Phase == {"none", "asked", "pending", "awaiting", "running", "rejected", "stalled"}

Event == [at : Phase, channel : Channel \union {None}, conf : Conf \union {None},
          label : Label \union {OtherLabel, None}, instruction : Text \union {None},
          offered : SUBSET Label, approved : BOOLEAN]

Policy == [requireApproval : BOOLEAN, autoPassLabels : SUBSET Label, autoPassChannels : SUBSET Channel]

JudgementTypeOK ==
  /\ conf \in [Channel -> Conf]
  /\ event \in Event
  /\ file \in File /\ env \in Env
  /\ policy \in Policy \union {None}

-----------------------------------------------------------------------------
(***************************************************************************)
(* loadWorkerConfig, for the section startGate.                            *)
(***************************************************************************)

\* Fault: any value of the variable turns approval on.
RequireApprovalOfAnyValue(e) == IF e # "" THEN Leaf(TRUE) ELSE undefined

RequireApproval(e) == IF e # "" THEN Leaf(e # "false") ELSE undefined

Merged(f, e) ==
  deepMerge(f, Overrides(StartGate(Map(Property("requireApproval", RequireApproval(e))))))

\* workerConfigSchema: defaults for what is left out; null is refused, and
\* the worker does not come up.
Parsed(m) ==
  IF "startGate" \in DOMAIN m.map /\ ~isPlainObject(m.map["startGate"]) THEN None
  ELSE LET given == IF "startGate" \in DOMAIN m.map THEN m.map["startGate"].map ELSE empty
           get(key, default) == IF key \in DOMAIN given THEN given[key].value ELSE default
       IN  [requireApproval  |-> get("requireApproval", TRUE),
            autoPassLabels   |-> get("autoPassLabels", {}),
            autoPassChannels |-> get("autoPassChannels", {})]

loadWorkerConfig(f, e) == Parsed(Merged(f, e))

-----------------------------------------------------------------------------
(***************************************************************************)
(* The interpreters: from what was answered to a verdict.                  *)
(***************************************************************************)

\* External: the answer of a model or of an endpoint.
Reply == [verdict : {"fast_pass", "complete", "needs_context", "noise", "garbage"},
          label : Label \union {OtherLabel}, instruction : Text]

Dispatching == {"fast_pass", "complete"}

\* The labels interpretThread offers.
Offered(c) == IF c.labels # <<>> THEN c.labels ELSE <<c.label>>

NoTask == [verdict |-> "needs_context"]

\* The structured output must name an offered label even where it is not
\* used; a verdict without work to do waits.
claude(labels, reply) ==
  IF \/ reply.verdict = "garbage" \/ reply.label \notin ToSet(labels)
     \/ reply.verdict \in Dispatching /\ reply.instruction # "text"
  THEN NoTask ELSE reply

\* Fault: the label is taken as it comes.
httpUnrepaired(labels, reply) ==
  IF reply.verdict = "garbage" \/ (reply.verdict \in Dispatching /\ reply.instruction = "empty")
  THEN NoTask ELSE reply

\* interpretVerdictSchema wants an instruction that is not empty; a label that
\* was not offered becomes the first that was.
http(labels, reply) ==
  IF reply.verdict = "garbage" \/ (reply.verdict \in Dispatching /\ reply.instruction = "empty")
  THEN NoTask
  ELSE IF reply.label \notin ToSet(labels) THEN [reply EXCEPT !.label = Head(labels)] ELSE reply

Verdict(c, reply) ==
  IF c.mode = "claude" THEN claude(Offered(c), reply) ELSE http(Offered(c), reply)

-----------------------------------------------------------------------------
(***************************************************************************)
(* The start gate.                                                         *)
(***************************************************************************)

\* Fault: the policy is looked at before the instruction.
evaluatePolicyFirst(p, task) ==
  IF \/ ~p.requireApproval
     \/ task.channel \in p.autoPassChannels
     \/ task.label \in p.autoPassLabels
  THEN "allow"
  ELSE IF task.instruction # "text" THEN "deny" ELSE "ask"

evaluate(p, task) ==
  IF task.instruction # "text" THEN "deny"
  ELSE IF \/ ~p.requireApproval
          \/ task.channel \in p.autoPassChannels
          \/ task.label \in p.autoPassLabels
       THEN "allow" ELSE "ask"

-----------------------------------------------------------------------------
Init ==
  /\ conf \in [Channel -> Conf]
  /\ event = NoEvent
  /\ file \in File
  /\ env \in Env
  /\ policy = loadWorkerConfig(file, env)

\* An event comes in: a task at once, or a question to the interpreter of the
\* runtime the channel has now.  Payloads are not empty (ingestRequestSchema).
Arrive(c, payload) ==
  /\ event.at \in {"none", "running", "rejected"}
  /\ payload # "empty"
  /\ event' = IF conf[c].mode = "passthrough"
              THEN [NoEvent EXCEPT !.at = "pending", !.channel = c, !.label = conf[c].label,
                                   !.instruction = payload, !.offered = {conf[c].label}]
              ELSE [NoEvent EXCEPT !.at = "asked", !.channel = c, !.conf = conf[c]]
  /\ UNCHANGED <<conf, file, env, policy>>

\* The interpreter answers, and the verdict is applied; the runtime may have
\* been replaced in the meantime.
Answer(reply) ==
  LET verdict == Verdict(event.conf, reply)
  IN  /\ event.at = "asked"
      /\ event' = IF verdict.verdict \in Dispatching
                  THEN [event EXCEPT !.at = "pending", !.conf = None, !.label = verdict.label,
                                     !.instruction = verdict.instruction,
                                     !.offered = ToSet(Offered(event.conf))]
                  ELSE NoEvent
      /\ UNCHANGED <<conf, file, env, policy>>

\* ChannelRegistry.update
Edit(c, new) ==
  /\ conf' = [conf EXCEPT ![c] = new]
  /\ conf' # conf
  /\ UNCHANGED <<event, file, env, policy>>

\* The worker claims the task and asks its gate.
Gate ==
  /\ event.at = "pending" /\ policy # None
  /\ LET verdict == evaluate(policy, event)
     IN  event' = [event EXCEPT !.at = CASE verdict = "deny"  -> "rejected"
                                         [] verdict = "ask"   -> "awaiting"
                                         [] verdict = "allow" -> "running"]
  /\ UNCHANGED <<conf, file, env, policy>>

Decide(decision) ==
  /\ event.at = "awaiting"
  /\ event' = IF decision = "approve" THEN [event EXCEPT !.at = "running", !.approved = TRUE]
                                      ELSE [event EXCEPT !.at = "rejected"]
  /\ UNCHANGED <<conf, file, env, policy>>

\* The worker is started anew, with what file and environment say now; a task
\* in its hands is stalled.
Restart(f, e) ==
  /\ <<f, e>> # <<file, env>>
  /\ file' = f /\ env' = e /\ policy' = loadWorkerConfig(f, e)
  /\ event' = IF event.at \in {"awaiting", "running"} THEN [event EXCEPT !.at = "stalled"] ELSE event
  /\ UNCHANGED conf

\* The user has a stalled task tried again: it is judged from the beginning.
Retry ==
  /\ event.at = "stalled"
  /\ event' = [event EXCEPT !.at = "pending", !.approved = FALSE]
  /\ UNCHANGED <<conf, file, env, policy>>

Next ==
  \/ \E c \in Channel :
       \/ \E payload \in Text : Arrive(c, payload)
       \/ \E new \in Conf : Edit(c, new)
  \/ \E reply \in Reply : Answer(reply)
  \/ Gate
  \/ \E decision \in {"approve", "deny"} : Decide(decision)
  \/ \E f \in File, e \in Env : Restart(f, e)
  \/ Retry

Spec == Init /\ [][Next]_vars

-----------------------------------------------------------------------------
(***************************************************************************)
(* Properties.                                                             *)
(***************************************************************************)

\* What the operator has said, read off the sources themselves.
FileSays(key, v) ==
  \E p \in Paths(file) : p.at = <<"startGate", key>> /\ p.says = Leaf(v)

FileExempts(key, x) ==
  \E p \in Paths(file) : p.at = <<"startGate", key>> /\ x \in p.says.value

Exempt ==
  \/ env = "false"
  \/ env = "" /\ FileSays("requireApproval", FALSE)
  \/ FileExempts("autoPassChannels", event.channel)
  \/ FileExempts("autoPassLabels", event.label)

(***************************************************************************)
(* A human is asked about a task unless the operator has exempted it, and  *)
(* is not asked about an exempt one (docs/configuration.md:392): whatever  *)
(* the interpreter answered, whoever edited the channel, and although the  *)
(* environment overrides a part of the section the exemptions are in.      *)
(***************************************************************************)
AskedUnlessExempt ==
  /\ event.at = "running" /\ ~event.approved => Exempt
  /\ event.at = "awaiting" => ~Exempt

(***************************************************************************)
(* A task has a label its channel offered when the interpreter was asked   *)
(* (types.ts:5): an interpreter cannot route work outside the catalogue,   *)
(* be its answer wrong or the catalogue edited while it was thinking.      *)
(***************************************************************************)
OnlyOfferedLabels ==
  event.at \notin {"none", "asked"} => event.label \in event.offered

(***************************************************************************)
(* No agent is started, and no human is asked, for an instruction without  *)
(* content, though a channel passes blank payloads on, an endpoint may     *)
(* answer with blanks, and the task may be exempt from approval.           *)
(***************************************************************************)
NothingBlankStarts == event.at \in {"awaiting", "running"} => event.instruction = "text"

(***************************************************************************)
(* The environment wins over the file at the very paths it names, and the  *)
(* file keeps the others (load.ts:34, 45): an override of one key does not *)
(* wipe out its section.                                                   *)
(***************************************************************************)
EnvironmentWinsPathwise ==
  Paths(Merged(file, env)) =
    Overlay(file, IF env = "" THEN Map(empty)
                  ELSE StartGate(Map(Property("requireApproval", Leaf(env # "false")))))

=============================================================================
