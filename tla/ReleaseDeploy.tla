---------------------------- MODULE ReleaseDeploy ----------------------------
(***************************************************************************)
(* deploy() of scripts/release_deploy.py: one release of the API and, when *)
(* there is one, of the suggestion worker, against a cloud whose calls may *)
(* fail before or after they took effect.                                  *)
(*                                                                         *)
(* The versions of the program are numbers; a revision is the version it   *)
(* runs.  deploy() is a list of calls: each takes effect and is judged, or *)
(* raises and replaces what is left of the list.                           *)
(***************************************************************************)
EXTENDS Integers, Sequences, FiniteSets, SequencesExt

CONSTANTS
    Latest,           \* bound: the last version that is released
    MaxTrouble        \* bound: calls that fail or return something wrong, traffic moved by others

ASSUME ReleaseDeployAssumption == Latest \in Nat

VARIABLES
    deploy,           \* the locals of the deploy() that runs, or ran last, and of its
                      \* history: what moved the traffic beside it, and whether it was cut
    cloud,            \* of each service: what it was told to serve and what it serves
    schema,           \* the version the database is migrated to
    trouble

releaseVars == <<deploy, cloud, schema, trouble>>

Services == {"api", "worker"}
Unknown  == -1

Trouble == trouble < MaxTrouble /\ trouble' = trouble + 1

-----------------------------------------------------------------------------
(* The calls, in the order of the code.                                    *)
Calls(do, s) == [i \in DOMAIN do |-> [do |-> do[i], on |-> s]]

Checks(s) == Calls(<<"check">>, s)
Roll(s)   == Calls(<<"deploy", "identify", "look", "try", "promote", "verify", "prove">>, s)
GoBack(s) == Calls(<<"restore", "reverify", "resmoke">>, s)
Untag(s)  == Calls(<<"untag">>, s)

If(cond, calls) == IF cond THEN calls ELSE <<>>

Plan(worker) ==
    Checks("api") \o If(worker, Checks("worker")) \o Calls(<<"update", "migrate">>, "job")
    \o If(worker, Roll("worker")) \o Roll("api")

Restoration_ApiOnly(d) == If("api" \in d.attempted, GoBack("api"))

Restoration(d) ==
    If("api" \in d.attempted, GoBack("api")) \o If("worker" \in d.attempted, GoBack("worker"))

Cleaning(d) ==
    If("api" \in d.created, Untag("api")) \o If("worker" \in d.created, Untag("worker"))

ReleaseInit ==
    /\ deploy \in [phase : {"idle"}, worker : BOOLEAN, version : {0}, failed : {FALSE},
                   previous : {[s \in Services |-> Unknown]}, seen : {[s \in Services |-> Unknown]},
                   restore : {[s \in Services |-> "not attempted"]}, cleanup : {"ok"},
                   calls : {<<>>}, attempted : {{}}, created : {{}},
                   moved : {{}}, cut : {FALSE}]
    /\ cloud = [s \in Services |-> [want |-> 0, serving |-> 0, made |-> "nothing", tagged |-> FALSE]]
    /\ schema = 0
    /\ trouble = 0

-----------------------------------------------------------------------------
(* What a call does.  The traffic is where it was told to be, or arrives   *)
(* there later.                                                            *)
Told(s, v, waited) ==
    [cloud EXCEPT ![s].want = v, ![s].serving = IF waited THEN v ELSE @]

Effect(c, image, waited) ==
    CASE c.do = "deploy"  -> [cloud EXCEPT ![c.on].made = image, ![c.on].tagged = TRUE]
      [] c.do = "promote" -> Told(c.on, deploy.version, waited)
      [] c.do = "restore" -> Told(c.on, deploy.previous[c.on], waited)
      [] c.do = "untag"   -> [cloud EXCEPT ![c.on].tagged = FALSE]
      [] OTHER            -> cloud

(* upgrade head: a database never goes back.                               *)
Migrated == IF schema < deploy.version THEN deploy.version ELSE schema

(* What is noted before a call is made.                                    *)
Begun_NoTag(c, d) == IF c.do = "promote" THEN [d EXCEPT !.attempted = @ \cup {c.on}] ELSE d

Begun(c, d) ==
    CASE c.do = "deploy"  -> [d EXCEPT !.created = @ \cup {c.on}]
      [] c.do = "promote" -> [d EXCEPT !.attempted = @ \cup {c.on}]
      [] OTHER            -> d

(* The exception handler, and a restoration that fails in its turn.        *)
Raises(d) == [d EXCEPT !.failed = TRUE, !.calls = Restoration(d)]

GivenUp(d, s, seen) ==
    [d EXCEPT !.restore[s] = "failed", !.seen[s] = seen,
              !.calls = If(s = "api" /\ "worker" \in d.attempted, GoBack("worker"))]

(* What is made of what a call returned.                                   *)
Unmoved(d, s, serving) == serving = d.previous[s]

OnCandidate_Assumed(d, serving) == TRUE

OnCandidate(d, serving) == serving = d.version

Right_Any(image) == TRUE

Right(image) == image = "released"

Seen(d, s, serving) == [d EXCEPT !.seen[s] = serving, !.calls = Tail(@)]

Judged(c, d, serving, image) ==
    LET next == [d EXCEPT !.calls = Tail(@)]
        seen == Seen(d, c.on, serving)
    IN  CASE c.do = "check" /\ c.on = "worker" -> [seen EXCEPT !.previous["worker"] = serving]
          [] c.do = "look" \/ (c.do = "check" /\ c.on = "api") ->
                 IF Unmoved(d, c.on, serving) THEN seen ELSE Raises(seen)
          [] c.do = "verify"   -> IF OnCandidate(d, serving) THEN seen ELSE Raises(seen)
          [] c.do = "reverify" -> IF Unmoved(d, c.on, serving) THEN seen
                                  ELSE GivenUp(seen, c.on, serving)
          [] c.do = "resmoke"  -> [next EXCEPT !.restore[c.on] = "restored"]
          [] c.do \in {"identify", "migrate"} -> IF Right(image) THEN next ELSE Raises(next)
          [] OTHER             -> next

-----------------------------------------------------------------------------
(* The steps.                                                              *)
Running == deploy.phase = "running"
Call    == deploy.calls[1]

(* The workflow captures the serving revision, and runs the script.        *)
Begin(v) ==
    /\ ~Running /\ deploy.phase # "cleaning"
    /\ cloud["api"].serving + 1 = v
    /\ \A s \in Services : deploy.worker \/ s = "api" =>
           cloud[s].want = v - 1 /\ cloud[s].serving = v - 1
    /\ deploy' = [deploy EXCEPT
           !.phase = "running", !.version = v, !.failed = FALSE,
           !.previous = [s \in Services |-> IF s = "api" THEN v - 1 ELSE Unknown],
           !.seen = [s \in Services |-> Unknown], !.cleanup = "ok",
           !.restore = [s \in Services |-> "not attempted"],
           !.calls = Plan(deploy.worker), !.attempted = {}, !.created = {},
           !.moved = {}, !.cut = FALSE]
    /\ cloud' = [s \in Services |-> [cloud[s] EXCEPT !.made = "nothing", !.tagged = FALSE]]
    /\ UNCHANGED <<schema, trouble>>

(* A call returns.  The image of a revision or of an execution may be the  *)
(* wrong one, or the execution one that did not complete; and the traffic  *)
(* may not be there yet when the call that moves it returns.               *)
Returns ==
    /\ deploy.calls # <<>>
    /\ \E image \in {"released", "other"}, waited \in BOOLEAN :
          /\ image = "other" => Call.do \in {"deploy", "migrate"}
          /\ ~waited => Call.do \in {"promote", "restore"}
          /\ IF image = "other" \/ ~waited THEN Trouble ELSE UNCHANGED trouble
          /\ cloud' = Effect(Call, image, waited)
          /\ schema' = IF Call.do = "migrate" /\ image = "released" THEN Migrated ELSE schema
          /\ deploy' = IF Call.on = "job"
                       THEN Judged(Call, deploy, Unknown, image)
                       ELSE Judged(Call, Begun(Call, deploy), cloud'[Call.on].serving,
                                   cloud[Call.on].made)

(* A call raises, a smoke included, before or after it took effect.        *)
Fails ==
    /\ deploy.calls # <<>>
    /\ Trouble
    /\ cloud' \in {cloud, Effect(Call, "released", FALSE)}
    /\ schema' \in {schema, IF Call.do = "migrate" THEN Migrated ELSE schema}
    /\ \/ /\ Running /\ ~deploy.failed
          /\ deploy' = Raises(Begun(Call, deploy))
       \/ /\ Running /\ deploy.failed
          /\ \E seen \in {cloud'[Call.on].serving, Unknown} :
                deploy' = GivenUp(deploy, Call.on, seen)
       \/ /\ ~Running
          /\ deploy' = [deploy EXCEPT !.cleanup = "failed", !.calls = Tail(@)]

(* finally: the tags of what may have been created are removed, and the    *)
(* summary is written.                                                     *)
Finally ==
    /\ Running
    /\ deploy.calls = <<>>
    /\ deploy' = [deploy EXCEPT !.phase = "cleaning", !.calls = Cleaning(deploy),
                                !.cleanup = IF deploy.created = {} THEN "not needed" ELSE @]
    /\ UNCHANGED <<cloud, schema, trouble>>

Summarize ==
    /\ deploy.phase = "cleaning"
    /\ deploy.calls = <<>>
    /\ deploy' = [deploy EXCEPT !.phase = "ended"]
    /\ UNCHANGED <<cloud, schema, trouble>>

(* KeyboardInterrupt is no Exception: only the finally block runs.         *)
Interrupted ==
    /\ Running /\ deploy.calls # <<>>
    /\ cloud' \in {cloud, Effect(Call, "released", FALSE)}
    /\ schema' \in {schema, IF Call.do = "migrate" THEN Migrated ELSE schema}
    /\ deploy' = [Begun(Call, deploy) EXCEPT !.calls = <<>>, !.cut = TRUE]
    /\ UNCHANGED trouble

(* Traffic arrives where it was told to be.                                *)
Arrives ==
    /\ \E s \in Services :
          /\ cloud[s].serving # cloud[s].want
          /\ cloud' = [cloud EXCEPT ![s].serving = cloud[s].want]
    /\ UNCHANGED <<deploy, schema, trouble>>

-----------------------------------------------------------------------------
(* The operator follows the runbook: back to what the summary names.       *)
RollBack ==
    /\ deploy.phase = "ended"
    /\ cloud' = [s \in Services |->
                    IF deploy.previous[s] = Unknown THEN cloud[s]
                    ELSE [cloud[s] EXCEPT !.want = deploy.previous[s],
                                          !.serving = deploy.previous[s]]]
    /\ cloud' # cloud
    /\ UNCHANGED <<deploy, schema, trouble>>

(* ... or does so to a service while a release runs, back to the release   *)
(* before, the only one the runbook allows: before the look that finds it, *)
(* before the worker's promotion that undoes it, or before the promotion   *)
(* is verified.                                                            *)
ToCome(do, s) == [do |-> do, on |-> s] \in Range(deploy.calls)

Meddles ==
    /\ Running
    /\ \E s \in Services \ deploy.moved :
          /\ \/ ToCome("look", s)
             \/ ToCome("verify", s) /\ (ToCome("promote", s) => s = "worker")
          /\ cloud[s].serving > 0
          /\ cloud' = Told(s, cloud[s].serving - 1, TRUE)
          /\ deploy' = [deploy EXCEPT !.moved = @ \cup {s}]
    /\ Trouble
    /\ UNCHANGED schema

ReleaseStep ==
    \/ Returns \/ Fails \/ Finally \/ Summarize \/ Interrupted \/ Arrives \/ Meddles
=============================================================================
