---------------------------- MODULE IvrAnyNetwork ----------------------------
(***************************************************************************)
(* The caller before a network that may say anything: callbacks of this    *)
(* call or of another, in any order and with any time of occurrence,       *)
(* repeated, or not at all; any answer to the dial and to every command.   *)
(* (Its names begin with `Any' beside those of IvrCall, which has the same *)
(* caller: the proofs extend both.)                                        *)
(***************************************************************************)
EXTENDS IvrCaller

CONSTANTS
    Texts,            \* final segments the transcription may deliver
    Times,            \* times of occurrence
    Script,           \* what the other side says at each stage, cut into segments
    MaxEvents,        \* bound: callbacks with different ids
    MaxSurprises      \* bound: those of them that are not what is awaited

ASSUME IvrAnyNetworkAssumption ==
    /\ Texts \subseteq Seq(Tokens)
    /\ Times \subseteq Int
    /\ Script \in [DOMAIN StageSigns -> Seq(Seq(Tokens))]

VARIABLES
    delivered,        \* callbacks so far
    surprises

anyVars == <<callerVars, delivered, surprises>>

AnyInit == CallerInit /\ delivered = 0 /\ surprises = 0

(* Only a transcript has a use for its text and its time.                  *)
Event(id, texts) == [id : {id}, call : Calls, at : {None}, text : {<<>>},
                     kind : {"answered", "hangup", "other"}]
                    \cup [id : {id}, call : Calls, at : Times, text : texts,
                          kind : {"transcript"}]

(* What the caller is waiting for: a network that behaves delivers it.     *)
Rest(f) == SubSeq(Script[f.stage], Len(f.heard) + 1, Len(Script[f.stage]))

Awaited(e, f) ==
    CASE f.stage = "dialing" -> e.kind = "answered"
      [] f.stage = "hanging_up" \/ Rest(f) = <<>> -> e.kind = "hangup"
      [] OTHER -> /\ e.kind = "transcript"
                  /\ e.text = Rest(f)[1]
                  /\ f.last # None => e.at = f.last
                  /\ f.consumed # None => e.at = f.consumed

Expected ==
    /\ delivered < MaxEvents
    /\ flow # None /\ flow.stage # "ended"
    /\ \E e \in Event(delivered + 1, UNION {Range(Script[s]) : s \in DOMAIN Script}) :
          Awaited(e, flow) /\ Accept(e, FALSE)
    /\ delivered' = delivered + 1
    /\ UNCHANGED surprises

Surprising ==
    /\ delivered < MaxEvents /\ surprises < MaxSurprises
    /\ \E e \in Event(delivered + 1, Texts), ours \in BOOLEAN :
          /\ ours => e.kind = "other"
          /\ Accept(e, ours)
    /\ delivered' = delivered + 1
    /\ surprises' = surprises + 1

(* A callback that was admitted comes again.                               *)
Repeated ==
    /\ flow # None
    /\ \E id \in flow.seen : \E e \in Event(id, Texts) : Accept(e, FALSE)
    /\ UNCHANGED <<delivered, surprises>>

AnyNext ==
    \/ CallerStep /\ UNCHANGED <<delivered, surprises>>
    \/ Expected
    \/ Surprising
    \/ Repeated

AnySpec == AnyInit /\ [][AnyNext]_anyVars

(* The process runs: the event loop does what it has to do, time passes,   *)
(* and the watchdog wakes when it is due.  Whatever the network does is up *)
(* to the network.                                                         *)
Process == Start \/ Second \/ Join \/ EndClose \/ Report

AnyFairSpec ==
    /\ AnySpec
    /\ WF_anyVars(Process /\ UNCHANGED <<delivered, surprises>>)
    /\ WF_due(due /\ due' = FALSE)

-----------------------------------------------------------------------------
Verdict ==
    IF printed # None THEN printed
    ELSE IF caller.report # None THEN caller.report
    ELSE IF flow # None THEN flow.result ELSE None

Contract == INSTANCE IvrRun WITH
    asked <- caller.phase # "idle", verdict <- Verdict, reported <- printed

(* The first verdict stands and is the one reported: no failed hangup, no  *)
(* late conflict of identities, no expiry and no interruption replaces it. *)
(* And whatever the network does it is reported: a missing reply, identity *)
(* or hangup only costs its budget.                                        *)
KeepsRunContract == Contract!Spec

(* Every tone answers a prompt spoken since the one before it, whatever    *)
(* order the transcripts arrive in; a prompt heard again is not answered.  *)
TonesFollowSpeech ==
    flow # None =>
        \A i, j \in Tones(flow) :
            i < j => /\ flow.issued[i].at <= flow.issued[j].at
                     /\ flow.issued[i].stage # flow.issued[j].stage

(* A call that was bound is never left without a hangup: when the run is   *)
(* over the remote side ended the call, or a hangup was asked for.         *)
NoCallAbandoned ==
    (flow # None /\ caller.phase = "done") =>
        \/ \E i \in DOMAIN flow.issued : flow.issued[i].do = "hangup"
        \/ flow.remoteHungAt # None
        \/ flow.result.code = "early_hangup"
=============================================================================
