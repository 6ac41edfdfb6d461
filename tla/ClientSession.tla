---------------------------- MODULE ClientSession ----------------------------
(***************************************************************************)
(* The authentication session of the app: restored from the token store at *)
(* launch, opened by a login, closed by a sign-out or by a request the     *)
(* server refuses with 401, beside the requests of the signed-in screens   *)
(* and the cached ["todos"] query they fill.                               *)
(*                                                                         *)
(* A step is what the event loop runs between two awaits.  On the web the  *)
(* token store settles within microtasks, so nothing else comes between a  *)
(* reply and the end of its completion (Quiet).  On a device it is a call  *)
(* to SecureStore: other events run before it settles; its calls take      *)
(* effect in call order.  A closure of a React render keeps that render's  *)
(* `signingOut': a request or a login sent before a sign-out still sees    *)
(* FALSE.  Every network call settles, by its five second timeout at the   *)
(* latest, but what it did at the server may stand or not.                 *)
(***************************************************************************)
EXTENDS Naturals, Sequences, SequencesExt

CONSTANTS
    Users, Tokens,
    Owner,            \* the user a login returned each token for
    None,
    Attempts,         \* logins in flight
    Cleanups,         \* bound: sign-out cleanups in flight
    Requests,         \* todo requests in flight
    Kinds,            \* what requests there are
    Faults            \* the calls of SecureStore that may reject

ASSUME ClientSessionAssumption ==
    /\ Owner \in [Tokens -> Users]
    /\ None \notin Tokens \cup Users
    /\ Kinds \subseteq {"list", "create", "complete"}
    /\ Faults \subseteq {"get", "set", "clear"}

VARIABLES
    onDevice,         \* the token store is SecureStore, and not the browser's
    issued, valid,    \* tokens the server gave out, and still accepts
    storage,          \* the token store
    rejected,         \* history: its last call to set or clear rejected
    live,             \* liveRef: the token requests are sent with
    status, user,     \* what the provider renders
    epoch,            \* epochRef
    signingOut,
    restore,          \* the launch effect
    attempt, chain,   \* logins, and completionChainRef in call order
    cleanup,          \* cleanupSession calls
    request,
    listed,           \* whose rows the last list put in ["todos"]
    written           \* whose rows mutation callbacks put there since

server == <<onDevice, issued, valid>>
store == <<storage, rejected>>
cache == <<listed, written>>
provider == <<live, status, user, epoch, signingOut>>
vars == <<onDevice, issued, valid, storage, rejected, live, status, user, epoch, signingOut, restore,
          attempt, chain, cleanup, request, listed, written>>

Maybe(S) == S \cup {None}
Idle == [pc |-> "idle"]

(* `own': asked by the AuthScreen that is mounted now, which is then busy. *)
Asking    == [pc : {"asking"}, flag : BOOLEAN, own : BOOLEAN]
Completing == [pc : {"queued", "storing"}, token : Tokens, epoch : Nat]
Cleaning  == [pc : {"logout", "clearing"}, token : Tokens]
(* What a request captured when it was sent: the token and the epoch, the  *)
(* flag of its render, whether its query is still in the cache, whether    *)
(* the server may have accepted it, and the snapshot onMutate took.        *)
Sent == [pc : {"sent"}, kind : Kinds, token : Maybe(Tokens), epoch : Nat,
         flag : BOOLEAN, cached : BOOLEAN, accepted : BOOLEAN,
         snapshot : SUBSET Users]

TypeOK ==
    /\ onDevice \in BOOLEAN
    /\ valid \subseteq issued /\ issued \subseteq Tokens
    /\ storage \in Maybe(Tokens) /\ rejected \in BOOLEAN
    /\ live \in Maybe(Tokens)
    /\ status \in {"unknown", "signed-out", "signed-in"}
    /\ user \in Maybe(Users)
    /\ epoch \in Nat
    /\ signingOut \in BOOLEAN
    /\ restore \in [pc : {"get", "done"}] \cup [pc : {"probe", "clear"}, token : Tokens]
    /\ attempt \in [Attempts -> {Idle} \cup Asking \cup Completing]
    /\ chain \in Seq(Attempts)
    /\ \A a \in Attempts : attempt[a] \in Completing <=> Contains(chain, a)
    /\ cleanup \in [Cleanups -> {Idle} \cup Cleaning]
    /\ request \in [Requests -> {Idle} \cup Sent]
    /\ listed \in Maybe(Users)
    /\ written \subseteq Users

Init ==
    /\ onDevice \in BOOLEAN
    /\ issued = {} /\ valid = {}
    /\ storage = None /\ rejected = FALSE
    /\ live = None /\ status = "unknown" /\ user = None /\ epoch = 0
    /\ signingOut = FALSE
    /\ restore = [pc |-> "get"]
    /\ attempt = [a \in Attempts |-> Idle] /\ chain = <<>>
    /\ cleanup = [c \in Cleanups |-> Idle]
    /\ request = [r \in Requests |-> Idle]
    /\ listed = None /\ written = {}

(* No microtask is waiting to run.                                         *)
Quiet ==
    onDevice \/ /\ chain = <<>>
                /\ \A c \in Cleanups : cleanup[c].pc # "clearing"

Stores(value) == storage' = value /\ rejected' = FALSE
MayReject(call) == onDevice /\ call \in Faults
Rejects(call) == MayReject(call) /\ rejected' = TRUE /\ UNCHANGED storage

Bump_Forgotten == UNCHANGED epoch
Bump == epoch' = epoch + 1

(* queryClient.clear(): the query goes, and what was loading it with it.   *)
Uncached(r) == IF r.pc = "sent" THEN [r EXCEPT !.cached = FALSE] ELSE r
ClearQueries_Forgotten == UNCHANGED <<listed, written, request>>
ClearQueries ==
    /\ listed' = None
    /\ written' = {}
    /\ request' = [r \in Requests |-> Uncached(request[r])]

(***************************************************************************)
(* Launch.                                                                 *)
(***************************************************************************)
SettleSignedOut ==
    /\ Bump
    /\ status' = "signed-out"
    /\ restore' = [pc |-> "done"]
    /\ UNCHANGED <<server, live, user, signingOut, attempt, chain, cleanup, request, cache>>

RestoreGet ==
    /\ restore.pc = "get"
    /\ storage # None
    /\ restore' = [pc |-> "probe", token |-> storage]
    /\ UNCHANGED <<server, store, provider, attempt, chain, cleanup, request, cache>>

RestoreFindsNothing ==
    /\ restore.pc = "get"
    /\ storage = None \/ MayReject("get")
    /\ SettleSignedOut
    /\ UNCHANGED store

RestoreSignsIn ==
    /\ restore.pc = "probe"
    /\ restore.token \in valid
    /\ live' = restore.token
    /\ user' = Owner[restore.token]
    /\ Bump
    /\ status' = "signed-in"
    /\ restore' = [pc |-> "done"]
    /\ UNCHANGED <<server, store, signingOut, attempt, chain, cleanup, request, cache>>

(* The probe fails, for a token that was refused or for any other reason.  *)
RestoreFails ==
    /\ restore.pc = "probe"
    /\ (Stores(None) \/ Rejects("clear"))
    /\ restore' = [restore EXCEPT !.pc = "clear"]
    /\ UNCHANGED <<server, provider, attempt, chain, cleanup, request, cache>>

RestoreForgets ==
    /\ restore.pc = "clear"
    /\ SettleSignedOut
    /\ UNCHANGED store

(* Memory is new; the store and the server are as they were.               *)
Restart ==
    /\ Quiet
    /\ live' = None /\ status' = "unknown" /\ user' = None /\ epoch' = 0
    /\ signingOut' = FALSE
    /\ restore' = [pc |-> "get"]
    /\ attempt' = [a \in Attempts |-> Idle] /\ chain' = <<>>
    /\ cleanup' = [c \in Cleanups |-> Idle]
    /\ request' = [r \in Requests |-> Idle]
    /\ listed' = None /\ written' = {}
    /\ UNCHANGED <<server, store>>

(***************************************************************************)
(* Logins.                                                                 *)
(***************************************************************************)
Submit(a) ==
    /\ Quiet
    /\ status = "signed-out"
    /\ attempt[a] = Idle
    /\ \A b \in Attempts : attempt[b].pc = "asking" => ~attempt[b].own
    /\ attempt' = [attempt EXCEPT ![a] = [pc |-> "asking", flag |-> signingOut, own |-> TRUE]]
    /\ UNCHANGED <<server, store, provider, restore, chain, cleanup, request, cache>>

LoginFails(a) ==
    /\ Quiet
    /\ attempt[a].pc = "asking"
    /\ attempt' = [attempt EXCEPT ![a] = Idle]
    /\ UNCHANGED <<server, store, provider, restore, chain, cleanup, request, cache>>

Joins_Unchained(a) == UNCHANGED chain
Joins(a) == chain' = Append(chain, a)

(* handleAuthenticated, up to the completion's first await.                *)
LoginReplies(a, t) ==
    /\ Quiet
    /\ attempt[a].pc = "asking"
    /\ t \notin issued
    /\ issued' = issued \cup {t} /\ valid' = valid \cup {t}
    /\ IF attempt[a].flag
       THEN /\ attempt' = [attempt EXCEPT ![a] = Idle]
            /\ UNCHANGED <<epoch, chain>>
       ELSE /\ Bump
            /\ attempt' = [attempt EXCEPT ![a] =
                             [pc |-> "queued", token |-> t, epoch |-> epoch']]
            /\ Joins(a)
    /\ UNCHANGED <<onDevice, store, live, status, user, signingOut, restore, cleanup, request, cache>>

Leaves(a) ==
    /\ attempt' = [attempt EXCEPT ![a] = Idle]
    /\ chain' = Tail(chain)

SetToken(a) ==
    /\ chain # <<>> /\ Head(chain) = a
    /\ attempt[a].pc = "queued"
    /\ Stores(attempt[a].token)
    /\ attempt' = [attempt EXCEPT ![a].pc = "storing"]
    /\ UNCHANGED <<server, provider, restore, chain, cleanup, request, cache>>

(* The store rejects: the completion ends there and the chain goes on.     *)
SetFails(a) ==
    /\ chain # <<>> /\ Head(chain) = a
    /\ attempt[a].pc = "queued"
    /\ Rejects("set")
    /\ Leaves(a)
    /\ UNCHANGED <<server, provider, restore, cleanup, request, cache>>

Overtaken_Never(a) == FALSE
Overtaken(a) == epoch # attempt[a].epoch

GivesWay(a) ==
    /\ attempt[a].pc = "storing"
    /\ Overtaken(a)
    /\ Leaves(a)
    /\ UNCHANGED <<server, store, provider, restore, cleanup, request, cache>>

(* The screen that asked unmounts: the next one is not busy.               *)
Disowned(r) == IF r.pc = "asking" THEN [r EXCEPT !.own = FALSE] ELSE r

Install(a) ==
    /\ attempt[a].pc = "storing"
    /\ ~Overtaken(a)
    /\ ClearQueries
    /\ live' = attempt[a].token
    /\ user' = Owner[attempt[a].token]
    /\ status' = "signed-in"
    /\ attempt' = [b \in Attempts |-> IF b = a THEN Idle ELSE Disowned(attempt[b])]
    /\ chain' = Tail(chain)
    /\ UNCHANGED <<server, store, epoch, signingOut, restore, cleanup>>

(***************************************************************************)
(* Sign-out.                                                               *)
(***************************************************************************)
StartCleanup(c) ==
    /\ cleanup[c] = Idle
    /\ cleanup' = [cleanup EXCEPT ![c] = [pc |-> "logout", token |-> live]]
    /\ signingOut' = TRUE

SignOut(c) ==
    /\ Quiet
    /\ status = "signed-in" /\ live # None /\ ~signingOut
    /\ StartCleanup(c)
    /\ UNCHANGED <<server, store, live, status, user, epoch, restore, attempt, chain, request, cache>>

LogoutServed(c) ==
    /\ cleanup[c].pc = "logout"
    /\ cleanup[c].token \in valid
    /\ valid' = valid \ {cleanup[c].token}
    /\ UNCHANGED <<onDevice, issued, store, provider, restore, attempt, chain, cleanup, request, cache>>

Superseded_Never(c) == FALSE
Superseded(c) == live # cleanup[c].token

(* The promise's `finally'.                                                *)
EndCleanup_Flagged(c) == cleanup' = [cleanup EXCEPT ![c] = Idle] /\ UNCHANGED signingOut
EndCleanup(c) == cleanup' = [cleanup EXCEPT ![c] = Idle] /\ signingOut' = FALSE

(* The logout settles, served or not, and a newer session is left alone.   *)
LeaveNewer(c) ==
    /\ Quiet
    /\ cleanup[c].pc = "logout"
    /\ Superseded(c)
    /\ EndCleanup(c)
    /\ UNCHANGED <<server, store, live, status, user, epoch, restore, attempt, chain, request, cache>>

DropSession(c) ==
    /\ Quiet
    /\ cleanup[c].pc = "logout"
    /\ ~Superseded(c)
    /\ live' = None
    /\ Bump
    /\ (Stores(None) \/ Rejects("clear"))
    /\ cleanup' = [cleanup EXCEPT ![c].pc = "clearing"]
    /\ UNCHANGED <<server, status, user, signingOut, restore, attempt, chain, request, cache>>

FinishSignOut(c) ==
    /\ cleanup[c].pc = "clearing"
    /\ ClearQueries
    /\ user' = None
    /\ status' = "signed-out"
    /\ EndCleanup(c)
    /\ UNCHANGED <<server, store, live, epoch, restore, attempt, chain>>

(* Thirty days pass, or the user's row is removed.                         *)
Expire(t) ==
    /\ t \in valid
    /\ valid' = valid \ {t}
    /\ UNCHANGED <<onDevice, issued, store, provider, restore, attempt, chain, cleanup, request, cache>>

(***************************************************************************)
(* The requests of the signed-in screens.                                  *)
(***************************************************************************)
InFlight(kinds) == {r \in Requests : /\ request[r].pc = "sent"
                                     /\ request[r].kind \in kinds
                                     /\ request[r].cached}

Shown == {u \in Users : u = listed \/ u \in written}

(* One list is loaded at a time; a write needs a list that is loaded and   *)
(* no write pending.                                                       *)
Send(r, kind) ==
    /\ Quiet
    /\ status = "signed-in"
    /\ request[r] = Idle
    /\ InFlight({"list"}) = {}
    /\ kind # "list" => listed # None /\ written = {} /\ InFlight(Kinds) = {}
    /\ request' = [request EXCEPT ![r] =
          [pc |-> "sent", kind |-> kind, token |-> live, epoch |-> epoch,
           flag |-> signingOut, cached |-> TRUE, accepted |-> live \in valid,
           snapshot |-> IF kind = "complete" THEN Shown ELSE {}]]
    /\ UNCHANGED <<server, store, provider, restore, attempt, chain, cleanup, cache>>

Settled(r) == request' = [request EXCEPT ![r] = Idle]

Listed(r) ==
    /\ Quiet
    /\ request[r].pc = "sent" /\ request[r].kind = "list" /\ request[r].accepted
    /\ IF request[r].cached
       THEN listed' = Owner[request[r].token] /\ written' = {}
       ELSE UNCHANGED cache
    /\ Settled(r)
    /\ UNCHANGED <<server, store, provider, restore, attempt, chain, cleanup>>

(* A completed todo replaces its row, if that is there; a new one is added.*)
Written(r) ==
    /\ Quiet
    /\ request[r].pc = "sent" /\ request[r].kind # "list" /\ request[r].accepted
    /\ written' = IF request[r].kind = "create"
                  THEN written \cup {Owner[request[r].token]} ELSE written
    /\ Settled(r)
    /\ UNCHANGED <<server, store, provider, restore, attempt, chain, cleanup, listed>>

(* onError of a completion puts the snapshot of before it back.            *)
Rollback(r) ==
    IF request[r].kind = "complete"
    THEN listed' = None /\ written' = request[r].snapshot
    ELSE UNCHANGED cache

Lost(r) ==
    /\ Quiet
    /\ request[r].pc = "sent"
    /\ Rollback(r)
    /\ Settled(r)
    /\ UNCHANGED <<server, store, provider, restore, attempt, chain, cleanup>>

(* handleAuthRequired of the render the request was sent from.             *)
Ignored(r) == request[r].flag \/ live = None \/ request[r].token # live

Denied(r) ==
    /\ Quiet
    /\ request[r].pc = "sent" /\ request[r].token \notin valid
    /\ IF Ignored(r)
       THEN UNCHANGED <<cleanup, signingOut>>
       ELSE \E c \in Cleanups : StartCleanup(c)
    /\ Rollback(r)
    /\ Settled(r)
    /\ UNCHANGED <<server, store, live, status, user, epoch, restore, attempt, chain>>

(***************************************************************************)
Restore == RestoreGet \/ RestoreFindsNothing \/ RestoreSignsIn \/ RestoreFails \/ RestoreForgets

Completion(a) == SetToken(a) \/ SetFails(a) \/ GivesWay(a) \/ Install(a)

Cleanup(c) == LogoutServed(c) \/ LeaveNewer(c) \/ DropSession(c) \/ FinishSignOut(c)

Settle(r) == Listed(r) \/ Written(r) \/ Lost(r) \/ Denied(r)

Next ==
    \/ Restore
    \/ Restart
    \/ \E a \in Attempts : Submit(a) \/ LoginFails(a) \/ Completion(a)
    \/ \E a \in Attempts, t \in Tokens : LoginReplies(a, t)
    \/ \E c \in Cleanups : SignOut(c) \/ Cleanup(c)
    \/ \E t \in Tokens : Expire(t)
    \/ \E r \in Requests, kind \in Kinds : Send(r, kind)
    \/ \E r \in Requests : Settle(r)

Spec == Init /\ [][Next]_vars

(* Calls settle; the screens go on asking, and not every reply is lost.    *)
Fairness ==
    /\ WF_vars(Restore)
    /\ \A a \in Attempts : WF_vars(Completion(a))
    /\ \A c \in Cleanups : WF_vars(LeaveNewer(c) \/ DropSession(c) \/ FinishSignOut(c))
    /\ \A r \in Requests : /\ WF_vars(Send(r, "list"))
                          /\ WF_vars(Settle(r)) /\ SF_vars(Denied(r))

FairSpec == Spec /\ Fairness

(***************************************************************************)
(* Properties.                                                             *)
(***************************************************************************)
(* A cleanup that goes on when a newer session is live leaves that session *)
(* and what is shown and cached of it alone (AuthProvider.tsx:157-160); on *)
(* a device the session may become live while the store is being cleared.  *)
NewerSessionStands ==
    [][\A c \in Cleanups :
        /\ ~onDevice
        /\ cleanup[c] # Idle /\ cleanup'[c] # cleanup[c]
        /\ live \notin {None, cleanup[c].token}
        /\ restore'.pc = "done"
        => UNCHANGED <<live, storage, status, user, cache>>]_vars

(* Work that finds its captured epoch current when its reply comes is of   *)
(* the session whose token it was sent with (AuthProvider.tsx:43-49); on a *)
(* device the epoch is bumped before the token changes.                    *)
EpochMeansSession ==
    \A r \in Requests :
        ~onDevice /\ request[r].pc = "sent" /\ request[r].epoch = epoch
            => request[r].token = live

(* Once logins and cleanups have settled, the session that is shown is the *)
(* one the next launch would restore, unless the store rejected its last   *)
(* call (AuthProvider.tsx:81-84).                                          *)
StoreHoldsSession ==
    status = "signed-in" /\ chain = <<>> /\ (\A c \in Cleanups : cleanup[c] = Idle)
        => user = Owner[live] /\ (storage = live \/ rejected)

(* The rows a list put in the cache are the signed-in user's, whichever    *)
(* session it was sent in and however late it came (AuthProvider.tsx:208). *)
ListedRowsAreOwn ==
    status = "signed-in" /\ listed # None => listed = user

(* The previous user's rows are never shown to the next one.               *)
NeverFlash ==
    status = "signed-in" => Shown \subseteq {user}

(* A token the server no longer accepts does not strand the screens that   *)
(* send it.                                                                *)
RevokedNeverStrands ==
    \A t \in Tokens :
        status = "signed-in" /\ live = t /\ t \notin valid
            ~> status # "signed-in" \/ live \notin {t, None}
=============================================================================
